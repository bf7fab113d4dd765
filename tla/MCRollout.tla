----------------------------- MODULE MCRollout -----------------------------
(***************************************************************************)
(* Three nodes, of which a is the usual ingress, and two forwards.         *)
(***************************************************************************)
EXTENDS Rollout

Via(i, x, l, p, v) ==
    [ingress |-> i, exit |-> x, listen |-> l, port |-> p, version |-> v, paused |-> FALSE]
Direct(i, l, v) == Via(i, NoNode, l, 1, v)
Two(f, g) == [x \in {"f", "g"} |-> IF x = "f" THEN f ELSE g]
One(f) == [x \in {"f"} |-> f]

(* f leaves by b; g is direct.                                             *)
Base == Two(Via("a", "b", 1, 1, 1), Direct("a", 2, 1))
(* Both leave by c.                                                        *)
Moved == Two(Via("a", "c", 1, 1, 1), Via("a", "c", 2, 1, 1))
(* The listeners are exchanged: no canary can do that alone.               *)
Swapped == Two(Direct("a", 2, 1), Direct("a", 1, 1))
(* f enters by c but still leaves by b.                                    *)
SameExit == Two(Via("c", "b", 1, 1, 2), Direct("a", 2, 1))
(* f alone: by b, by c, by b to another port, and paused.                  *)
FByB == One(Via("a", "b", 1, 1, 1))
FByC == One(Via("a", "c", 1, 1, 1))
FOtherPort == One(Via("a", "b", 1, 2, 2))
FPaused == One([Via("a", "b", 1, 1, 2) EXCEPT !.paused = TRUE])

(* b, the exit of f, is the ingress of g, so quotas are evaluated there.   *)
Shared == Two(Via("a", "b", 1, 1, 1), Direct("b", 2, 1))

MCMove == [installed |-> Base, plans |-> {{Base}, {Base, Moved}, {SameExit}, {Swapped}},
           revisions |-> 2, pauses |-> 0]
MCFailover == [installed |-> FByB, plans |-> {{FByB, FByC}}, revisions |-> 1, pauses |-> 0]
MCPaused == [MCFailover EXCEPT !.pauses = 1]
MCShared == [installed |-> Shared, plans |-> {{Shared}}, revisions |-> 1, pauses |-> 1]
MCRevised == [installed |-> FByB, plans |-> {{FByB}, {FPaused}}, revisions |-> 2, pauses |-> 0]
MCPort == [installed |-> FByB, plans |-> {{FByB}, {FOtherPort}}, revisions |-> 2, pauses |-> 0]

MCScenarios == {MCMove, MCPaused, MCShared, MCPort}
MCStuck == {MCFailover}
MCBlocked == {MCRevised}

=============================================================================
