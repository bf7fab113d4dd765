--------------------------- MODULE RolloutStages ---------------------------
(***************************************************************************)
(* The stages by which the Controller brings a set of nodes from the       *)
(* desired states they were last given to the ones the scheduler wants     *)
(* (BuildRolloutStages in internal/cluster/rollout.go, with Compile and    *)
(* preserveRuntimeLifecycles, which prepare its input).                    *)
(*                                                                         *)
(* A node state keeps of a desired state its forwards and the peers of its *)
(* fabric links; a forward keeps what decides whether its path works: its  *)
(* nodes, its listener, the port the exit is addressed by, its lifecycle   *)
(* (active or paused) and its resource version.                            *)
(*                                                                         *)
(* A definition named X_Y is X with a plausible mistake Y; it is not part  *)
(* of the specification.                                                   *)
(***************************************************************************)
EXTENDS Naturals, Sequences, FiniteSets

CONSTANTS
    Node,           \* enrolled nodes
    NoNode,         \* the exit of a direct forward
    Forward,        \* identifiers of forwards
    Listen,         \* listening endpoints
    Port,           \* target ports
    CanaryPercent   \* EffectiveCanaryPercent of the plan

ASSUME StagesAssumption ==
    /\ IsFiniteSet(Node)
    /\ NoNode \notin Node
    /\ CanaryPercent \in 1 .. 100

Entry == [ingress : Node, exit : Node \cup {NoNode}, listen : Listen, port : Port,
          version : Nat, paused : BOOLEAN]

IsLayout(layout) == DOMAIN layout \subseteq Forward /\ layout \in [DOMAIN layout -> Entry]

IsNodeState(state) ==
    /\ DOMAIN state = {"forwards", "links"}
    /\ IsLayout(state.forwards)
    /\ state.links \subseteq Node

emptyStageState == [forwards |-> <<>>, links |-> {}]

Has(state, f) == f \in DOMAIN state.forwards

IngressAt(state, n) == {f \in DOMAIN state.forwards : state.forwards[f].ingress = n}

ExitAt(state, n) == {f \in DOMAIN state.forwards : state.forwards[f].exit = n}

-----------------------------------------------------------------------------
(* The scheduler's output.                                                 *)

PeersOf(n, entry) ==
    IF entry.exit = NoNode THEN {}
    ELSE IF n = entry.ingress THEN {entry.exit} ELSE {entry.ingress}

(* Ingress and exit get the same forward; a node gets the links it needs.  *)
Compile(layout) ==
    [n \in Node |->
        LET mine == {f \in DOMAIN layout : n \in {layout[f].ingress, layout[f].exit}}
        IN  [forwards |-> [f \in mine |-> layout[f]],
             links |-> UNION {PeersOf(n, layout[f]) : f \in mine}]]

Locations(states, f) == {n \in Node : Has(states[n], f)}

(* The entries of f that no other entry of f supersedes: a higher version, *)
(* or at the same version a pause, wins.                                   *)
LatestRuntime(states, f) ==
    LET entries == {states[n].forwards[f] : n \in Locations(states, f)}
    IN  {e \in entries : \A d \in entries :
            \/ d.version < e.version
            \/ d.version = e.version /\ (d.paused => e.paused)}

(* A pause the nodes were given since the plan was written is kept.        *)
preserveRuntimeLifecycles_Lost(current, target) == target

preserveRuntimeLifecycles(current, target) ==
    LET preserved(f, entry) ==
            IF \E e \in LatestRuntime(current, f) : e.version > entry.version
            THEN LET e == CHOOSE e \in LatestRuntime(current, f) : TRUE
                 IN  [entry EXCEPT !.paused = e.paused, !.version = e.version]
            ELSE entry
    IN  [n \in Node |->
            [target[n] EXCEPT !.forwards =
                [f \in DOMAIN target[n].forwards |-> preserved(f, target[n].forwards[f])]]]

-----------------------------------------------------------------------------
(* The steps of one wave: selected forwards, from the states at its start. *)

(* The nodes' links only grow until the last cleanup.                      *)
withConservativeResources(state, final) == state.links \cup final.links

(* state with the forwards in drop removed and those in put as in final.   *)
Patch(state, final, drop, put) ==
    IF drop \cup put = {} THEN state
    ELSE [forwards |-> [f \in (DOMAIN state.forwards \ drop) \cup put |->
                            IF f \in put THEN final.forwards[f] ELSE state.forwards[f]],
          links |-> withConservativeResources(state, final)]

(* The exits get their forwards first.                                     *)
Prepare(working, final, selected) ==
    [n \in Node |-> Patch(working[n], final[n], {}, ExitAt(final[n], n) \cap selected)]

Promote(start, working, final, selected) ==
    [n \in Node |-> Patch(working[n], final[n], IngressAt(start[n], n) \cap selected,
                          IngressAt(final[n], n) \cap selected)]

Cleanup(start, working, final, selected, exactFinal) ==
    [n \in Node |->
        IF exactFinal THEN final[n]
        ELSE Patch(working[n], final[n], ExitAt(start[n], n) \cap selected,
                   ExitAt(final[n], n) \cap selected)]

changedStates(current, next) == {n \in Node : current[n] # next[n]}

StageOf(phase, current, next) ==
    IF current = next THEN <<>>
    ELSE <<[phase |-> phase, desired |-> [n \in changedStates(current, next) |-> next[n]]]>>

appendWaveStages(start, final, selected, exactFinal) ==
    LET prepared == Prepare(start, final, selected)
        promoted == Promote(start, prepared, final, selected)
        cleaned  == Cleanup(start, promoted, final, selected, exactFinal)
    IN  [end |-> cleaned,
         stages |-> StageOf("prepare", start, prepared)
                        \o StageOf("promote", prepared, promoted)
                        \o StageOf("cleanup", promoted, cleaned)]

-----------------------------------------------------------------------------
(* What is refused with ErrUnsafeRollout.                                  *)

(* No forward may change the role a node has in it, or its ingress while   *)
(* it keeps its exit.                                                      *)
Role(n, entry) == IF n = entry.ingress THEN "ingress" ELSE "exit"

validateRoleTransitions_RolesOnly(current, final) ==
    \A f \in Forward : \A n \in Locations(current, f) \cap Locations(final, f) :
        Role(n, current[n].forwards[f]) = Role(n, final[n].forwards[f])

validateRoleTransitions(current, final) ==
    \A f \in Forward :
        /\ \A n \in Locations(current, f) \cap Locations(final, f) :
              Role(n, current[n].forwards[f]) = Role(n, final[n].forwards[f])
        /\ \A m \in Locations(current, f), n \in Locations(final, f) :
              LET before == current[m].forwards[f]
                  after  == final[n].forwards[f]
              IN  before.exit # NoNode /\ before.exit = after.exit => before.ingress = after.ingress

(* DesiredState.Validate, of what the states here can get wrong: two       *)
(* forwards that enter by one listener (an exit listens on the service VIP *)
(* of the forward), a forward of other nodes, a missing link.              *)
ValidState(n, state) ==
    /\ \A f, g \in IngressAt(state, n) :
          state.forwards[f].listen = state.forwards[g].listen => f = g
    /\ \A f \in DOMAIN state.forwards :
          /\ n \in {state.forwards[f].ingress, state.forwards[f].exit}
          /\ PeersOf(n, state.forwards[f]) \subseteq state.links

ValidStages(stages) ==
    \A i \in DOMAIN stages : \A n \in DOMAIN stages[i].desired :
        ValidState(n, stages[i].desired[n])

-----------------------------------------------------------------------------
changedForwardIDs(current, final) ==
    {f \in Forward :
        \/ Locations(current, f) # Locations(final, f)
        \/ \E n \in Locations(final, f) : current[n].forwards[f] # final[n].forwards[f]}

(* The canary forwards are the first of a hash order that is fixed but     *)
(* arbitrary; none when they would be all or the plan has no canary.       *)
selectCanary(changed) ==
    LET total == Cardinality(changed)
        count == (total * CanaryPercent + 99) \div 100
    IN  IF CanaryPercent = 100 \/ total < 2 \/ count >= total THEN {{}}
        ELSE {S \in SUBSET changed : Cardinality(S) = count}

Bake == [phase |-> "bake", desired |-> <<>>]

BuildRolloutStages(current, final, canary) ==
    LET changed == changedForwardIDs(current, final)
    IN  IF changed = {} THEN StageOf("promote", current, final)
        ELSE IF canary = {} THEN appendWaveStages(current, final, changed, TRUE).stages
        ELSE LET first == appendWaveStages(current, final, canary, FALSE)
             IN  first.stages \o <<Bake>>
                     \o appendWaveStages(first.end, final, changed \ canary, TRUE).stages

SafeRollout(current, final, stages) ==
    /\ validateRoleTransitions(current, final)
    /\ changedForwardIDs(current, final) # {} => ValidStages(stages)

=============================================================================
