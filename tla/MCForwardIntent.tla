-------------------------- MODULE MCForwardIntent --------------------------
(***************************************************************************)
(* Two forwards of one tenant: 1 leaves by another node, 2 is direct and   *)
(* expires.                                                                *)
(***************************************************************************)
EXTENDS ForwardIntent

MCIngress == [f \in {1, 2} |-> "a"]
MCPlaced == [f \in {1, 2} |-> IF f = 1 THEN {"a", "b"} ELSE {"a"}]
MCExpires == [f \in {1, 2} |-> IF f = 1 THEN 5 ELSE 2]
One == [max |-> 1, allows |-> {1, 2}]
Both == [max |-> 2, allows |-> {1, 2}]

MCAllowances == {One, Both}

Quiet(existing, edits) ==
    [existing |-> existing, allowance |-> Both, edits |-> edits, faults |-> 0, rollbacks |-> 0,
     orders |-> 0, quotas |-> 0, ticks |-> 0]

MCScenarios ==
    {Quiet({1}, 2),
     [Quiet({1, 2}, 1) EXCEPT !.orders = 1, !.faults = 1],
     [Quiet({1, 2}, 1) EXCEPT !.ticks = 2],
     [Quiet({1}, 1) EXCEPT !.rollbacks = 1, !.orders = 1],
     [Quiet({1}, 2) EXCEPT !.quotas = 1],
     [Quiet({1}, 2) EXCEPT !.rollbacks = 2],
     [Quiet({1}, 2) EXCEPT !.ticks = 2, !.faults = 1]}

=============================================================================
