------------------------------- MODULE Ledger -------------------------------
(***************************************************************************)
(* What usage accounting promises, with no network, crash or retry in it:  *)
(* a batch becomes due once, a due batch is added to the bill once, and    *)
(* nothing else ever happens to either.                                    *)
(***************************************************************************)
EXTENDS Naturals

CONSTANT Batch   \* the sequence numbers of batches

VARIABLES
    due,     \* batches that have still to be billed
    total    \* how many batches have been added to the bill

vars == <<due, total>>

Init ==
    /\ due = {}
    /\ total = 0

Emit ==
    \E b \in Batch \ due :
       /\ due' = due \cup {b}
       /\ UNCHANGED total

Bill ==
    \E b \in due :
       /\ due' = due \ {b}
       /\ total' = total + 1

Next == Emit \/ Bill

Spec == Init /\ [][Next]_vars

=============================================================================
