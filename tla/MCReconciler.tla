---------------------------- MODULE MCReconciler ----------------------------
(***************************************************************************)
(* A small instance of Reconciler.  The contents are:                      *)
(*   off     no forwards, links or limits                                  *)
(*   spare   no forwards, but link l1 is there for other nodes             *)
(*   on      the forward is active, rate limited, over link l1             *)
(*   moved   the forward is active until it expires, over link l2, and     *)
(*           link l1 is reconfigured                                       *)
(*   gone    the forward is force_deleting; its link l1 is still there     *)
(***************************************************************************)
EXTENDS Reconciler

MCContent == {"off", "spare", "on", "moved", "gone"}
MCVacant == {"off", "spare"}
MCServing == {"on", "moved"}
MCForced == {"gone"}
MCTimed == {"moved"}
MCLink == {"l1", "l2"}
MCSetting == {"a", "b"}
MCFabricOf ==
    [off   |-> [l1 |-> "none", l2 |-> "none"],
     spare |-> [l1 |-> "a",    l2 |-> "none"],
     on    |-> [l1 |-> "a",    l2 |-> "none"],
     moved |-> [l1 |-> "b",    l2 |-> "a"],
     gone  |-> [l1 |-> "a",    l2 |-> "none"]]
MCClass == {"k"}
MCTcOf == [off |-> {}, spare |-> {}, on |-> {"k"}, moved |-> {}, gone |-> {}]
MCCounter == {"f"}
MCCounterOf == [off |-> {}, spare |-> {}, on |-> {"f"}, moved |-> {"f"}, gone |-> {"f"}]

=============================================================================
