---------------------------- MODULE MCNodeCommands ----------------------------
(* Two hosts compete for a node ID nobody has installed; an enrolled node  *)
(* is given one command while two things fail and the plan changes; it is  *)
(* given two commands while one thing fails.                               *)
EXTENDS NodeCommands, TLC

MCRequests == {1, 2}

MCCases ==
    { [enrolled |-> FALSE, installs |-> 2, requests |-> {}, faults |-> 0, changes |-> 0],
      [enrolled |-> TRUE, installs |-> 0, requests |-> {1}, faults |-> 2, changes |-> 1],
      [enrolled |-> TRUE, installs |-> 0, requests |-> {1, 2}, faults |-> 1, changes |-> 0] }
=============================================================================
