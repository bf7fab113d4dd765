----------------------------- MODULE MCFailover -----------------------------
(***************************************************************************)
(* Three nodes, two forwards to a pool of two backends; the scenarios      *)
(* differ in the paths of the forwards and in what happens.                *)
(***************************************************************************)
EXTENDS Failover

MCDomain == [n \in {1, 2, 3} |-> IF n = 2 THEN "east" ELSE "west"]
MCLinked == {{1, 2}, {1, 3}}
MCMaxForwards == [n \in {1, 2, 3} |-> 2]
MCBandwidth == [n \in {1, 2, 3} |-> IF n = 3 THEN 2 ELSE 3]
MCReservation == [f \in {1, 2} |-> f]
Nothing == [kind \in Events |-> 0]
Plan(one, two, exits, happens) ==
    [nodes |-> one \cup two \cup exits,
     ingress |-> [f \in {1, 2} |-> IF f = 1 THEN one ELSE two],
     exit |-> [f \in {1, 2} |-> IF f = 1 THEN exits ELSE {}],
     policy |-> "prefer_distinct", monitored |-> TRUE, named |-> FALSE,
     priority |-> [b \in {1, 2} |-> 1],
     events |-> happens]

(* Both forwards enter at node 1, whose backends fail and recover, ...     *)
Backends == Plan({1}, {1}, {}, [Nothing EXCEPT !["outage"] = 3])
(* ... the first being the better one, ...                                 *)
Primary == [Backends EXCEPT !.priority = [b \in {1, 2} |-> b]]
(* ... or the second, whose report is the later one, ...                   *)
Secondary == [Backends EXCEPT !.priority = [b \in {1, 2} |-> 3 - b]]
(* ... while its session ends, its Agent stops or is busy.                 *)
Interrupted == Plan({1}, {1}, {}, [Nothing EXCEPT !["outage"] = 1, !["session"] = 1, !["stop"] = 1,
                                                 !["busy"] = 1])
(* Forward 1 leaves by node 2, where forward 2 enters, or by node 3, and   *)
(* backends fail; or forward 2 enters at node 1, and node 2 is away.       *)
Exits == [Plan({1}, {2}, {2, 3}, [Nothing EXCEPT !["outage"] = 2]) EXCEPT !.policy = "distinct"]
ExitMoves == Plan({1}, {1}, {2, 3}, [Nothing EXCEPT !["session"] = 1])
(* Nodes come and go; node 3 has no room for both forwards.                *)
Nodes == [Plan({1, 3}, {2, 3}, {}, [Nothing EXCEPT !["stop"] = 2, !["reapply"] = 2])
             EXCEPT !.monitored = FALSE, !.policy = "any"]
(* The targets are known by name.                                          *)
Named == [Plan({1}, {1}, {}, [Nothing EXCEPT !["dns"] = 2, !["policy"] = 2, !["restart"] = 1])
             EXCEPT !.monitored = FALSE, !.named = TRUE]

MCScenarios == {Backends, Primary, Secondary, Interrupted, Exits, ExitMoves, Nodes, Named}

=============================================================================
