------------------------------ MODULE Failover ------------------------------
(***************************************************************************)
(* How the forwards of a cluster plan follow what the cluster can do:      *)
(* the Agents probe the backends (internal/health/engine.go) and report    *)
(* over their sessions (controlclient/runner.go, control/server.go), the   *)
(* Controller keeps the latest observation of each node and backend        *)
(* (RecordBackendHealth), resolves the host names of the targets           *)
(* (dns_targets.go, targetdns/resolver.go), and reconciliation places the  *)
(* forwards anew (cluster/scheduler.go) and rolls the result out.          *)
(*                                                                         *)
(* All forwards share one pool, and the plan is fixed.  The stages of a    *)
(* rollout are the subject of Rollout; here it ends well once the nodes it *)
(* changes have applied it, or badly when one of them has no session.      *)
(* Clocks are ages: a Tick is the moment at which an interval has passed   *)
(* since the latest probes were started, so that they are due again.  What *)
(* was observed a Ticks ago is a whole intervals old, but less than a + 1. *)
(*                                                                         *)
(* A definition named X_Y is X with a plausible mistake Y; it is not part  *)
(* of the specification.                                                   *)
(***************************************************************************)
EXTENDS Naturals, FiniteSets, SequencesExt, FiniteSetsExt

CONSTANTS
    Node,              \* nodes, in the order of their IDs
    Forward,           \* forwards, in the order of their IDs
    Backend,           \* backends of the pool, in the order of their IDs
    Domain,            \* Domain[n]: failure domain of a node
    Linked,            \* pairs of nodes with a usable reciprocal fabric
    MaxForwards,       \* MaxForwards[n]: Capacity.MaxForwards of a node
    Bandwidth,         \* Bandwidth[n]: capacity in bits per second, 0 for none
    Reservation,       \* Reservation[f]: effectiveReservation of a forward
    FailureThreshold,  \* failures in a row that make a backend unhealthy
    SuccessThreshold,  \* successes in a row that make a backend healthy
    StaleAfter,        \* StaleAfterSeconds, in whole probe intervals
    Address,           \* addresses the host name may have
    Saved,             \* the address saved in the plan
    Scenarios          \* what the plan is and what may happen, see below

(* A scenario has the nodes of the plan, those that may be the ingress and *)
(* the exit of each forward (role, labels and capabilities included; no    *)
(* exit: a direct forward), the failure domain policy, whether the pool is *)
(* probed and whether its targets are known by name, the priorities of the *)
(* backends, and how often each kind of event may happen.                  *)
Policies == {"distinct", "prefer_distinct", "any"}
Events == {"outage", "session", "stop", "busy", "dns", "policy", "restart", "reapply"}

ASSUME FailoverAssumption ==
    /\ Node \subseteq Nat /\ Forward \subseteq Nat /\ Backend \subseteq Nat
    /\ {FailureThreshold, SuccessThreshold, StaleAfter} \subseteq Nat \ {0}
    /\ Saved \in Address
    /\ \A s \in Scenarios :
          /\ s.nodes \subseteq Node
          /\ s.ingress \in [Forward -> SUBSET Node]
          /\ s.exit \in [Forward -> SUBSET Node]
          /\ s.policy \in Policies /\ s.monitored \in BOOLEAN /\ s.named \in BOOLEAN
          /\ s.priority \in [Backend -> Nat]
          /\ s.events \in [Events -> Nat]

VARIABLES
    scenario,    \* the scenario, fixed
    events,      \* events left
    alive,       \* the nodes whose Agent runs
    session,     \* the nodes with an open session
    available,   \* the nodes last seen within NodeOfflineAfterSeconds
    reach,       \* reach[n]: the backends a probe of n can connect to
    checks,      \* the nodes whose applied state has the pool's HealthChecks
    due,         \* the nodes whose probes are due
    probes,      \* Engine.states: status and counts of each node and backend
    last,        \* Runner.healthLast: the latest report of each, or NoReport
    stream,      \* reports on the way in the open session
    late,        \* a report whose handler has outlived its session
    observed,    \* backend_health_observations
    placements,  \* cluster_forward_placements
    target,      \* placements of the rollout under way, NoRollout for none
    paused,      \* cluster_plans.paused_at is set
    reconcile,   \* cluster_plans.reconcile_after has come
    lastError,   \* cluster_plans.last_error is set: no placement was found
    answer,      \* what the name server answers, NoAddress while it is down
    cache,       \* Cache.entries of the host name
    allowed,     \* addresses the tenant policy authorizes
    steady       \* ghost: <<n, b>> where the Controller has known b to be healthy,
                 \* and since then n has been able to reach b and has not been
                 \* interrupted in probing and reporting it

world == <<scenario, alive, available, reach, steady>>
agents == <<checks, due, probes, last>>
reports == <<session, stream, late, observed>>
plan == <<placements, target, paused, lastError, reconcile, cache>>
names == <<answer, allowed>>
vars == <<scenario, events, alive, available, reach, agents, reports, plan, names, steady>>

-----------------------------------------------------------------------------
NoNode == 0
NoAddress == 0
Old == StaleAfter
Status == {"unknown", "healthy", "unhealthy"}
NoReport == [status |-> "unknown", age |-> Old]
NoProbe == [status |-> "unknown", good |-> 0, bad |-> 0]
NoRollout == <<>>
NoEntry == [address |-> NoAddress, fresh |-> FALSE]

Report == [backend : Backend, status : Status, age : 0 .. Old]
Observation == [status : Status, age : 0 .. Old]
Placement == [ingress : Node, exit : Node \cup {NoNode}, backend : Backend, address : Address]

(* The counters of a probe stop at their thresholds.                       *)
TypeOK ==
    /\ scenario \in Scenarios
    /\ events \in [Events -> Nat]
    /\ alive \subseteq Node /\ session \subseteq alive /\ available \subseteq Node
    /\ checks \subseteq Node /\ due \subseteq Node
    /\ reach \in [Node -> SUBSET Backend]
    /\ probes \in [Node -> [Backend -> [status : Status, good : 0 .. SuccessThreshold,
                                       bad : 0 .. FailureThreshold]]]
    /\ last \in [Node -> [Backend -> Observation]]
    /\ stream \in [Node -> Seq(Report)]
    /\ late \in [Node -> Seq(Report)]
    /\ observed \in [Node -> [Backend -> Observation]]
    /\ placements \in [Forward -> Placement]
    /\ target = NoRollout \/ target \in [Forward -> Placement]
    /\ paused \in BOOLEAN /\ lastError \in BOOLEAN /\ reconcile \in BOOLEAN
    /\ answer \in Address \cup {NoAddress}
    /\ cache \in [address : Address \cup {NoAddress}, fresh : BOOLEAN]
    /\ allowed \subseteq Address
    /\ steady \subseteq Node \X Backend

Happens(kind) ==
    /\ events[kind] > 0
    /\ events' = [events EXCEPT ![kind] = @ - 1]

-----------------------------------------------------------------------------
(* The scheduler.                                                          *)

(* A smaller priority is better; the previous backend wins among equals.   *)
preferredBackend(backends, previous) ==
    LET best == {b \in backends : \A c \in backends : scenario.priority[b] <= scenario.priority[c]}
    IN  IF previous \in best THEN previous ELSE Min(best)

(* An observation is usable until it is StaleAfter intervals old.          *)
Fresh_Interval(observation) == observation.age < 1

Fresh(observation) == observation.age < StaleAfter

Known(n, b, status) == Fresh(observed[n][b]) /\ observed[n][b].status = status

chooseBackend(n, previous) ==
    LET healthy == {b \in Backend : Known(n, b, "healthy")}
        unknown == {b \in Backend : ~Known(n, b, "healthy") /\ ~Known(n, b, "unhealthy")}
    IN  CASE ~scenario.monitored -> preferredBackend(Backend, previous)
          [] scenario.monitored /\ healthy # {} -> preferredBackend(healthy, previous)
          [] scenario.monitored /\ healthy = {} /\ unknown # {} ->
                IF previous \in unknown THEN previous ELSE preferredBackend(unknown, NoNode)
          [] OTHER -> IF previous \in Backend THEN previous ELSE preferredBackend(Backend, NoNode)

(* What the forwards placed so far use of each node.                       *)
NoUsage == [n \in Node |-> [forwards |-> 0, rate |-> 0]]

UsedNodes(placement) == {placement.ingress, placement.exit} \ {NoNode}

initialUsage_Current(current) ==
    [n \in Node |->
        LET on == {f \in Forward : n \in UsedNodes(current[f])}
        IN  [forwards |-> Cardinality(on), rate |-> MapThenSumSet(LAMBDA f : Reservation[f], on)]]

initialUsage(current) == NoUsage

fits(n, usage, f) ==
    /\ usage[n].forwards < MaxForwards[n]
    /\ Bandwidth[n] # 0 => usage[n].rate + Reservation[f] <= Bandwidth[n]

consume(usage, nodes, f) ==
    [n \in Node |-> IF n \in nodes THEN [forwards |-> usage[n].forwards + 1,
                                         rate |-> usage[n].rate + Reservation[f]]
                    ELSE usage[n]]

(* The candidates for a role of f, given the node opposite (NoNode when    *)
(* the ingress is chosen).                                                 *)
Candidates(selected, opposite, usage, f) ==
    {n \in selected \cap available :
        /\ n # opposite
        /\ fits(n, usage, f)
        /\ opposite # NoNode =>
              /\ {n, opposite} \in Linked
              /\ scenario.policy = "distinct" => Domain[n] # Domain[opposite]}

(* The previous node if it still qualifies, else the least loaded, one in  *)
(* another failure domain than the opposite first if that is preferred.    *)
chooseNode(candidates, opposite, previous, usage) ==
    LET apart  == {n \in candidates : /\ scenario.policy = "prefer_distinct"
                                      /\ opposite # NoNode /\ Domain[n] # Domain[opposite]}
        best   == IF apart # {} THEN apart ELSE candidates
        lighter(m, n) == usage[m].forwards * MaxForwards[n] < usage[n].forwards * MaxForwards[m]
    IN  IF previous \in candidates THEN previous
        ELSE Min({n \in best : \A m \in best : ~lighter(m, n)})

PlaceOne(result, f, previous, address) ==
    LET entries == Candidates(scenario.ingress[f], NoNode, result.usage, f)
        ingress == chooseNode(entries, NoNode, previous[f].ingress, result.usage)
        exits   == Candidates(scenario.exit[f], ingress, result.usage, f)
        exit    == IF scenario.exit[f] = {} THEN NoNode
                   ELSE chooseNode(exits, ingress, previous[f].exit, result.usage)
        backend == chooseBackend(IF exit = NoNode THEN ingress ELSE exit, previous[f].backend)
    IN  IF ~result.ok \/ entries = {} \/ (scenario.exit[f] # {} /\ exits = {})
        THEN [result EXCEPT !.ok = FALSE]
        ELSE [ok |-> TRUE,
              usage |-> consume(result.usage, {ingress, exit}, f),
              placed |-> [result.placed EXCEPT ![f] =
                 [ingress |-> ingress, exit |-> exit, backend |-> backend, address |-> address]]]

(* One forward without a placement fails the whole plan (ErrNoPlacement).  *)
Place(previous, address) ==
    FoldLeft(LAMBDA result, f : PlaceOne(result, f, previous, address),
             [ok |-> TRUE, usage |-> initialUsage(previous), placed |-> previous],
             SetToSortSeq(Forward, LAMBDA f, g : f < g))

-----------------------------------------------------------------------------
(* Host names.                                                             *)

(* Cache.Resolve: an entry that has to be refreshed is still the fallback  *)
(* of a lookup that fails.                                                 *)
Resolve(entry) ==
    IF entry.fresh \/ answer # NoAddress
    THEN [address |-> IF entry.fresh THEN entry.address ELSE answer, fresh |-> TRUE]
    ELSE [address |-> IF entry.address # NoAddress THEN entry.address ELSE Saved,
          fresh |-> TRUE]

candidateAllowedForUsers_Any(address) == TRUE

candidateAllowedForUsers(address) == address \in allowed

resolvePlanTargets(entry) ==
    IF ~scenario.named \/ ~candidateAllowedForUsers(entry.address) THEN Saved ELSE entry.address

-----------------------------------------------------------------------------
(* Scheduling.                                                             *)

ProbeNode(placement) == IF placement.exit = NoNode THEN placement.ingress ELSE placement.exit

Probing(placed) == {n \in Node : scenario.monitored /\ \E f \in Forward : ProbeNode(placed[f]) = n}

Published == IF target = NoRollout THEN placements ELSE target

(* The nodes whose desired state a change of placements changes.           *)
Involved(old, new) ==
    UNION {UsedNodes(old[f]) \cup UsedNodes(new[f]) : f \in {g \in Forward : old[g] # new[g]}}

schedulePlanTx ==
    LET entry  == IF scenario.named THEN Resolve(cache) ELSE cache
        result == Place(placements, resolvePlanTargets(entry))
    IN  /\ target = NoRollout
        /\ cache' = entry
        /\ lastError' = ~result.ok
        /\ reconcile' = FALSE
        /\ target' = IF result.ok /\ result.placed # placements THEN result.placed ELSE NoRollout
        /\ UNCHANGED placements

ReconcileWaits == reconcile /\ ~paused /\ target = NoRollout

ReconcileClusterPlans ==
    /\ ReconcileWaits
    /\ schedulePlanTx
    /\ UNCHANGED <<paused, world, events, agents, reports, names>>

(* The administrator applies the same revision again.                      *)
ReapplyRevision ==
    /\ Happens("reapply")
    /\ schedulePlanTx
    /\ paused' = FALSE
    /\ UNCHANGED <<world, agents, reports, names>>

(* The last stage has been acknowledged; the plan is looked at again.      *)
RolloutCompletes ==
    /\ target # NoRollout
    /\ \A n \in Involved(placements, target) :
          n \in session /\ (n \in checks <=> n \in Probing(target))
    /\ placements' = target
    /\ target' = NoRollout
    /\ lastError' = FALSE
    /\ reconcile' = TRUE
    /\ UNCHANGED <<paused, cache, world, events, agents, reports, names>>

(* The ACK timeout: the rollout is compensated and the plan paused.        *)
RolloutFails ==
    /\ target # NoRollout
    /\ \E n \in Involved(placements, target) : n \notin session
    /\ target' = NoRollout
    /\ paused' = TRUE
    /\ lastError' = TRUE
    /\ UNCHANGED <<placements, reconcile, cache, world, events, agents, reports, names>>

-----------------------------------------------------------------------------
(* Probes and reports.                                                     *)

(* The Agent applies a state with, or without, the checks; without, the    *)
(* next round forgets the probes and the reports.                          *)
AgentApplies(n) ==
    /\ n \in session
    /\ n \in checks <=> n \notin Probing(Published)
    /\ IF n \in checks
       THEN /\ checks' = checks \ {n}
            /\ due' = due \ {n}
            /\ probes' = [probes EXCEPT ![n] = [b \in Backend |-> NoProbe]]
            /\ last' = [last EXCEPT ![n] = [b \in Backend |-> NoReport]]
            /\ steady' = steady \ ({n} \X Backend)
       ELSE /\ checks' = checks \cup {n}
            /\ due' = due \cup {n}
            /\ UNCHANGED <<probes, last, steady>>
    /\ UNCHANGED <<scenario, alive, available, reach, events, reports, plan, names>>

Probed_NoRecovery(probe, connects) ==
    IF connects
    THEN LET good == Min({probe.good + 1, SuccessThreshold})
         IN  [status |-> IF good = SuccessThreshold /\ probe.status # "unhealthy" THEN "healthy"
                         ELSE probe.status,
              good |-> good, bad |-> 0]
    ELSE LET bad == Min({probe.bad + 1, FailureThreshold})
         IN  [status |-> IF bad = FailureThreshold THEN "unhealthy" ELSE probe.status,
              good |-> 0, bad |-> bad]

Probed(probe, connects) ==
    IF connects
    THEN LET good == Min({probe.good + 1, SuccessThreshold})
         IN  [status |-> IF good = SuccessThreshold THEN "healthy" ELSE probe.status,
              good |-> good, bad |-> 0]
    ELSE LET bad == Min({probe.bad + 1, FailureThreshold})
         IN  [status |-> IF bad = FailureThreshold THEN "unhealthy" ELSE probe.status,
              good |-> 0, bad |-> bad]

(* pendingHealth and sendHealth: all the latest reports, in the order of   *)
(* the backends.                                                           *)
Pending(latest) ==
    LET known == SetToSortSeq({b \in Backend : latest[b].age # Old}, LAMBDA b, c : b < c)
    IN  [i \in DOMAIN known |-> [backend |-> known[i], status |-> latest[known[i]].status,
                                 age |-> latest[known[i]].age]]

(* Engine.RunDue and replaceHealth, then, in a session, sendHealth.        *)
RunDue(n) ==
    /\ n \in alive \cap due
    /\ due' = due \ {n}
    /\ LET after == [b \in Backend |-> Probed(probes[n][b], b \in reach[n])]
           latest == [b \in Backend |-> [status |-> after[b].status, age |-> 0]]
       IN  /\ probes' = [probes EXCEPT ![n] = after]
           /\ last' = [last EXCEPT ![n] = latest]
           /\ stream' = IF n \in session THEN [stream EXCEPT ![n] = @ \o Pending(latest)] ELSE stream
    /\ UNCHANGED <<checks, session, late, observed, world, events, plan, names>>

(* A command makes the Agent busy: the ticks of the health timer are       *)
(* skipped, here for as long as the round takes.                           *)
SkipRound(n) ==
    /\ n \in alive \cap due
    /\ Happens("busy")
    /\ due' = due \ {n}
    /\ steady' = steady \ ({n} \X Backend)
    /\ UNCHANGED <<scenario, alive, available, reach, checks, probes, last, reports, plan, names>>

(* The upsert of an observation leaves a newer one alone; a change of      *)
(* status asks for reconciliation.  A report names the generation it was   *)
(* probed under, which the Controller has published with these checks:     *)
(* the refusal of one it does not know does not happen here.               *)
Upsert(old, report) ==
    IF old.age >= report.age THEN [status |-> report.status, age |-> report.age] ELSE old

RecordBackendHealth(n, report) ==
    /\ observed' = [observed EXCEPT ![n][report.backend] = Upsert(@, report)]
    /\ reconcile' = (reconcile \/ observed'[n][report.backend].status
                                     # observed[n][report.backend].status)
    /\ UNCHANGED <<placements, target, paused, lastError, cache>>

HandleReport(n) ==
    /\ n \in session
    /\ stream[n] # <<>>
    /\ RecordBackendHealth(n, Head(stream[n]))
    /\ stream' = [stream EXCEPT ![n] = Tail(@)]
    /\ steady' = steady \cup {<<n, b>> : b \in {c \in reach[n] :
                      /\ Head(stream[n]) = [backend |-> c, status |-> "healthy", age |-> 0]
                      /\ probes[n][c].status = "healthy"}}
    /\ UNCHANGED <<session, late, scenario, alive, available, reach, events, agents, names>>

HandleLate(n) ==
    /\ late[n] # <<>>
    /\ RecordBackendHealth(n, Head(late[n]))
    /\ late' = [late EXCEPT ![n] = <<>>]
    /\ UNCHANGED <<session, stream, world, events, agents, names>>

-----------------------------------------------------------------------------
(* Sessions.                                                               *)

(* The session sends all pending reports first; the hello and the          *)
(* heartbeats keep the node available.                                     *)
OpenSession(n) ==
    /\ n \in alive \ session
    /\ session' = session \cup {n}
    /\ available' = available \cup {n}
    /\ stream' = [stream EXCEPT ![n] = Pending(last[n])]
    /\ UNCHANGED <<scenario, steady, alive, reach, late, observed, events, agents, plan, names>>

(* What the Controller has not read is lost, but for the report its        *)
(* handler may be busy with.                                               *)
Drop(n) ==
    /\ session' = session \ {n}
    /\ stream' = [stream EXCEPT ![n] = <<>>]
    /\ \/ UNCHANGED late
       \/ late[n] = <<>> /\ stream[n] # <<>> /\ late' = [late EXCEPT ![n] = <<Head(stream[n])>>]
    /\ UNCHANGED observed

Disconnect(n) ==
    /\ n \in session
    /\ Happens("session")
    /\ Drop(n)
    /\ steady' = steady \ ({n} \X Backend)
    /\ UNCHANGED <<scenario, alive, available, reach, agents, plan, names>>

(* The engine and the pending reports are memory; the applied state is     *)
(* not.                                                                    *)
AgentStops(n) ==
    /\ n \in alive
    /\ Happens("stop")
    /\ alive' = alive \ {n}
    /\ due' = due \ {n}
    /\ probes' = [probes EXCEPT ![n] = [b \in Backend |-> NoProbe]]
    /\ last' = [last EXCEPT ![n] = [b \in Backend |-> NoReport]]
    /\ Drop(n)
    /\ steady' = steady \ ({n} \X Backend)
    /\ UNCHANGED <<scenario, available, reach, checks, plan, names>>

AgentStarts(n) ==
    /\ n \in scenario.nodes \ alive
    /\ alive' = alive \cup {n}
    /\ due' = IF n \in checks THEN due \cup {n} ELSE due
    /\ UNCHANGED <<scenario, steady, available, reach, checks, probes, last, reports, events, plan, names>>

(* NodeOfflineAfterSeconds have passed since the node was last seen.       *)
GoesOffline(n) ==
    /\ n \in available \ session
    /\ available' = available \ {n}
    /\ UNCHANGED <<scenario, steady, alive, reach, events, agents, reports, plan, names>>

-----------------------------------------------------------------------------
(* Time and the rest of the world.                                         *)

(* What is Old counts as unknown, whatever it said; the next report may    *)
(* then ask for reconciliation where the code would wait for the Tick.     *)
Aged(x) ==
    IF x.age + 1 < Old THEN [x EXCEPT !.age = @ + 1]
    ELSE [x EXCEPT !.age = Old, !.status = "unknown"]

AgedAll(table) == [n \in Node |-> [b \in Backend |-> Aged(table[n][b])]]

(* An observation counts from the start of its round, so it is one         *)
(* interval old when the next round is due, and older by all the time that *)
(* round takes: the health timer, the slowest of its probes, and the       *)
(* reports.  That is assumed to be less than an interval; a report whose   *)
(* session has ended may take longer.                                      *)
Tick ==
    /\ \A n \in alive : n \notin due /\ stream[n] = <<>>
    /\ due' = checks \cap alive
    /\ last' = AgedAll(last)
    /\ observed' = AgedAll(observed)
    /\ late' = [n \in Node |-> [i \in DOMAIN late[n] |-> Aged(late[n][i])]]
    /\ cache' = [cache EXCEPT !.fresh = FALSE]
    /\ reconcile' = TRUE
    /\ UNCHANGED <<checks, probes, session, stream, world, events, placements, target, paused,
                   lastError, names>>

Outage(n, b) ==
    /\ n \in scenario.nodes
    /\ Happens("outage")
    /\ reach' = [reach EXCEPT ![n] = IF b \in @ THEN @ \ {b} ELSE @ \cup {b}]
    /\ steady' = steady \ {<<n, b>>}
    /\ UNCHANGED <<scenario, alive, available, agents, reports, plan, names>>

NameChanges(address) ==
    /\ scenario.named
    /\ Happens("dns")
    /\ address # answer
    /\ answer' = address
    /\ UNCHANGED <<allowed, world, agents, reports, plan>>

PolicyChanges(addresses) ==
    /\ scenario.named
    /\ Happens("policy")
    /\ allowed' = addresses
    /\ UNCHANGED <<answer, world, agents, reports, plan>>

(* The cache of names is memory, and every session ends.                   *)
ControllerRestarts ==
    /\ Happens("restart")
    /\ cache' = NoEntry
    /\ session' = {}
    /\ stream' = [n \in Node |-> <<>>]
    /\ late' = [n \in Node |-> <<>>]
    /\ steady' = {}
    /\ UNCHANGED <<scenario, alive, available, reach, observed, agents, placements, target, paused,
                   lastError, reconcile, names>>

-----------------------------------------------------------------------------
(* The first rollout of the plan has completed, on nodes all of which are  *)
(* there; nothing has been probed.                                         *)
FirstPlacement ==
    LET none == [f \in Forward |-> [ingress |-> NoNode, exit |-> NoNode, backend |-> 0,
                                    address |-> Saved]]
    IN  Place(none, Saved)

Init ==
    /\ scenario \in Scenarios
    /\ events = scenario.events
    /\ alive = scenario.nodes /\ session = scenario.nodes /\ available = scenario.nodes
    /\ reach = [n \in Node |-> Backend]
    /\ probes = [n \in Node |-> [b \in Backend |-> NoProbe]]
    /\ last = [n \in Node |-> [b \in Backend |-> NoReport]]
    /\ observed = [n \in Node |-> [b \in Backend |-> NoReport]]
    /\ stream = [n \in Node |-> <<>>]
    /\ late = [n \in Node |-> <<>>]
    /\ placements = FirstPlacement.placed
    /\ target = NoRollout
    /\ checks = Probing(placements)
    /\ due = checks
    /\ paused = FALSE /\ lastError = FALSE /\ reconcile = FALSE
    /\ steady = {}
    /\ answer = Saved /\ cache = NoEntry /\ allowed = Address

Environment ==
    \/ \E n \in Node : Disconnect(n) \/ AgentStops(n) \/ AgentStarts(n) \/ SkipRound(n)
    \/ \E n \in Node, b \in Backend : Outage(n, b)
    \/ \E address \in Address \cup {NoAddress} : NameChanges(address)
    \/ \E addresses \in SUBSET Address : PolicyChanges(addresses)
    \/ ControllerRestarts

Round == Tick \/ \E n \in Node : RunDue(n) \/ HandleReport(n)

Sessions == \E n \in Node : OpenSession(n) \/ AgentApplies(n) \/ GoesOffline(n)

RolloutEnds == RolloutCompletes \/ RolloutFails

Next ==
    \/ Round
    \/ Sessions
    \/ RolloutEnds
    \/ ReconcileClusterPlans
    \/ \E n \in Node : HandleLate(n)
    \/ ReapplyRevision
    \/ Environment

(* Time passes, the Agents that run probe, connect and apply, and the      *)
(* Controller handles what it gets and runs its worker.  Nobody has to     *)
(* start an Agent that has stopped, or apply a paused plan again.  The     *)
(* last conjunct is the weak fairness of ReconcileClusterPlans, which is   *)
(* enabled when ReconcileWaits and ends it.                                *)
Fairness ==
    /\ WF_vars(Round)
    /\ WF_vars(Sessions)
    /\ WF_vars(RolloutEnds)
    /\ []<>~ReconcileWaits

Spec == Init /\ [][Next]_vars /\ Fairness

-----------------------------------------------------------------------------
(* A forward is not moved off a backend that is known to be healthy and    *)
(* that its node has been able to reach ever since, unless to a better     *)
(* one, whatever becomes of the others and however reports, commands and   *)
(* reconciliation interleave (preferredBackend, and observations that stay *)
(* Fresh from one report to the next, which takes a StaleAfter of two      *)
(* intervals or more).  It may be while the node starts or starts over:    *)
(* its reports then arrive one by one.                                     *)
Undisturbed ==
    [][\A f \in Forward :
          target = NoRollout /\ target' # NoRollout =>
              LET old == placements[f]
                  new == target'[f]
              IN  ProbeNode(new) = ProbeNode(old) /\ new.backend # old.backend =>
                      \/ scenario.monitored /\ <<ProbeNode(old), old.backend>> \notin steady
                      \/ scenario.priority[new.backend] < scenario.priority[old.backend]]_vars

(* The placement is the best there is: nodes that are there, and a backend *)
(* that can be reached, no worse than any other that can.                  *)
WellPlaced(placement) ==
    LET reachable == reach[ProbeNode(placement)]
    IN  /\ UsedNodes(placement) \subseteq available
        /\ scenario.monitored /\ reachable # {} =>
              /\ placement.backend \in reachable
              /\ \A b \in reachable : scenario.priority[placement.backend] <= scenario.priority[b]

(* Whatever fails and recovers, once it stops every forward comes to be    *)
(* well placed, or the plan shows that it is paused or has no placement    *)
(* (probes, reports, ReconcileClusterPlans).                               *)
FailsOver == <>[](paused \/ lastError \/ \A f \in Forward : WellPlaced(placements[f]))

(* Forwards do not move for ever between equally good nodes or backends    *)
(* (the previous choice is kept by chooseNode and chooseBackend).          *)
Settles == <>[][FALSE]_placements

(* A target known by name comes to be what the name server answers, where  *)
(* the tenant's policy allows it, and the saved address where it does not; *)
(* while there is no answer, an address that is allowed or the saved one   *)
(* (resolvePlanTargets, Cache.Resolve).                                    *)
TargetsComply ==
    scenario.named =>
        <>[](\/ paused \/ lastError
             \/ \A f \in Forward :
                   placements[f].address \in
                       CASE answer = NoAddress -> allowed \cup {Saved}
                         [] answer \in allowed -> {answer}
                         [] OTHER -> {Saved})

=============================================================================
