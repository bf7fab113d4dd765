----------------------------- MODULE NodeCommands -----------------------------
(***************************************************************************)
(* Commands the owner gives to a node: the management handlers             *)
(* (internal/controller/management/commands.go), the broker that hands a   *)
(* command to the Agent's stream and waits for its result (CommandBroker   *)
(* of internal/controller/control/commands.go, Connect and handleEvent of  *)
(* control/server.go), the Agent (internal/agent/controlclient/commands.go *)
(* and runner.go) and the maintenance service that replaces or removes the *)
(* Agent's own files (internal/agent/maintenance).                         *)
(*                                                                         *)
(* A command must end although streams break, either side crashes, the     *)
(* browser's request times out while the Agent completes it, and systemd   *)
(* goes on with a maintenance run whose starter has given up.  Results and *)
(* acknowledgements of a broken stream are lost for the Agent; results it  *)
(* has sent may still be read by the handler of that stream.               *)
(*                                                                         *)
(* A definition named X_Y is X with a plausible mistake Y; it is not part  *)
(* of the specification.                                                   *)
(***************************************************************************)
EXTENDS Enrollment, Sequences, SequencesExt

CONSTANTS
    NodeHost,       \* the host whose Agent is given commands
    Requests,       \* command requests, 1 .. n
    OutboundSlots,  \* capacity of a connection's command queue
    MaxStreams,     \* bound on control streams whose handlers have not returned
    Cases           \* initial situations: enrolled, installs, requests, faults, changes

ASSUME CommandsAssumption ==
    /\ NodeHost \in Hosts
    /\ IsFiniteSet(Requests) /\ Requests \subseteq Nat \ {0}
    \* no more than the eight slots of commandResults: a full channel would
    \* block the session that has to empty it
    /\ Cardinality(Requests) <= 8
    /\ OutboundSlots \in Nat \ {0}
    /\ MaxStreams \in Nat
    /\ \A c \in Cases :
          /\ c.requests \subseteq Requests
          /\ c.installs \in Nat /\ c.faults \in Nat /\ c.changes \in Nat

VARIABLES
    request,    \* Controller: the management requests
    broker,     \* Controller: the stream registered for the node, 0 if none
    outbound,   \* Controller: the queue of commands of each stream's connection
    handler,    \* Controller: how far the handler of each stream is
    peer,       \* Controller: the key the peer of each stream has proved
    up,         \* results in each stream
    down,       \* commands and ACKs in the Agent's current stream
    stream,     \* Agent: its current stream, 0 if none
    overtaken,  \* history: another handler has registered after the one of that stream
    process,    \* Agent: "up", "down" (until systemd restarts it) or "gone"
    active,     \* Agent: the command that makes it busy, 0 if none
    step,       \* Agent: how far that command is
    results,    \* Agent: the commandResults channel
    awaiting,   \* Agent: results sent in this stream, not acknowledged
    planned,    \* Controller, durable: a forward of the plan uses the node
    desired,    \* Controller, durable: the latest desired state has forwards
    applied,    \* Agent, durable: the applied state has forwards
    files,      \* host, durable: the files of the maintenance service
    service,    \* host: the run of the maintenance service
    faults,     \* failures still to come
    changes     \* plan changes still to come

controller == <<request, broker, outbound, handler, peer>>
wires == <<up, down, stream, overtaken>>
agent == <<process, active, step, results, awaiting>>
state == <<planned, desired, applied>>
host == <<files, service>>
bounds == <<faults, changes>>
vars == <<enrollment, controller, wires, agent, state, host, bounds>>

Kinds == {"check", "upgrade", "uninstall"}
Streams == 1 .. MaxStreams
Completion == [id : Requests, ok : BOOLEAN, release : BOOLEAN]

(* Streams whose handler has come past Register and has not returned.      *)
registered == {s \in Streams : handler[s] = "registered"}

TypeOK ==
    /\ EnrollmentTypeOK
    /\ request \in [Requests -> [kind : Kinds \cup {"none"}, ok : BOOLEAN,
          at : {"unused", "idle", "retiring", "pending", "answered", "lost", "refused",
                "failed", "succeeded", "revoked", "timeout", "crashed", "unsaved"}]]
    /\ broker \in 0 .. MaxStreams
    /\ outbound \in [Streams -> Seq(Requests)]
    /\ \A s \in Streams : Len(outbound[s]) <= OutboundSlots
    /\ handler \in [Streams -> {"none", "hello", "authorized", "recorded", "registered"}]
    /\ peer \in [Streams -> Key \cup {NoKey}]
    /\ up \in [Streams -> Seq([id : Requests, ok : BOOLEAN])]
    /\ down \in Seq([event : {"command", "ack"}, id : Requests])
    /\ stream \in 0 .. MaxStreams /\ overtaken \in BOOLEAN
    /\ process \in {"up", "down", "gone"}
    /\ active \in Requests \cup {0}
    /\ step \in {"none", "begin", "write", "purge", "start", "wait", "ok", "fail", "posted"}
    /\ results \in Seq(Completion) /\ Len(results) <= 8
    /\ awaiting \subseteq Completion
    /\ <<planned, desired, applied>> \in BOOLEAN \X BOOLEAN \X BOOLEAN
    /\ files \in [request : {"none", "upgrade", "uninstall"}, staged : {"none", "good", "bad"},
                  binary : {"none", "good", "bad"}, previous : {"none", "good", "bad"}]
    /\ service \in {"idle", "load", "backup", "install", "verify", "rollback", "remove"}
    /\ <<faults, changes>> \in Nat \X Nat

---------------------------------------------------------------------------
(* A node nobody has installed, or one whose Agent has just been started   *)
(* by runInstall: enrolled, in the plan, and no forward uses it.           *)
InitEnrolled(n) ==
    LET k == <<NodeHost, 1>>
        used == CHOOSE t \in Tokens : TRUE
    IN
    /\ node = [NoNode EXCEPT !.exists = TRUE, !.assigned = TRUE]
    /\ tokens = [t \in Tokens |-> IF t = used
                                  THEN [state |-> "used", fresh |-> TRUE, key |-> k]
                                  ELSE NoToken]
    /\ keys = [l \in Key |-> IF l = k THEN "valid" ELSE "none"]
    /\ pending = [h \in Hosts |-> NoKey]
    /\ identity = [h \in Hosts |-> IF h = NodeHost THEN k ELSE NoKey]
    /\ made = [h \in Hosts |-> IF h = NodeHost THEN 1 ELSE 0]
    /\ wiped = {}
    /\ attempt = [h \in Hosts |-> Idle]
    /\ requests = {}
    /\ reply = [h \in Hosts |-> "none"]
    /\ installs = n

Init ==
    /\ \E c \in Cases :
         /\ IF c.enrolled THEN InitEnrolled(c.installs) ELSE InitFresh(c.installs)
         /\ request = [r \in Requests |->
                [kind |-> "none", ok |-> FALSE,
                 at |-> IF r \in c.requests THEN "idle" ELSE "unused"]]
         /\ faults = c.faults
         /\ changes = c.changes
         /\ process = IF c.enrolled THEN "up" ELSE "down"
    /\ broker = 0 /\ outbound = [s \in Streams |-> <<>>]
    /\ handler = [s \in Streams |-> "none"] /\ peer = [s \in Streams |-> NoKey]
    /\ up = [s \in Streams |-> <<>>] /\ down = <<>> /\ stream = 0 /\ overtaken = FALSE
    /\ active = 0 /\ step = "none" /\ results = <<>> /\ awaiting = {}
    /\ planned = FALSE /\ desired = FALSE /\ applied = FALSE
    /\ files = [request |-> "none", staged |-> "none", binary |-> "good", previous |-> "none"]
    /\ service = "idle"

Fault == faults > 0 /\ faults' = faults - 1

(* The kind of the command that makes the Agent busy.                      *)
ActiveKind == IF active = 0 THEN "none" ELSE request[active].kind

---------------------------------------------------------------------------
(* The end of a stream, as each side sees it.                              *)

(* failNodeLocked: every request that waits for the node is told.          *)
failNodeLocked(rq) ==
    [r \in Requests |-> IF rq[r].at = "pending" THEN [rq[r] EXCEPT !.at = "lost"] ELSE rq[r]]

(* The deferred function of runSession: results whose ACK has not come are *)
(* queued for the next session.                                            *)
Requeued == results \o SetToSeq(awaiting)

EndSession ==
    /\ stream' = 0
    /\ down' = <<>>
    /\ results' = Requeued
    /\ awaiting' = {}

(* What a handler and its stream still had is lost when it returns.        *)
Returns(s) ==
    /\ handler' = [handler EXCEPT ![s] = "none"]
    /\ peer' = [peer EXCEPT ![s] = NoKey]
    /\ outbound' = [outbound EXCEPT ![s] = <<>>]
    /\ up' = [up EXCEPT ![s] = <<>>]

Unregister_AnyConnection(s) ==
    /\ Returns(s)
    /\ broker' = 0
    /\ request' = failNodeLocked(request)

(* The handler of stream s returns: the deferred unregister.  It removes   *)
(* the connection, and fails the requests, only if s is still the one that *)
(* is registered; a handler that never came to Register leaves the broker  *)
(* alone.                                                                  *)
Unregister(s) ==
    /\ Returns(s)
    /\ IF broker = s
       THEN /\ broker' = 0
            /\ request' = failNodeLocked(request)
       ELSE UNCHANGED <<broker, request>>

(* The Agent process ends: what it had in memory is lost.                  *)
Exit(next) ==
    /\ process' = next
    /\ stream' = 0 /\ down' = <<>>
    /\ active' = 0 /\ step' = "none"
    /\ results' = <<>> /\ awaiting' = {}

---------------------------------------------------------------------------
(* Sessions.                                                               *)

(* runSession up to the hello, and Connect up to the authorization.  The   *)
(* Agent takes the stream for open from here on.  A number is used again   *)
(* when the handler of its stream has returned.                            *)
OpenSession ==
    /\ process = "up" /\ stream = 0 /\ identity[NodeHost] # NoKey
    /\ \E s \in Streams :
         /\ handler[s] = "none" /\ \A t \in 1 .. s - 1 : handler[t] # "none"
         /\ stream' = s
         /\ handler' = [handler EXCEPT ![s] = "hello"]
         /\ peer' = [peer EXCEPT ![s] = identity[NodeHost]]
    /\ overtaken' = FALSE
    /\ UNCHANGED <<enrollment, request, broker, outbound, up, down, agent, state, host, bounds>>

(* One step of the handler of stream s on its way to Register.  The steps  *)
(* wait for the database, so handlers of several streams overtake each     *)
(* other.                                                                  *)
Advances(s, from, to) ==
    /\ handler[s] = from
    /\ handler' = [handler EXCEPT ![s] = to]
    /\ UNCHANGED <<outbound, peer, up, down, stream, agent, state, host, bounds>>

(* AuthorizeNodeKey.  PermissionDenied is fatal for the Agent, if it still *)
(* listens.                                                                *)
AuthorizeHello(s) ==
    \/ /\ AuthorizeNodeKey(peer[s])
       /\ Advances(s, "hello", "authorized")
       /\ UNCHANGED <<enrollment, request, broker, overtaken>>
    \/ /\ handler[s] = "hello" /\ ~ AuthorizeNodeKey(peer[s])
       /\ Unregister(s)
       /\ IF s = stream THEN Exit("down") ELSE UNCHANGED <<down, stream, agent>>
       /\ UNCHANGED <<enrollment, overtaken, state, host, bounds>>

(* RecordHello.  Unavailable, when the node has been revoked since, is not *)
(* fatal.                                                                  *)
RecordsHello(s) ==
    \/ /\ RecordHello
       /\ Advances(s, "authorized", "recorded")
       /\ UNCHANGED <<request, broker, overtaken>>
    \/ /\ handler[s] = "authorized" /\ ~ (node.exists /\ ~ node.revoked)
       /\ Unregister(s)
       /\ IF s = stream THEN EndSession ELSE UNCHANGED <<down, stream, results, awaiting>>
       /\ UNCHANGED <<enrollment, overtaken, process, active, step, state, host, bounds>>

(* CommandBroker.Register: the connection replaces the one before, whether *)
(* that one is older or newer, and fails its requests.  The queue of the   *)
(* one before stays with its handler.                                      *)
Register(s) ==
    /\ Advances(s, "recorded", "registered")
    /\ broker' = s
    /\ request' = IF broker # 0 THEN failNodeLocked(request) ELSE request
    /\ overtaken' = (overtaken \/ stream \in registered)
    /\ UNCHANGED enrollment

(* A host that was set up anew no longer runs the Agent.                   *)
HostStops ==
    /\ process = "up" /\ identity[NodeHost] = NoKey
    /\ Exit("down")
    /\ UNCHANGED <<enrollment, controller, up, overtaken, state, host, bounds>>

(* The periodic authorization of Connect fails: the handler returns and    *)
(* the Agent gets PermissionDenied.                                        *)
Deauthorize ==
    /\ stream \in registered /\ ~ AuthorizeNodeKey(peer[stream])
    /\ Unregister(stream)
    /\ Exit("down")
    /\ UNCHANGED <<enrollment, overtaken, state, host, bounds>>

Disconnect ==
    /\ stream # 0 /\ Fault
    /\ EndSession
    /\ UNCHANGED <<enrollment, controller, up, overtaken, process, active, step, state, host,
                   changes>>

(* The handler of a stream the Agent has left notices: a cancelled query,  *)
(* EOF, a failing send or the heartbeat watchdog.                          *)
CloseHandler(s) ==
    /\ handler[s] # "none" /\ s # stream
    /\ Unregister(s)
    /\ UNCHANGED <<enrollment, down, stream, overtaken, agent, state, host, bounds>>

ControllerCrash ==
    /\ (\E s \in Streams : handler[s] # "none") /\ Fault
    /\ broker' = 0 /\ outbound' = [s \in Streams |-> <<>>]
    /\ handler' = [s \in Streams |-> "none"] /\ peer' = [s \in Streams |-> NoKey]
    /\ up' = [s \in Streams |-> <<>>]
    /\ request' = [r \in Requests |->
          IF request[r].at \in {"retiring", "pending", "answered", "lost"}
          THEN [request[r] EXCEPT !.at = "crashed"] ELSE request[r]]
    /\ EndSession
    /\ UNCHANGED <<enrollment, overtaken, process, active, step, state, host, changes>>

---------------------------------------------------------------------------
(* The management handlers and the broker.                                 *)

(* handleUninstallNode holds planMutationMu until it returns.              *)
Uninstalling == \E r \in Requests :
    request[r].kind = "uninstall" /\ request[r].at \in {"retiring", "pending", "answered", "lost"}

Active == node.seen /\ ~ node.revoked

(* Requests are numbered in the order in which they are made.              *)
Arrives(r) ==
    /\ request[r].at = "idle"
    /\ \A q \in Requests : q < r => request[q].at # "idle"

(* CommandBroker.Dispatch up to the wait.                                  *)
Dispatch(r, kind) ==
    IF broker # 0 /\ Len(outbound[broker]) < OutboundSlots
    THEN /\ request' = [request EXCEPT ![r] = [kind |-> kind, ok |-> FALSE, at |-> "pending"]]
         /\ outbound' = [outbound EXCEPT ![broker] = Append(@, r)]
    ELSE /\ request' = [request EXCEPT ![r] = [kind |-> kind, ok |-> FALSE, at |-> "refused"]]
         /\ UNCHANGED outbound

(* handleForwardTCPCheck and handleUpgradeNode.                            *)
Command(r, kind) ==
    /\ Arrives(r) /\ Active
    /\ Dispatch(r, kind)
    /\ UNCHANGED <<enrollment, broker, handler, peer, wires, agent, state, host, bounds>>

(* handleUninstallNode: a synchronized node that no forward uses is taken  *)
(* out of the plan.                                                        *)
UninstallNode(r) ==
    /\ Arrives(r) /\ Active /\ ~ Uninstalling
    /\ desired = applied /\ ~ planned
    /\ request' = [request EXCEPT ![r].kind = "uninstall", ![r].at = "retiring"]
    /\ desired' = FALSE
    /\ UNCHANGED <<enrollment, broker, outbound, handler, peer, wires, agent, planned, applied,
                   host, bounds>>

(* waitForRetiredNode, then Dispatch; or the wait runs out.                *)
waitForRetiredNode(r) ==
    /\ request[r].at = "retiring"
    /\ \/ desired = applied /\ ~ desired /\ Dispatch(r, "uninstall") /\ UNCHANGED faults
       \/ /\ Fault
          /\ request' = [request EXCEPT ![r].at = "refused"]
          /\ UNCHANGED outbound
    /\ UNCHANGED <<enrollment, broker, handler, peer, wires, agent, state, host, changes>>

(* The context of Dispatch runs out: the request is no longer pending, the *)
(* command may still be under way.                                         *)
Timeout(r) ==
    /\ request[r].at = "pending" /\ Fault
    /\ request' = [request EXCEPT ![r].at = "timeout"]
    /\ UNCHANGED <<enrollment, broker, outbound, handler, peer, wires, agent, state, host, changes>>

Revokes_OnSuccess(r) == request[r].kind = "uninstall" /\ request[r].ok

(* The rest of the handlers.  An uninstallation revokes the node when the  *)
(* Agent has confirmed it, and when the connection was lost.               *)
Revokes(r) ==
    /\ request[r].kind = "uninstall"
    /\ request[r].at = "lost" \/ request[r].ok

Respond(r) ==
    /\ request[r].at \in {"answered", "lost"}
    /\ IF Revokes(r)
       THEN \/ /\ RevokeNodeTx
               /\ request' = [request EXCEPT ![r].at = "revoked"]
               /\ UNCHANGED faults
            \/ /\ Fault
               /\ request' = [request EXCEPT ![r].at = "unsaved"]
               /\ UNCHANGED <<node, keys, tokens>>
       ELSE /\ request' = [request EXCEPT ![r].at =
                              IF request[r].ok THEN "succeeded" ELSE "failed"]
            /\ UNCHANGED <<node, keys, tokens, faults>>
    /\ UNCHANGED <<pending, identity, made, wiped, attempt, requests, reply, installs, broker,
                   outbound, handler, peer, wires, agent, state, host, changes>>

(* The handler of stream s takes a command from the queue of its           *)
(* connection, also when another connection has replaced it since.         *)
SendCommand(s) ==
    /\ s \in registered /\ outbound[s] # <<>>
    /\ outbound' = [outbound EXCEPT ![s] = Tail(@)]
    /\ down' = IF s = stream
               THEN Append(down, [event |-> "command", id |-> Head(outbound[s])])
               ELSE down
    /\ UNCHANGED <<enrollment, request, broker, handler, peer, up, stream, overtaken, agent,
                   state, host, bounds>>

(* Complete: the result of a request that waits for it.                    *)
Completed(m) ==
    IF request[m.id].at = "pending"
    THEN [request EXCEPT ![m.id].at = "answered", ![m.id].ok = m.ok]
    ELSE request

HandleResult_IgnoresLate(s) ==
    /\ s \in registered /\ up[s] # <<>>
    /\ request' = Completed(Head(up[s]))
    /\ up' = [up EXCEPT ![s] = Tail(@)]
    /\ down' = IF s = stream /\ request[Head(up[s]).id].at = "pending"
               THEN Append(down, [event |-> "ack", id |-> Head(up[s]).id])
               ELSE down
    /\ UNCHANGED <<enrollment, broker, outbound, handler, peer, stream, overtaken, agent, state,
                   host, bounds>>

(* handleEvent: a result is acknowledged, whether or not anybody waits for *)
(* it.                                                                     *)
HandleResult(s) ==
    /\ s \in registered /\ up[s] # <<>>
    /\ request' = Completed(Head(up[s]))
    /\ up' = [up EXCEPT ![s] = Tail(@)]
    /\ down' = IF s = stream
               THEN Append(down, [event |-> "ack", id |-> Head(up[s]).id])
               ELSE down
    /\ UNCHANGED <<enrollment, broker, outbound, handler, peer, stream, overtaken, agent, state,
                   host, bounds>>

(* A result completed more than ten minutes ago is refused: the handler    *)
(* returns InvalidArgument, which is fatal for the Agent.                  *)
RefuseResult(s) ==
    /\ s \in registered /\ s = stream /\ up[s] # <<>> /\ Fault
    /\ Unregister(s)
    /\ Exit("down")
    /\ UNCHANGED <<enrollment, overtaken, state, host, changes>>

---------------------------------------------------------------------------
(* The plan and its snapshots, as far as they concern the node.            *)

(* handleCreateForward, handleDeleteForward and the plan they apply wait   *)
(* for planMutationMu.                                                     *)
ChangePlan ==
    /\ changes > 0 /\ changes' = changes - 1
    /\ node.exists /\ ~ node.revoked /\ ~ Uninstalling
    /\ node' = [node EXCEPT !.assigned = TRUE]
    /\ planned' = ~ planned /\ desired' = ~ planned
    /\ UNCHANGED <<tokens, keys, pending, identity, made, wiped, attempt, requests, reply,
                   installs, controller, wires, agent, applied, host, faults>>

TakesSnapshots_Always == TRUE

(* handleControllerEvent for a snapshot: refused while the Agent completes *)
(* an uninstallation.                                                      *)
TakesSnapshots == ActiveKind # "uninstall"

ApplySnapshot ==
    /\ stream \in registered /\ applied # desired
    /\ TakesSnapshots
    /\ applied' = desired
    /\ UNCHANGED <<enrollment, controller, wires, agent, planned, desired, host, bounds>>

---------------------------------------------------------------------------
(* The Agent.                                                              *)

(* startCommand: one command at a time; another one is answered "busy".    *)
ReceiveCommand ==
    /\ down # <<>> /\ Head(down).event = "command"
    /\ down' = Tail(down)
    /\ IF active = 0
       THEN active' = Head(down).id /\ step' = "begin" /\ UNCHANGED results
       ELSE /\ results' = Append(results, [id |-> Head(down).id, ok |-> FALSE, release |-> FALSE])
            /\ UNCHANGED <<active, step>>
    /\ UNCHANGED <<enrollment, controller, up, stream, overtaken, process, awaiting, state, host,
                   bounds>>

(* A command that arrives after its deadline ends the session.             *)
ReceiveExpired ==
    /\ down # <<>> /\ Head(down).event = "command" /\ Fault
    /\ EndSession
    /\ UNCHANGED <<enrollment, controller, up, overtaken, process, active, step, state, host,
                   changes>>

(* One step of executeTCPCheck, executeUpgrade or executeUninstall.        *)
Step(kind, from, to) ==
    /\ ActiveKind = kind /\ step = from
    /\ step' = to
    /\ UNCHANGED <<enrollment, controller, wires, process, active, results, awaiting, state>>

executeTCPCheck ==
    \E to \in {"ok", "fail"} : Step("check", "begin", to) /\ UNCHANGED <<host, bounds>>

(* StageUpgrade: downloaded, both checksums verified, put in the place of  *)
(* the staged one, which replaceFile removes first.  A staged binary may   *)
(* still be one that does not run here.                                    *)
StageUpgrade ==
    \/ /\ Step("upgrade", "begin", "write")
       /\ \E b \in {"good", "bad"} : files' = [files EXCEPT !.staged = b]
       /\ UNCHANGED <<service, bounds>>
    \/ /\ Step("upgrade", "begin", "fail") /\ Fault
       /\ \E b \in {files.staged, "none"} : files' = [files EXCEPT !.staged = b]
       /\ UNCHANGED <<service, changes>>

(* executeUninstall refuses a node that still carries forwards, or whose   *)
(* installation of a configuration is unfinished.                          *)
CheckUninstall ==
    /\ \E to \in IF applied THEN {"fail"} ELSE {"write", "fail"} : Step("uninstall", "begin", to)
    /\ UNCHANGED <<host, bounds>>

(* WriteRequest: a temporary file takes the place of the request, which    *)
(* replaceFile removes first.                                              *)
WriteRequest ==
    \E kind \in {"upgrade", "uninstall"} :
        \/ /\ Step(kind, "write", IF kind = "upgrade" THEN "start" ELSE "purge")
           /\ files' = [files EXCEPT !.request = kind]
           /\ UNCHANGED <<service, bounds>>
        \/ /\ Step(kind, "write", "fail") /\ Fault
           /\ \E left \in {files.request, "none"} : files' = [files EXCEPT !.request = left]
           /\ UNCHANGED <<service, changes>>

(* Reconciler.Purge, and the removal of the request when it fails.         *)
PurgeNode ==
    \/ Step("uninstall", "purge", "start") /\ UNCHANGED <<host, bounds>>
    \/ /\ Step("uninstall", "purge", "fail") /\ Fault
       /\ files' = [files EXCEPT !.request = "none"]
       /\ UNCHANGED <<service, changes>>

(* maintenance.Start: systemctl starts the service, or waits for the run   *)
(* that is under way.                                                      *)
StartService ==
    /\ \E kind \in {"upgrade", "uninstall"} : Step(kind, "start", "wait")
    /\ service' = IF service = "idle" THEN "load" ELSE service
    /\ UNCHANGED <<files, bounds>>

(* The deadline of the command kills systemctl, not the service.           *)
StartTimesOut ==
    /\ \E kind \in {"upgrade", "uninstall"} :
         /\ Step(kind, "wait", "fail")
         /\ files' = [files EXCEPT !.request = IF kind = "uninstall" THEN "none" ELSE @]
    /\ Fault
    /\ UNCHANGED <<service, changes>>

(* The goroutine of startCommand hands over the result.                    *)
PostResult ==
    /\ step \in {"ok", "fail"}
    /\ results' = Append(results, [id |-> active, ok |-> step = "ok", release |-> TRUE])
    /\ step' = "posted"
    /\ UNCHANGED <<enrollment, controller, wires, process, active, awaiting, state, host, bounds>>

SendResult_OnlyOwn ==
    /\ stream # 0 /\ results # <<>>
    /\ results' = Tail(results)
    /\ up' = [up EXCEPT ![stream] = Append(@, [id |-> Head(results).id, ok |-> Head(results).ok])]
    /\ awaiting' = IF Head(results).release THEN awaiting \cup {Head(results)} ELSE awaiting
    /\ UNCHANGED <<enrollment, controller, down, stream, overtaken, process, active, step, state,
                   host, bounds>>

SendResult ==
    /\ stream # 0 /\ results # <<>>
    /\ results' = Tail(results)
    /\ up' = [up EXCEPT ![stream] = Append(@, [id |-> Head(results).id, ok |-> Head(results).ok])]
    /\ awaiting' = awaiting \cup {Head(results)}
    /\ UNCHANGED <<enrollment, controller, down, stream, overtaken, process, active, step, state,
                   host, bounds>>

(* stream.Send fails: the command is released, its result is dropped.      *)
SendFails ==
    /\ stream # 0 /\ results # <<>> /\ Fault
    /\ stream' = 0 /\ down' = <<>>
    /\ results' = Tail(results) \o SetToSeq(awaiting)
    /\ awaiting' = {}
    /\ IF Head(results).release
       THEN active' = 0 /\ step' = "none"
       ELSE UNCHANGED <<active, step>>
    /\ UNCHANGED <<enrollment, controller, up, overtaken, process, state, host, changes>>

(* finalize of a successful uninstallation: the state directory, with the  *)
(* identity in it, and then the process.                                   *)
RemoveAgent ==
    /\ Exit("gone")
    /\ LoseFiles(NodeHost)
    /\ files' = [files EXCEPT !.request = "none", !.staged = "none", !.previous = "none"]
    /\ applied' = FALSE
    /\ UNCHANGED <<node, tokens, keys, made, attempt, requests, reply, installs>>

(* An ACK: finalize, then release.  An upgraded Agent restarts itself, an  *)
(* uninstalled one removes itself.                                         *)
ReceiveAck ==
    /\ down # <<>> /\ Head(down).event = "ack"
    /\ \E c \in awaiting :
         /\ c.id = Head(down).id
         /\ CASE c.ok /\ request[c.id].kind = "uninstall" -> RemoveAgent
              [] c.ok /\ request[c.id].kind = "upgrade" ->
                    Exit("down") /\ UNCHANGED <<enrollment, applied, files>>
              [] OTHER ->
                    /\ down' = Tail(down)
                    /\ awaiting' = awaiting \ {c}
                    /\ IF c.release THEN active' = 0 /\ step' = "none"
                                    ELSE UNCHANGED <<active, step>>
                    /\ UNCHANGED <<enrollment, stream, process, results, applied, files>>
    /\ UNCHANGED <<controller, up, overtaken, planned, desired, service, bounds>>

AgentCrash ==
    /\ process = "up" /\ Fault
    /\ Exit("down")
    /\ UNCHANGED <<enrollment, controller, up, overtaken, state, host, changes>>

(* The process is told to stop while a command hands over its result:      *)
(* finalize runs although no result was sent.                              *)
Shutdown ==
    /\ process = "up" /\ step = "ok" /\ ActiveKind = "uninstall" /\ Fault
    /\ RemoveAgent
    /\ UNCHANGED <<controller, up, overtaken, planned, desired, service, changes>>

(* systemd: Restart=always, as long as there is something to start; also   *)
(* the activation of the service by runInstall.                            *)
Restart ==
    /\ process = "down" /\ files.binary # "none" /\ identity[NodeHost] # NoKey
    /\ process' = "up"
    /\ UNCHANGED <<enrollment, controller, wires, active, step, results, awaiting, state, host,
                   bounds>>

---------------------------------------------------------------------------
(* The maintenance service: Apply of maintenance/apply_linux.go.           *)

(* The service run ends; whoever waits for it is told.                     *)
Ends(ok) ==
    /\ service' = "idle"
    /\ step' = IF step = "wait" THEN (IF ok THEN "ok" ELSE "fail") ELSE step
    \* a failed uninstallation takes its request back
    /\ files' = [files EXCEPT !.request =
                    IF ~ ok /\ step = "wait" /\ ActiveKind = "uninstall" THEN "none" ELSE @]

Goes(to) == service' = to /\ UNCHANGED step

LoadRequest ==
    /\ service = "load"
    /\ CASE files.request = "uninstall" -> Goes("remove") /\ UNCHANGED files
         [] files.request = "upgrade" /\ files.staged # "none" -> Goes("backup") /\ UNCHANGED files
         [] OTHER -> Ends(FALSE)

(* applyUpgrade: copy the current binary, install the new one, run it.     *)
Backup ==
    /\ service = "backup"
    /\ IF files.binary = "none"
       THEN Ends(FALSE)
       ELSE Goes("install") /\ files' = [files EXCEPT !.previous = files.binary]

InstallStaged ==
    /\ service = "install"
    /\ IF files.staged = "none"
       THEN Ends(FALSE)
       ELSE Goes("verify") /\ files' = [files EXCEPT !.binary = files.staged]

VerifyVersion_Skipped ==
    /\ service = "verify"
    /\ service' = "idle"
    /\ step' = IF step = "wait" THEN "ok" ELSE step
    /\ files' = [files EXCEPT !.request = "none", !.staged = "none"]

VerifyVersion ==
    /\ service = "verify"
    /\ IF files.binary = "good"
       THEN /\ service' = "idle"
            /\ step' = IF step = "wait" THEN "ok" ELSE step
            /\ files' = [files EXCEPT !.request = "none", !.staged = "none"]
       ELSE Goes("rollback") /\ UNCHANGED files

Rollback ==
    /\ service = "rollback"
    /\ service' = "idle"
    /\ step' = IF step = "wait" THEN "fail" ELSE step
    /\ files' = [files EXCEPT !.binary = IF files.previous = "none" THEN @ ELSE files.previous]

(* applyUninstall: it may fail before or after the files are gone.  The    *)
(* request is left to the command that waits for it.                       *)
RemoveFiles ==
    /\ service = "remove"
    /\ \/ /\ service' = "idle"
          /\ step' = IF step = "wait" THEN "ok" ELSE step
          /\ files' = [files EXCEPT !.request = "none", !.binary = "none"]
          /\ UNCHANGED faults
       \/ /\ Fault
          /\ service' = "idle"
          /\ step' = IF step = "wait" THEN "fail" ELSE step
          /\ \E b \in {files.binary, "none"} :
                files' = [files EXCEPT !.binary = b, !.request =
                            IF step = "wait" /\ ActiveKind = "uninstall" THEN "none" ELSE @]

Maintenance ==
    /\ \/ (LoadRequest \/ Backup \/ InstallStaged \/ VerifyVersion \/ Rollback) /\ UNCHANGED faults
       \/ RemoveFiles
    /\ UNCHANGED <<enrollment, controller, wires, process, active, results, awaiting, state,
                   changes>>

---------------------------------------------------------------------------
Execute ==
    \/ executeTCPCheck \/ StageUpgrade \/ CheckUninstall \/ WriteRequest \/ PurgeNode
    \/ StartService \/ PostResult

AgentStep == Execute \/ ReceiveCommand \/ ReceiveAck \/ SendResult \/ OpenSession

Greet(s) == AuthorizeHello(s) \/ RecordsHello(s) \/ Register(s)

ControllerStep ==
    \/ \E s \in Streams : Greet(s) \/ SendCommand(s) \/ HandleResult(s) \/ CloseHandler(s)
    \/ Deauthorize
    \/ \E r \in Requests : Respond(r)

HostStep == Maintenance \/ Restart \/ HostStops

Hosting ==
    /\ EnrollmentNext
    /\ UNCHANGED <<controller, wires, agent, state, host, bounds>>

Next ==
    \/ Hosting
    \/ AgentStep \/ ControllerStep \/ HostStep
    \/ Disconnect \/ ControllerCrash \/ AgentCrash \/ Shutdown
    \/ \E s \in Streams : RefuseResult(s)
    \/ \E r \in Requests :
         \/ \E kind \in {"check", "upgrade"} : Command(r, kind)
         \/ UninstallNode(r) \/ waitForRetiredNode(r) \/ Timeout(r)
    \/ ChangePlan \/ ApplySnapshot
    \/ ReceiveExpired \/ StartTimesOut \/ SendFails

(* Each side goes on while it has something to do: the Agent executes its  *)
(* command, reads and sends, and dials again (Run); the handlers of the    *)
(* Controller are scheduled and notice that their stream has ended;        *)
(* systemd restarts the Agent and runs its services.  Nothing is assumed   *)
(* of the operators.                                                       *)
Fairness == WF_vars(AgentStep) /\ WF_vars(ControllerStep) /\ WF_vars(HostStep)

Spec == Init /\ [][Next]_vars /\ Fairness

---------------------------------------------------------------------------
(* Properties.                                                             *)

(* A stream that has come as far as Register is the one the Controller     *)
(* sends commands through, until it ends: neither the late return of the   *)
(* handler of an older stream nor one that never registered unregisters it *)
(* (the deferred unregister).  The exception is a handler that registers   *)
(* late: it replaces the stream of the Agent although that one is newer,   *)
(* and leaves no connection when it returns.                               *)
Commandable == stream \in registered /\ ~ overtaken => broker = stream

(* An ACK that reaches the Agent is for a result it still waits for, so no *)
(* late, repeated or busy answer ends the session ("The late response is   *)
(* harmless and must not tear down the node stream").                      *)
AcksAwaited ==
    \A i \in 1 .. Len(down) :
        down[i].event = "ack" => \E c \in awaiting : c.id = down[i].id

(* When the Agent has removed itself, its identity is revoked, or the      *)
(* handler that asked for it has still to do so.  The exceptions are the   *)
(* ones the handler cannot repair: it has given up, the Controller died or *)
(* the revocation failed (handleUninstallNode).                            *)
RemovedIsRevoked ==
    process = "gone" =>
        \/ node.revoked
        \/ \E r \in Requests :
              /\ request[r].kind = "uninstall"
              /\ request[r].at \in {"pending", "answered", "lost", "timeout", "crashed", "unsaved"}

(* An Agent that removes itself carries no forwards, not even ones that    *)
(* were published to it while it was uninstalling itself.                  *)
RemovedUnused ==
    [][process' = "gone" /\ process # "gone" => ~ applied]_vars

(* An upgrade that reports success leaves a binary that runs: not one      *)
(* whose verification failed, also when another run of the service was     *)
(* under way (applyUpgrade).                                               *)
UpgradedRuns ==
    (\/ step = "ok" /\ ActiveKind = "upgrade"
     \/ \E c \in awaiting \cup ToSet(results) : c.ok /\ request[c.id].kind = "upgrade")
    => files.binary # "bad"

(* No command makes the Agent busy for ever: whatever is lost, it is       *)
(* released by an ACK, by a failing send or by the end of the process.     *)
BusyEnds == active # 0 ~> active = 0
=============================================================================
