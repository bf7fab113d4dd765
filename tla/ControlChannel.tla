--------------------------- MODULE ControlChannel ---------------------------
(***************************************************************************)
(* How a desired state gets from the Controller to one Agent and how the   *)
(* Controller learns what the Agent runs: the generations of a node and    *)
(* RecordApplyResult (internal/controller/store/store.go), the stream      *)
(* handler (internal/controller/control/server.go) and the Agent's session *)
(* and maintenance goroutines (internal/agent/controlclient/runner.go).    *)
(*                                                                         *)
(* The Agent's record is that of module AgentRecord.  Streams are FIFO and *)
(* may break at any time; the handler of a broken stream may still record  *)
(* what it had received while the next session is running.  The Controller *)
(* may be moved to another machine by an online backup and a restore.      *)
(*                                                                         *)
(* A definition named X_Y is X with a plausible mistake Y; it is not part  *)
(* of the specification.                                                   *)
(***************************************************************************)
EXTENDS Naturals, Sequences, SequencesExt

CONSTANTS
    Content,     \* what a desired state says, apart from its generation
    Forced,      \* contents with a force_deleting forward
    Cleaned,     \* a content without its force_deleting forwards
    MaxGen,      \* bound on generations
    MaxUplink,   \* bound on the Agent's events in a stream
    MaxFaults    \* bound on failures, crashes and broken streams

ASSUME ContentAssumption ==
    /\ Forced \subseteq Content
    /\ Cleaned \in [Forced -> Content \ Forced]

ASSUME BoundAssumption ==
    /\ MaxGen \in Nat \ {0}
    /\ MaxUplink \in Nat \ {0}
    /\ MaxFaults \in Nat

VARIABLES
    gens,         \* Controller, durable: content, status and cause of each generation
    nodeApplied,  \* Controller, durable: nodes.applied_generation
    conn,         \* Controller: the connectionState of the current stream
    dataLoss,     \* Controller: a stream was refused with DataLoss
    backup,       \* the archive of the store, or NoBackup
    restored,     \* ghost: whether the store has been restored, and from an
                  \* archive that lacked some generations
    applied,      \* Agent, durable
    pending,      \* Agent, durable
    up,           \* Agent: start-up recovery has succeeded
    connected,    \* Agent: a session is open
    localResult,  \* Agent: the localResults channel, or Empty
    uplink,       \* events in the current stream
    downlink,     \* snapshots in the current stream
    late,         \* results in ended streams whose handler may still read them
    faults        \* failures so far

store == <<gens, nodeApplied>>
migration == <<backup, restored>>
record == <<applied, pending>>
vars == <<gens, nodeApplied, conn, dataLoss, backup, restored, applied, pending, up,
          connected, localResult, uplink, downlink, late, faults>>

-----------------------------------------------------------------------------
Generation == 1 .. MaxGen

(* A checksum covers generation and content.                               *)
Desired == [gen : Generation, content : Content]
Empty == [gen |-> 0, content |-> "none"]

Status == {"waiting", "applied", "retryable", "permanent"}
Results == [kind : Status \ {"waiting"}, desired : Desired]
Hello(d) == [kind |-> "hello", desired |-> d]
Result(kind, d) == [kind |-> kind, desired |-> d]

(* retry is the retryAfter time: not set, in the future, or past.          *)
Closed == [open |-> FALSE, applied |-> Empty, lastSent |-> 0, blocked |-> 0, retry |-> "none"]
Opened(d) == [Closed EXCEPT !.open = TRUE, !.applied = d]

NoBackup == [gens |-> <<>>, nodeApplied |-> MaxGen + 1]

TypeOK ==
    /\ gens \in Seq([content : Content, status : Status, cause : 0 .. MaxGen])
    /\ Len(gens) <= MaxGen
    /\ nodeApplied \in 0 .. MaxGen
    /\ conn \in [open : BOOLEAN, applied : Desired \cup {Empty}, lastSent : 0 .. MaxGen,
                 blocked : 0 .. MaxGen, retry : {"none", "waiting", "due"}]
    /\ dataLoss \in BOOLEAN
    /\ backup = NoBackup \/ Len(backup.gens) <= MaxGen
    /\ restored \in {"no", "exact", "lossy"}
    /\ applied \in Desired \cup {Empty}
    /\ pending \in Desired \cup {Empty}
    /\ up \in BOOLEAN
    /\ connected \in BOOLEAN
    /\ localResult \in Desired \cup {Empty}
    /\ uplink \in Seq(Results \cup {Hello(d) : d \in Desired \cup {Empty}})
    /\ downlink \in Seq(Desired)
    /\ late \subseteq Results
    /\ faults \in 0 .. MaxFaults

Init ==
    /\ gens = <<>>
    /\ nodeApplied = 0
    /\ conn = Closed
    /\ dataLoss = FALSE
    /\ backup = NoBackup
    /\ restored = "no"
    /\ applied = Empty
    /\ pending = Empty
    /\ up = FALSE
    /\ connected = FALSE
    /\ localResult = Empty
    /\ uplink = <<>>
    /\ downlink = <<>>
    /\ late = {}
    /\ faults = 0

Fault == faults < MaxFaults /\ faults' = faults + 1

-----------------------------------------------------------------------------
(* The Controller's store.                                                 *)

Latest_OldestWaiting ==
    LET gen == CHOOSE g \in DOMAIN gens :
                  \/ gens[g].status = "waiting" /\ \A h \in 1 .. g - 1 : gens[h].status # "waiting"
                  \/ g = Len(gens) /\ \A h \in DOMAIN gens : gens[h].status # "waiting"
    IN  [gen |-> gen, content |-> gens[gen].content]

Latest == [gen |-> Len(gens), content |-> gens[Len(gens)].content]

(* cause is the generation whose force deletion this one completes, or 0.  *)
publishDesiredTx(before, content, cause) ==
    gens' = Append(before, [content |-> content, status |-> "waiting", cause |-> cause])

(* The bound leaves room for the generation that completes a force delete. *)
PublishDesired(content) ==
    /\ Len(gens) < IF content \in Forced THEN MaxGen - 1 ELSE MaxGen
    /\ publishDesiredTx(gens, content, 0)
    /\ UNCHANGED <<nodeApplied, conn, dataLoss, migration, record, up, connected, localResult,
                   uplink, downlink, late, faults>>

(* ErrGenerationMissing and ErrChecksumMismatch otherwise.                 *)
KnownGeneration_LatestOnly(d) == gens # <<>> /\ d = Latest
KnownGeneration(d) == d.gen \in DOMAIN gens /\ gens[d.gen].content = d.content

(* "applied" is never overwritten by a later error.                        *)
WithStatus(result) ==
    LET gen == result.desired.gen
    IN  IF gens[gen].status = "applied" THEN gens
        ELSE [gens EXCEPT ![gen].status = result.kind]

(* The generation a result completes: the removal of its force_deleting    *)
(* forwards is published exactly when it is still the desired one.         *)
CompletesForce_AnyGeneration(result) ==
    /\ result.kind = "applied"
    /\ result.desired.content \in Forced

CompletesForce(result) ==
    /\ result.kind = "applied"
    /\ result.desired.gen = Len(gens)
    /\ result.desired.content \in Forced

(* UPDATE nodes ... WHERE applied_generation <= the generation applied.    *)
AppliedColumn_LastWriter(result) ==
    nodeApplied' = IF result.kind = "applied" THEN result.desired.gen ELSE nodeApplied

AppliedColumn(result) ==
    nodeApplied' = IF result.kind = "applied" /\ nodeApplied <= result.desired.gen
                   THEN result.desired.gen ELSE nodeApplied

RecordApplyResult(result) ==
    /\ AppliedColumn(result)
    /\ IF CompletesForce(result)
       THEN publishDesiredTx(WithStatus(result), Cleaned[result.desired.content], result.desired.gen)
       ELSE gens' = WithStatus(result)

-----------------------------------------------------------------------------
(* Sessions.                                                               *)

(* The Agent opens a stream, reports its record and repeats its last ACK.  *)
DurableAck_Never == <<>>
DurableAck == IF applied = Empty THEN <<>> ELSE <<Result("applied", applied)>>

Connect ==
    /\ up
    /\ ~connected
    /\ connected' = TRUE
    /\ uplink' = <<Hello(applied)>> \o DurableAck
    /\ UNCHANGED <<store, conn, dataLoss, migration, record, up, localResult, downlink, late, faults>>

EndSession ==
    /\ connected' = FALSE
    /\ conn' = Closed
    /\ uplink' = <<>>
    /\ downlink' = <<>>
    /\ late' = late \cup {m \in ToSet(uplink) : m.kind # "hello"}

(* The stream is refused with DataLoss, which the Agent takes as fatal:    *)
(* the process exits and is started again.                                 *)
Refuse ==
    /\ dataLoss' = TRUE
    /\ EndSession
    /\ up' = FALSE
    /\ localResult' = Empty

Disconnect ==
    /\ connected
    /\ Fault
    /\ EndSession
    /\ UNCHANGED <<store, dataLoss, migration, record, up, localResult>>

(* What sendLatest does with the latest snapshot: the Agent is ahead of    *)
(* the Controller or disagrees with it, or the snapshot is to be sent.     *)
Disagrees(state) ==
    /\ gens # <<>>
    /\ \/ Len(gens) < state.applied.gen
       \/ Len(gens) = state.applied.gen /\ Latest # state.applied

ToSend(state) ==
    /\ gens # <<>>
    /\ Len(gens) > state.applied.gen
    /\ state.blocked # Len(gens)
    /\ state.lastSent = Len(gens) => state.retry = "due"

(* The three ways sendLatest ends, in a stream whose state is state.       *)
sendLatest(state) ==
    \/ /\ Disagrees(state)
       /\ Refuse
    \/ /\ ~Disagrees(state)
       /\ ToSend(state)
       /\ downlink' = Append(downlink, Latest)
       /\ conn' = [state EXCEPT !.lastSent = Len(gens), !.retry = "none"]
       /\ UNCHANGED <<dataLoss, connected, up, localResult, late>>
    \/ /\ ~Disagrees(state)
       /\ ~ToSend(state)
       /\ conn' = state
       /\ UNCHANGED <<dataLoss, downlink, connected, up, localResult, late>>

HandleHello ==
    /\ uplink # <<>> /\ Head(uplink).kind = "hello"
    /\ sendLatest(Opened(Head(uplink).desired))
    /\ connected' => uplink' = Tail(uplink)
    /\ UNCHANGED <<store, migration, record, faults>>

(* A notification or the poll timer.                                       *)
Poll ==
    /\ conn.open
    /\ sendLatest(conn)
    /\ connected' => UNCHANGED uplink
    /\ UNCHANGED <<store, migration, record, faults>>

RetryDelay ==
    /\ conn.retry = "waiting"
    /\ conn' = [conn EXCEPT !.retry = "due"]
    /\ UNCHANGED <<store, dataLoss, migration, record, up, connected, localResult,
                   uplink, downlink, late, faults>>

StateAfter(result) ==
    CASE result.kind = "applied"   -> [conn EXCEPT !.applied = result.desired, !.blocked = 0]
      [] result.kind = "retryable" -> [conn EXCEPT !.retry = "waiting"]
      [] result.kind = "permanent" -> [conn EXCEPT !.blocked = result.desired.gen]

HandleApplyResult ==
    /\ conn.open
    /\ uplink # <<>>
    /\ \/ /\ KnownGeneration(Head(uplink).desired)
          /\ RecordApplyResult(Head(uplink))
          /\ conn' = StateAfter(Head(uplink))
          /\ uplink' = Tail(uplink)
          /\ UNCHANGED <<dataLoss, connected, up, localResult, downlink, late>>
       \/ /\ ~KnownGeneration(Head(uplink).desired)
          /\ Refuse
          /\ UNCHANGED store
    /\ UNCHANGED <<migration, record, faults>>

(* The handler of an ended stream goes on with what it has received.       *)
HandleLate(result) ==
    /\ KnownGeneration(result.desired)
    /\ RecordApplyResult(result)
    /\ UNCHANGED <<conn, dataLoss, migration, record, up, connected, localResult,
                   uplink, downlink, late, faults>>

(* archive.Create copies the running store; archive.Restore installs the   *)
(* copy in another place once the Controller has been stopped.  Bound: one *)
(* migration.                                                              *)
Backup ==
    /\ backup = NoBackup
    /\ restored = "no"
    /\ backup' = [gens |-> gens, nodeApplied |-> nodeApplied]
    /\ UNCHANGED <<store, conn, dataLoss, restored, record, up, connected, localResult,
                   uplink, downlink, late, faults>>

Restore ==
    /\ backup # NoBackup
    /\ gens' = backup.gens
    /\ nodeApplied' = backup.nodeApplied
    /\ backup' = NoBackup
    /\ restored' = IF Len(gens') = Len(gens) THEN "exact" ELSE "lossy"
    /\ connected' = FALSE
    /\ conn' = Closed
    /\ uplink' = <<>>
    /\ downlink' = <<>>
    /\ late' = {}
    /\ UNCHANGED <<dataLoss, record, up, localResult, faults>>

-----------------------------------------------------------------------------
(* The Agent.                                                              *)

Record == INSTANCE AgentRecord

Reply(kind) == uplink' = Append(uplink, Result(kind, Head(downlink)))

(* applySnapshot: installed; accepted, then failed; or refused, for a      *)
(* reason that may go away (retryable) or that it takes for lasting        *)
(* (permanent: stale, conflicting, unsupported, a foreign table).          *)
applySnapshot ==
    /\ connected
    /\ downlink # <<>>
    /\ \/ /\ Record!Install(Head(downlink))
          /\ Reply("applied")
          /\ UNCHANGED faults
       \/ /\ Record!Accept(Head(downlink))
          /\ Fault
          /\ Reply("retryable")
       \/ /\ Record!Acceptable(Head(downlink))
          /\ Fault
          /\ Reply("retryable") \/ Reply("permanent")
          /\ UNCHANGED record
       \/ /\ ~Record!Acceptable(Head(downlink))
          /\ Reply("permanent")
          /\ UNCHANGED <<record, faults>>
    /\ downlink' = Tail(downlink)
    /\ UNCHANGED <<store, conn, dataLoss, migration, up, connected, localResult, late>>

InstallPending == IF pending # Empty THEN Record!Install(pending) ELSE UNCHANGED record

(* Audit or Refresh changed the kernel, and installed what was pending, if *)
(* anything was.  The channel holds one result; a newer one displaces it.  *)
Maintain ==
    /\ up
    /\ applied # Empty \/ pending # Empty
    /\ Len(uplink) < MaxUplink
    /\ InstallPending
    /\ localResult' = applied'
    /\ UNCHANGED <<store, conn, dataLoss, migration, up, connected, uplink, downlink, late, faults>>

(* The session takes the result; it is sent if it is still what is applied.*)
resultIsCurrent_Unchecked == TRUE
resultIsCurrent == localResult = applied

SendLocalResult ==
    /\ connected
    /\ localResult # Empty
    /\ uplink' = IF resultIsCurrent THEN Append(uplink, Result("applied", localResult)) ELSE uplink
    /\ localResult' = Empty
    /\ UNCHANGED <<store, conn, dataLoss, migration, record, up, connected, downlink, late, faults>>

Crash ==
    /\ up
    /\ Fault
    /\ EndSession
    /\ up' = FALSE
    /\ localResult' = Empty
    /\ UNCHANGED <<store, dataLoss, migration, record>>

(* Start-up installs what is pending before the Agent connects.            *)
Recover ==
    /\ ~up
    /\ up' = TRUE
    /\ InstallPending
    /\ UNCHANGED <<store, conn, dataLoss, migration, connected, localResult,
                   uplink, downlink, late, faults>>

-----------------------------------------------------------------------------
Next ==
    \/ \E content \in Content : PublishDesired(content)
    \/ Connect \/ HandleHello \/ Poll \/ RetryDelay \/ HandleApplyResult
    \/ \E result \in late : HandleLate(result)
    \/ applySnapshot \/ Maintain \/ SendLocalResult
    \/ Disconnect \/ Crash \/ Recover
    \/ Backup \/ Restore

Spec == Init /\ [][Next]_vars

(* The Agent starts and connects again, both loops handle what they have   *)
(* received, the poll and retry timers fire, and so does the audit timer   *)
(* while something is pending.  Nothing is assumed of operators or of the  *)
(* handlers of ended streams.                                              *)
Fairness ==
    /\ WF_vars(Recover) /\ WF_vars(Connect) /\ WF_vars(HandleHello) /\ WF_vars(Poll)
    /\ WF_vars(RetryDelay) /\ WF_vars(HandleApplyResult) /\ WF_vars(applySnapshot)
    /\ WF_vars(SendLocalResult) /\ WF_vars(Maintain /\ pending # Empty)

FairSpec == Spec /\ Fairness

-----------------------------------------------------------------------------
(* Properties.                                                             *)

(* The Controller never shows a generation as applied that the Agent has   *)
(* not made durable, whatever order late, repeated and local results       *)
(* arrive in; and the row it shows is the newest it has been told of.      *)
ControllerNotAhead ==
    /\ nodeApplied <= applied.gen
    /\ \A g \in DOMAIN gens : gens[g].status = "applied" => g <= nodeApplied

(* A snapshot under way is never refused as stale or conflicting: it       *)
(* cannot be overtaken by what the Agent installs on its own.              *)
SnapshotsAcceptable ==
    restored # "lossy" => \A i \in DOMAIN downlink : Record!Acceptable(downlink[i])

(* Controller and Agent never disagree about a generation, so no stream is *)
(* refused for good, unless a restore has lost generations; losing only    *)
(* the record of ACKs does no harm.                                        *)
NeverDataLoss == dataLoss => restored = "lossy"

(* The removal of force-deleted forwards is published once, right after    *)
(* the generation it completes: a repeated or late ACK neither repeats it  *)
(* nor overwrites what was published since.                                *)
CleanupFollowsForced ==
    \A g \in DOMAIN gens : gens[g].cause # 0 =>
        /\ gens[g].cause = g - 1
        /\ gens[g - 1].status = "applied"

(* Within a stream the Controller's view of the Agent never goes back,     *)
(* though results of the session and of the maintenance goroutine mix.     *)
SessionAdvances ==
    [][ conn.open /\ conn'.open => conn'.applied.gen >= conn.applied.gen ]_vars

(* When nothing more is published and failures stop, the Agent runs the    *)
(* desired state and the Controller knows it, or the Controller shows an   *)
(* error that the Agent called permanent.  Only a lossy restore keeps both *)
(* from happening.                                                         *)
Learned ==
    \/ <>(restored = "lossy")
    \/ <>[](gens # <<>> /\ gens[Len(gens)].status = "permanent")
    \/ <>[](nodeApplied = Len(gens) /\ applied.gen = Len(gens))

=============================================================================
