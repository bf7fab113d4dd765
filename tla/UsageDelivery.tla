---------------------------- MODULE UsageDelivery ----------------------------
(***************************************************************************)
(* Delivery of usage from the Agent to the Controller: the durable outbox  *)
(* (CollectUsage, PendingUsage and AckUsage of internal/agent/             *)
(* reconciler.go), the session that sends it and receives the ACKs         *)
(* (internal/agent/controlclient/runner.go) and the Controller's handler   *)
(* and transaction (handleEvent of internal/controller/control/server.go,  *)
(* RecordUsageBatch of internal/controller/store/store.go).                *)
(*                                                                         *)
(* The whole outbox is sent on every connection and again after every      *)
(* collection, so one batch may be under way many times, in the current    *)
(* stream and in streams that have ended.  Each stream is FIFO in both     *)
(* directions.  A batch is known by its sequence number, which no epoch    *)
(* ever uses again; the amount in it plays no role here.                   *)
(*                                                                         *)
(* A definition named X_Y is X with a plausible mistake Y; it is not part  *)
(* of the specification.                                                   *)
(***************************************************************************)
EXTENDS Naturals, Sequences, SequencesExt

CONSTANTS
    MaxSeq,      \* bound on batches
    MaxOutbox,   \* MaxUsageOutbox: no collection when the outbox is this long
    Window,      \* bound on messages in a stream when the outbox is sent again
    MaxClock,    \* bound on outages of more than ten minutes
    MaxFaults    \* bound on crashes, broken streams and failing transactions

ASSUME DeliveryAssumption ==
    /\ MaxSeq \in Nat
    /\ MaxOutbox \in Nat \ {0}
    /\ Window \in Nat \ {0}
    /\ MaxClock \in Nat
    /\ MaxFaults \in Nat

VARIABLES
    outbox,     \* Agent, durable: the batches not yet acknowledged, in order
    collected,  \* Agent, durable: the sequence number of the last batch
    ready,      \* Agent: the usageReady signal is pending
    connected,  \* the Agent has a session
    uplink,     \* batches in the current stream
    downlink,   \* ACKs in the current stream
    late,       \* batches in ended streams whose handler may still read them
    recorded,   \* Controller, durable: the keys in usage_batches
    rollup,     \* Controller, durable: batches added to usage_rollups
    clock,      \* outages of more than ten minutes so far
    faults      \* failures so far

agent == <<outbox, collected>>
session == <<connected, uplink, downlink, late>>
controller == <<recorded, rollup>>
vars == <<outbox, collected, ready, connected, uplink, downlink, late,
          recorded, rollup, clock, faults>>

Batch == [seq : 1 .. MaxSeq, born : 0 .. MaxClock]

TypeOK ==
    /\ outbox \in Seq(Batch) /\ Len(outbox) <= MaxOutbox
    /\ collected \in 0 .. MaxSeq
    /\ ready \in BOOLEAN
    /\ connected \in BOOLEAN
    /\ uplink \in Seq(Batch)
    /\ downlink \in Seq(1 .. MaxSeq)
    /\ late \subseteq Batch
    /\ recorded \subseteq 1 .. MaxSeq
    /\ rollup \in Nat
    /\ clock \in 0 .. MaxClock
    /\ faults \in 0 .. MaxFaults

Init ==
    /\ outbox = <<>>
    /\ collected = 0
    /\ ready = FALSE
    /\ connected = FALSE
    /\ uplink = <<>>
    /\ downlink = <<>>
    /\ late = {}
    /\ recorded = {}
    /\ rollup = 0
    /\ clock = 0
    /\ faults = 0

Fault == faults < MaxFaults /\ faults' = faults + 1

-----------------------------------------------------------------------------
(* Collection.  A full outbox is an error; a reading without traffic adds  *)
(* no batch.                                                               *)

OutboxFull_OffByOne == Len(outbox) > MaxOutbox
OutboxFull == Len(outbox) >= MaxOutbox

Enqueue ==
    /\ ~OutboxFull
    /\ collected < MaxSeq
    /\ collected' = collected + 1
    /\ outbox' = Append(outbox, [seq |-> collected + 1, born |-> clock])

(* The usage timer, in a goroutine of its own: it signals the session      *)
(* whenever the outbox is not empty, also when it added nothing.           *)
CollectUsage_SignalsNewOnly ==
    \/ /\ ~OutboxFull
       /\ Enqueue \/ UNCHANGED agent
       /\ ready' = (ready \/ outbox' # outbox)
       /\ UNCHANGED <<session, controller, clock, faults>>
    \/ OutboxFull /\ UNCHANGED vars

CollectUsage ==
    \/ /\ ~OutboxFull
       /\ Enqueue \/ UNCHANGED agent
       /\ ready' = (ready \/ outbox' # <<>>)
       /\ UNCHANGED <<session, controller, clock, faults>>
    \/ OutboxFull /\ UNCHANGED vars

(* The reading before a program is replaced does not signal the session.   *)
CollectBeforeReplacement ==
    /\ Enqueue
    /\ UNCHANGED <<ready, session, controller, clock, faults>>

-----------------------------------------------------------------------------
(* The Agent's session.                                                    *)

(* PendingUsage is read once and its batches are sent in order.  A stream  *)
(* that breaks half way leaves some of them unread, like any other.        *)
sendUsage == uplink' = uplink \o outbox

(* Hello and the durable ACK have been sent; the whole outbox follows.     *)
Connect ==
    /\ ~connected
    /\ connected' = TRUE
    /\ sendUsage
    /\ UNCHANGED <<agent, ready, downlink, late, controller, clock, faults>>

UsageReady ==
    /\ connected
    /\ ready
    /\ Len(uplink) + Len(downlink) + Len(outbox) <= Window
    /\ ready' = FALSE
    /\ sendUsage
    /\ UNCHANGED <<agent, connected, downlink, late, controller, clock, faults>>

(* An ACK acknowledges the batch and everything before it; the ACK of a    *)
(* batch that is no longer there does nothing.                             *)
AckUsage(seq) ==
    outbox' = IF \E i \in DOMAIN outbox : outbox[i].seq = seq
              THEN SubSeq(outbox, 1 + CHOOSE i \in DOMAIN outbox : outbox[i].seq = seq, Len(outbox))
              ELSE outbox

ReceiveAck ==
    /\ connected
    /\ downlink # <<>>
    /\ AckUsage(Head(downlink))
    /\ downlink' = Tail(downlink)
    /\ UNCHANGED <<collected, ready, connected, uplink, late, controller, clock, faults>>

(* The stream ends.  What is in it may still reach the handler.            *)
EndSession ==
    /\ connected
    /\ connected' = FALSE
    /\ uplink' = <<>>
    /\ downlink' = <<>>
    /\ late' = late \cup ToSet(uplink)

Disconnect ==
    /\ Fault
    /\ EndSession
    /\ UNCHANGED <<agent, ready, controller, clock>>

(* The Agent process is killed and started again.                          *)
Crash ==
    /\ Fault
    /\ EndSession
    /\ ready' = FALSE
    /\ UNCHANGED <<agent, controller, clock>>

-----------------------------------------------------------------------------
(* The Controller.                                                         *)

(* A batch observed more than ten minutes ago is refused.                  *)
Timely(batch) == batch.born = clock

(* One transaction: the key is inserted and, if it was not there, the      *)
(* deltas are added to the rollups.                                        *)
RecordUsageBatch_NoConflict(batch) ==
    /\ recorded' = recorded \cup {batch.seq}
    /\ rollup' = rollup + 1

RecordUsageBatch(batch) ==
    /\ recorded' = recorded \cup {batch.seq}
    /\ rollup' = IF batch.seq \in recorded THEN rollup ELSE rollup + 1

(* The transaction is committed before the ACK is sent.                    *)
RecordThenAck_Reversed(batch) ==
    /\ downlink' = Append(downlink, batch.seq)
    /\ RecordUsageBatch(batch) \/ UNCHANGED controller

RecordThenAck(batch) ==
    /\ RecordUsageBatch(batch)
    /\ downlink' = Append(downlink, batch.seq)

HandleUsageBatch ==
    /\ uplink # <<>>
    /\ Timely(Head(uplink))
    /\ RecordThenAck(Head(uplink))
    /\ uplink' = Tail(uplink)
    /\ UNCHANGED <<agent, ready, connected, late, clock, faults>>

(* A failing transaction ends the stream with Unavailable: the Agent       *)
(* connects again.                                                         *)
HandleUsageFails ==
    /\ uplink # <<>>
    /\ Fault
    /\ EndSession
    /\ UNCHANGED <<agent, ready, controller, clock>>

(* A refused batch ends the stream with InvalidArgument, which the Agent   *)
(* takes as fatal: the process exits and is started again.                 *)
RefuseUsageBatch ==
    /\ uplink # <<>>
    /\ ~Timely(Head(uplink))
    /\ EndSession
    /\ ready' = FALSE
    /\ UNCHANGED <<agent, controller, clock, faults>>

(* The handler of an ended stream reads on; its ACK goes nowhere.          *)
HandleLate(batch) ==
    /\ batch \in late
    /\ Timely(batch)
    /\ RecordUsageBatch(batch)
    /\ UNCHANGED <<agent, ready, session, clock, faults>>

(* More than ten minutes without a session.                                *)
LongOutage ==
    /\ ~connected
    /\ clock < MaxClock
    /\ clock' = clock + 1
    /\ UNCHANGED <<agent, ready, session, controller, faults>>

-----------------------------------------------------------------------------
Next ==
    \/ CollectUsage \/ CollectBeforeReplacement
    \/ Connect \/ UsageReady \/ ReceiveAck
    \/ HandleUsageBatch \/ HandleUsageFails \/ RefuseUsageBatch
    \/ \E batch \in late : HandleLate(batch)
    \/ Disconnect \/ Crash \/ LongOutage

Spec == Init /\ [][Next]_vars

(* The Agent connects again after a back-off, its loop and the handler's   *)
(* loop run, and the usage timer fires.  The session's select picks among  *)
(* the cases that are ready at random, so none is passed over for ever:    *)
(* strong fairness for the two that another case can disable.  Nothing is  *)
(* assumed about ended streams.                                            *)
Fairness ==
    /\ WF_vars(Connect) /\ SF_vars(UsageReady) /\ SF_vars(ReceiveAck)
    /\ WF_vars(HandleUsageBatch) /\ WF_vars(RefuseUsageBatch)
    /\ WF_vars(CollectUsage)

FairSpec == Spec /\ Fairness

-----------------------------------------------------------------------------
(* Properties.                                                             *)

Undelivered == {b.seq : b \in ToSet(outbox)} \ recorded

L == INSTANCE Ledger WITH Batch <- 1 .. MaxSeq, due <- Undelivered, total <- rollup

(* Resending, duplicates, lost ACKs, late handlers and restarts do not     *)
(* show: seen from outside, a batch is due from the moment it is collected *)
(* until it is added to the bill, and it is added once.                    *)
ImplementsLedger == L!Spec

(* An ACK stands for all the batches before it, because a stream starts    *)
(* with the whole outbox and keeps its order: whatever ACK is under way,   *)
(* every batch it would make the Agent forget has been recorded.           *)
AckCoversPrefix ==
    \A a \in ToSet(downlink) : \A b \in ToSet(outbox) :
        b.seq <= a => b.seq \in recorded

(* Every batch collected is billed in the end, also one that was collected *)
(* before a replacement and is not signalled to the session, as long as no *)
(* outage exceeds the age limit and the outbox does not fill up            *)
(* (collectUsageLocked, sendUsage, handleEvent).                           *)
DeliveredInTime ==
    \A s \in 1 .. MaxSeq :
        (collected >= s) ~> (s \in recorded \/ clock > 0 \/ OutboxFull)

(* Every batch collected is billed in the end.                             *)
Delivered == \A s \in 1 .. MaxSeq : (collected >= s) ~> (s \in recorded)

=============================================================================
