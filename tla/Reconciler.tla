----------------------------- MODULE Reconciler -----------------------------
(***************************************************************************)
(* The Agent's reconciler (internal/agent/reconciler.go) together with the *)
(* durable record it owns (internal/agent/store.go) and the four kernel    *)
(* subsystems it drives: the nft table, the tc classes, the fabric links   *)
(* and conntrack (internal/dataplane).                                     *)
(*                                                                         *)
(* The subsystems share no kernel transaction.  A generation is installed  *)
(* by writing it to the durable record as "pending", changing the          *)
(* subsystems one after the other, verifying all of them and only then     *)
(* moving the generation from "pending" to "applied".  A command may fail  *)
(* half way, the process may be killed between any two commands, the host  *)
(* may reboot, and somebody may change the kernel behind the Agent's back. *)
(*                                                                         *)
(* Every operation runs under Reconciler.mu, so one is in progress at a    *)
(* time: op is that operation, one action per command it issues.  What is  *)
(* read before the first command (load, validate, compile, inspect,        *)
(* preflight) changes nothing and is one atomic step with the first write. *)
(*                                                                         *)
(* A definition named X_Y is not part of the specification: it is X with a *)
(* plausible mistake Y, which the properties below must tell from X.       *)
(***************************************************************************)
EXTENDS Naturals

CONSTANTS
    Content,      \* what a desired state says, apart from its generation
    Nothing,      \* the content with no forwards, links or rate limits
    Vacant,       \* contents without forwards
    Serving,      \* contents in which the tracked forward accepts traffic
    Forced,       \* contents in which that forward is force_deleting
    Timed,        \* contents in which it expires (or its drain ends)
    Link,         \* fabric interfaces
    Setting,      \* configurations of a fabric interface
    FabricOf,     \* the fabric program of a content
    Class,        \* tc classes
    TcOf,         \* the tc program of a content: the classes it needs
    Counter,      \* nft counters, one per metered forward
    CounterOf,    \* the counters in the nft program of a content
    MaxGen,       \* bound on generations
    MaxClock,     \* bound on lifecycle transitions caused by the wall clock
    MaxFaults     \* bound on failures, crashes, reboots and drift

NoLink == "none"

ASSUME ContentAssumption ==
    /\ Nothing \in Vacant
    /\ Vacant \subseteq Content
    /\ Serving \subseteq Content
    /\ Forced \subseteq Content
    /\ Timed \subseteq Content
    /\ Serving \cap Forced = {}
    /\ Vacant \cap (Serving \cup Forced) = {}

ASSUME ProgramAssumption ==
    /\ NoLink \notin Setting
    /\ FabricOf \in [Content -> [Link -> Setting \cup {NoLink}]]
    /\ FabricOf[Nothing] = [l \in Link |-> NoLink]
    /\ TcOf \in [Content -> SUBSET Class]
    /\ TcOf[Nothing] = {}
    /\ CounterOf \in [Content -> SUBSET Counter]
    /\ \A c \in Vacant : CounterOf[c] = {}

ASSUME BoundAssumption ==
    /\ MaxGen \in Nat \ {0}
    /\ MaxClock \in Nat
    /\ MaxFaults \in Nat

VARIABLES
    applied,   \* durable: the last snapshot committed, or Nil
    pending,   \* durable: the snapshot being installed, or Nil
    nft,       \* kernel: the table inet flux
    tc,        \* kernel: the tc classes present
    fabric,    \* kernel: the fabric links present
    flow,      \* kernel: conntrack has a flow through the tracked forward
    op,        \* the operation in progress, or Idle
    up,        \* start-up recovery has succeeded
    clock,     \* lifecycle transitions the wall clock has gone through
    faults,    \* failures so far
    faithful   \* ghost: nothing has disturbed the kernel, and no rollback
               \* command has failed, since the last commit

durable == <<applied, pending>>
kernel == <<nft, tc, fabric, flow>>
environment == <<up, clock, faults, faithful>>
vars == <<applied, pending, nft, tc, fabric, flow, op, up, clock, faults, faithful>>

-----------------------------------------------------------------------------
(* Snapshots.  A checksum is a hash of the canonical desired state, its    *)
(* generation included: two snapshots have equal checksums exactly when    *)
(* they have equal gen and content.  view stands for the program checksum, *)
(* which also depends on the effective lifecycle at compile time.          *)

Generation == 1 .. MaxGen

View(content, now) == IF content \in Timed THEN now ELSE 0

Nil == [gen |-> 0, content |-> Nothing, view |-> 0, cleaned |-> FALSE]

Snapshot == [gen : Generation, content : Content, view : 0 .. MaxClock, cleaned : BOOLEAN]

SameDesired(s, t) == s.gen = t.gen /\ s.content = t.content

SameProgram(s, t) == SameDesired(s, t) /\ s.view = t.view

(* The nft table is replaced in one kernel transaction, so it is either    *)
(* absent, one whole Flux program, or a table Flux did not create.         *)

Absent == [kind |-> "absent", gen |-> 0, content |-> Nothing, view |-> 0]
Foreign == [kind |-> "foreign", gen |-> 0, content |-> Nothing, view |-> 0]
Table(s) == [kind |-> "flux", gen |-> s.gen, content |-> s.content, view |-> s.view]

FluxTable == [kind : {"flux"}, gen : Generation, content : Content, view : 0 .. MaxClock]

Installed(s) == nft = Table(s)

(* tc -force -batch and ip -force -batch go on after an error: a failing   *)
(* batch leaves any part of its work done.  tc Verify sees only the classes*)
(* and only asks that the expected ones exist.                             *)

TcApplied(content) == TcOf[content]
TcBroken == SUBSET Class
TcVerified(content) == TcOf[content] \subseteq tc

(* Prepare adds or reconfigures the links of the target and deletes none;  *)
(* Cleanup deletes the links of previous that the target does not have.    *)
(* done is the set of links the batch got to.                              *)

FabricPrepared(content, done) ==
    [l \in Link |-> IF l \in done /\ FabricOf[content][l] # NoLink
                    THEN FabricOf[content][l] ELSE fabric[l]]

FabricCleaned(previous, target, done) ==
    [l \in Link |-> IF /\ l \in done
                       /\ FabricOf[previous][l] # NoLink
                       /\ FabricOf[target][l] = NoLink
                    THEN NoLink ELSE fabric[l]]

FabricVerified(content) ==
    \A l \in Link : FabricOf[content][l] # NoLink => fabric[l] = FabricOf[content][l]

-----------------------------------------------------------------------------
(* Operations in progress.                                                 *)

ConvergeSteps == {"prepare", "nft", "tc", "cleanup", "verify", "conntrack", "commit"}
RollbackSteps == {"rbPrepare", "rbNft", "rbTc", "rbCleanup"}
PurgeSteps == {"purgeNft", "purgeTc", "purgeCleanup", "purgeVerify"}

Idle ==
    [pc |-> "idle", target |-> Nil, now |-> 0, existed |-> FALSE,
     nftCurrent |-> FALSE, tcCurrent |-> FALSE, fabricCurrent |-> FALSE, purging |-> FALSE]

Running ==
    [pc : ConvergeSteps \cup RollbackSteps \cup PurgeSteps,
     target : Snapshot, now : 0 .. MaxClock, existed : BOOLEAN,
     nftCurrent : BOOLEAN, tcCurrent : BOOLEAN, fabricCurrent : BOOLEAN, purging : BOOLEAN]

TypeOK ==
    /\ applied \in Snapshot \cup {Nil}
    /\ pending \in Snapshot \cup {Nil}
    /\ nft \in FluxTable \cup {Absent, Foreign}
    /\ tc \subseteq Class
    /\ fabric \in [Link -> Setting \cup {NoLink}]
    /\ flow \in BOOLEAN
    /\ op \in Running \cup {Idle}
    /\ up \in BOOLEAN
    /\ clock \in 0 .. MaxClock
    /\ faults \in 0 .. MaxFaults
    /\ faithful \in BOOLEAN

Init ==
    /\ applied = Nil
    /\ pending = Nil
    /\ nft = Absent
    /\ tc = {}
    /\ fabric = [l \in Link |-> NoLink]
    /\ flow = FALSE
    /\ op = Idle
    /\ up = FALSE
    /\ clock = 0
    /\ faults = 0
    /\ faithful = TRUE

Goto(step) == op' = [op EXCEPT !.pc = step]

Fault == faults < MaxFaults /\ faults' = faults + 1

-----------------------------------------------------------------------------
(* converge: bring the kernel to target and commit it.                     *)

(* What Inspect refuses: a table that is not ours, a kernel that is ahead  *)
(* of the target and, for a snapshot from the Controller (enforced), the   *)
(* same generation with another checksum that the record does not know.    *)
KernelAccepts(target, enforced) ==
    /\ nft.kind # "foreign"
    /\ nft.kind = "flux" => nft.gen <= target.gen
    /\ enforced /\ nft.kind = "flux" /\ nft.gen = target.gen =>
          \/ nft.content = target.content
          \/ SameDesired(applied, target)
          \/ SameDesired(pending, target)

NftCurrent(target) == Installed(target)

TcCurrent(target) ==
    /\ applied.gen = target.gen
    /\ TcOf[applied.content] = TcOf[target.content]
    /\ TcVerified(target.content)

FabricCurrent(target) ==
    /\ applied # Nil
    /\ FabricOf[applied.content] = FabricOf[target.content]
    /\ FabricVerified(target.content)

CleanupNeeded(target) == target.content \in Forced /\ ~target.cleaned

RecordDiffers(target) ==
    \/ pending # Nil
    \/ ~SameProgram(applied, target)

(* Before another program replaces the applied one its counters are read   *)
(* for the last time (collectUsageLocked).  The read is an error when the  *)
(* applied program has counters and the kernel has none of them, and the   *)
(* error ends converge before anything is written.                         *)
CountersReadable(target) ==
    \/ applied = Nil
    \/ SameProgram(applied, target)
    \/ CounterOf[applied.content] = {}
    \/ nft.kind = "flux" /\ CounterOf[applied.content] \cap CounterOf[nft.content] # {}

(* Nothing to do in the kernel: the record alone is brought up to date.    *)
SaveCurrent(target) ==
    /\ NftCurrent(target) /\ TcCurrent(target) /\ FabricCurrent(target)
    /\ ~CleanupNeeded(target)
    /\ IF RecordDiffers(target)
       THEN applied' = target /\ pending' = Nil
       ELSE UNCHANGED durable
    /\ up' = TRUE
    /\ UNCHANGED <<kernel, op, clock, faults, faithful>>

(* What Inspect reports; the script then starts by deleting the table.     *)
TableExists_Assumed == TRUE
TableExists == nft.kind # "absent"

(* The write ahead of the first command.                                   *)
WriteAhead_Skipped(target) == UNCHANGED pending
WriteAhead(target) == pending' = target

(* Something differs: pending is made durable before the first command.    *)
(* A Verify that cannot run counts as drift, so tcSeen and fabricSeen may  *)
(* be FALSE although the subsystem is current.                             *)
SavePending(target) ==
    \E tcSeen, fabricSeen \in BOOLEAN :
       /\ tcSeen => TcCurrent(target)
       /\ fabricSeen => FabricCurrent(target)
       /\ ~(NftCurrent(target) /\ tcSeen /\ fabricSeen /\ ~CleanupNeeded(target))
       /\ CountersReadable(target)
       /\ (TcCurrent(target) /\ ~tcSeen) \/ (FabricCurrent(target) /\ ~fabricSeen)
             => faults < MaxFaults
       /\ WriteAhead(target)
       /\ op' = [pc |-> "prepare", target |-> target, now |-> clock,
                 existed |-> TableExists,
                 nftCurrent |-> NftCurrent(target), tcCurrent |-> tcSeen,
                 fabricCurrent |-> fabricSeen, purging |-> FALSE]
       /\ faults' = IF (TcCurrent(target) /\ ~tcSeen) \/ (FabricCurrent(target) /\ ~fabricSeen)
                    THEN faults + 1 ELSE faults
       /\ UNCHANGED <<applied, kernel, up, clock, faithful>>

(* An error before the first write leaves everything as it is; a Recover   *)
(* that ends this way ends the process, which is then started again.       *)
Refuse(target, enforced) ==
    /\ ~KernelAccepts(target, enforced) \/ ~CountersReadable(target)
    /\ UNCHANGED vars

converge(snapshot, enforced) ==
    LET target == [snapshot EXCEPT !.view = View(snapshot.content, clock)]
    IN  /\ op = Idle
        /\ \/ KernelAccepts(target, enforced) /\ SaveCurrent(target)
           \/ KernelAccepts(target, enforced) /\ SavePending(target)
           \/ Refuse(target, enforced)

(* A snapshot from the Controller.  It must not be older than what the     *)
(* record holds, nor contradict it at the same generation.                 *)
validateIncomingGeneration_PendingOnly(gen, content) ==
    /\ gen >= pending.gen
    /\ gen = pending.gen => content = pending.content

validateIncomingGeneration(gen, content) ==
    /\ gen >= applied.gen
    /\ gen = applied.gen => content = applied.content
    /\ gen >= pending.gen
    /\ gen = pending.gen => content = pending.content

Apply(gen, content) ==
    LET fresh == [gen |-> gen, content |-> content, view |-> 0, cleaned |-> FALSE]
        target == IF SameDesired(pending, fresh) THEN pending
                  ELSE IF SameDesired(applied, fresh) THEN applied
                  ELSE fresh
    IN  /\ up
        /\ validateIncomingGeneration(gen, content)
        /\ converge(target, TRUE)

Durable == IF pending # Nil THEN pending ELSE applied

(* Start-up.  The Agent exits when recovery fails and is started again; it *)
(* connects to the Controller and runs its timers only after it succeeded. *)
Recover ==
    /\ ~up
    /\ IF Durable = Nil
       THEN op = Idle /\ up' = TRUE /\ UNCHANGED <<durable, kernel, op, clock, faults, faithful>>
       ELSE converge(Durable, FALSE)

Audit ==
    /\ up
    /\ Durable # Nil
    /\ converge(Durable, FALSE)

Refresh ==
    /\ up
    /\ Durable # Nil
    /\ pending = Nil => applied.view # View(applied.content, clock)
    /\ converge(Durable, FALSE)

-----------------------------------------------------------------------------
(* The commands of converge, in the order they are issued.                 *)

StartRollback_Skipped == op' = Idle
StartRollback == Goto("rbPrepare")

FabricPrepare ==
    /\ op.pc = "prepare"
    /\ \/ /\ op.fabricCurrent
          /\ Goto("nft")
          /\ UNCHANGED <<fabric, faults>>
       \/ /\ ~op.fabricCurrent
          /\ fabric' = FabricPrepared(op.target.content, Link)
          /\ Goto("nft")
          /\ UNCHANGED faults
       \/ /\ ~op.fabricCurrent
          /\ Fault
          /\ \E done \in SUBSET Link : fabric' = FabricPrepared(op.target.content, done)
          /\ StartRollback
    /\ UNCHANGED <<durable, nft, tc, flow, up, clock, faithful>>

(* The script starts with "delete table inet flux" when Inspect saw the    *)
(* table; nft rejects the whole batch if the table has gone since.         *)
ScriptAccepted(existed) == existed => nft.kind # "absent"

NftApply ==
    /\ op.pc = "nft"
    /\ \/ /\ op.nftCurrent
          /\ Goto("tc")
          /\ UNCHANGED <<nft, faults>>
       \/ /\ ~op.nftCurrent
          /\ ScriptAccepted(op.existed)
          /\ nft' = Table(op.target)
          /\ Goto("tc")
          /\ UNCHANGED faults
       \/ /\ ~op.nftCurrent
          /\ IF ScriptAccepted(op.existed) THEN Fault ELSE UNCHANGED faults
          /\ StartRollback
          /\ UNCHANGED nft
    /\ UNCHANGED <<durable, tc, fabric, flow, up, clock, faithful>>

TcApply ==
    /\ op.pc = "tc"
    /\ \/ /\ op.tcCurrent
          /\ Goto("cleanup")
          /\ UNCHANGED <<tc, faults>>
       \/ /\ ~op.tcCurrent
          /\ tc' = TcApplied(op.target.content)
          /\ Goto("cleanup")
          /\ UNCHANGED faults
       \/ /\ ~op.tcCurrent
          /\ Fault
          /\ tc' \in TcBroken
          /\ StartRollback
    /\ UNCHANGED <<durable, nft, fabric, flow, up, clock, faithful>>

FabricCleanup ==
    /\ op.pc = "cleanup"
    /\ \/ /\ op.fabricCurrent
          /\ Goto("verify")
          /\ UNCHANGED <<fabric, faults>>
       \/ /\ ~op.fabricCurrent
          /\ fabric' = FabricCleaned(applied.content, op.target.content, Link)
          /\ Goto("verify")
          /\ UNCHANGED faults
       \/ /\ ~op.fabricCurrent
          /\ Fault
          /\ \E done \in SUBSET Link :
                fabric' = FabricCleaned(applied.content, op.target.content, done)
          /\ StartRollback
    /\ UNCHANGED <<durable, nft, tc, flow, up, clock, faithful>>

AllVerified(target) ==
    Installed(target) /\ TcVerified(target.content) /\ FabricVerified(target.content)

Verify ==
    /\ op.pc = "verify"
    /\ \/ /\ AllVerified(op.target)
          /\ Goto(IF CleanupNeeded(op.target) THEN "conntrack" ELSE "commit")
          /\ faithful' = TRUE
          /\ UNCHANGED faults
       \/ /\ IF AllVerified(op.target) THEN Fault ELSE UNCHANGED faults
          /\ StartRollback
          /\ UNCHANGED faithful
    /\ UNCHANGED <<durable, kernel, up, clock>>

(* A failing conntrack cleanup returns without rolling back: the new rules *)
(* already block the forward, and pending makes the cleanup run again.     *)
ConntrackDelete_ErrorIgnored ==
    /\ op.pc = "conntrack"
    /\ \/ flow' = FALSE /\ UNCHANGED faults
       \/ Fault /\ UNCHANGED flow
    /\ op' = [op EXCEPT !.pc = "commit", !.target = [op.target EXCEPT !.cleaned = TRUE]]
    /\ UNCHANGED <<durable, nft, tc, fabric, up, clock, faithful>>

ConntrackDelete ==
    /\ op.pc = "conntrack"
    /\ \/ /\ flow' = FALSE
          /\ op' = [op EXCEPT !.pc = "commit", !.target = [op.target EXCEPT !.cleaned = TRUE]]
          /\ UNCHANGED faults
       \/ /\ Fault
          /\ op' = Idle
          /\ UNCHANGED flow
    /\ UNCHANGED <<durable, nft, tc, fabric, up, clock, faithful>>

Commit ==
    /\ op.pc = "commit"
    /\ \/ /\ applied' = op.target
          /\ pending' = Nil
          /\ up' = TRUE
          /\ UNCHANGED faults
       \/ /\ Fault
          /\ UNCHANGED <<durable, up>>
    /\ op' = Idle
    /\ UNCHANGED <<kernel, clock, faithful>>

-----------------------------------------------------------------------------
(* rollbackDataplane: back to the applied snapshot, or to nothing when     *)
(* there is none.  Every command is tried whether or not the one before it *)
(* failed, and the durable record keeps pending.                           *)

RollbackPrepare ==
    /\ op.pc = "rbPrepare"
    /\ \/ /\ fabric' = FabricPrepared(applied.content, Link)
          /\ UNCHANGED <<faults, faithful>>
       \/ /\ Fault
          /\ \E done \in SUBSET Link : fabric' = FabricPrepared(applied.content, done)
          /\ faithful' = FALSE
    /\ Goto("rbNft")
    /\ UNCHANGED <<durable, nft, tc, flow, up, clock>>

(* Both scripts, the one that reinstalls the applied program and the one   *)
(* that only removes the table, start by deleting the table.  Purge takes  *)
(* the time when its rollback starts, converge when it began itself.       *)
RollbackTable ==
    IF applied = Nil THEN Absent
    ELSE Table([applied EXCEPT !.view = View(applied.content, IF op.purging THEN clock ELSE op.now)])

RollbackNft ==
    /\ op.pc = "rbNft"
    /\ \/ /\ ScriptAccepted(TRUE)
          /\ nft' = RollbackTable
          /\ UNCHANGED <<faults, faithful>>
       \/ /\ ScriptAccepted(TRUE)
          /\ Fault
          /\ faithful' = FALSE
          /\ UNCHANGED nft
       \/ /\ ~ScriptAccepted(TRUE)
          /\ UNCHANGED <<nft, faults, faithful>>
    /\ Goto("rbTc")
    /\ UNCHANGED <<durable, tc, fabric, flow, up, clock>>

RollbackTc ==
    /\ op.pc = "rbTc"
    /\ \/ /\ tc' = TcApplied(applied.content)
          /\ UNCHANGED <<faults, faithful>>
       \/ /\ Fault
          /\ tc' \in TcBroken
          /\ faithful' = FALSE
    /\ Goto("rbCleanup")
    /\ UNCHANGED <<durable, nft, fabric, flow, up, clock>>

RollbackCleanup_ForgetsPending ==
    /\ op.pc = "rbCleanup"
    /\ fabric' = FabricCleaned(op.target.content, applied.content, Link)
    /\ pending' = Nil
    /\ op' = Idle
    /\ UNCHANGED <<applied, nft, tc, flow, up, clock, faults, faithful>>

RollbackCleanup ==
    /\ op.pc = "rbCleanup"
    /\ \/ /\ fabric' = FabricCleaned(op.target.content, applied.content, Link)
          /\ UNCHANGED <<faults, faithful>>
       \/ /\ Fault
          /\ \E done \in SUBSET Link :
                fabric' = FabricCleaned(op.target.content, applied.content, done)
          /\ faithful' = FALSE
    /\ op' = Idle
    /\ UNCHANGED <<durable, nft, tc, flow, up, clock>>

-----------------------------------------------------------------------------
(* Purge removes every Flux resource before an uninstall and leaves the    *)
(* durable record as it is.  Preparing the empty fabric does nothing.      *)

CleanSnapshot_Unversioned ==
    [gen |-> applied.gen, content |-> Nothing, view |-> 0, cleaned |-> FALSE]

CleanSnapshot ==
    [gen |-> IF applied = Nil THEN 1 ELSE applied.gen,
     content |-> Nothing, view |-> 0, cleaned |-> FALSE]

NothingPending == pending = Nil

Purge ==
    /\ op = Idle
    /\ up
    /\ NothingPending
    /\ applied.content \in Vacant
    /\ nft.kind # "foreign"
    /\ op' = [Idle EXCEPT !.pc = "purgeNft",
                          !.target = CleanSnapshot,
                          !.now = clock,
                          !.existed = TableExists,
                          !.purging = TRUE]
    /\ faithful' = FALSE
    /\ UNCHANGED <<durable, kernel, up, clock, faults>>

PurgeNft ==
    /\ op.pc = "purgeNft"
    /\ \/ /\ ScriptAccepted(op.existed)
          /\ nft' = Absent
          /\ Goto("purgeTc")
          /\ UNCHANGED faults
       \/ /\ op.existed
          /\ IF ScriptAccepted(TRUE) THEN Fault ELSE UNCHANGED faults
          /\ StartRollback
          /\ UNCHANGED nft
    /\ UNCHANGED <<durable, tc, fabric, flow, up, clock, faithful>>

PurgeTc ==
    /\ op.pc = "purgeTc"
    /\ \/ /\ tc' = TcApplied(Nothing)
          /\ Goto("purgeCleanup")
          /\ UNCHANGED faults
       \/ /\ Fault
          /\ tc' \in TcBroken
          /\ StartRollback
    /\ UNCHANGED <<durable, nft, fabric, flow, up, clock, faithful>>

PurgeCleanup ==
    /\ op.pc = "purgeCleanup"
    /\ \/ /\ fabric' = FabricCleaned(applied.content, Nothing, Link)
          /\ Goto("purgeVerify")
          /\ UNCHANGED faults
       \/ /\ Fault
          /\ \E done \in SUBSET Link : fabric' = FabricCleaned(applied.content, Nothing, done)
          /\ StartRollback
    /\ UNCHANGED <<durable, nft, tc, flow, up, clock, faithful>>

Purged == nft = Absent /\ TcVerified(Nothing) /\ FabricVerified(Nothing)

PurgeVerify ==
    /\ op.pc = "purgeVerify"
    /\ \/ /\ Purged
          /\ op' = Idle
          /\ UNCHANGED faults
       \/ /\ IF Purged THEN Fault ELSE UNCHANGED faults
          /\ StartRollback
    /\ UNCHANGED <<durable, kernel, up, clock, faithful>>

-----------------------------------------------------------------------------
(* The environment.                                                        *)

(* The process is killed, or exits because recovery failed.                *)
Crash ==
    /\ Fault
    /\ up \/ op # Idle
    /\ op' = Idle
    /\ up' = FALSE
    /\ faithful' = (faithful /\ op = Idle)
    /\ UNCHANGED <<durable, kernel, clock>>

Reboot ==
    /\ Fault
    /\ nft' = Absent
    /\ tc' = {}
    /\ fabric' = [l \in Link |-> NoLink]
    /\ flow' = FALSE
    /\ op' = Idle
    /\ up' = FALSE
    /\ faithful' = FALSE
    /\ UNCHANGED <<durable, clock>>

(* Somebody deletes the table, a class or a link.                          *)
Drift ==
    /\ Fault
    /\ \/ nft.kind = "flux" /\ nft' = Absent /\ UNCHANGED <<tc, fabric>>
       \/ \E c \in tc : tc' = tc \ {c} /\ UNCHANGED <<nft, fabric>>
       \/ \E l \in Link : /\ fabric[l] # NoLink
                          /\ fabric' = [fabric EXCEPT ![l] = NoLink]
                          /\ UNCHANGED <<nft, tc>>
    /\ faithful' = FALSE
    /\ UNCHANGED <<durable, flow, op, up, clock>>

(* A table of the same name that Flux did not create; the Agent does not   *)
(* converge until somebody removes it.                                     *)
ForeignTable ==
    /\ op = Idle
    /\ nft = Absent
    /\ Fault
    /\ nft' = Foreign
    /\ faithful' = FALSE
    /\ UNCHANGED <<durable, tc, fabric, flow, op, up, clock>>

ForeignTableRemoved ==
    /\ nft = Foreign
    /\ nft' = Absent
    /\ UNCHANGED <<durable, tc, fabric, flow, op, environment>>

Tick ==
    /\ clock < MaxClock
    /\ clock' = clock + 1
    /\ UNCHANGED <<durable, kernel, op, up, faults, faithful>>

(* A packet opens a connection through the tracked forward.                *)
NewFlow ==
    /\ nft.kind = "flux"
    /\ nft.content \in Serving
    /\ nft.content \in Timed => nft.view = 0
    /\ flow' = TRUE
    /\ UNCHANGED <<durable, nft, tc, fabric, op, environment>>

-----------------------------------------------------------------------------
Command ==
    \/ FabricPrepare \/ NftApply \/ TcApply \/ FabricCleanup \/ Verify
    \/ ConntrackDelete \/ Commit
    \/ RollbackPrepare \/ RollbackNft \/ RollbackTc \/ RollbackCleanup
    \/ PurgeNft \/ PurgeTc \/ PurgeCleanup \/ PurgeVerify

Next ==
    \/ \E gen \in Generation, content \in Content : Apply(gen, content)
    \/ Recover \/ Audit \/ Refresh \/ Purge
    \/ Command
    \/ Crash \/ Reboot \/ Drift \/ ForeignTable \/ ForeignTableRemoved
    \/ Tick \/ NewFlow

Spec == Init /\ [][Next]_vars

(* Commands return (each has a timeout), the init system starts a stopped  *)
(* Agent again, and the audit timer keeps running.  Nothing is assumed     *)
(* about the Controller, the clock or the traffic.  Audit competes for     *)
(* Reconciler.mu with the other operations; a Go mutex hands itself to the *)
(* longest waiter, so Audit gets its turn: strong fairness.                *)
Fairness == WF_vars(Command) /\ WF_vars(Recover) /\ SF_vars(Audit)

FairSpec == Spec /\ Fairness

-----------------------------------------------------------------------------
(* Properties.                                                             *)

(* The durable record is one StateRecord.Validate accepts: pending is not  *)
(* older than applied, and the two agree when they have one generation.    *)
(* validateIncomingGeneration checks a snapshot when it arrives; pending   *)
(* survives failures, rollbacks and restarts after that.                   *)
RecordValid ==
    /\ pending # Nil => pending.gen >= applied.gen
    /\ pending # Nil /\ pending.gen = applied.gen => pending.content = applied.content

(* Whatever a failed command, a half-done rollback or a crash leaves in    *)
(* the kernel, the record explains it: the table is never of a generation  *)
(* the record has not reached, and never contradicts the record at the     *)
(* same generation.  So restarting never ends in ErrKernelAhead.           *)
KernelKnown ==
    nft.kind = "flux" =>
        /\ nft.gen <= Durable.gen
        /\ nft.gen = applied.gen => nft.content = applied.content
        /\ nft.gen = pending.gen => nft.content = pending.content

(* What an operation in progress and the record know of each other: a      *)
(* converge works on the durable pending snapshot until the step that      *)
(* clears it, a purge runs with nothing pending, and a rollback belongs to *)
(* one of the two.  So whatever step a crash interrupts, the record names  *)
(* the generation that was being installed.                                *)
OperationKnown ==
    op # Idle =>
        /\ op.purging => pending = Nil
        /\ ~op.purging => pending # Nil /\ SameDesired(pending, op.target)
        /\ op.pc \in ConvergeSteps => ~op.purging
        /\ op.pc \in PurgeSteps => op.purging

Implements(s) ==
    IF s = Nil THEN nft.kind # "flux"
    ELSE /\ nft.kind = "flux"
         /\ SameDesired(nft, s)
         /\ TcVerified(s.content)
         /\ FabricVerified(s.content)

(* Between operations the four subsystems together implement one durable   *)
(* snapshot: a failing command of converge is undone all the way, however  *)
(* far it got, unless a rollback command fails too or somebody else        *)
(* changes the kernel.  With nothing pending it is the applied snapshot.   *)
ImplementsDurable ==
    op = Idle /\ faithful =>
        \/ Implements(applied)
        \/ pending # Nil /\ Implements(pending)

(* Once a force-deleted forward is committed no flow through it survives,  *)
(* although a flow may be opened at any moment the rules allow one and the *)
(* cleanup may fail or be interrupted any number of times.                 *)
ForceCleared ==
    pending = Nil /\ applied.content \in Forced => ~flow

(* The applied snapshot is never forgotten, never replaced by an older     *)
(* generation and never changed within a generation, across restarts too.  *)
AppliedAdvances ==
    /\ applied'.gen >= applied.gen
    /\ applied'.gen = applied.gen => applied'.content = applied.content

AppliedMonotone == [][AppliedAdvances]_vars

(* The record behaves as AgentRecord says: a state once accepted is not    *)
(* forgotten by a failure, a rollback, a restart or an uninstall that does *)
(* not complete, until it or a later one is installed.                     *)
DesiredOf(s) == [gen |-> s.gen, content |-> s.content]

Record == INSTANCE AgentRecord WITH
    Desired <- [gen : Generation, content : Content],
    Empty <- DesiredOf(Nil),
    applied <- DesiredOf(applied),
    pending <- DesiredOf(pending)

ImplementsRecord == Record!Spec

Converged ==
    /\ op = Idle
    /\ up
    /\ pending = Nil
    /\ Implements(applied)

(* The kernel has lost the counters that have to be read before the        *)
(* durable snapshot can be installed.                                      *)
CountersLost ==
    /\ Durable # Nil
    /\ ~CountersReadable([Durable EXCEPT !.view = View(Durable.content, clock)])

(* When failures stop, the Agent comes back to a committed snapshot that   *)
(* the kernel implements, without any help from the Controller.  Only a    *)
(* foreign table or lost counters keep it from doing so.                   *)
Convergence ==
    \/ <>[](nft.kind = "foreign")
    \/ <>[]CountersLost
    \/ []<>Converged

(* "Agent keeps the last-known-good dataplane and goes on reconciling      *)
(* after a reconnect or a restart": once something has been applied, the   *)
(* kernel always comes back to forwarding by it or by its successor.       *)
LastKnownGoodReturns ==
    (applied # Nil) ~> (nft.kind \in {"flux", "foreign"})

=============================================================================
