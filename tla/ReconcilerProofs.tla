-------------------------- MODULE ReconcilerProofs --------------------------
(***************************************************************************)
(* Theorems about Reconciler, for every set of contents, links and classes *)
(* and every bound.                                                        *)
(***************************************************************************)
EXTENDS Reconciler, TLAPS

USE DEF NoLink

(* The programs of any content have the types the kernel state has.        *)
LEMMA ProgramTypes ==
    ASSUME TypeOK, NEW c \in Content
    PROVE  /\ TcApplied(c) \subseteq Class
           /\ \A done \in SUBSET Link :
                 FabricPrepared(c, done) \in [Link -> Setting \cup {NoLink}]
           /\ \A d \in Content, done \in SUBSET Link :
                 FabricCleaned(c, d, done) \in [Link -> Setting \cup {NoLink}]
  <1>1. TcApplied(c) \subseteq Class
    BY ProgramAssumption DEF TcApplied
  <1>2. \A d \in Content : FabricOf[d] \in [Link -> Setting \cup {NoLink}]
    BY ProgramAssumption
  <1>3. fabric \in [Link -> Setting \cup {NoLink}]
    BY DEF TypeOK
  <1>4. QED
    BY <1>1, <1>2, <1>3 DEF FabricPrepared, FabricCleaned

(* A snapshot stays one when it is given the view of the present moment.   *)
LEMMA ViewType ==
    ASSUME TypeOK, NEW s \in Snapshot, NEW now \in 0 .. MaxClock
    PROVE  /\ [s EXCEPT !.view = View(s.content, now)] \in Snapshot
           /\ Table([s EXCEPT !.view = View(s.content, now)]) \in FluxTable
           /\ Table(s) \in FluxTable
  BY BoundAssumption DEF Snapshot, View, Table, FluxTable

(* converge either updates the record or starts an operation.              *)
LEMMA ConvergeType ==
    ASSUME TypeOK, NEW s \in Snapshot, NEW e \in BOOLEAN, converge(s, e)
    PROVE  TypeOK'
  <1> DEFINE target == [s EXCEPT !.view = View(s.content, clock)]
  <1>1. target \in Snapshot
    BY ViewType DEF TypeOK
  <1>2. CASE SaveCurrent(target)
    BY <1>1, <1>2 DEF SaveCurrent, TypeOK, durable, kernel
  <1>3. CASE SavePending(target)
    <2>1. PICK tcSeen \in BOOLEAN, fabricSeen \in BOOLEAN :
             op' = [pc |-> "prepare", target |-> target, now |-> clock,
                    existed |-> TableExists,
                    nftCurrent |-> NftCurrent(target), tcCurrent |-> tcSeen,
                    fabricCurrent |-> fabricSeen, purging |-> FALSE]
      BY <1>3 DEF SavePending
    <2>2. NftCurrent(target) \in BOOLEAN
      BY DEF NftCurrent, Installed
    <2>3. op' \in Running
      BY <1>1, <2>1, <2>2 DEF Running, ConvergeSteps, TypeOK, TableExists
    <2>4. faults' \in 0 .. MaxFaults
      BY <1>3, BoundAssumption DEF SavePending, TypeOK
    <2>5. QED
      BY <1>1, <1>3, <2>3, <2>4 DEF SavePending, WriteAhead, TypeOK, kernel
  <1>4. CASE Refuse(target, e)
    BY <1>4 DEF Refuse, TypeOK, vars
  <1>5. QED
    BY <1>2, <1>3, <1>4 DEF converge

(* Moving an operation to another step keeps it a well-formed operation.   *)
LEMMA GotoType ==
    ASSUME TypeOK, op # Idle, NEW step \in ConvergeSteps \cup RollbackSteps \cup PurgeSteps,
           Goto(step)
    PROVE  op' \in Running
  BY DEF TypeOK, Goto, Running

LEMMA FaultType ==
    ASSUME TypeOK, Fault
    PROVE  faults' \in 0 .. MaxFaults
  BY BoundAssumption DEF TypeOK, Fault

(* Facts about the state that every command's type argument uses.          *)
LEMMA StateTypes ==
    ASSUME TypeOK
    PROVE  /\ applied.content \in Content
           /\ Nothing \in Content
           /\ op # Idle => op \in Running /\ op.target.content \in Content
           /\ op # Idle => Table(op.target) \in FluxTable
           /\ op.pc # "idle" => op # Idle
  <1>1. Nothing \in Content
    BY ContentAssumption
  <1>2. applied.content \in Content
    BY <1>1 DEF TypeOK, Snapshot, Nil
  <1>3. op # Idle => op \in Running
    BY DEF TypeOK
  <1>4. op \in Running => op.target \in Snapshot /\ op.target.content \in Content
    BY DEF Running, Snapshot
  <1>5. op \in Running => Table(op.target) \in FluxTable
    BY <1>4 DEF Table, FluxTable, Snapshot
  <1>6. op.pc # "idle" => op # Idle
    BY DEF Idle
  <1>7. QED
    BY <1>1, <1>2, <1>3, <1>4, <1>5, <1>6

(* Every command of converge keeps the types.                              *)
LEMMA ConvergeStepsType ==
    ASSUME TypeOK,
           \/ FabricPrepare \/ NftApply \/ TcApply \/ FabricCleanup \/ Verify
           \/ ConntrackDelete \/ Commit
    PROVE  TypeOK'
  <1> USE StateTypes
  <1>1. CASE FabricPrepare
    <2>1. op' \in Running
      BY <1>1, GotoType DEF FabricPrepare, StartRollback, ConvergeSteps, RollbackSteps
    <2>2. fabric' \in [Link -> Setting \cup {NoLink}]
      BY <1>1, ProgramTypes DEF FabricPrepare, TypeOK
    <2>3. faults' \in 0 .. MaxFaults
      BY <1>1, FaultType DEF FabricPrepare, TypeOK
    <2>4. QED
      BY <1>1, <2>1, <2>2, <2>3 DEF FabricPrepare, TypeOK, durable
  <1>2. CASE NftApply
    <2>1. op' \in Running
      BY <1>2, GotoType DEF NftApply, StartRollback, ConvergeSteps, RollbackSteps
    <2>2. faults' \in 0 .. MaxFaults
      BY <1>2, FaultType DEF NftApply, TypeOK
    <2>3. nft' \in FluxTable \cup {Absent, Foreign}
      BY <1>2 DEF NftApply, TypeOK
    <2>4. QED
      BY <1>2, <2>1, <2>2, <2>3 DEF NftApply, TypeOK, durable
  <1>3. CASE TcApply
    <2>1. op' \in Running
      BY <1>3, GotoType DEF TcApply, StartRollback, ConvergeSteps, RollbackSteps
    <2>2. faults' \in 0 .. MaxFaults
      BY <1>3, FaultType DEF TcApply, TypeOK
    <2>3. tc' \subseteq Class
      BY <1>3, ProgramTypes DEF TcApply, TcBroken, TypeOK
    <2>4. QED
      BY <1>3, <2>1, <2>2, <2>3 DEF TcApply, TypeOK, durable
  <1>4. CASE FabricCleanup
    <2>1. op' \in Running
      BY <1>4, GotoType DEF FabricCleanup, StartRollback, ConvergeSteps, RollbackSteps
    <2>2. faults' \in 0 .. MaxFaults
      BY <1>4, FaultType DEF FabricCleanup, TypeOK
    <2>3. fabric' \in [Link -> Setting \cup {NoLink}]
      BY <1>4, ProgramTypes DEF FabricCleanup, TypeOK
    <2>4. QED
      BY <1>4, <2>1, <2>2, <2>3 DEF FabricCleanup, TypeOK, durable
  <1>5. CASE Verify
    <2>1. op' \in Running
      BY <1>5, GotoType DEF Verify, StartRollback, ConvergeSteps, RollbackSteps
    <2>2. faults' \in 0 .. MaxFaults
      BY <1>5, FaultType DEF Verify, TypeOK
    <2>3. QED
      BY <1>5, <2>1, <2>2 DEF Verify, TypeOK, durable, kernel
  <1>6. CASE ConntrackDelete
    <2>1. op' \in Running \cup {Idle}
      <3>1. op \in Running /\ op.target \in Snapshot
        BY <1>6 DEF ConntrackDelete, Running
      <3>2. [op.target EXCEPT !.cleaned = TRUE] \in Snapshot
        BY <3>1 DEF Snapshot
      <3>3. QED
        BY <1>6, <3>1, <3>2 DEF ConntrackDelete, Running, ConvergeSteps
    <2>2. faults' \in 0 .. MaxFaults
      BY <1>6, FaultType DEF ConntrackDelete, TypeOK
    <2>3. QED
      BY <1>6, <2>1, <2>2 DEF ConntrackDelete, TypeOK, durable
  <1>7. CASE Commit
    <2>1. faults' \in 0 .. MaxFaults
      BY <1>7, FaultType DEF Commit, TypeOK
    <2>2. op.target \in Snapshot
      BY <1>7 DEF Commit, Running
    <2>3. QED
      BY <1>7, <2>1, <2>2 DEF Commit, TypeOK, durable, kernel
  <1>8. QED
    BY <1>1, <1>2, <1>3, <1>4, <1>5, <1>6, <1>7

(* So does every command of a rollback and of a purge.                     *)
LEMMA RollbackStepsType ==
    ASSUME TypeOK,
           \/ RollbackPrepare \/ RollbackNft \/ RollbackTc \/ RollbackCleanup
           \/ PurgeNft \/ PurgeTc \/ PurgeCleanup \/ PurgeVerify
    PROVE  TypeOK'
  <1> USE StateTypes
  <1>1. CASE RollbackPrepare
    <2>1. op' \in Running
      BY <1>1, GotoType DEF RollbackPrepare, RollbackSteps
    <2>2. faults' \in 0 .. MaxFaults
      BY <1>1, FaultType DEF RollbackPrepare, TypeOK
    <2>3. fabric' \in [Link -> Setting \cup {NoLink}]
      BY <1>1, ProgramTypes DEF RollbackPrepare, TypeOK
    <2>4. QED
      BY <1>1, <2>1, <2>2, <2>3 DEF RollbackPrepare, TypeOK, durable
  <1>2. CASE RollbackNft
    <2>1. op' \in Running
      BY <1>2, GotoType DEF RollbackNft, RollbackSteps
    <2>2. faults' \in 0 .. MaxFaults
      BY <1>2, FaultType DEF RollbackNft, TypeOK
    <2>3. op.now \in 0 .. MaxClock
      BY <1>2 DEF RollbackNft, Running
    <2>4. RollbackTable \in FluxTable \cup {Absent}
      BY <2>3, ViewType DEF RollbackTable, TypeOK
    <2>5. nft' \in FluxTable \cup {Absent, Foreign}
      BY <1>2, <2>4 DEF RollbackNft, TypeOK
    <2>6. QED
      BY <1>2, <2>1, <2>2, <2>5 DEF RollbackNft, TypeOK, durable
  <1>3. CASE RollbackTc
    <2>1. op' \in Running
      BY <1>3, GotoType DEF RollbackTc, RollbackSteps
    <2>2. faults' \in 0 .. MaxFaults
      BY <1>3, FaultType DEF RollbackTc, TypeOK
    <2>3. tc' \subseteq Class
      BY <1>3, ProgramTypes DEF RollbackTc, TcBroken, TypeOK
    <2>4. QED
      BY <1>3, <2>1, <2>2, <2>3 DEF RollbackTc, TypeOK, durable
  <1>4. CASE RollbackCleanup
    <2>1. faults' \in 0 .. MaxFaults
      BY <1>4, FaultType DEF RollbackCleanup, TypeOK
    <2>2. fabric' \in [Link -> Setting \cup {NoLink}]
      BY <1>4, ProgramTypes DEF RollbackCleanup, TypeOK
    <2>3. QED
      BY <1>4, <2>1, <2>2 DEF RollbackCleanup, TypeOK, durable
  <1>5. CASE PurgeNft
    <2>1. op' \in Running
      BY <1>5, GotoType DEF PurgeNft, StartRollback, PurgeSteps, RollbackSteps
    <2>2. faults' \in 0 .. MaxFaults
      BY <1>5, FaultType DEF PurgeNft, TypeOK
    <2>3. QED
      BY <1>5, <2>1, <2>2 DEF PurgeNft, TypeOK, durable
  <1>6. CASE PurgeTc
    <2>1. op' \in Running
      BY <1>6, GotoType DEF PurgeTc, StartRollback, PurgeSteps, RollbackSteps
    <2>2. faults' \in 0 .. MaxFaults
      BY <1>6, FaultType DEF PurgeTc, TypeOK
    <2>3. tc' \subseteq Class
      BY <1>6, ProgramTypes DEF PurgeTc, TcBroken, TypeOK
    <2>4. QED
      BY <1>6, <2>1, <2>2, <2>3 DEF PurgeTc, TypeOK, durable
  <1>7. CASE PurgeCleanup
    <2>1. op' \in Running
      BY <1>7, GotoType DEF PurgeCleanup, StartRollback, PurgeSteps, RollbackSteps
    <2>2. faults' \in 0 .. MaxFaults
      BY <1>7, FaultType DEF PurgeCleanup, TypeOK
    <2>3. fabric' \in [Link -> Setting \cup {NoLink}]
      BY <1>7, ProgramTypes DEF PurgeCleanup, TypeOK
    <2>4. QED
      BY <1>7, <2>1, <2>2, <2>3 DEF PurgeCleanup, TypeOK, durable
  <1>8. CASE PurgeVerify
    <2>1. op' \in Running \cup {Idle}
      BY <1>8, GotoType DEF PurgeVerify, StartRollback, RollbackSteps
    <2>2. faults' \in 0 .. MaxFaults
      BY <1>8, FaultType DEF PurgeVerify, TypeOK
    <2>3. QED
      BY <1>8, <2>1, <2>2 DEF PurgeVerify, TypeOK, durable, kernel
  <1>9. QED
    BY <1>1, <1>2, <1>3, <1>4, <1>5, <1>6, <1>7, <1>8

(* Every step keeps the types.                                             *)
LEMMA TypeInit ==
    ASSUME Init
    PROVE  TypeOK
  <1>1. fabric \in [Link -> Setting \cup {NoLink}]
    BY DEF Init
  <1>2. clock \in 0 .. MaxClock /\ faults \in 0 .. MaxFaults
    BY BoundAssumption DEF Init
  <1>3. QED
    BY <1>1, <1>2, Zenon DEF Init, TypeOK

LEMMA TypeStep ==
    ASSUME TypeOK, [Next]_vars
    PROVE  TypeOK'
  <1>1. ASSUME NEW gen \in Generation, NEW content \in Content, Apply(gen, content)
        PROVE  TypeOK'
    <2> DEFINE fresh == [gen |-> gen, content |-> content, view |-> 0, cleaned |-> FALSE]
               target == IF SameDesired(pending, fresh) THEN pending
                         ELSE IF SameDesired(applied, fresh) THEN applied
                         ELSE fresh
    <2>1. fresh \in Snapshot
      BY BoundAssumption DEF Snapshot
    <2>2. target \in Snapshot
      BY <2>1 DEF SameDesired, TypeOK, Snapshot, Nil, Generation
    <2>3. converge(target, TRUE)
      BY <1>1 DEF Apply
    <2>4. QED
      BY <2>2, <2>3, ConvergeType
  <1>2. Durable # Nil => Durable \in Snapshot
    BY DEF Durable, TypeOK
  <1>3. CASE Recover
    <2>1. CASE Durable = Nil
      BY <1>3, <2>1 DEF Recover, TypeOK, durable, kernel
    <2>2. CASE Durable # Nil
      BY <1>2, <1>3, <2>2, ConvergeType DEF Recover
    <2>3. QED
      BY <2>1, <2>2
  <1>4. CASE Audit \/ Refresh
    BY <1>2, <1>4, ConvergeType DEF Audit, Refresh
  <1>5. CASE Purge
    <2>1. op' \in Running
      <3>1. CleanSnapshot \in Snapshot
        BY ContentAssumption, BoundAssumption
        DEF CleanSnapshot, TypeOK, Snapshot, Generation
      <3>2. QED
        BY <1>5, <3>1 DEF Purge, NothingPending, TableExists, Idle, Running, PurgeSteps, TypeOK
    <2>2. QED
      BY <1>5, <2>1 DEF Purge, NothingPending, TypeOK, durable, kernel
  <1>6. CASE Command
    BY <1>6, ConvergeStepsType, RollbackStepsType DEF Command
  <1>7. CASE Crash \/ Reboot
    BY <1>7, FaultType DEF Crash, Reboot, TypeOK, durable, kernel
  <1>8. CASE Drift
    <2>1. /\ nft' \in FluxTable \cup {Absent, Foreign}
          /\ tc' \subseteq Class
          /\ fabric' \in [Link -> Setting \cup {NoLink}]
      BY <1>8 DEF Drift, TypeOK
    <2>2. QED
      BY <1>8, <2>1, FaultType DEF Drift, TypeOK, durable
  <1>9. CASE ForeignTable \/ ForeignTableRemoved
    BY <1>9, FaultType DEF ForeignTable, ForeignTableRemoved, TypeOK, durable, environment
  <1>10. CASE Tick \/ NewFlow
    <2>1. clock' \in 0 .. MaxClock
      BY <1>10, BoundAssumption DEF Tick, NewFlow, TypeOK, environment
    <2>2. CASE Tick
      BY <2>1, <2>2 DEF Tick, TypeOK, durable, kernel
    <2>3. CASE NewFlow
      BY <2>3 DEF NewFlow, TypeOK, durable, environment
    <2>4. QED
      BY <1>10, <2>2, <2>3
  <1>11. CASE UNCHANGED vars
    BY <1>11 DEF vars, TypeOK
  <1>12. QED
    BY <1>1, <1>3, <1>4, <1>5, <1>6, <1>7, <1>8, <1>9, <1>10, <1>11 DEF Next

(* Every reachable state is well typed, whatever the Controller sends and  *)
(* whatever fails: the durable record holds whole snapshots only, and an   *)
(* operation in progress always has a real generation as its target.       *)
THEOREM TypeCorrect == Spec => []TypeOK
  <1>1. Init => TypeOK
    BY TypeInit
  <1>2. TypeOK /\ [Next]_vars => TypeOK'
    BY TypeStep
  <1>3. QED
    BY <1>1, <1>2, PTL DEF Spec

-----------------------------------------------------------------------------
(* The inductive invariant.  RecordValid alone is not inductive: a commit  *)
(* needs to know that the target of the operation is the pending snapshot  *)
(* (OperationKnown), and KernelKnown is what keeps a converge from the     *)
(* record from meeting a kernel it would have to refuse.                   *)
IInv == TypeOK /\ RecordValid /\ KernelKnown /\ OperationKnown

(* A snapshot the record accepts: not older than applied, and equal to it  *)
(* at the same generation.                                                 *)
Accepted(s) ==
    /\ s.gen >= applied.gen
    /\ s.gen = applied.gen => s.content = applied.content

(* converge keeps the invariant and advances applied, for a snapshot the   *)
(* record accepts that either comes from the record or is checked against  *)
(* the kernel.                                                             *)
LEMMA ConvergeInv ==
    ASSUME IInv, NEW s \in Snapshot, NEW e \in BOOLEAN, converge(s, e),
           Accepted(s), e \/ s = Durable
    PROVE  IInv' /\ AppliedAdvances
  <1> DEFINE target == [s EXCEPT !.view = View(s.content, clock)]
  <1>1. TypeOK'
    BY ConvergeType DEF IInv
  <1>2. target \in Snapshot /\ target.gen = s.gen /\ target.content = s.content
    BY ViewType DEF IInv, TypeOK, Snapshot
  <1>3. /\ target.gen \in Nat /\ target.gen > 0
        /\ applied.gen \in Nat /\ pending.gen \in Nat
        /\ Nil.gen = 0
    BY <1>2 DEF IInv, TypeOK, Snapshot, Generation, Nil
  <1>4. nft.kind = "flux" => nft.gen \in Nat /\ nft.gen > 0
    BY DEF IInv, TypeOK, FluxTable, Generation, Absent, Foreign
  <1>5. /\ op = Idle
        /\ \/ KernelAccepts(target, e) /\ SaveCurrent(target)
           \/ KernelAccepts(target, e) /\ SavePending(target)
           \/ Refuse(target, e)
    BY DEF converge
  <1> HIDE DEF target
  <1>6. CASE SaveCurrent(target)
    <2>1. op' = Idle /\ nft' = nft
      BY <1>5, <1>6 DEF SaveCurrent, kernel
    <2>2. nft = Table(target)
      BY <1>6 DEF SaveCurrent, NftCurrent, Installed
    <2>3. CASE RecordDiffers(target)
      <3>1. applied' = target /\ pending' = Nil
        BY <1>6, <2>3 DEF SaveCurrent
      <3>2. RecordValid' /\ OperationKnown'
        BY <2>1, <3>1 DEF RecordValid, OperationKnown
      <3>3. KernelKnown'
        BY <1>3, <1>4, <2>1, <2>2, <3>1 DEF KernelKnown, Durable, Table
      <3>4. AppliedAdvances
        BY <1>2, <3>1 DEF AppliedAdvances, Accepted
      <3>5. QED
        BY <1>1, <3>2, <3>3, <3>4 DEF IInv
    <2>4. CASE ~RecordDiffers(target)
      <3>1. UNCHANGED <<applied, pending, nft, op>>
        BY <1>6, <2>4 DEF SaveCurrent, durable, kernel
      <3>2. QED
        BY <1>1, <1>3, <3>1
        DEF IInv, RecordValid, KernelKnown, OperationKnown, Durable, AppliedAdvances
    <2>5. QED
      BY <2>3, <2>4
  <1>7. CASE KernelAccepts(target, e) /\ SavePending(target)
    <2>1. /\ pending' = target /\ applied' = applied /\ nft' = nft
          /\ op'.target = target /\ op'.pc = "prepare" /\ op'.purging = FALSE
      BY <1>7 DEF SavePending, WriteAhead, kernel
    <2>2. RecordValid'
      BY <1>2, <2>1 DEF RecordValid, Accepted
    <2>3. OperationKnown'
      BY <1>3, <2>1 DEF OperationKnown, SameDesired, PurgeSteps, Nil
    <2>4. nft.kind = "flux" => nft.gen <= target.gen
      BY <1>7 DEF KernelAccepts
    <2>5. nft.kind = "flux" /\ nft.gen = target.gen => nft.content = target.content
      <3>1. CASE s = Durable
        BY <1>2, <3>1 DEF IInv, KernelKnown, Durable
      <3>2. CASE e
        BY <1>7, <3>2 DEF KernelAccepts, SameDesired, IInv, KernelKnown
      <3>3. QED
        BY <3>1, <3>2
    <2>6. KernelKnown'
      BY <1>3, <2>1, <2>4, <2>5 DEF KernelKnown, Durable, IInv
    <2>7. QED
      BY <1>1, <1>3, <2>1, <2>2, <2>3, <2>6 DEF IInv, AppliedAdvances
  <1>8. CASE Refuse(target, e)
    BY <1>1, <1>3, <1>8
    DEF Refuse, vars, IInv, RecordValid, KernelKnown, OperationKnown, Durable, AppliedAdvances
  <1>9. QED
    BY <1>5, <1>6, <1>7, <1>8

(* A step that changes neither the record nor the table, and moves the     *)
(* operation on within its kind or ends it, keeps the invariant.           *)
LEMMA QuietStep ==
    ASSUME IInv, TypeOK', UNCHANGED <<applied, pending, nft>>,
           \/ op' = Idle
           \/ /\ op # Idle
              /\ op'.purging = op.purging
              /\ SameDesired(op'.target, op.target)
              /\ op'.pc \in ConvergeSteps => op.pc \in ConvergeSteps
              /\ op'.pc \in PurgeSteps => op.pc \in PurgeSteps
    PROVE  IInv' /\ AppliedAdvances
  <1>1. RecordValid' /\ KernelKnown'
    BY DEF IInv, RecordValid, KernelKnown, Durable
  <1>2. OperationKnown'
    BY DEF IInv, OperationKnown, SameDesired
  <1>3. applied.gen \in Nat
    BY DEF IInv, TypeOK, Snapshot, Generation, Nil
  <1>4. AppliedAdvances
    BY <1>3 DEF AppliedAdvances
  <1>5. QED
    BY <1>1, <1>2, <1>4 DEF IInv

(* What Goto does to the operation.                                        *)
LEMMA GotoStep ==
    ASSUME TypeOK, op # Idle, NEW step, Goto(step)
    PROVE  /\ op'.pc = step
           /\ op'.purging = op.purging
           /\ SameDesired(op'.target, op.target)
  BY DEF TypeOK, Goto, Running, SameDesired

(* Removing the table keeps the invariant: the kernel claims nothing.      *)
LEMMA TableGone ==
    ASSUME IInv, TypeOK', UNCHANGED <<applied, pending>>, nft'.kind # "flux",
           \/ op' = Idle
           \/ op' = op
           \/ /\ op # Idle
              /\ op'.purging = op.purging
              /\ SameDesired(op'.target, op.target)
              /\ op'.pc \in ConvergeSteps => op.pc \in ConvergeSteps
              /\ op'.pc \in PurgeSteps => op.pc \in PurgeSteps
    PROVE  IInv' /\ AppliedAdvances
  <1>1. RecordValid' /\ KernelKnown'
    BY DEF IInv, RecordValid, KernelKnown, Durable
  <1>2. OperationKnown'
    BY DEF IInv, OperationKnown, SameDesired
  <1>3. applied.gen \in Nat
    BY DEF IInv, TypeOK, Snapshot, Generation, Nil
  <1>4. QED
    BY <1>1, <1>2, <1>3 DEF IInv, AppliedAdvances

(* Every command keeps the invariant.                                      *)
LEMMA CommandInv ==
    ASSUME IInv, Command
    PROVE  IInv' /\ AppliedAdvances
  <1>1. TypeOK'
    BY ConvergeStepsType, RollbackStepsType DEF Command, IInv
  <1>2. op.pc # "idle" => op # Idle /\ op \in Running
    BY DEF IInv, TypeOK, Idle
  <1>3. TypeOK
    BY DEF IInv
  <1> USE DEF ConvergeSteps, RollbackSteps, PurgeSteps
  <1>4. CASE FabricPrepare \/ TcApply \/ FabricCleanup \/ Verify
    <2>1. /\ UNCHANGED <<applied, pending, nft>>
          /\ op.pc \in {"prepare", "tc", "cleanup", "verify"}
          /\ \E step \in ConvergeSteps \cup RollbackSteps : Goto(step)
      BY <1>4 DEF FabricPrepare, TcApply, FabricCleanup, Verify, StartRollback, durable, kernel
    <2>2. PICK step \in ConvergeSteps \cup RollbackSteps : Goto(step)
      BY <2>1
    <2>3. QED
      BY <1>1, <1>2, <1>3, <2>1, <2>2, GotoStep, QuietStep
  <1>5. CASE RollbackPrepare \/ RollbackTc
    <2>1. /\ UNCHANGED <<applied, pending, nft>>
          /\ op.pc \in RollbackSteps
          /\ \E step \in RollbackSteps : Goto(step)
      BY <1>5 DEF RollbackPrepare, RollbackTc, durable
    <2>2. PICK step \in RollbackSteps : Goto(step)
      BY <2>1
    <2>3. QED
      BY <1>1, <1>2, <1>3, <2>1, <2>2, GotoStep, QuietStep
  <1>6. CASE PurgeTc \/ PurgeCleanup
    <2>1. /\ UNCHANGED <<applied, pending, nft>>
          /\ op.pc \in PurgeSteps
          /\ \E step \in RollbackSteps \cup PurgeSteps : Goto(step)
      BY <1>6 DEF PurgeTc, PurgeCleanup, StartRollback, durable
    <2>2. PICK step \in RollbackSteps \cup PurgeSteps : Goto(step)
      BY <2>1
    <2>3. QED
      BY <1>1, <1>2, <1>3, <2>1, <2>2, GotoStep, QuietStep
  <1>7. CASE RollbackCleanup
    BY <1>1, <1>7, QuietStep DEF RollbackCleanup, durable
  <1>8. CASE PurgeVerify
    <2>1. /\ UNCHANGED <<applied, pending, nft>>
          /\ op.pc = "purgeVerify"
          /\ op' = Idle \/ Goto("rbPrepare")
      BY <1>8 DEF PurgeVerify, StartRollback, durable, kernel
    <2>2. QED
      BY <1>1, <1>2, <1>3, <2>1, GotoStep, QuietStep
  <1>9. CASE ConntrackDelete
    <2>1. /\ UNCHANGED <<applied, pending, nft>>
          /\ op # Idle /\ op.pc = "conntrack" /\ op \in Running
      BY <1>2, <1>9 DEF ConntrackDelete, durable
    <2>2. \/ op' = Idle
          \/ /\ op'.purging = op.purging
             /\ SameDesired(op'.target, op.target)
             /\ op'.pc = "commit"
      <3> DEFINE t == [op.target EXCEPT !.cleaned = TRUE]
      <3>1. op.target \in Snapshot
        BY <2>1 DEF Running
      <3>2. SameDesired(t, op.target)
        BY <3>1 DEF Snapshot, SameDesired
      <3>3. op' = Idle \/ op' = [op EXCEPT !.pc = "commit", !.target = t]
        BY <1>9 DEF ConntrackDelete
      <3> HIDE DEF t
      <3>4. QED
        BY <2>1, <3>2, <3>3 DEF Running
    <2>3. QED
      BY <1>1, <2>1, <2>2, QuietStep
  <1>10. CASE PurgeNft
    <2>1. /\ UNCHANGED <<applied, pending>>
          /\ op # Idle /\ op.pc = "purgeNft"
          /\ nft' = nft \/ nft' = Absent
          /\ \E step \in RollbackSteps \cup PurgeSteps : Goto(step)
      BY <1>2, <1>10 DEF PurgeNft, StartRollback, durable
    <2>2. PICK step \in RollbackSteps \cup PurgeSteps : Goto(step)
      BY <2>1
    <2>3. QED
      BY <1>1, <1>3, <2>1, <2>2, GotoStep, QuietStep, TableGone DEF Absent
  <1>11. CASE NftApply
    <2>1. /\ UNCHANGED <<applied, pending>>
          /\ op # Idle /\ op.pc = "nft" /\ op \in Running
          /\ nft' = nft \/ nft' = Table(op.target)
          /\ \E step \in ConvergeSteps \cup RollbackSteps : Goto(step)
      BY <1>2, <1>11 DEF NftApply, StartRollback, durable
    <2>2. PICK step \in ConvergeSteps \cup RollbackSteps : Goto(step)
      BY <2>1
    <2>3. CASE nft' = nft
      BY <1>1, <1>3, <2>1, <2>2, <2>3, GotoStep, QuietStep
    <2>4. CASE nft' = Table(op.target)
      <3>1. pending # Nil /\ SameDesired(pending, op.target) /\ ~op.purging
        BY <2>1 DEF IInv, OperationKnown
      <3>2. /\ op'.purging = op.purging
            /\ SameDesired(op'.target, op.target)
            /\ op'.pc \in ConvergeSteps \cup RollbackSteps
        BY <1>3, <2>1, <2>2, GotoStep
      <3>3. OperationKnown'
        BY <2>1, <3>1, <3>2 DEF OperationKnown, SameDesired
      <3>4. applied.gen \in Nat /\ pending.gen \in Nat
        BY <1>3 DEF TypeOK, Snapshot, Generation, Nil
      <3>5. KernelKnown'
        BY <2>1, <2>4, <3>1, <3>4 DEF KernelKnown, Durable, Table, SameDesired, IInv, RecordValid
      <3>6. RecordValid'
        BY <2>1 DEF IInv, RecordValid
      <3>7. QED
        BY <1>1, <2>1, <3>3, <3>4, <3>5, <3>6 DEF IInv, AppliedAdvances
    <2>5. QED
      BY <2>1, <2>3, <2>4
  <1>12. CASE RollbackNft
    <2>1. /\ UNCHANGED <<applied, pending>>
          /\ op # Idle /\ op.pc = "rbNft" /\ op \in Running
          /\ nft' = nft \/ nft' = RollbackTable
          /\ Goto("rbTc")
      BY <1>2, <1>12 DEF RollbackNft, durable
    <2>2. CASE nft' = nft
      BY <1>1, <1>3, <2>1, <2>2, GotoStep, QuietStep
    <2>3. CASE nft' = RollbackTable /\ applied = Nil
      <3>1. nft'.kind # "flux"
        BY <2>3 DEF RollbackTable, Absent
      <3>2. QED
        BY <1>1, <1>3, <2>1, <3>1, GotoStep, TableGone
    <2>4. CASE nft' = RollbackTable /\ applied # Nil
      <3>1. applied \in Snapshot
        BY <1>3, <2>4 DEF TypeOK
      <3>2. nft'.gen = applied.gen /\ nft'.content = applied.content
        BY <2>4, <3>1 DEF RollbackTable, Table, Snapshot
      <3>3. applied.gen \in Nat /\ pending.gen \in Nat /\ applied.gen > 0
        BY <1>3, <3>1 DEF TypeOK, Snapshot, Generation, Nil
      <3>4. KernelKnown'
        BY <2>1, <3>2, <3>3 DEF KernelKnown, Durable, IInv, RecordValid, Nil
      <3>5. /\ op'.purging = op.purging
            /\ SameDesired(op'.target, op.target)
            /\ op'.pc = "rbTc"
        BY <1>3, <2>1, GotoStep
      <3>6. OperationKnown' /\ RecordValid'
        BY <2>1, <3>5 DEF IInv, OperationKnown, RecordValid, SameDesired
      <3>7. QED
        BY <1>1, <2>1, <3>3, <3>4, <3>6 DEF IInv, AppliedAdvances
    <2>5. QED
      BY <2>1, <2>2, <2>3, <2>4
  <1>13. CASE Commit
    <2>1. op # Idle /\ op.pc = "commit" /\ op \in Running /\ op' = Idle /\ nft' = nft
      BY <1>2, <1>13 DEF Commit, kernel
    <2>2. pending # Nil /\ SameDesired(pending, op.target)
      BY <2>1 DEF IInv, OperationKnown
    <2>3. CASE UNCHANGED <<applied, pending>>
      BY <1>1, <2>1, <2>3, QuietStep
    <2>4. CASE applied' = op.target /\ pending' = Nil
      <3>1. /\ pending \in Snapshot
            /\ applied.gen \in Nat /\ pending.gen \in Nat /\ pending.gen > 0
        BY <1>3, <2>2 DEF TypeOK, Snapshot, Generation, Nil
      <3>2. nft.kind = "flux" => nft.gen \in Nat /\ nft.gen > 0
        BY <1>3 DEF TypeOK, FluxTable, Generation, Absent, Foreign
      <3>3. AppliedAdvances
        BY <2>2, <2>4 DEF AppliedAdvances, SameDesired, IInv, RecordValid
      <3>4. KernelKnown'
        BY <2>1, <2>2, <2>4, <3>1, <3>2 DEF KernelKnown, Durable, SameDesired, IInv, Nil
      <3>5. RecordValid' /\ OperationKnown'
        BY <2>1, <2>4 DEF RecordValid, OperationKnown
      <3>6. QED
        BY <1>1, <3>3, <3>4, <3>5 DEF IInv
    <2>5. QED
      BY <1>13, <2>3, <2>4 DEF Commit, durable
  <1>14. QED
    BY <1>4, <1>5, <1>6, <1>7, <1>8, <1>9, <1>10, <1>11, <1>12, <1>13 DEF Command

(* The invariant is inductive, and every step advances applied.            *)
LEMMA NextInv ==
    ASSUME IInv, [Next]_vars
    PROVE  IInv' /\ AppliedAdvances
  <1>1. TypeOK /\ applied.gen \in Nat /\ pending.gen \in Nat
    BY DEF IInv, TypeOK, Snapshot, Generation, Nil
  <1>2. ASSUME NEW gen \in Generation, NEW content \in Content, Apply(gen, content)
        PROVE  IInv' /\ AppliedAdvances
    <2> DEFINE fresh == [gen |-> gen, content |-> content, view |-> 0, cleaned |-> FALSE]
               target == IF SameDesired(pending, fresh) THEN pending
                         ELSE IF SameDesired(applied, fresh) THEN applied
                         ELSE fresh
    <2>1. fresh \in Snapshot
      BY BoundAssumption DEF Snapshot
    <2>2. target \in Snapshot
      BY <1>1, <2>1 DEF SameDesired, TypeOK, Snapshot, Nil, Generation
    <2>3. target.gen = gen /\ target.content = content
      BY DEF SameDesired
    <2>4. Accepted(target)
      BY <1>2, <2>3 DEF Apply, validateIncomingGeneration, Accepted
    <2>5. converge(target, TRUE)
      BY <1>2 DEF Apply
    <2>6. QED
      BY <2>2, <2>4, <2>5, ConvergeInv
  <1>3. Durable # Nil => Durable \in Snapshot /\ Accepted(Durable)
    BY <1>1 DEF Durable, Accepted, TypeOK, IInv, RecordValid
  <1>4. CASE Recover \/ Audit \/ Refresh
    <2>1. CASE Durable # Nil /\ converge(Durable, FALSE)
      BY <1>3, <2>1, ConvergeInv
    <2>2. CASE Recover /\ Durable = Nil
      <3>1. UNCHANGED <<applied, pending, nft, op>> /\ op = Idle
        BY <2>2 DEF Recover, durable, kernel
      <3>2. TypeOK'
        BY <1>1, <2>2 DEF Recover, TypeOK, durable, kernel
      <3>3. QED
        BY <3>1, <3>2, QuietStep
    <2>3. QED
      BY <1>4, <2>1, <2>2 DEF Recover, Audit, Refresh
  <1>5. TypeOK'
    BY TypeStep DEF IInv
  <1>6. CASE Purge
    <2>1. /\ UNCHANGED <<applied, pending, nft>>
          /\ pending = Nil
          /\ op'.pc = "purgeNft" /\ op'.purging = TRUE
      BY <1>6 DEF Purge, NothingPending, durable, kernel, Idle
    <2>2. OperationKnown'
      BY <2>1 DEF OperationKnown, ConvergeSteps
    <2>3. RecordValid' /\ KernelKnown'
      BY <2>1 DEF IInv, RecordValid, KernelKnown, Durable
    <2>4. QED
      BY <1>1, <1>5, <2>1, <2>2, <2>3 DEF IInv, AppliedAdvances
  <1>7. CASE Command
    BY <1>7, CommandInv
  <1>8. CASE Crash
    BY <1>5, <1>8, QuietStep DEF Crash, durable, kernel
  <1>9. CASE Reboot \/ ForeignTable \/ ForeignTableRemoved
    BY <1>5, <1>9, TableGone
    DEF Reboot, ForeignTable, ForeignTableRemoved, Absent, Foreign, durable, environment
  <1>10. CASE Drift
    <2>1. /\ UNCHANGED <<applied, pending, op>>
          /\ nft' = Absent \/ UNCHANGED nft
      BY <1>10 DEF Drift, durable
    <2>2. CASE nft' = Absent
      BY <1>5, <2>1, <2>2, TableGone DEF Absent
    <2>3. CASE UNCHANGED nft
      BY <1>1, <1>5, <2>1, <2>3
      DEF IInv, RecordValid, KernelKnown, OperationKnown, Durable, AppliedAdvances
    <2>4. QED
      BY <2>1, <2>2, <2>3
  <1>11. CASE Tick \/ NewFlow \/ UNCHANGED vars
    <2>1. UNCHANGED <<applied, pending, nft, op>>
      BY <1>11 DEF Tick, NewFlow, vars, durable, kernel
    <2>2. QED
      BY <1>1, <1>5, <2>1
      DEF IInv, RecordValid, KernelKnown, OperationKnown, Durable, AppliedAdvances
  <1>12. QED
    BY <1>2, <1>4, <1>6, <1>7, <1>8, <1>9, <1>10, <1>11 DEF Next

LEMMA InvariantHolds == Spec => []IInv
  <1>1. Init => IInv
    <2>1. Init => TypeOK
      BY TypeInit
    <2>2. Init => RecordValid
      BY DEF Init, RecordValid
    <2>3. Init => KernelKnown
      BY DEF Init, KernelKnown, Absent
    <2>4. Init => OperationKnown
      BY DEF Init, OperationKnown
    <2>5. QED
      BY <2>1, <2>2, <2>3, <2>4 DEF IInv
  <1>2. IInv /\ [Next]_vars => IInv'
    BY NextInv
  <1>3. QED
    BY <1>1, <1>2, PTL DEF Spec

(* The durable record is always one that can be loaded again.              *)
THEOREM RecordAlwaysValid == Spec => []RecordValid
  BY InvariantHolds, PTL DEF IInv

(* The kernel is never ahead of, or in conflict with, the durable record,  *)
(* whatever command fails and wherever a crash falls.                      *)
THEOREM KernelAlwaysKnown == Spec => []KernelKnown
  BY InvariantHolds, PTL DEF IInv

(* The record always names the generation that is being installed.         *)
THEOREM OperationAlwaysKnown == Spec => []OperationKnown
  BY InvariantHolds, PTL DEF IInv

(* The applied generation never moves back.                                *)
THEOREM AppliedNeverRegresses == Spec => AppliedMonotone
  <1>1. IInv /\ [Next]_vars => [AppliedAdvances]_vars
    BY NextInv
  <1>2. QED
    BY <1>1, InvariantHolds, PTL DEF Spec, AppliedMonotone

-----------------------------------------------------------------------------
(* The record implements AgentRecord: every step that writes it accepts or *)
(* installs a desired state, and every other step is a stutter there.      *)

(* The snapshot the Agent starts from by itself is always acceptable.      *)
LEMMA DurableAcceptable ==
    ASSUME IInv, Durable # Nil
    PROVE  Durable \in Snapshot /\ Record!Acceptable(DesiredOf(Durable))
  <1>1. Durable \in Snapshot
    BY DEF IInv, TypeOK, Durable
  <1>2. /\ Durable.gen \in Nat /\ Durable.gen > 0
        /\ applied.gen \in Nat /\ pending.gen \in Nat /\ Nil.gen = 0
    BY <1>1 DEF IInv, TypeOK, Snapshot, Generation, Nil
  <1>3. /\ Durable.gen >= applied.gen
        /\ Durable.gen = applied.gen => Durable.content = applied.content
    BY <1>2 DEF IInv, RecordValid, Durable
  <1>4. /\ Durable.gen >= pending.gen
        /\ Durable.gen = pending.gen => Durable.content = pending.content
    BY <1>2 DEF Durable
  <1>5. QED
    BY <1>1, <1>3, <1>4 DEF Record!Acceptable, Record!Succeeds, DesiredOf

(* Writing an acceptable snapshot is a step of AgentRecord.                *)
LEMMA RecordWritten ==
    ASSUME IInv, NEW s \in Snapshot, Record!Acceptable(DesiredOf(s)),
           \/ pending' = s /\ UNCHANGED applied
           \/ applied' = s /\ pending' = Nil
    PROVE  Record!Next
  <1>1. DesiredOf(s) \in [gen : Generation, content : Content]
    BY DEF DesiredOf, Snapshot
  <1>2. CASE pending' = s /\ UNCHANGED applied
    <2>1. Record!Accept(DesiredOf(s))
      BY <1>2 DEF Record!Accept, DesiredOf
    <2>2. QED
      BY <1>1, <2>1 DEF Record!Next
  <1>3. CASE applied' = s /\ pending' = Nil
    <2>1. Record!Install(DesiredOf(s))
      BY <1>3 DEF Record!Install, DesiredOf
    <2>2. QED
      BY <1>1, <2>1 DEF Record!Next
  <1>4. QED
    BY <1>2, <1>3

LEMMA RecordStutters ==
    ASSUME UNCHANGED <<applied, pending>>
    PROVE  UNCHANGED Record!vars
  BY DEF Record!vars, DesiredOf

(* converge writes the record once before the first command, or once when  *)
(* the kernel needs nothing.                                               *)
LEMMA ConvergeRecord ==
    ASSUME IInv, NEW s \in Snapshot, NEW e \in BOOLEAN, converge(s, e),
           Record!Acceptable(DesiredOf(s))
    PROVE  [Record!Next]_(Record!vars)
  <1> DEFINE target == [s EXCEPT !.view = View(s.content, clock)]
  <1>1. target \in Snapshot /\ DesiredOf(target) = DesiredOf(s)
    BY ViewType DEF IInv, TypeOK, Snapshot, DesiredOf
  <1>2. SaveCurrent(target) \/ SavePending(target) \/ Refuse(target, e)
    BY DEF converge
  <1> HIDE DEF target
  <1>3. \/ UNCHANGED <<applied, pending>>
        \/ pending' = target /\ UNCHANGED applied
        \/ applied' = target /\ pending' = Nil
    BY <1>2 DEF SaveCurrent, SavePending, WriteAhead, Refuse, durable, vars
  <1>4. QED
    BY <1>1, <1>3, RecordWritten, RecordStutters

LEMMA NextRecord ==
    ASSUME IInv, [Next]_vars
    PROVE  [Record!Next]_(Record!vars)
  <1>1. ASSUME NEW gen \in Generation, NEW content \in Content, Apply(gen, content)
        PROVE  [Record!Next]_(Record!vars)
    <2> DEFINE fresh == [gen |-> gen, content |-> content, view |-> 0, cleaned |-> FALSE]
               target == IF SameDesired(pending, fresh) THEN pending
                         ELSE IF SameDesired(applied, fresh) THEN applied
                         ELSE fresh
    <2>1. fresh \in Snapshot
      BY BoundAssumption DEF Snapshot
    <2>2. target \in Snapshot
      BY <2>1 DEF SameDesired, IInv, TypeOK, Snapshot, Nil, Generation
    <2>3. target.gen = gen /\ target.content = content
      BY DEF SameDesired
    <2>4. validateIncomingGeneration(gen, content) /\ converge(target, TRUE)
      BY <1>1 DEF Apply
    <2> HIDE DEF target
    <2>5. Record!Acceptable(DesiredOf(target))
      BY <2>3, <2>4
      DEF validateIncomingGeneration, Record!Acceptable, Record!Succeeds, DesiredOf
    <2>6. QED
      BY <2>2, <2>4, <2>5, ConvergeRecord
  <1>2. CASE Durable # Nil /\ converge(Durable, FALSE)
    BY <1>2, DurableAcceptable, ConvergeRecord
  <1>3. CASE Commit
    <2>1. CASE applied' = op.target /\ pending' = Nil
      <3>1. op # Idle /\ op \in Running /\ ~op.purging
        BY <1>3 DEF Commit, Idle, IInv, TypeOK, OperationKnown, ConvergeSteps
      <3>2. op.target \in Snapshot /\ pending # Nil /\ SameDesired(pending, op.target)
        BY <3>1 DEF Running, IInv, OperationKnown
      <3>3. Durable # Nil /\ DesiredOf(op.target) = DesiredOf(Durable)
        BY <3>2 DEF Durable, SameDesired, DesiredOf
      <3>4. QED
        BY <2>1, <3>2, <3>3, DurableAcceptable, RecordWritten
    <2>2. CASE UNCHANGED <<applied, pending>>
      BY <2>2, RecordStutters
    <2>3. QED
      BY <1>3, <2>1, <2>2 DEF Commit, durable
  <1>4. CASE UNCHANGED <<applied, pending>>
    BY <1>4, RecordStutters
  <1>5. CASE Command /\ ~Commit
    <2>1. UNCHANGED <<applied, pending>>
      BY <1>5 DEF Command, FabricPrepare, NftApply, TcApply, FabricCleanup, Verify,
                  ConntrackDelete, RollbackPrepare, RollbackNft, RollbackTc,
                  RollbackCleanup, PurgeNft, PurgeTc, PurgeCleanup, PurgeVerify, durable
    <2>2. QED
      BY <2>1, RecordStutters
  <1>6. CASE Recover \/ Audit \/ Refresh
    BY <1>2, <1>4, <1>6 DEF Recover, Audit, Refresh, durable
  <1>7. CASE \/ Purge \/ Crash \/ Reboot \/ Drift \/ ForeignTable \/ ForeignTableRemoved
             \/ Tick \/ NewFlow \/ UNCHANGED vars
    BY <1>4, <1>7 DEF Purge, Crash, Reboot, Drift, ForeignTable, ForeignTableRemoved,
                      Tick, NewFlow, durable, vars
  <1>8. QED
    BY <1>1, <1>3, <1>5, <1>6, <1>7 DEF Next

(* Through every failure, rollback and restart the durable record behaves  *)
(* as the abstract one: what was accepted stays pending until it, or a     *)
(* later state, is installed.                                              *)
THEOREM RecordImplemented == Spec => ImplementsRecord
  <1>1. Init => Record!Init
    BY DEF Init, Record!Init, DesiredOf, Nil
  <1>2. IInv /\ [Next]_vars => [Record!Next]_(Record!vars)
    BY NextRecord
  <1>3. QED
    BY <1>1, <1>2, InvariantHolds, PTL DEF Spec, ImplementsRecord, Record!Spec

-----------------------------------------------------------------------------
(* A force-deleted forward keeps no flow.                                  *)

(* No newer generation has been accepted than the one that is applied.     *)
Settled == pending = Nil \/ pending.gen = applied.gen

(* Why no flow survives a commit of a force-deleted forward.  A cleaned    *)
(* mark is only believed for the generation that is applied, so a new one  *)
(* always goes through conntrack; the table a commit or a settled record   *)
(* finds is never that of another generation, so no new flow is opened     *)
(* behind the cleanup.                                                     *)
MarkInv ==
    /\ pending.cleaned => pending.gen = applied.gen
    /\ op.pc # "commit" /\ op.target.cleaned => pending.cleaned

SettledInv ==
    Settled =>
        /\ nft.kind = "flux" => SameDesired(nft, applied)
        /\ applied.content \in Forced => ~flow

VerifiedInv ==
    /\ op.pc \in {"conntrack", "commit"} /\ nft.kind = "flux" => SameDesired(nft, op.target)
    /\ op.pc = "commit" /\ op.target.content \in Forced => ~flow

ClearInv == MarkInv /\ SettledInv /\ VerifiedInv

(* What Goto leaves of the operation.                                      *)
LEMMA GotoKeeps ==
    ASSUME TypeOK, op # Idle, NEW step \in ConvergeSteps \cup RollbackSteps \cup PurgeSteps,
           Goto(step)
    PROVE  /\ op'.pc = step /\ op'.target = op.target /\ op'.purging = op.purging
           /\ op' # Idle
  BY DEF TypeOK, Goto, Running, Idle, ConvergeSteps, RollbackSteps, PurgeSteps

(* A snapshot whose marks may be believed.                                 *)
Trusted(s) ==
    /\ s.gen = applied.gen => Settled
    /\ s.cleaned => s.gen = applied.gen

(* What the Agent converges to by itself, or takes from the Controller, is *)
(* such a snapshot.                                                        *)
LEMMA DurableTrusted ==
    ASSUME IInv, MarkInv, Durable # Nil
    PROVE  Durable \in Snapshot /\ Accepted(Durable) /\ Trusted(Durable)
  <1>0. Durable \in Snapshot
    BY DEF IInv, TypeOK, Durable
  <1>1. applied.gen \in Nat /\ pending.gen \in Nat
    BY DEF IInv, TypeOK, Snapshot, Generation, Nil
  <1>2. CASE pending = Nil
    BY <1>0, <1>1, <1>2 DEF Durable, Accepted, Trusted, Settled, MarkInv, Nil
  <1>3. CASE pending # Nil
    BY <1>0, <1>1, <1>3 DEF IInv, RecordValid, MarkInv, Durable, Accepted, Trusted, Settled
  <1>4. QED  BY <1>2, <1>3

LEMMA IncomingTrusted ==
    ASSUME IInv, MarkInv, NEW gen \in Generation, NEW content \in Content,
           Apply(gen, content)
    PROVE  \E s \in Snapshot : Accepted(s) /\ Trusted(s) /\ converge(s, TRUE)
  <1> DEFINE fresh == [gen |-> gen, content |-> content, view |-> 0, cleaned |-> FALSE]
             target == IF SameDesired(pending, fresh) THEN pending
                       ELSE IF SameDesired(applied, fresh) THEN applied
                       ELSE fresh
  <1>1. fresh \in Snapshot
    BY BoundAssumption DEF Snapshot
  <1>2. target \in Snapshot
    BY <1>1 DEF SameDesired, IInv, TypeOK, Snapshot, Nil, Generation
  <1>3. target.gen = gen /\ target.content = content
    BY DEF SameDesired
  <1>4. validateIncomingGeneration(gen, content) /\ converge(target, TRUE)
    BY DEF Apply
  <1>5. Accepted(target)
    BY <1>3, <1>4 DEF validateIncomingGeneration, Accepted
  <1>6. gen \in Nat /\ applied.gen \in Nat /\ pending.gen \in Nat
    BY DEF Generation, IInv, TypeOK, Snapshot, Nil
  <1>7. gen = applied.gen => Settled
    BY <1>4, <1>6 DEF validateIncomingGeneration, Settled, IInv, RecordValid
  <1>8. target.cleaned => target.gen = applied.gen
    BY DEF MarkInv
  <1> HIDE DEF target
  <1>9. Trusted(target)
    BY <1>3, <1>7, <1>8 DEF Trusted
  <1>10. QED  BY <1>2, <1>4, <1>5, <1>9

LEMMA ClearConverge ==
    ASSUME IInv, ClearInv, NEW s \in Snapshot, NEW e \in BOOLEAN, converge(s, e),
           Accepted(s), Trusted(s)
    PROVE  ClearInv'
  <1> DEFINE target == [s EXCEPT !.view = View(s.content, clock)]
  <1>1. /\ target \in Snapshot /\ target.gen = s.gen /\ target.content = s.content
        /\ target.cleaned = s.cleaned
    BY ViewType DEF IInv, TypeOK, Snapshot
  <1>2. /\ op = Idle
        /\ SaveCurrent(target) \/ SavePending(target) \/ Refuse(target, e)
    BY DEF converge
  <1> HIDE DEF target
  <1>3. target # Nil /\ Nil.cleaned = FALSE /\ Idle.pc = "idle" /\ Idle.target = Nil
    BY <1>1 DEF Nil, Snapshot, Generation, Idle
  <1>4. CASE SaveCurrent(target)
    <2>1. op' = Idle /\ nft' = nft /\ flow' = flow /\ nft = Table(target)
      BY <1>2, <1>4 DEF SaveCurrent, kernel, NftCurrent, Installed
    <2>2. CASE RecordDiffers(target)
      <3>1. applied' = target /\ pending' = Nil
        BY <1>4, <2>2 DEF SaveCurrent
      <3>2. MarkInv' /\ VerifiedInv'
        BY <1>3, <2>1, <3>1 DEF MarkInv, VerifiedInv
      <3>3. target.content \in Forced => ~flow
        <4>1. SUFFICES ASSUME target.content \in Forced PROVE ~flow
          OBVIOUS
        <4>2. target.cleaned
          BY <1>4, <4>1 DEF SaveCurrent, CleanupNeeded
        <4>3. Settled /\ applied.content = target.content
          BY <1>1, <4>2 DEF Trusted, Accepted
        <4>4. QED  BY <4>1, <4>3 DEF ClearInv, SettledInv
      <3>4. SettledInv'
        BY <2>1, <3>1, <3>3 DEF SettledInv, SameDesired, Table
      <3>5. QED  BY <3>2, <3>4 DEF ClearInv
    <2>3. CASE ~RecordDiffers(target)
      <3>1. UNCHANGED <<applied, pending>>
        BY <1>4, <2>3 DEF SaveCurrent, durable
      <3>2. QED
        BY <1>2, <2>1, <3>1 DEF ClearInv, MarkInv, SettledInv, Settled, VerifiedInv
    <2>4. QED  BY <2>2, <2>3
  <1>5. CASE SavePending(target)
    <2>1. /\ pending' = target /\ applied' = applied /\ nft' = nft /\ flow' = flow
          /\ op'.target = target /\ op'.pc = "prepare"
      BY <1>5 DEF SavePending, WriteAhead, kernel
    <2>2. MarkInv'
      BY <1>1, <2>1 DEF MarkInv, Trusted
    <2>3. Settled' => Settled
      BY <1>1, <1>3, <2>1 DEF Settled, Trusted
    <2>4. SettledInv' /\ VerifiedInv'
      BY <2>1, <2>3 DEF ClearInv, SettledInv, VerifiedInv
    <2>5. QED  BY <2>2, <2>4 DEF ClearInv
  <1>6. CASE Refuse(target, e)
    BY <1>6 DEF Refuse, vars, ClearInv, MarkInv, SettledInv, Settled, VerifiedInv
  <1>7. QED  BY <1>2, <1>4, <1>5, <1>6

(* A step that leaves the record and the flows alone, removes the table if *)
(* it changes it, and ends the operation or moves it to a step before the  *)
(* verification, keeps the invariant.                                      *)
LEMMA ClearQuiet ==
    ASSUME ClearInv, UNCHANGED <<applied, pending>>, flow' = flow \/ flow' = FALSE,
           nft' = nft \/ nft'.kind # "flux",
           \/ op' = Idle
           \/ op' = op
           \/ /\ op'.target = op.target /\ op.pc # "commit"
              /\ op'.pc \notin {"conntrack", "commit"}
    PROVE  ClearInv'
  <1>1. Nil.cleaned = FALSE /\ Idle.pc = "idle" /\ Idle.target = Nil
    BY DEF Nil, Idle
  <1>2. MarkInv'
    BY <1>1 DEF ClearInv, MarkInv
  <1>3. SettledInv'
    BY DEF ClearInv, SettledInv, Settled
  <1>4. VerifiedInv'
    BY <1>1 DEF ClearInv, VerifiedInv
  <1>5. QED  BY <1>2, <1>3, <1>4 DEF ClearInv

LEMMA ClearCommand ==
    ASSUME IInv, ClearInv, Command
    PROVE  ClearInv'
  <1>1. TypeOK /\ (op.pc # "idle" => op # Idle /\ op \in Running)
    BY DEF IInv, TypeOK, Idle
  <1> USE DEF ConvergeSteps, RollbackSteps, PurgeSteps
  <1>2. CASE \/ FabricPrepare \/ TcApply \/ FabricCleanup
             \/ RollbackPrepare \/ RollbackTc \/ PurgeNft \/ PurgeTc \/ PurgeCleanup
    <2>1. /\ UNCHANGED <<applied, pending, flow>>
          /\ nft' = nft \/ nft' = Absent
          /\ op.pc \notin {"idle", "commit"}
          /\ \E step \in {"nft", "cleanup", "verify", "rbPrepare", "rbNft", "rbCleanup",
                          "purgeTc", "purgeCleanup", "purgeVerify"} : Goto(step)
      BY <1>2 DEF FabricPrepare, TcApply, FabricCleanup, RollbackPrepare, RollbackTc, PurgeNft,
                  PurgeTc, PurgeCleanup, StartRollback, durable
    <2>2. op'.target = op.target /\ op'.pc \notin {"conntrack", "commit"}
      BY <1>1, <2>1, GotoKeeps
    <2>3. QED  BY <2>1, <2>2, ClearQuiet DEF Absent
  <1>3. CASE RollbackCleanup \/ PurgeVerify
    <2>1. /\ UNCHANGED <<applied, pending, flow, nft>>
          /\ op.pc \notin {"idle", "commit"}
          /\ op' = Idle \/ Goto("rbPrepare")
      BY <1>3 DEF RollbackCleanup, PurgeVerify, StartRollback, durable, kernel
    <2>2. op' = Idle \/ (op'.target = op.target /\ op'.pc = "rbPrepare")
      BY <1>1, <2>1, GotoKeeps
    <2>3. QED  BY <2>1, <2>2, ClearQuiet
  <1>4. CASE NftApply
    <2>1. /\ UNCHANGED <<applied, pending, flow>>
          /\ op # Idle /\ op.pc = "nft" /\ op \in Running
          /\ nft' = nft \/ nft' = Table(op.target)
          /\ \E step \in {"tc", "rbPrepare"} : Goto(step)
      BY <1>1, <1>4 DEF NftApply, StartRollback, durable
    <2>2. op'.target = op.target /\ op'.pc \notin {"conntrack", "commit"}
      BY <1>1, <2>1, GotoKeeps
    <2>3. pending # Nil /\ SameDesired(pending, op.target)
      BY <2>1 DEF IInv, OperationKnown
    <2>4. CASE nft' = nft
      BY <2>1, <2>2, <2>4, ClearQuiet
    <2>5. CASE nft' = Table(op.target)
      <3>1. MarkInv' /\ VerifiedInv'
        BY <2>1, <2>2 DEF ClearInv, MarkInv, VerifiedInv
      <3>2. Settled => SameDesired(op.target, applied)
        BY <2>3 DEF Settled, SameDesired, IInv, RecordValid
      <3>3. SettledInv'
        BY <2>1, <2>5, <3>2 DEF ClearInv, SettledInv, Settled, SameDesired, Table
      <3>4. QED  BY <3>1, <3>3 DEF ClearInv
    <2>6. QED  BY <2>1, <2>4, <2>5
  <1>5. CASE RollbackNft
    <2>1. /\ UNCHANGED <<applied, pending, flow>>
          /\ op # Idle /\ op.pc = "rbNft"
          /\ nft' = nft \/ nft' = RollbackTable
          /\ Goto("rbTc")
      BY <1>1, <1>5 DEF RollbackNft, durable
    <2>2. op'.target = op.target /\ op'.pc = "rbTc"
      BY <1>1, <2>1, GotoKeeps
    <2>3. CASE nft' = nft \/ applied = Nil
      BY <2>1, <2>2, <2>3, ClearQuiet DEF RollbackTable, Absent
    <2>4. CASE nft' = RollbackTable /\ applied # Nil
      <3>1. applied \in Snapshot
        BY <1>1, <2>4 DEF TypeOK
      <3>2. SameDesired(nft', applied)
        BY <2>4, <3>1 DEF RollbackTable, Table, Snapshot, SameDesired
      <3>3. QED
        BY <2>1, <2>2, <3>2
           DEF ClearInv, MarkInv, SettledInv, Settled, VerifiedInv, SameDesired
    <2>5. QED  BY <2>1, <2>3, <2>4
  <1>6. CASE Verify
    <2>1. /\ UNCHANGED <<applied, pending, flow, nft>>
          /\ op # Idle /\ op.pc = "verify" /\ op \in Running
      BY <1>1, <1>6 DEF Verify, durable, kernel
    <2>2. CASE Goto("rbPrepare")
      <3>1. op'.target = op.target /\ op'.pc = "rbPrepare"
        BY <1>1, <2>1, <2>2, GotoKeeps
      <3>2. QED  BY <2>1, <3>1, ClearQuiet
    <2>3. CASE AllVerified(op.target) /\ Goto("conntrack")
      <3>1. op'.target = op.target /\ op'.pc = "conntrack"
        BY <1>1, <2>1, <2>3, GotoKeeps
      <3>2. SameDesired(nft, op.target)
        BY <2>3 DEF AllVerified, Installed, Table, SameDesired
      <3>3. QED
        BY <2>1, <3>1, <3>2
           DEF ClearInv, MarkInv, SettledInv, Settled, VerifiedInv, SameDesired
    <2>4. CASE AllVerified(op.target) /\ ~CleanupNeeded(op.target) /\ Goto("commit")
      <3>1. op'.target = op.target /\ op'.pc = "commit"
        BY <1>1, <2>1, <2>4, GotoKeeps
      <3>2. SameDesired(nft, op.target)
        BY <2>4 DEF AllVerified, Installed, Table, SameDesired
      <3>3. op.target.content \in Forced => ~flow
        <4>1. SUFFICES ASSUME op.target.content \in Forced PROVE ~flow
          OBVIOUS
        <4>2. pending.cleaned
          BY <2>1, <2>4, <4>1 DEF CleanupNeeded, ClearInv, MarkInv
        <4>3. pending # Nil /\ SameDesired(pending, op.target)
          BY <2>1 DEF IInv, OperationKnown
        <4>4. Settled /\ applied.content = op.target.content
          BY <4>2, <4>3 DEF ClearInv, MarkInv, Settled, SameDesired, IInv, RecordValid
        <4>5. QED  BY <4>1, <4>4 DEF ClearInv, SettledInv
      <3>4. MarkInv' /\ SettledInv'
        BY <2>1, <3>1 DEF ClearInv, MarkInv, SettledInv, Settled
      <3>5. VerifiedInv'
        BY <2>1, <3>1, <3>2, <3>3 DEF VerifiedInv, SameDesired
      <3>6. QED  BY <3>4, <3>5 DEF ClearInv
    <2>5. QED  BY <1>6, <2>2, <2>3, <2>4 DEF Verify, StartRollback
  <1>7. CASE ConntrackDelete
    <2>1. /\ UNCHANGED <<applied, pending, nft>>
          /\ op # Idle /\ op.pc = "conntrack" /\ op \in Running
      BY <1>1, <1>7 DEF ConntrackDelete, durable
    <2>2. CASE op' = Idle /\ UNCHANGED flow
      BY <2>1, <2>2, ClearQuiet
    <2>3. CASE /\ flow' = FALSE
               /\ op' = [op EXCEPT !.pc = "commit", !.target = [op.target EXCEPT !.cleaned = TRUE]]
      <3> DEFINE t == [op.target EXCEPT !.cleaned = TRUE]
      <3>1. op.target \in Snapshot
        BY <2>1 DEF Running
      <3>2. SameDesired(t, op.target)
        BY <3>1 DEF Snapshot, SameDesired
      <3>3. op' = [op EXCEPT !.pc = "commit", !.target = t]
        BY <2>3
      <3> HIDE DEF t
      <3>4. op'.pc = "commit" /\ op'.target = t
        BY <2>1, <3>3 DEF Running
      <3>5. QED
        BY <2>1, <2>3, <3>2, <3>4
           DEF ClearInv, MarkInv, SettledInv, Settled, VerifiedInv, SameDesired
    <2>4. QED  BY <1>7, <2>2, <2>3 DEF ConntrackDelete
  <1>8. CASE Commit
    <2>1. op # Idle /\ op.pc = "commit" /\ op' = Idle /\ nft' = nft /\ flow' = flow
      BY <1>1, <1>8 DEF Commit, kernel
    <2>2. CASE UNCHANGED <<applied, pending>>
      BY <2>1, <2>2, ClearQuiet
    <2>3. CASE applied' = op.target /\ pending' = Nil
      <3>1. Nil.cleaned = FALSE /\ Idle.pc = "idle" /\ Idle.target = Nil
        BY DEF Nil, Idle
      <3>2. QED
        BY <2>1, <2>3, <3>1
           DEF ClearInv, MarkInv, SettledInv, Settled, VerifiedInv, SameDesired
    <2>4. QED  BY <1>8, <2>2, <2>3 DEF Commit, durable
  <1>9. QED
    BY <1>2, <1>3, <1>4, <1>5, <1>6, <1>7, <1>8 DEF Command

LEMMA ClearStep ==
    ASSUME IInv, ClearInv, [Next]_vars
    PROVE  ClearInv'
  <1>1. ASSUME NEW gen \in Generation, NEW content \in Content, Apply(gen, content)
        PROVE  ClearInv'
    BY <1>1, IncomingTrusted, ClearConverge DEF ClearInv
  <1>2. CASE Recover \/ Audit \/ Refresh
    <2>1. CASE Durable # Nil /\ converge(Durable, FALSE)
      <3>1. Durable \in Snapshot /\ Accepted(Durable) /\ Trusted(Durable)
        BY <2>1, DurableTrusted DEF ClearInv
      <3>2. QED  BY <2>1, <3>1, ClearConverge
    <2>2. CASE Recover /\ Durable = Nil
      BY <2>2, ClearQuiet DEF Recover, durable, kernel
    <2>3. QED  BY <1>2, <2>1, <2>2 DEF Recover, Audit, Refresh
  <1>3. CASE Purge
    <2>1. /\ UNCHANGED <<applied, pending, nft, flow>> /\ op = Idle
          /\ op'.pc = "purgeNft" /\ op'.target = CleanSnapshot
      BY <1>3 DEF Purge, durable, kernel, Idle
    <2>2. CleanSnapshot.cleaned = FALSE
      BY DEF CleanSnapshot
    <2>3. QED
      BY <2>1, <2>2 DEF ClearInv, MarkInv, SettledInv, Settled, VerifiedInv
  <1>4. CASE Command
    BY <1>4, ClearCommand
  <1>5. CASE Crash \/ Reboot \/ ForeignTable \/ ForeignTableRemoved
    <2>1. /\ UNCHANGED <<applied, pending>> /\ (op' = op \/ op' = Idle)
          /\ nft' = nft \/ nft' = Absent \/ nft' = Foreign
          /\ flow' = flow \/ flow' = FALSE
      BY <1>5 DEF Crash, Reboot, ForeignTable, ForeignTableRemoved, durable, kernel
    <2>2. nft' = nft \/ nft'.kind # "flux"
      BY <2>1 DEF Absent, Foreign
    <2>3. QED  BY <2>1, <2>2, ClearQuiet
  <1>6. CASE Drift \/ Tick \/ UNCHANGED vars
    <2>1. /\ UNCHANGED <<applied, pending, op, flow>>
          /\ nft' = nft \/ nft' = Absent
      BY <1>6 DEF Drift, Tick, durable, kernel, vars
    <2>2. QED  BY <2>1, ClearQuiet DEF Absent
  <1>7. CASE NewFlow
    <2>1. /\ UNCHANGED <<applied, pending, op, nft>>
          /\ nft.kind = "flux" /\ nft.content \notin Forced
      BY <1>7, ContentAssumption DEF NewFlow, durable
    <2>2. MarkInv'
      BY <2>1 DEF ClearInv, MarkInv
    <2>3. SettledInv' /\ VerifiedInv'
      BY <2>1 DEF ClearInv, SettledInv, Settled, VerifiedInv, SameDesired
    <2>4. QED  BY <2>2, <2>3 DEF ClearInv
  <1>8. QED
    BY <1>1, <1>2, <1>3, <1>4, <1>5, <1>6, <1>7 DEF Next

(* A force-deleted forward that has been committed has no flow left,       *)
(* whenever the flows were opened and however often the cleanup failed.    *)
THEOREM ForceAlwaysCleared == Spec => []ForceCleared
  <1>1. Init => ClearInv
    BY DEF Init, ClearInv, MarkInv, SettledInv, VerifiedInv, Nil, Idle, Absent
  <1>2. IInv /\ ClearInv /\ [Next]_vars => ClearInv'
    BY ClearStep
  <1>3. ClearInv => ForceCleared
    BY DEF ClearInv, SettledInv, Settled, ForceCleared
  <1>4. QED
    BY <1>1, <1>2, <1>3, InvariantHolds, PTL DEF Spec

-----------------------------------------------------------------------------
(* A failed converge is undone all the way.                                *)

(* What a rollback restores.                                               *)
TableOf(s) ==
    IF s = Nil THEN nft.kind # "flux" ELSE nft.kind = "flux" /\ SameDesired(nft, s)

(* Why a failed converge leaves the applied snapshot in the kernel: while  *)
(* nothing else disturbs it there is a table for the rollback script to    *)
(* delete whenever there is one to restore, and each command of the        *)
(* rollback keeps what the commands before it restored.                    *)
UndoInv ==
    /\ op # Idle /\ op.purging => ~faithful
    /\ faithful =>
        /\ op = Idle => Implements(applied) \/ (pending # Nil /\ Implements(pending))
        /\ op.pc \in {"prepare", "nft", "tc", "cleanup", "verify", "rbPrepare", "rbNft"}
              => (applied # Nil => nft.kind = "flux")
        /\ op.pc \in {"conntrack", "commit"} => Implements(op.target)
        /\ op.pc \in {"rbNft", "rbTc", "rbCleanup"} => FabricVerified(applied.content)
        /\ op.pc \in {"rbTc", "rbCleanup"} => TableOf(applied)
        /\ op.pc = "rbCleanup" => TcVerified(applied.content)

(* Preparing and cleaning the fabric for a content.                        *)
LEMMA FabricRestored ==
    ASSUME TypeOK, NEW c \in Content, NEW d \in Content
    PROVE  /\ fabric' = FabricPrepared(c, Link) => FabricVerified(c)'
           /\ \A done \in SUBSET Link :
                 fabric' = FabricCleaned(d, c, done) /\ FabricVerified(c) => FabricVerified(c)'
  <1>1. FabricOf[c] \in [Link -> Setting \cup {NoLink}]
    BY ProgramAssumption
  <1>2. fabric \in [Link -> Setting \cup {NoLink}]
    BY DEF TypeOK
  <1>3. QED
    BY <1>1, <1>2 DEF FabricPrepared, FabricCleaned, FabricVerified

(* converge starts from a kernel with a table if one is applied.           *)
LEMMA UndoConverge ==
    ASSUME IInv, UndoInv, NEW s \in Snapshot, NEW e \in BOOLEAN, converge(s, e)
    PROVE  UndoInv'
  <1> DEFINE target == [s EXCEPT !.view = View(s.content, clock)]
  <1>1. target \in Snapshot
    BY ViewType DEF IInv, TypeOK
  <1>2. /\ op = Idle
        /\ SaveCurrent(target) \/ SavePending(target) \/ Refuse(target, e)
    BY DEF converge
  <1> HIDE DEF target
  <1>3. target # Nil /\ Idle.pc = "idle"
    BY <1>1 DEF Nil, Snapshot, Generation, Idle
  <1>4. CASE SaveCurrent(target)
    <2>1. op' = Idle /\ UNCHANGED <<nft, tc, fabric, faithful>>
      BY <1>2, <1>4 DEF SaveCurrent, kernel
    <2>2. CASE RecordDiffers(target)
      <3>1. applied' = target /\ pending' = Nil
        BY <1>4, <2>2 DEF SaveCurrent
      <3>2. Implements(target)
        BY <1>3, <1>4 DEF SaveCurrent, NftCurrent, Installed, Table, TcCurrent, FabricCurrent,
                          Implements, SameDesired
      <3>3. Implements(applied)'
        BY <2>1, <3>1, <3>2 DEF Implements, SameDesired, TcVerified, FabricVerified
      <3>4. QED  BY <1>3, <2>1, <3>3 DEF UndoInv
    <2>3. CASE ~RecordDiffers(target)
      <3>1. UNCHANGED <<applied, pending>>
        BY <1>4, <2>3 DEF SaveCurrent, durable
      <3>2. QED
        BY <1>2, <1>3, <2>1, <3>1
           DEF UndoInv, Implements, SameDesired, TcVerified, FabricVerified
    <2>4. QED  BY <2>2, <2>3
  <1>5. CASE SavePending(target)
    <2>1. /\ applied' = applied /\ nft' = nft /\ faithful' = faithful
          /\ op'.pc = "prepare" /\ op'.purging = FALSE /\ op' # Idle
      BY <1>3, <1>5 DEF SavePending, kernel
    <2>2. faithful => (applied # Nil => nft.kind = "flux")
      BY <1>2 DEF UndoInv, Implements
    <2>3. QED  BY <2>1, <2>2 DEF UndoInv
  <1>6. CASE Refuse(target, e)
    BY <1>6 DEF Refuse, vars, UndoInv, Implements, TableOf, SameDesired, TcVerified, FabricVerified
  <1>7. QED  BY <1>2, <1>4, <1>5, <1>6

(* The commands of converge up to its verification, and the failures that  *)
(* start a rollback.                                                       *)
LEMMA UndoForward ==
    ASSUME UndoInv, UNCHANGED <<applied, faithful>>,
           op # Idle, op' # Idle, op'.purging = op.purging,
           op.pc \in {"prepare", "nft", "tc", "cleanup", "verify"},
           op'.pc \in {"prepare", "nft", "tc", "cleanup", "verify", "rbPrepare"},
           nft' = nft \/ nft'.kind = "flux"
    PROVE  UndoInv'
  BY DEF UndoInv

(* While faithful does not hold nothing is claimed.                        *)
LEMMA UndoLost ==
    ASSUME ~faithful'
    PROVE  UndoInv'
  BY DEF UndoInv

LEMMA UndoCommand ==
    ASSUME IInv, UndoInv, Command
    PROVE  UndoInv'
  <1>1. /\ TypeOK /\ applied.content \in Content
        /\ op.pc # "idle" => op # Idle /\ op \in Running /\ op.target.content \in Content
    BY StateTypes DEF IInv, TypeOK, Idle
  <1> USE DEF ConvergeSteps, RollbackSteps, PurgeSteps
  <1>2. CASE FabricPrepare \/ NftApply \/ TcApply \/ FabricCleanup
    <2>1. /\ UNCHANGED <<applied, faithful>>
          /\ op.pc \in {"prepare", "nft", "tc", "cleanup"}
          /\ nft' = nft \/ nft'.kind = "flux"
          /\ \E step \in {"nft", "tc", "cleanup", "verify", "rbPrepare"} : Goto(step)
      BY <1>2 DEF FabricPrepare, NftApply, TcApply, FabricCleanup, StartRollback, Table, durable
    <2>2. /\ op # Idle /\ op' # Idle /\ op'.purging = op.purging
          /\ op'.pc \in {"nft", "tc", "cleanup", "verify", "rbPrepare"}
      BY <1>1, <2>1, GotoKeeps
    <2>3. QED  BY <2>1, <2>2, UndoForward
  <1>3. CASE Verify
    <2>1. /\ UNCHANGED <<applied, pending, nft, tc, fabric>>
          /\ op # Idle /\ op.pc = "verify" /\ op \in Running
      BY <1>1, <1>3 DEF Verify, durable, kernel
    <2>2. CASE Goto("rbPrepare") /\ UNCHANGED faithful
      <3>1. op' # Idle /\ op'.pc = "rbPrepare" /\ op'.purging = op.purging
        BY <1>1, <2>1, <2>2, GotoKeeps
      <3>2. QED  BY <2>1, <2>2, <3>1, UndoForward
    <2>3. CASE /\ AllVerified(op.target)
               /\ \E step \in {"conntrack", "commit"} : Goto(step)
      <3>1. /\ op' # Idle /\ op'.pc \in {"conntrack", "commit"} /\ op'.purging = op.purging
            /\ op'.target = op.target
        BY <1>1, <2>1, <2>3, GotoKeeps
      <3>2. op.target # Nil /\ ~ op.purging
        BY <2>1 DEF Running, Nil, Snapshot, Generation, IInv, OperationKnown
      <3>3. Implements(op.target)
        BY <2>3, <3>2 DEF AllVerified, Installed, Table, SameDesired, Implements
      <3>4. Implements(op.target)'
        BY <2>1, <3>1, <3>3 DEF Implements, SameDesired, TcVerified, FabricVerified
      <3>5. QED  BY <3>1, <3>2, <3>4 DEF UndoInv
    <2>4. QED  BY <1>3, <2>2, <2>3 DEF Verify, StartRollback
  <1>4. CASE ConntrackDelete
    <2>1. /\ UNCHANGED <<applied, pending, nft, tc, fabric, faithful>>
          /\ op # Idle /\ op.pc = "conntrack" /\ op \in Running
      BY <1>1, <1>4 DEF ConntrackDelete, durable
    <2>2. op.target \in Snapshot /\ op.target # Nil
      BY <2>1 DEF Running, Nil, Snapshot, Generation
    <2>3. pending # Nil /\ SameDesired(pending, op.target) /\ ~ op.purging
      BY <2>1 DEF IInv, OperationKnown
    <2>4. faithful => Implements(op.target)
      BY <2>1 DEF UndoInv
    <2>5. CASE op' = Idle
      <3>1. faithful => Implements(pending)'
        BY <2>1, <2>2, <2>3, <2>4 DEF Implements, SameDesired, TcVerified, FabricVerified
      <3>2. QED  BY <2>1, <2>3, <2>5, <3>1 DEF UndoInv, Idle
    <2>6. CASE op' = [op EXCEPT !.pc = "commit", !.target = [op.target EXCEPT !.cleaned = TRUE]]
      <3> DEFINE t == [op.target EXCEPT !.cleaned = TRUE]
      <3>1. SameDesired(t, op.target) /\ t # Nil
        BY <2>2 DEF Snapshot, SameDesired, Nil, Generation
      <3>2. op' = [op EXCEPT !.pc = "commit", !.target = t]
        BY <2>6
      <3> HIDE DEF t
      <3>3. op'.pc = "commit" /\ op'.target = t /\ op'.purging = op.purging /\ op' # Idle
        BY <2>1, <3>2 DEF Running, Idle
      <3>4. faithful => Implements(op.target)'
        BY <2>1, <2>2, <2>4, <3>1, <3>3
           DEF Implements, SameDesired, TcVerified, FabricVerified
      <3>5. QED  BY <2>1, <2>3, <3>3, <3>4 DEF UndoInv
    <2>7. QED  BY <1>4, <2>5, <2>6 DEF ConntrackDelete
  <1>5. CASE Commit
    <2>1. /\ op # Idle /\ op.pc = "commit" /\ op' = Idle /\ op \in Running
          /\ UNCHANGED <<nft, tc, fabric, faithful>>
      BY <1>1, <1>5 DEF Commit, kernel
    <2>2. op.target # Nil
      BY <2>1 DEF Running, Nil, Snapshot, Generation
    <2>3. pending # Nil /\ SameDesired(pending, op.target)
      BY <2>1 DEF IInv, OperationKnown
    <2>4. faithful => Implements(op.target)
      BY <2>1 DEF UndoInv
    <2>5. CASE UNCHANGED <<applied, pending>>
      <3>1. faithful => Implements(pending)'
        BY <2>1, <2>2, <2>3, <2>4, <2>5 DEF Implements, SameDesired, TcVerified, FabricVerified
      <3>2. QED  BY <2>1, <2>3, <2>5, <3>1 DEF UndoInv, Idle
    <2>6. CASE applied' = op.target /\ pending' = Nil
      <3>1. faithful => Implements(applied)'
        BY <2>1, <2>2, <2>4, <2>6 DEF Implements, SameDesired, TcVerified, FabricVerified
      <3>2. QED  BY <2>1, <3>1 DEF UndoInv, Idle
    <2>7. QED  BY <1>5, <2>5, <2>6 DEF Commit, durable
  <1>6. CASE RollbackPrepare
    <2>1. UNCHANGED <<applied, nft>> /\ op.pc = "rbPrepare" /\ Goto("rbNft")
      BY <1>6 DEF RollbackPrepare, durable
    <2>2. op # Idle /\ op' # Idle /\ op'.pc = "rbNft" /\ op'.purging = op.purging
      BY <1>1, <2>1, GotoKeeps
    <2>3. CASE fabric' = FabricPrepared(applied.content, Link) /\ UNCHANGED faithful
      <3>1. FabricVerified(applied.content)'
        BY <1>1, <2>1, <2>3, FabricRestored DEF FabricVerified
      <3>2. QED  BY <2>1, <2>2, <2>3, <3>1 DEF UndoInv
    <2>4. CASE faithful' = FALSE
      BY <2>4, UndoLost
    <2>5. QED  BY <1>6, <2>3, <2>4 DEF RollbackPrepare
  <1>7. CASE RollbackNft
    <2>1. UNCHANGED <<applied, tc, fabric>> /\ op.pc = "rbNft" /\ Goto("rbTc")
      BY <1>7 DEF RollbackNft, durable
    <2>2. op # Idle /\ op' # Idle /\ op'.pc = "rbTc" /\ op'.purging = op.purging
      BY <1>1, <2>1, GotoKeeps
    <2>3. CASE faithful' = FALSE
      BY <2>3, UndoLost
    <2>4. CASE UNCHANGED faithful /\ (nft' = RollbackTable \/ (nft.kind = "absent" /\ nft' = nft))
      <3>1. faithful => FabricVerified(applied.content)'
        BY <2>1 DEF UndoInv, FabricVerified
      <3>2. CASE nft' = RollbackTable
        <4>1. TableOf(applied)'
          <5>1. CASE applied = Nil
            BY <2>1, <3>2, <5>1 DEF TableOf, RollbackTable, Absent
          <5>2. CASE applied # Nil
            <6>1. applied \in Snapshot
              BY <1>1, <5>2 DEF TypeOK
            <6>2. nft'.kind = "flux" /\ SameDesired(nft', applied)
              BY <3>2, <5>2, <6>1 DEF RollbackTable, Table, Snapshot, SameDesired
            <6>3. QED  BY <2>1, <5>2, <6>2 DEF TableOf, SameDesired
          <5>3. QED  BY <5>1, <5>2
        <4>2. QED  BY <2>1, <2>2, <2>4, <3>1, <4>1 DEF UndoInv
      <3>3. CASE nft.kind = "absent" /\ nft' = nft
        <4>1. faithful => applied = Nil
          BY <2>1, <3>3 DEF UndoInv
        <4>2. faithful => TableOf(applied)'
          BY <2>1, <3>3, <4>1 DEF TableOf
        <4>3. QED  BY <2>1, <2>2, <2>4, <3>1, <4>2 DEF UndoInv
      <3>4. QED  BY <2>4, <3>2, <3>3
    <2>5. QED  BY <1>7, <2>3, <2>4 DEF RollbackNft, ScriptAccepted
  <1>8. CASE RollbackTc
    <2>1. UNCHANGED <<applied, nft, fabric>> /\ op.pc = "rbTc" /\ Goto("rbCleanup")
      BY <1>8 DEF RollbackTc, durable
    <2>2. op # Idle /\ op' # Idle /\ op'.pc = "rbCleanup" /\ op'.purging = op.purging
      BY <1>1, <2>1, GotoKeeps
    <2>3. CASE faithful' = FALSE
      BY <2>3, UndoLost
    <2>4. CASE tc' = TcApplied(applied.content) /\ UNCHANGED faithful
      <3>1. TcVerified(applied.content)'
        BY <2>1, <2>4 DEF TcVerified, TcApplied
      <3>2. faithful => FabricVerified(applied.content)' /\ TableOf(applied)'
        BY <2>1 DEF UndoInv, FabricVerified, TableOf, SameDesired
      <3>3. QED  BY <2>1, <2>2, <2>4, <3>1, <3>2 DEF UndoInv
    <2>5. QED  BY <1>8, <2>3, <2>4 DEF RollbackTc
  <1>9. CASE RollbackCleanup
    <2>1. UNCHANGED <<applied, pending, nft, tc>> /\ op.pc = "rbCleanup" /\ op' = Idle
      BY <1>9 DEF RollbackCleanup, durable
    <2>2. CASE faithful' = FALSE
      BY <2>2, UndoLost
    <2>3. CASE fabric' = FabricCleaned(op.target.content, applied.content, Link) /\ UNCHANGED faithful
      <3>1. faithful => FabricVerified(applied.content)
        BY <2>1 DEF UndoInv
      <3>2. faithful => FabricVerified(applied.content)'
        BY <1>1, <2>1, <2>3, <3>1, FabricRestored DEF FabricVerified
      <3>3. faithful => TcVerified(applied.content)' /\ TableOf(applied)'
        BY <2>1 DEF UndoInv, TcVerified, TableOf, SameDesired
      <3>4. faithful => Implements(applied)'
        BY <3>2, <3>3 DEF Implements, TableOf
      <3>5. QED  BY <2>1, <2>3, <3>4 DEF UndoInv, Idle
    <2>4. QED  BY <1>9, <2>2, <2>3 DEF RollbackCleanup
  <1>10. CASE PurgeNft \/ PurgeTc \/ PurgeCleanup \/ PurgeVerify
    <2>1. UNCHANGED faithful /\ op.pc \in PurgeSteps
      BY <1>10 DEF PurgeNft, PurgeTc, PurgeCleanup, PurgeVerify
    <2>2. op # Idle /\ op.purging
      BY <1>1, <2>1 DEF IInv, OperationKnown
    <2>3. ~ faithful'
      BY <2>1, <2>2 DEF UndoInv
    <2>4. QED  BY <2>3, UndoLost
  <1>11. QED
    BY <1>2, <1>3, <1>4, <1>5, <1>6, <1>7, <1>8, <1>9, <1>10 DEF Command

LEMMA UndoStep ==
    ASSUME IInv, UndoInv, [Next]_vars
    PROVE  UndoInv'
  <1>1. ASSUME NEW gen \in Generation, NEW content \in Content, Apply(gen, content)
        PROVE  UndoInv'
    <2>1. PICK s \in Snapshot : converge(s, TRUE)
      <3> DEFINE fresh == [gen |-> gen, content |-> content, view |-> 0, cleaned |-> FALSE]
                 target == IF SameDesired(pending, fresh) THEN pending
                           ELSE IF SameDesired(applied, fresh) THEN applied
                           ELSE fresh
      <3>1. fresh \in Snapshot
        BY BoundAssumption DEF Snapshot
      <3>2. target \in Snapshot
        BY <3>1 DEF SameDesired, IInv, TypeOK, Snapshot, Nil, Generation
      <3>3. converge(target, TRUE)
        BY <1>1 DEF Apply
      <3> HIDE DEF target
      <3>4. QED  BY <3>2, <3>3
    <2>2. QED  BY <2>1, UndoConverge
  <1>2. CASE Recover \/ Audit \/ Refresh
    <2>1. CASE Durable # Nil /\ converge(Durable, FALSE)
      <3>1. Durable \in Snapshot
        BY <2>1 DEF Durable, IInv, TypeOK
      <3>2. QED  BY <2>1, <3>1, UndoConverge
    <2>2. CASE Recover /\ Durable = Nil
      <3>1. UNCHANGED <<applied, pending, nft, tc, fabric, op, faithful>>
        BY <2>2 DEF Recover, durable, kernel
      <3>2. QED
        BY <3>1 DEF UndoInv, Implements, TableOf, SameDesired, TcVerified, FabricVerified
    <2>3. QED  BY <1>2, <2>1, <2>2 DEF Recover, Audit, Refresh
  <1>3. CASE Purge \/ Reboot \/ Drift \/ ForeignTable
    BY <1>3, UndoLost DEF Purge, Reboot, Drift, ForeignTable
  <1>4. CASE Command
    BY <1>4, UndoCommand
  <1>5. CASE Crash
    <2>1. UNCHANGED <<applied, pending, nft, tc, fabric>> /\ op' = Idle
      BY <1>5 DEF Crash, durable, kernel
    <2>2. CASE ~ faithful'
      BY <2>2, UndoLost
    <2>3. CASE faithful /\ op = Idle
      <3>1. Implements(applied)' \/ (pending # Nil /\ Implements(pending))'
        BY <2>1, <2>3 DEF UndoInv, Implements, SameDesired, TcVerified, FabricVerified
      <3>2. QED  BY <2>1, <3>1 DEF UndoInv, Idle
    <2>4. QED  BY <1>5, <2>2, <2>3 DEF Crash
  <1>6. CASE ForeignTableRemoved
    <2>1. /\ UNCHANGED <<applied, pending, tc, fabric, op, faithful>>
          /\ nft.kind = "foreign" /\ nft'.kind = "absent"
      BY <1>6 DEF ForeignTableRemoved, durable, environment, Foreign, Absent
    <2>2. QED
      BY <2>1 DEF UndoInv, Implements, TableOf, SameDesired, TcVerified, FabricVerified
  <1>7. CASE Tick \/ NewFlow \/ UNCHANGED vars
    <2>1. UNCHANGED <<applied, pending, nft, tc, fabric, op, faithful>>
      BY <1>7 DEF Tick, NewFlow, durable, kernel, environment, vars
    <2>2. QED
      BY <2>1 DEF UndoInv, Implements, TableOf, SameDesired, TcVerified, FabricVerified
  <1>8. QED
    BY <1>1, <1>2, <1>3, <1>4, <1>5, <1>6, <1>7 DEF Next

(* Between operations the subsystems together implement one durable        *)
(* snapshot, however far a failed converge had come, as long as nothing    *)
(* else disturbs the kernel and no rollback command fails.                 *)
THEOREM DurableImplemented == Spec => []ImplementsDurable
  <1>1. Init => UndoInv
    BY DEF Init, UndoInv, Implements, Nil, Idle, Absent
  <1>2. IInv /\ UndoInv /\ [Next]_vars => UndoInv'
    BY UndoStep
  <1>3. UndoInv => ImplementsDurable
    BY DEF UndoInv, ImplementsDurable
  <1>4. QED
    BY <1>1, <1>2, <1>3, InvariantHolds, PTL DEF Spec

=============================================================================
