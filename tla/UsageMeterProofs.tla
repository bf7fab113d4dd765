-------------------------- MODULE UsageMeterProofs --------------------------
(***************************************************************************)
(* What TLAPS proves about UsageMeter, for every number of programs, every *)
(* choice of the metered ones and any amount of traffic and of failures.   *)
(***************************************************************************)
EXTENDS UsageMeter, TLAPS

-----------------------------------------------------------------------------
(* The inductive invariant.                                                *)

(* The counter never holds more than has passed, and a table without the   *)
(* counter holds nothing.                                                  *)
CounterInv ==
    /\ count <= real
    /\ window <= real
    /\ table \notin Metered => count = 0

(* The record: a pending program is newer than the applied one, an         *)
(* installation in progress has one, and its program is in the kernel once *)
(* the nft command has succeeded.                                          *)
RecordInv ==
    /\ pending # None => pending > applied
    /\ pc # "idle" => pending # None
    /\ pc = "commit" => table = pending
    /\ meter.epoch <= applied

(* Which table is in the kernel: the applied one or none as long as no     *)
(* uncommitted program was left there, and the applied one as long as no   *)
(* table was lost or rolled back either.                                   *)
TableInv ==
    /\ "leftover" \notin history /\ pc # "commit" => table \in {applied, None}
    /\ history = {} /\ pc # "commit" => table = applied

(* The last reading is of the counter that is in the kernel, at an earlier *)
(* time; and a table about to be replaced has been read up to the window.  *)
ReadingInv ==
    history = {} =>
        /\ table = applied /\ meter.epoch = applied => meter.value <= count
        /\ pc = "install" => emitted + window >= real

MeterInv == TypeOK /\ CounterInv /\ RecordInv /\ TableInv /\ ReadingInv

BillingInv == MeterInv /\ NoOverbilling /\ NoUnderbilling

-----------------------------------------------------------------------------
(* Reading the counters.                                                   *)

(* What one reading adds, and that it leaves nothing unread.               *)
LEMMA DeltaFacts ==
    ASSUME TypeOK, NEW epoch, NEW value \in 0 .. MaxBytes
    PROVE  /\ Delta(epoch, value) \in 0 .. value
           /\ value = 0 => Delta(epoch, value) = 0
           /\ meter.epoch # epoch => Delta(epoch, value) = value
           /\ meter.epoch = epoch /\ meter.value <= value =>
                  Delta(epoch, value) = value - meter.value
  BY MeterAssumption DEF TypeOK, Delta

(* A collection keeps the types, moves exactly the unread bytes into the   *)
(* batch when the table in the kernel is the applied one, and leaves       *)
(* nothing unread.                                                         *)
LEMMA CollectFacts ==
    ASSUME TypeOK, CounterInv, RecordInv, collectUsageLocked,
           UNCHANGED <<applied, table, count, real>>
    PROVE  /\ meter' \in [epoch : Program \cup {None}, value : 0 .. MaxBytes, seq : 0 .. emitted']
           /\ emitted' \in Nat
           /\ meter'.epoch <= applied
           /\ table \in {applied, None} =>
                 /\ Unread' = 0
                 /\ emitted' = emitted + Unread
           /\ \/ meter'.value = count
              \/ UNCHANGED meter
  <1> USE MeterAssumption DEF Program, None
  <1>1. CASE applied \in Metered
    <2>1. /\ table \in Metered
          /\ meter'.epoch = applied
          /\ meter'.value = count
          /\ meter'.seq = IF Delta(applied, count) = 0 THEN meter.seq ELSE meter.seq + 1
          /\ meter' = [epoch |-> meter'.epoch, value |-> meter'.value, seq |-> meter'.seq]
          /\ emitted' = emitted + Delta(applied, count)
      BY <1>1 DEF collectUsageLocked, Observe
    <2>2. Delta(applied, count) \in 0 .. count
      BY DeltaFacts DEF TypeOK
    <2>3. emitted' \in Nat /\ meter'.seq \in 0 .. emitted'
      BY <2>1, <2>2 DEF TypeOK
    <2>4. meter' \in [epoch : Program \cup {None}, value : 0 .. MaxBytes, seq : 0 .. emitted']
      BY <2>1, <2>3 DEF TypeOK
    <2>5. Delta(applied, count)' = 0
      BY <2>1 DEF Delta, TypeOK
    <2>6. table \in {applied, None} => table = applied
      BY <2>1
    <2>7. table \in {applied, None} => Unread' = 0 /\ emitted' = emitted + Unread
      BY <2>1, <2>5, <2>6 DEF Unread
    <2>8. QED  BY <2>1, <2>3, <2>4, <2>7 DEF TypeOK
  <1>2. CASE applied \notin Metered
    <2>1. meter' = meter /\ emitted' = emitted
      BY <1>2 DEF collectUsageLocked, metering
    <2>2. table \in {applied, None} => count = 0
      BY <1>2 DEF CounterInv, TypeOK
    <2>3. Delta(applied, count)' = Delta(applied, count)
      BY <2>1 DEF Delta
    <2>4. table \in {applied, None} => Unread' = 0 /\ Unread = 0
      BY <2>1, <2>2, <2>3, DeltaFacts DEF Unread, TypeOK
    <2>5. QED  BY <2>1, <2>4 DEF TypeOK, RecordInv
  <1>3. QED  BY <1>1, <1>2

-----------------------------------------------------------------------------
(* One lemma per action.                                                   *)

(* Arithmetic over what is billed (e), unread (u, v), seen (r) and in the   *)
(* window (w).                                                             *)
LEMMA Sums ==
    \A e, r, u, v, w \in Nat :
        /\ v <= u /\ e + u <= r => e + v <= r
        /\ v <= u + 1 /\ e + u <= r => e + v <= r + 1
        /\ e + w >= r => e + v + w >= r
  OBVIOUS

LEMMA Unchanged ==
    ASSUME BillingInv, UNCHANGED vars
    PROVE  BillingInv'
  BY DEF vars, BillingInv, MeterInv, TypeOK, CounterInv, RecordInv, TableInv, ReadingInv,
         NoOverbilling, NoUnderbilling, Unread, Delta

LEMMA UnreadType ==
    ASSUME TypeOK
    PROVE  Unread \in 0 .. count
  BY DeltaFacts, MeterAssumption DEF Unread, TypeOK

(* A collection, alone or before a replacement, with the table in the      *)
(* kernel and the record as they were.                                     *)
LEMMA CollectStep ==
    ASSUME BillingInv, pc = "idle", collectUsageLocked,
           pending' \in Program \cup {None},
           pending' # None => pending' > applied,
           pc' \in {"idle", "install"},
           pc' # "idle" => pending' # None,
           UNCHANGED <<applied, table, count, up, faults, real, window, history>>
    PROVE  BillingInv'
  <1> USE MeterAssumption DEF Program, None
  <1>0. TypeOK /\ CounterInv /\ RecordInv /\ TableInv /\ ReadingInv /\ NoOverbilling /\ NoUnderbilling
    BY DEF BillingInv, MeterInv
  <1>1. /\ meter' \in [epoch : Program \cup {None}, value : 0 .. MaxBytes, seq : 0 .. emitted']
        /\ emitted' \in Nat
        /\ meter'.epoch <= applied
        /\ table \in {applied, None} => Unread' = 0 /\ emitted' = emitted + Unread
        /\ meter'.value = count \/ UNCHANGED meter
    BY <1>0, CollectFacts
  <1>2. TypeOK'
    BY <1>0, <1>1 DEF TypeOK
  <1>3. CounterInv' /\ RecordInv' /\ TableInv'
    BY <1>0, <1>1 DEF CounterInv, RecordInv, TableInv
  <1>4. "leftover" \notin history => table \in {applied, None}
    BY <1>0 DEF TableInv
  <1>5. NoOverbilling'
    BY <1>0, <1>1, <1>4 DEF NoOverbilling
  <1>6. history = {} => emitted' + window >= real
    BY <1>0, <1>1, <1>4 DEF NoUnderbilling, TypeOK
  <1>7. NoUnderbilling'
    BY <1>0, <1>1, <1>4, <1>6 DEF NoUnderbilling, TypeOK
  <1>8. ReadingInv'
    <2>1. CASE meter'.value = count
      BY <1>0, <1>6, <2>1 DEF ReadingInv, TypeOK
    <2>2. CASE UNCHANGED meter
      BY <1>0, <1>6, <2>2 DEF ReadingInv
    <2>3. QED  BY <1>1, <2>1, <2>2
  <1>9. QED  BY <1>2, <1>3, <1>5, <1>7, <1>8 DEF BillingInv, MeterInv

LEMMA CollectUsageStep ==
    ASSUME BillingInv, CollectUsage
    PROVE  BillingInv'
  <1>1. /\ pc = "idle"
        /\ collectUsageLocked
        /\ pc' = pc
        /\ pending' = pending
        /\ UNCHANGED <<applied, table, count, up, faults, real, window, history>>
    BY DEF CollectUsage, record
  <1>2. pending \in Program \cup {None} /\ (pending # None => pending > applied)
    BY DEF BillingInv, MeterInv, TypeOK, RecordInv
  <1>3. QED  BY <1>1, <1>2, CollectStep

(* Apply and Resume both begin an installation with a program newer than   *)
(* the applied one.                                                        *)
LEMMA BeginStep ==
    ASSUME BillingInv, NEW program \in Program, program > applied, Begin(program)
    PROVE  BillingInv'
  <1> USE MeterAssumption DEF Program, None
  <1>1. CASE /\ CollectBeforeReplacement
             /\ pending' = program
             /\ pc' = "install"
             /\ UNCHANGED <<applied, table, count, up, faults, real, window, history>>
    <2>1. pc = "idle" /\ collectUsageLocked
      BY <1>1 DEF Begin, CollectBeforeReplacement
    <2>2. QED  BY <1>1, <2>1, CollectStep
  <1>2. CASE UNCHANGED vars
    BY <1>2, Unchanged
  <1>3. QED  BY <1>1, <1>2 DEF Begin

(* An installation that fails: the old table comes back empty, or the      *)
(* rollback is rejected and the kernel keeps what it has.                  *)
LEMMA RollbackStep ==
    ASSUME BillingInv, pc # "idle", Fault, Rollback
    PROVE  BillingInv'
  <1> USE MeterAssumption DEF Program, None
  <1>0. TypeOK /\ CounterInv /\ RecordInv /\ TableInv /\ ReadingInv /\ NoOverbilling /\ NoUnderbilling
    BY DEF BillingInv, MeterInv
  <1>1. /\ UNCHANGED <<applied, pending, meter, emitted, up, real, window>>
        /\ pc' = "idle"
        /\ faults' \in 0 .. MaxFaults
    BY <1>0 DEF Rollback, Fault, record, metering, TypeOK
  <1>2. CASE table # None /\ table' = applied /\ count' = 0 /\ history' = history \cup {"reset"}
    <2>1. TypeOK' /\ CounterInv' /\ RecordInv' /\ TableInv' /\ ReadingInv' /\ NoUnderbilling'
      BY <1>0, <1>1, <1>2 DEF TypeOK, CounterInv, RecordInv, TableInv, ReadingInv, NoUnderbilling
    <2>2. Unread' = 0
      BY <1>0, <1>1, <1>2 DEF Unread, Delta, TypeOK
    <2>3. Unread \in Nat
      BY <1>0, UnreadType
    <2>4. NoOverbilling'
      BY <1>0, <1>1, <1>2, <2>2, <2>3 DEF NoOverbilling, TypeOK
    <2>5. QED  BY <2>1, <2>4 DEF BillingInv, MeterInv
  <1>3. CASE /\ UNCHANGED <<table, count>>
             /\ history' = IF table = pending THEN history \cup {"leftover"} ELSE history
    <2>1. Unread' = Unread
      BY <1>1, <1>3 DEF Unread, Delta
    <2>2. history \subseteq history' /\ (history' = history => table # pending \/ "leftover" \in history)
      BY <1>3
    <2>3. pc = "commit" => "leftover" \in history'
      BY <1>0, <1>3 DEF RecordInv
    <2>4. TypeOK' /\ CounterInv' /\ RecordInv'
      BY <1>0, <1>1, <1>3 DEF TypeOK, CounterInv, RecordInv
    <2>5. TableInv' /\ ReadingInv' /\ NoOverbilling' /\ NoUnderbilling'
      BY <1>0, <1>1, <1>3, <2>1, <2>2, <2>3 DEF TableInv, ReadingInv, NoOverbilling, NoUnderbilling
    <2>6. QED  BY <2>4, <2>5 DEF BillingInv, MeterInv
  <1>4. QED  BY <1>2, <1>3 DEF Rollback

(* The nft command replaces the table: what it held and nobody read is the *)
(* window's.                                                               *)
LEMMA InstallStep ==
    ASSUME BillingInv, Install
    PROVE  BillingInv'
  <1> USE MeterAssumption DEF Program, None
  <1>0. TypeOK /\ CounterInv /\ RecordInv /\ TableInv /\ ReadingInv /\ NoOverbilling /\ NoUnderbilling
    BY DEF BillingInv, MeterInv
  <1>1. CASE Fault /\ Rollback
    BY <1>1, RollbackStep DEF Install
  <1>2. CASE /\ pc = "install"
             /\ IF table = pending THEN UNCHANGED <<table, count>>
                ELSE table' = pending /\ count' = 0
             /\ pc' = "commit"
             /\ UNCHANGED <<record, metering, up, faults, real, window, history>>
    <2>1. /\ UNCHANGED <<applied, pending, meter, emitted, up, faults, real, window, history>>
          /\ table' = pending
          /\ pending > applied
          /\ pending \in Program
      BY <1>0, <1>2 DEF record, metering, RecordInv, TypeOK
    <2>2. (count' = count /\ table = pending) \/ count' = 0
      BY <1>2
    <2>3. count' \in 0 .. count /\ Unread' = count'
      BY <1>0, <2>1, <2>2 DEF Unread, TypeOK
    <2>4. TypeOK' /\ CounterInv' /\ RecordInv' /\ TableInv'
      BY <1>0, <1>2, <2>1, <2>2, <2>3 DEF TypeOK, CounterInv, RecordInv, TableInv
    <2>5. ReadingInv'
      BY <1>0, <1>2, <2>1 DEF ReadingInv, TypeOK
    <2>6. Unread \in Nat /\ count \in Nat /\ real \in Nat /\ emitted \in Nat /\ window \in Nat
      BY <1>0, UnreadType DEF TypeOK
    <2>7. Unread' <= Unread
      BY <1>0, <2>1, <2>2, <2>3, <2>6 DEF Unread, TypeOK
    <2>8. Unread' \in Nat
      BY <2>3, <2>6
    <2>9. NoOverbilling'
      <3>1. emitted + Unread <= real => emitted + Unread' <= real
        BY <2>6, <2>7, <2>8, Sums, Zenon
      <3>2. QED  BY <1>0, <2>1, <3>1 DEF NoOverbilling
    <2>10. NoUnderbilling'
      <3>1. emitted + window >= real => emitted + Unread' + window >= real
        BY <2>6, <2>8, Sums, Zenon
      <3>2. history = {} => emitted + window >= real
        BY <1>0, <1>2 DEF ReadingInv
      <3>3. QED  BY <2>1, <3>1, <3>2 DEF NoUnderbilling
    <2>11. QED  BY <2>4, <2>5, <2>9, <2>10 DEF BillingInv, MeterInv
  <1>3. QED  BY <1>1, <1>2 DEF Install

(* The final Save: the unread bytes are those of a table whose epoch the   *)
(* meter has never seen.                                                   *)
LEMMA CommitStep ==
    ASSUME BillingInv, Commit
    PROVE  BillingInv'
  <1> USE MeterAssumption DEF Program, None
  <1>0. TypeOK /\ CounterInv /\ RecordInv /\ TableInv /\ ReadingInv /\ NoOverbilling /\ NoUnderbilling
    BY DEF BillingInv, MeterInv
  <1>1. /\ pc = "commit"
        /\ table = pending
        /\ pending \in Program
        /\ pending > applied
        /\ meter.epoch < pending
        /\ Unread = count
    BY <1>0 DEF Commit, RecordInv, TypeOK, Unread
  <1>2. CASE /\ applied' = pending
             /\ pending' = None
             /\ pc' = "idle"
             /\ up' = TRUE
             /\ UNCHANGED <<metering, table, count, faults, real, window, history>>
    <2>1. UNCHANGED <<meter, emitted, table, count, faults, real, window, history>>
      BY <1>2 DEF metering
    <2>2. Unread' = count
      BY <1>0, <1>1, <1>2, <2>1 DEF Unread, Delta, TypeOK
    <2>3. TypeOK' /\ CounterInv' /\ RecordInv' /\ TableInv'
      BY <1>0, <1>1, <1>2, <2>1 DEF TypeOK, CounterInv, RecordInv, TableInv
    <2>4. ReadingInv' /\ NoOverbilling' /\ NoUnderbilling'
      BY <1>0, <1>1, <1>2, <2>1, <2>2 DEF ReadingInv, NoOverbilling, NoUnderbilling, TypeOK
    <2>5. QED  BY <2>3, <2>4 DEF BillingInv, MeterInv
  <1>3. CASE Fault /\ Rollback
    BY <1>1, <1>3, RollbackStep
  <1>4. CASE /\ Fault
             /\ pc' = "idle"
             /\ history' = history \cup {"leftover"}
             /\ UNCHANGED <<record, metering, table, count, up, real, window>>
    <2>1. /\ UNCHANGED <<applied, pending, meter, emitted, table, count, up, real, window>>
          /\ faults' \in 0 .. MaxFaults
      BY <1>0, <1>4 DEF record, metering, Fault, TypeOK
    <2>2. QED
      BY <1>0, <1>4, <2>1 DEF BillingInv, MeterInv, TypeOK, CounterInv, RecordInv, TableInv,
                              ReadingInv, NoOverbilling, NoUnderbilling
  <1>5. QED  BY <1>2, <1>3, <1>4 DEF Commit

(* A missing table is installed again, and starts from zero.               *)
LEMMA RepairStep ==
    ASSUME BillingInv, Repair
    PROVE  BillingInv'
  <1> USE MeterAssumption DEF Program, None
  <1>0. TypeOK /\ CounterInv /\ RecordInv /\ TableInv /\ ReadingInv /\ NoOverbilling /\ NoUnderbilling
    BY DEF BillingInv, MeterInv
  <1>1. /\ UNCHANGED <<applied, pending, meter, emitted, pc, faults, real, window, history>>
        /\ pc = "idle"
        /\ up' \in BOOLEAN
    BY DEF Repair, record, metering
  <1>2. CASE table = applied
    <2>1. UNCHANGED <<table, count>>
      BY <1>2 DEF Repair
    <2>2. QED
      BY <1>0, <1>1, <2>1 DEF BillingInv, MeterInv, TypeOK, CounterInv, RecordInv, TableInv,
                              ReadingInv, NoOverbilling, NoUnderbilling, Unread, Delta
  <1>3. CASE table # applied
    <2>1. table' = applied /\ count' = 0 /\ history # {}
      BY <1>0, <1>1, <1>3 DEF Repair, TableInv
    <2>2. Unread' = 0
      BY <1>0, <1>1, <2>1 DEF Unread, Delta, TypeOK
    <2>3. TypeOK' /\ CounterInv' /\ RecordInv'
      BY <1>0, <1>1, <2>1 DEF TypeOK, CounterInv, RecordInv
    <2>4. TableInv' /\ ReadingInv' /\ NoUnderbilling'
      BY <1>0, <1>1, <2>1 DEF TableInv, ReadingInv, NoUnderbilling
    <2>5. Unread \in Nat /\ real \in Nat /\ emitted \in Nat
      BY <1>0, UnreadType DEF TypeOK
    <2>6. NoOverbilling'
      BY <1>0, <1>1, <2>1, <2>2, <2>5 DEF NoOverbilling
    <2>7. QED  BY <2>3, <2>4, <2>6 DEF BillingInv, MeterInv
  <1>4. QED  BY <1>2, <1>3

LEMMA TrafficStep ==
    ASSUME BillingInv, Traffic
    PROVE  BillingInv'
  <1> USE MeterAssumption DEF Program, None
  <1>0. TypeOK /\ CounterInv /\ RecordInv /\ TableInv /\ ReadingInv /\ NoOverbilling /\ NoUnderbilling
    BY DEF BillingInv, MeterInv
  <1>1. /\ UNCHANGED <<applied, pending, meter, emitted, table, pc, up, faults, history>>
        /\ table \in Metered
        /\ real < MaxBytes
        /\ real' = real + 1
        /\ count' = count + 1
        /\ window' = IF pc = "install" /\ table # pending THEN window + 1 ELSE window
    BY DEF Traffic, record, metering
  <1>2. TypeOK' /\ CounterInv' /\ RecordInv' /\ TableInv'
    BY <1>0, <1>1 DEF TypeOK, CounterInv, RecordInv, TableInv
  <1>3. Unread \in Nat /\ Unread' \in 0 .. Unread + 1
    BY <1>0, <1>1 DEF Unread, Delta, TypeOK
  <1>4. NoOverbilling'
    <2>1. emitted \in Nat /\ real \in Nat
      BY <1>0 DEF TypeOK
    <2>2. Unread' \in Nat /\ Unread' <= Unread + 1
      BY <1>3
    <2>3. emitted + Unread <= real => emitted + Unread' <= real + 1
      BY <1>3, <2>1, <2>2, Sums, Zenon
    <2>4. QED  BY <1>0, <1>1, <2>3 DEF NoOverbilling
  <1>5. history = {} => Unread' = Unread + 1
    BY <1>0, <1>1 DEF Unread, Delta, ReadingInv, TypeOK
  <1>6. NoUnderbilling'
    BY <1>0, <1>1, <1>3, <1>5 DEF NoUnderbilling, TypeOK
  <1>7. pc = "install" /\ history = {} => table # pending
    BY <1>0, <1>1 DEF TableInv, RecordInv, TypeOK
  <1>8. ReadingInv'
    BY <1>0, <1>1, <1>7 DEF ReadingInv, TypeOK
  <1>9. QED  BY <1>2, <1>4, <1>6, <1>8 DEF BillingInv, MeterInv

LEMMA CrashStep ==
    ASSUME BillingInv, Crash
    PROVE  BillingInv'
  <1> USE MeterAssumption DEF Program, None
  <1>0. TypeOK /\ CounterInv /\ RecordInv /\ TableInv /\ ReadingInv /\ NoOverbilling /\ NoUnderbilling
    BY DEF BillingInv, MeterInv
  <1>1. /\ UNCHANGED <<applied, pending, meter, emitted, table, count, real, window>>
        /\ pc' = "idle"
        /\ up' = FALSE
        /\ faults' \in 0 .. MaxFaults
        /\ history' = IF pc = "commit" THEN history \cup {"leftover"} ELSE history
    BY <1>0 DEF Crash, Fault, record, metering, TypeOK
  <1>2. Unread' = Unread
    BY <1>1 DEF Unread, Delta
  <1>3. TypeOK' /\ CounterInv' /\ RecordInv'
    BY <1>0, <1>1 DEF TypeOK, CounterInv, RecordInv
  <1>4. TableInv' /\ ReadingInv' /\ NoOverbilling' /\ NoUnderbilling'
    BY <1>0, <1>1, <1>2 DEF TableInv, ReadingInv, NoOverbilling, NoUnderbilling
  <1>5. QED  BY <1>3, <1>4 DEF BillingInv, MeterInv

LEMMA TableLostStep ==
    ASSUME BillingInv, TableLost
    PROVE  BillingInv'
  <1> USE MeterAssumption DEF Program, None
  <1>0. TypeOK /\ CounterInv /\ RecordInv /\ TableInv /\ ReadingInv /\ NoOverbilling /\ NoUnderbilling
    BY DEF BillingInv, MeterInv
  <1>1. /\ UNCHANGED <<applied, pending, meter, emitted, real, window>>
        /\ table' = None
        /\ count' = 0
        /\ history' = history \cup {"reset"}
        /\ faults' \in 0 .. MaxFaults
    BY <1>0 DEF TableLost, Fault, record, metering, TypeOK
  <1>2. pc' = "idle" /\ up' \in BOOLEAN
    BY <1>0, Zenon DEF TableLost, TypeOK
  <1>3. Unread' = 0
    BY <1>0, <1>1 DEF Unread, Delta, TypeOK
  <1>4. TypeOK' /\ CounterInv' /\ RecordInv' /\ TableInv' /\ ReadingInv' /\ NoUnderbilling'
    BY <1>0, <1>1, <1>2 DEF TypeOK, CounterInv, RecordInv, TableInv, ReadingInv, NoUnderbilling
  <1>5. Unread \in Nat /\ real \in Nat /\ emitted \in Nat
    BY <1>0, UnreadType DEF TypeOK
  <1>6. NoOverbilling'
    BY <1>0, <1>1, <1>3, <1>5 DEF NoOverbilling
  <1>7. QED  BY <1>4, <1>6 DEF BillingInv, MeterInv

-----------------------------------------------------------------------------
(* The theorems.                                                           *)

LEMMA BillingInductive == Spec => []BillingInv
  <1>1. Init => BillingInv
    <2> USE MeterAssumption DEF Program, None
    <2>1. Init => TypeOK
      <3> SUFFICES ASSUME Init PROVE TypeOK
        OBVIOUS
      <3>1. meter \in [epoch : Program \cup {None}, value : 0 .. MaxBytes, seq : 0 .. emitted]
        BY DEF Init
      <3>2. up \in BOOLEAN
        BY DEF Init
      <3>3. QED  BY <3>1, <3>2 DEF Init, TypeOK
    <2>2. Init => CounterInv /\ RecordInv /\ TableInv /\ ReadingInv
      BY DEF Init, CounterInv, RecordInv, TableInv, ReadingInv
    <2>3. Init => NoOverbilling /\ NoUnderbilling
      BY DEF Init, NoOverbilling, NoUnderbilling, Unread, Delta
    <2>4. QED  BY <2>1, <2>2, <2>3 DEF BillingInv, MeterInv
  <1>2. BillingInv /\ [Next]_vars => BillingInv'
    <2> SUFFICES ASSUME BillingInv, [Next]_vars
                 PROVE  BillingInv'
      OBVIOUS
    <2>1. ASSUME NEW program \in Program, Apply(program)
          PROVE  BillingInv'
      BY <2>1, BeginStep DEF Apply
    <2>2. CASE Resume
      <3>1. pending \in Program /\ pending > applied /\ Begin(pending)
        BY <2>2 DEF Resume, BillingInv, MeterInv, TypeOK, RecordInv
      <3>2. QED  BY <3>1, BeginStep
    <2>3. QED
      BY <2>1, <2>2, TrafficStep, CollectUsageStep, InstallStep, CommitStep, RepairStep,
         CrashStep, TableLostStep, Unchanged DEF Next
  <1>3. QED  BY <1>1, <1>2, PTL DEF Spec

(* The state of the meter, of the record and of the kernel stays within    *)
(* its types: in particular the counter and the last reading never exceed  *)
(* the traffic, and a sequence number is only spent on a batch with bytes. *)
THEOREM TypeCorrect == Spec => []TypeOK
  BY BillingInductive, PTL DEF BillingInv, MeterInv

(* Tracker.Observe and the order of collection, installation and commit    *)
(* never bill a byte twice unless an installation left its program in the  *)
(* kernel without committing it.                                           *)
THEOREM NeverOverbilled == Spec => []NoOverbilling
  BY BillingInductive, PTL DEF BillingInv

(* While no table is lost, rolled back or left over, every byte is billed  *)
(* or will be by the next reading, except those that arrived between the   *)
(* reading before a replacement and the replacement.                       *)
THEOREM NeverUnderbilled == Spec => []NoUnderbilling
  BY BillingInductive, PTL DEF BillingInv

=============================================================================
