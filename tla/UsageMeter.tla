----------------------------- MODULE UsageMeter -----------------------------
(***************************************************************************)
(* Metering on the Agent: how the bytes that one nft counter sees become   *)
(* the usage that is billed (internal/meter/tracker.go and the usage part  *)
(* of internal/agent/reconciler.go).                                       *)
(*                                                                         *)
(* A counter lives in the nft table and starts at zero whenever the table  *)
(* is installed.  The meter remembers the value and the program (epoch) of *)
(* the last reading and emits the difference, or the whole value when the  *)
(* epoch has changed or the value went down.  The counters are read on a   *)
(* timer and once more before another program replaces the applied one.    *)
(* The steps of an installation are those of module Reconciler, with all   *)
(* that does not touch the table left out: "install" is the nft command    *)
(* and "commit" everything from there to the final Save.                   *)
(*                                                                         *)
(* A definition named X_Y is X with a plausible mistake Y; it is not part  *)
(* of the specification.                                                   *)
(***************************************************************************)
EXTENDS Naturals

CONSTANTS
    MaxGen,     \* bound on programs
    Metered,    \* the programs that contain the counter
    MaxBytes,   \* bound on traffic
    MaxFaults   \* bound on failures, crashes, reboots and drift

Program == 1 .. MaxGen
None == 0

ASSUME MeterAssumption ==
    /\ MaxGen \in Nat \ {0}
    /\ Metered \subseteq Program
    /\ MaxBytes \in Nat
    /\ MaxFaults \in Nat

VARIABLES
    applied,   \* durable: the program committed, or None
    pending,   \* durable: the program being installed, or None
    meter,     \* durable: epoch, value and sequence of the last reading
    table,     \* kernel: the program installed, or None
    count,     \* kernel: the counter
    pc,        \* the step of the installation in progress
    up,        \* start-up recovery has succeeded
    faults,    \* failures so far
    emitted,   \* ghost: bytes put into usage batches
    real,      \* ghost: bytes the counter has seen
    window,    \* ghost: bytes seen between the last reading of a table and
               \* its replacement
    history    \* ghost: what has disturbed metering so far

record == <<applied, pending>>
metering == <<meter, emitted>>
vars == <<applied, pending, meter, table, count, pc, up, faults, emitted, real, window, history>>

TypeOK ==
    /\ applied \in Program \cup {None}
    /\ pending \in Program \cup {None}
    /\ meter \in [epoch : Program \cup {None}, value : 0 .. MaxBytes, seq : 0 .. emitted]
    /\ table \in Program \cup {None}
    /\ count \in 0 .. MaxBytes
    /\ pc \in {"idle", "install", "commit"}
    /\ up \in BOOLEAN
    /\ faults \in 0 .. MaxFaults
    /\ emitted \in Nat
    /\ real \in 0 .. MaxBytes
    /\ window \in 0 .. MaxBytes
    /\ history \subseteq {"leftover", "reset"}

Init ==
    /\ applied = None
    /\ pending = None
    /\ meter = [epoch |-> None, value |-> 0, seq |-> 0]
    /\ table = None
    /\ count = 0
    /\ pc = "idle"
    /\ up = FALSE
    /\ faults = 0
    /\ emitted = 0
    /\ real = 0
    /\ window = 0
    /\ history = {}

Fault == faults < MaxFaults /\ faults' = faults + 1

-----------------------------------------------------------------------------
(* Reading the counters.                                                   *)

Delta_EpochIgnored(epoch, value) ==
    IF value < meter.value THEN value ELSE value - meter.value

Delta_NothingSubtracted(epoch, value) == value

Delta(epoch, value) ==
    IF meter.epoch # epoch \/ value < meter.value THEN value ELSE value - meter.value

(* Tracker.Observe; a reading without traffic spends no sequence number.   *)
Observe(epoch, value) ==
    LET delta == Delta(epoch, value)
    IN  /\ meter' = [epoch |-> epoch, value |-> value,
                     seq |-> IF delta = 0 THEN meter.seq ELSE meter.seq + 1]
        /\ emitted' = emitted + delta

(* The epoch is the applied program, whatever table is in the kernel.  An  *)
(* applied program without counters is not read; one with counters cannot  *)
(* be read from a table that does not have them, and that is an error.     *)
collectUsageLocked ==
    IF applied \in Metered
    THEN table \in Metered /\ Observe(applied, count)
    ELSE UNCHANGED metering

CollectUsage ==
    /\ up
    /\ pc = "idle"
    /\ collectUsageLocked
    /\ UNCHANGED <<record, table, count, pc, up, faults, real, window, history>>

-----------------------------------------------------------------------------
(* Installations.                                                          *)

(* Counters are collected before the dataplane is replaced.                *)
CollectBeforeReplacement == collectUsageLocked

Begin(program) ==
    /\ pc = "idle"
    /\ table <= program
    /\ \/ /\ CollectBeforeReplacement
          /\ pending' = program
          /\ pc' = "install"
          /\ UNCHANGED <<applied, table, count, up, faults, real, window, history>>
       \/ applied \in Metered /\ table \notin Metered /\ UNCHANGED vars

Apply(program) ==
    /\ up
    /\ program > applied
    /\ program >= pending
    /\ Begin(program)

(* Audit, Refresh or, at start-up, Recover finds a pending program.        *)
Resume == pending # None /\ Begin(pending)

(* The table is replaced by the applied one, or removed; the script is     *)
(* rejected when there is no table to delete.                              *)
Rollback ==
    /\ \/ /\ table # None
          /\ table' = applied
          /\ count' = 0
          /\ history' = history \cup {"reset"}
       \/ /\ UNCHANGED <<table, count>>
          /\ history' = IF table = pending THEN history \cup {"leftover"} ELSE history
    /\ pc' = "idle"
    /\ UNCHANGED <<record, metering, up, real, window>>

Install ==
    /\ pc = "install"
    /\ \/ /\ IF table = pending THEN UNCHANGED <<table, count>>
             ELSE table' = pending /\ count' = 0
          /\ pc' = "commit"
          /\ UNCHANGED <<record, metering, up, faults, real, window, history>>
       \/ Fault /\ Rollback

(* A failing conntrack cleanup or Save returns without a rollback and      *)
(* leaves the pending program in the kernel.                               *)
Commit ==
    /\ pc = "commit"
    /\ \/ /\ applied' = pending
          /\ pending' = None
          /\ pc' = "idle"
          /\ up' = TRUE
          /\ UNCHANGED <<metering, table, count, faults, real, window, history>>
       \/ Fault /\ Rollback
       \/ /\ Fault
          /\ pc' = "idle"
          /\ history' = history \cup {"leftover"}
          /\ UNCHANGED <<record, metering, table, count, up, real, window>>

(* Audit, or Recover, with nothing pending: a missing table is installed   *)
(* again.  The program is the applied one, so nothing is collected.        *)
Repair ==
    /\ pc = "idle"
    /\ pending = None
    /\ up /\ applied # None => table # applied
    /\ IF table = applied THEN UNCHANGED <<table, count>>
       ELSE table' = applied /\ count' = 0
    /\ up' = TRUE
    /\ UNCHANGED <<record, metering, pc, faults, real, window, history>>

-----------------------------------------------------------------------------
(* The environment.                                                        *)

(* A byte is counted.  It is never read if the table is about to go.       *)
Traffic ==
    /\ table \in Metered
    /\ real < MaxBytes
    /\ real' = real + 1
    /\ count' = count + 1
    /\ window' = IF pc = "install" /\ table # pending THEN window + 1 ELSE window
    /\ UNCHANGED <<record, metering, table, pc, up, faults, history>>

Crash ==
    /\ Fault
    /\ up \/ pc # "idle"
    /\ pc' = "idle"
    /\ up' = FALSE
    /\ history' = IF pc = "commit" THEN history \cup {"leftover"} ELSE history
    /\ UNCHANGED <<record, metering, table, count, real, window>>

(* The table goes: a reboot takes the Agent with it, drift does not.       *)
TableLost ==
    /\ Fault
    /\ table # None
    /\ table' = None
    /\ count' = 0
    /\ history' = history \cup {"reset"}
    /\ \/ pc' = "idle" /\ up' = FALSE
       \/ pc = "idle" /\ UNCHANGED <<pc, up>>
    /\ UNCHANGED <<record, metering, real, window>>

Next ==
    \/ Traffic \/ CollectUsage
    \/ \E program \in Program : Apply(program)
    \/ Resume \/ Install \/ Commit \/ Repair
    \/ Crash \/ TableLost

Spec == Init /\ [][Next]_vars

-----------------------------------------------------------------------------
(* Properties.                                                             *)

(* What the next reading will add once the table in the kernel is the      *)
(* applied one.                                                            *)
Unread == IF table = applied THEN Delta(applied, count) ELSE count

(* Nothing is billed twice, through any number of replacements, rollbacks, *)
(* crashes and lost tables, as long as no installation ends with its       *)
(* program in the kernel but not committed.                                *)
NoOverbilling == "leftover" \notin history => emitted + Unread <= real

(* While nothing fails every byte is billed, except those counted between  *)
(* the reading of a table and its replacement: a changed epoch is never    *)
(* mistaken for the continuation of the old one.                           *)
NoUnderbilling == history = {} => emitted + Unread + window >= real

=============================================================================
