----------------------------- MODULE AgentRecord -----------------------------
(***************************************************************************)
(* What the Agent's durable record promises to the rest of the system,     *)
(* without the kernel: a desired state is accepted (pending) and later     *)
(* installed (applied).  Neither step ever goes back to an older           *)
(* generation or changes the content of a generation, and an accepted      *)
(* state is only forgotten for one that is at least as new.                *)
(*                                                                         *)
(* Module Reconciler implements this with the kernel's failures in it;     *)
(* module ControlChannel uses it as its Agent.                             *)
(***************************************************************************)
EXTENDS Naturals

CONSTANTS
    Desired,   \* the desired states: records with gen and content
    Empty      \* the absence of one, of generation 0

VARIABLES
    applied,   \* the desired state last installed, or Empty
    pending    \* the desired state being installed, or Empty

vars == <<applied, pending>>

Init ==
    /\ applied = Empty
    /\ pending = Empty

(* d does not contradict s, nor is it older.                               *)
Succeeds(d, s) ==
    /\ d.gen >= s.gen
    /\ d.gen = s.gen => d.content = s.content

Acceptable(d) == Succeeds(d, applied) /\ Succeeds(d, pending)

Accept(d) ==
    /\ Acceptable(d)
    /\ pending' = d
    /\ UNCHANGED applied

Install(d) ==
    /\ Acceptable(d)
    /\ applied' = d
    /\ pending' = Empty

Next == \E d \in Desired : Accept(d) \/ Install(d)

Spec == Init /\ [][Next]_vars

=============================================================================
