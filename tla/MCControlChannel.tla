-------------------------- MODULE MCControlChannel --------------------------
(***************************************************************************)
(* Two contents, one of them with a force_deleting forward.                *)
(***************************************************************************)
EXTENDS ControlChannel

MCContent == {"plain", "gone"}
MCForced == {"gone"}
MCCleaned == [c \in MCForced |-> "plain"]

=============================================================================
