---------------------------- MODULE MCUsageMeter ----------------------------
(***************************************************************************)
(* Three programs, the second of which does not have the counter.          *)
(***************************************************************************)
EXTENDS UsageMeter

MCMetered == {1, 3}

=============================================================================
