------------------------- MODULE MCRecoveryJournal -------------------------
(***************************************************************************)
(* RecoveryJournal for TLC.                                                *)
(***************************************************************************)
EXTENDS RecoveryJournal
=============================================================================
