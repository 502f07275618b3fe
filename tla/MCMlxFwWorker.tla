--------------------------- MODULE MCMlxFwWorker ---------------------------
(***************************************************************************)
(* Small instances of MlxFwWorker for TLC.                                 *)
(***************************************************************************)
EXTENDS MlxFwWorker

=============================================================================
