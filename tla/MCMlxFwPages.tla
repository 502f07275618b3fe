---------------------------- MODULE MCMlxFwPages ----------------------------
(***************************************************************************)
(* Small instances of MlxFwPages for TLC.                                  *)
(***************************************************************************)
EXTENDS MlxFwPages

=============================================================================
