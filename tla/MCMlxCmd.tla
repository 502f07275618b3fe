------------------------------ MODULE MCMlxCmd ------------------------------
(***************************************************************************)
(* Small instances of MlxCmd for TLC.                                      *)
(***************************************************************************)
EXTENDS MlxCmd

\* One reply of each kind that exec treats differently: success, a delivery
\* error with a zero outbox, and a firmware error that was delivered well.
MCReplies ==
  {[delivery |-> 0, outbox |-> 0],
   [delivery |-> 1, outbox |-> 0],
   [delivery |-> 0, outbox |-> 8]}

=============================================================================
