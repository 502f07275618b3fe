--------------------------- MODULE MCMlxPCIDriver ---------------------------
(* The instance TLC checks: two async EQs and one completion EQ, and the   *)
(* health threshold of three missed updates.                               *)
EXTENDS MlxPCIDriver
=============================================================================
