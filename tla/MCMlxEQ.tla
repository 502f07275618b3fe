------------------------------ MODULE MCMlxEQ ------------------------------
(***************************************************************************)
(* Small instances of MlxEQ for TLC.                                       *)
(***************************************************************************)
EXTENDS MlxEQ

\* One EQ of the shared vector goes around its ring more than once; the others
\* are there for the order in which a vector's EQs are handled and armed.
MCMaxEvents == [e \in Eqs |-> IF e = 1 THEN 4 ELSE 1]

\* Both notifiers are called back for the same events.
MCEqOf == [n \in Notifiers |-> 1]

=============================================================================
