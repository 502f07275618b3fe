--------------------------- MODULE MCMlxEthernet ---------------------------
(***************************************************************************)
(* Small instances of MlxEthernet for TLC, MlxEthernet.cfg and             *)
(* MlxEthernet_flood.cfg: packets in one direction at a time with          *)
(* everything that may fail, or in both at once while nothing does.        *)
(***************************************************************************)
EXTENDS MlxEthernet

MCBothWays == {Queues}
MCTraffics == {{"tx"}, {"rx"}} \cup MCBothWays

MCRingSize == [q \in Queues |-> 2]
MCWrap     == [q \in Queues |-> 2 * MCRingSize[q]]
=============================================================================
