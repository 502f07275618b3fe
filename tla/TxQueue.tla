------------------------------ MODULE TxQueue ------------------------------
(***************************************************************************)
(* What the network stack is promised of the transmit path, whatever its   *)
(* rings, counters and completions: a bounded queue of packets.  A packet  *)
(* accepted is sent after the ones before it, comes back to the stack only *)
(* after it was sent, in the order of acceptance and once; only tearing    *)
(* the queue down gives packets back unsent, and then all of them.         *)
(***************************************************************************)
EXTENDS Naturals, Sequences

CONSTANTS Pkts,   \* the packets
          Room    \* how many the queue holds

VARIABLES q,      \* the packets accepted and not given back, oldest first
          sent    \* how many of them the device has sent

vars == <<q, sent>>

Init == q = <<>> /\ sent = 0

Accept(p) ==
  /\ Len(q) < Room
  /\ \A i \in 1 .. Len(q) : q[i] # p
  /\ q' = Append(q, p)
  /\ UNCHANGED sent

Transmit ==
  /\ sent < Len(q)
  /\ sent' = sent + 1
  /\ UNCHANGED q

GiveBack(n) ==
  /\ q' = SubSeq(q, n + 1, Len(q))
  /\ sent' = sent - n

TearDown == q' = <<>> /\ sent' = 0

Next ==
  \/ \E p \in Pkts : Accept(p)
  \/ Transmit
  \/ \E n \in 1 .. sent : GiveBack(n)
  \/ TearDown

Spec == Init /\ [][Next]_vars

=============================================================================
