---------------------------- MODULE MlxEthRings ----------------------------
(***************************************************************************)
(* The data path of the Ethernet interface, Sources/netif/MlxEthernet.cpp: *)
(* the send and receive work queues, their completion queues, the device   *)
(* on their other side, and the completion handler that polls them.        *)
(*                                                                         *)
(* Work-queue counters are 16 bits wide and run freely; a slot is the      *)
(* counter modulo the ring size.  A completion-queue entry is new when its *)
(* owner bit is the parity of the lap the consumer is in.                  *)
(*                                                                         *)
(* The module says what a step does to the rings.  When a step can happen  *)
(* (objects created, notifier registered) is for MlxEthernet to say.       *)
(***************************************************************************)
EXTENDS Integers

Queues == {"tx", "rx"}

CONSTANTS Pkts,      \* the mbufs of the network stack
          RingSize,  \* entries of the work queue, and of the CQ, of each direction
          Wrap,      \* the range of the counters of each direction
          None

ASSUME RingsAssumption ==
  /\ RingSize \in [Queues -> Nat \ {0}]
  /\ Wrap \in [Queues -> Nat \ {0}]
  /\ \A q \in Queues : Wrap[q] % (2 * RingSize[q]) = 0
  /\ None \notin Pkts

VARIABLES
  fPc, fCc,    \* fTxPc and fRxPc, fTxCc and fRxCc
  fCqCc,       \* fTxCqCc, fRxCqCc: the consumer counter of the CQ
  ci,          \* the consumer counter in the CQ's doorbell record
  db,          \* the producer counter in the queue's doorbell record
  fWqeMbuf,    \* TX slot -> the mbuf kept for it, or None
  stack,       \* the mbufs the network stack may hand over
  hw, cqHw,    \* the device's next work-queue entry and its next CQE
  cqe,         \* CQ slot -> the owner bit and wqe_counter written there, or None
  rxBuf,       \* RX slot -> which receive (by its counter) filled the buffer
  armed,       \* the CQs whose next CQE raises an event
  fresh,       \* the CQs whose arm sequence number the device has not used yet
  events,      \* completion events raised and not handled yet
  hpc,         \* the control point of handleEvent on the EQ's work loop
  got          \* the receive whose bytes handleRxCqe has copied, or None

txVars   == <<fWqeMbuf, stack>>
cqVars   == <<armed, fresh, events, ci>>
devVars  == <<hw, cqHw, cqe, rxBuf>>
ringVars == <<fPc, fCc, fCqCc, db, txVars, devVars, cqVars, hpc, got>>

Counters(q)   == 0 .. Wrap[q] - 1
Slots(q)      == 0 .. RingSize[q] - 1
Slot(q, c)    == c % RingSize[q]
Plus(q, c, n) == (c + n) % Wrap[q]
Dist(q, b, a) == (b - a) % Wrap[q]     \* (uint16_t)(b - a)
Owner(q, c) == (c \div RingSize[q]) % 2

HandlerPoints == {"idle", "tx", "txarm", "rx", "rxpost", "rxarm", "link"}

RingsInit ==
  /\ fPc = [q \in Queues |-> 0]
  /\ fCc = [q \in Queues |-> 0]
  /\ fCqCc = [q \in Queues |-> 0]
  /\ ci = [q \in Queues |-> 0]
  /\ db = [q \in Queues |-> 0]
  /\ fWqeMbuf = [s \in Slots("tx") |-> None]
  /\ stack = Pkts
  /\ hw = [q \in Queues |-> 0]
  /\ cqHw = [q \in Queues |-> 0]
  /\ cqe = [q \in Queues |-> [s \in Slots(q) |-> None]]
  /\ rxBuf = [s \in Slots("rx") |-> None]
  /\ armed = {}
  /\ fresh = {}
  /\ events = {}
  /\ hpc = "idle"
  /\ got = None

(***************************************************************************)
(* Parts of createTxResources and createRxResources.  The driver resets    *)
(* its counters before it creates a queue, and clears fWqeMbuf without a   *)
(* look at what it held.  A new CQ holds invalid entries only, and a new   *)
(* work queue starts at counter zero.                                      *)
(***************************************************************************)
ResetRing(q) ==
  /\ fPc' = [fPc EXCEPT ![q] = 0]
  /\ fCc' = [fCc EXCEPT ![q] = 0]
  /\ fCqCc' = [fCqCc EXCEPT ![q] = 0]
  /\ fWqeMbuf' = IF q = "tx" THEN [s \in Slots("tx") |-> None] ELSE fWqeMbuf
  /\ UNCHANGED <<db, stack, devVars, cqVars, hpc, got>>

NewCq(q) ==
  /\ fresh' = fresh \cup {q}
  /\ UNCHANGED <<fPc, fCc, fCqCc, db, txVars, devVars, armed, events, ci, hpc, got>>

(***************************************************************************)
(* Parts of destroyTxResources and destroyRxResources for direction q:     *)
(* what goes with the work queue, the mbufs left in the ring included, and *)
(* at the end.  The CQ's contents go first: the notifier is unregistered   *)
(* by then and nobody polls the CQ again, whether or not it is destroyed.  *)
(***************************************************************************)
Dismantle(q, wqGone, done) ==
  /\ hw' = IF wqGone THEN [hw EXCEPT ![q] = 0] ELSE hw
  /\ db' = IF wqGone THEN [db EXCEPT ![q] = 0] ELSE db
  /\ rxBuf' = IF wqGone /\ q = "rx" THEN [s \in Slots("rx") |-> None] ELSE rxBuf
  /\ IF wqGone /\ q = "tx"
     THEN /\ stack' = stack \cup ({fWqeMbuf[s] : s \in Slots("tx")} \ {None})
          /\ fWqeMbuf' = [s \in Slots("tx") |-> None]
     ELSE UNCHANGED txVars
  /\ cqHw' = [cqHw EXCEPT ![q] = 0]
  /\ cqe' = [cqe EXCEPT ![q] = [s \in Slots(q) |-> None]]
  /\ fCqCc' = [fCqCc EXCEPT ![q] = 0]
  /\ ci' = [ci EXCEPT ![q] = 0]
  /\ armed' = armed \ {q}
  /\ fresh' = fresh \ {q}
  /\ fPc' = IF done THEN [fPc EXCEPT ![q] = 0] ELSE fPc
  /\ fCc' = IF done THEN [fCc EXCEPT ![q] = 0] ELSE fCc
  /\ UNCHANGED <<events, hpc, got>>

\* The loop over postRxWqe before the receive queue becomes ready.
PostAllRx ==
  /\ fPc' = [fPc EXCEPT !["rx"] = RingSize["rx"]]
  /\ db' = [db EXCEPT !["rx"] = RingSize["rx"]]
  /\ UNCHANGED <<fCc, fCqCc, txVars, devVars, cqVars, hpc, got>>

(***************************************************************************)
(* The device raises one event for each arming that has a new sequence     *)
(* number: at once if there is a CQE beyond the consumer index, otherwise  *)
(* with the next CQE.                                                      *)
(***************************************************************************)
RaiseFor(qs) ==
  /\ events' = events \cup qs
  /\ fresh' = fresh \ qs

\* armCq.
Arm(qs) ==
  LET due == {q \in qs \cap fresh : cqHw[q] # fCqCc[q]}
  IN  RaiseFor(due) /\ armed' = armed \cup ((qs \cap fresh) \ due)

----------------------------------------------------------------------------
\* Mutation: the ring is full one packet late.
HasRoomOffByOne == Dist("tx", fPc["tx"], fCc["tx"]) =< RingSize["tx"]

\* "Check ring room": full and empty differ because the counters outrange the ring.
HasRoom == Dist("tx", fPc["tx"], fCc["tx"]) < RingSize["tx"]

(***************************************************************************)
(* xmitPacket under fLock: the slot's entry is built, the mbuf kept, the   *)
(* counter advanced, doorbell record and doorbell written.  Packets the    *)
(* function frees at once (empty, too long, not copied) change nothing.    *)
(***************************************************************************)
Xmit(p) ==
  /\ p \in stack
  /\ HasRoom
  /\ fWqeMbuf' = [fWqeMbuf EXCEPT ![Slot("tx", fPc["tx"])] = p]
  /\ stack' = stack \ {p}
  /\ fPc' = [fPc EXCEPT !["tx"] = Plus("tx", @, 1)]
  /\ db' = [db EXCEPT !["tx"] = fPc'["tx"]]
  /\ UNCHANGED <<fCc, fCqCc, devVars, cqVars, hpc, got>>

(***************************************************************************)
(* The device processes the next entry of q it has been told of and writes *)
(* its completion with the owner bit of the lap.  It goes on when the CQ   *)
(* is full by the consumer counter it has been told of: what it would do   *)
(* then is not in the source, and OnlyRxPollOverruns says when it happens. *)
(***************************************************************************)
DeviceCompletes(q) ==
  /\ hw[q] # db[q]
  /\ hw' = [hw EXCEPT ![q] = Plus(q, @, 1)]
  /\ cqHw' = [cqHw EXCEPT ![q] = Plus(q, @, 1)]
  /\ cqe' = [cqe EXCEPT ![q][Slot(q, cqHw[q])] = [own |-> Owner(q, cqHw[q]), ctr |-> hw[q]]]
  /\ rxBuf' = IF q = "rx" THEN [rxBuf EXCEPT ![Slot(q, hw[q])] = hw[q]] ELSE rxBuf
  /\ RaiseFor({q} \cap armed)
  /\ armed' = armed \ {q}
  /\ UNCHANGED <<fPc, fCc, fCqCc, ci, db, txVars, hpc, got>>

----------------------------------------------------------------------------
\* Mutation: the lap is not looked at.
CqeReadyAnyLap(q) == cqe[q][Slot(q, fCqCc[q])] # None

\* The loop condition of pollTxCq and pollRxCq.
CqeReady(q) ==
  LET entry == cqe[q][Slot(q, fCqCc[q])]
  IN  entry # None /\ entry.own = Owner(q, fCqCc[q])

\* Mutation: the arm sequence number is not advanced.
HandleCompletionStaleSn(q) ==
  /\ hpc' = q
  /\ UNCHANGED fresh

(***************************************************************************)
(* handleEvent for a completion of q: fTxArmSn++ or fRxArmSn++, then the   *)
(* polling function.  pollTxCq takes fLock and keeps it until it has armed *)
(* the CQ; pollRxCq takes no lock.                                         *)
(***************************************************************************)
HandleCompletion(q) ==
  /\ hpc' = q
  /\ fresh' = fresh \cup {q}

\* How often the do-while of pollTxCq runs: to the entry of the completion, or
\* to the producer counter, and once at least.
TxReleased(target) ==
  LET toTarget == Dist("tx", target, fCc["tx"]) + 1
      toPc     == IF fPc["tx"] = fCc["tx"] THEN Wrap["tx"] ELSE Dist("tx", fPc["tx"], fCc["tx"])
  IN  IF toTarget < toPc THEN toTarget ELSE toPc

PollTx ==
  LET target   == cqe["tx"][Slot("tx", fCqCc["tx"])].ctr
      released == {Slot("tx", fCc["tx"] + i) : i \in 0 .. TxReleased(target) - 1}
  IN
  /\ hpc = "tx"
  /\ CqeReady("tx")
  /\ stack' = stack \cup ({fWqeMbuf[s] : s \in released} \ {None})
  /\ fWqeMbuf' = [s \in Slots("tx") |-> IF s \in released THEN None ELSE fWqeMbuf[s]]
  /\ fCc' = [fCc EXCEPT !["tx"] = Plus("tx", @, TxReleased(target))]
  /\ fCqCc' = [fCqCc EXCEPT !["tx"] = Plus("tx", @, 1)]
  /\ UNCHANGED <<fPc, db, devVars, cqVars, hpc, got>>

\* handleRxCqe, first half: the bytes are copied out of the slot's buffer.
PollRx ==
  /\ hpc = "rx"
  /\ CqeReady("rx")
  /\ got' = rxBuf[Slot("rx", cqe["rx"][Slot("rx", fCqCc["rx"])].ctr)]
  /\ hpc' = "rxpost"
  /\ UNCHANGED <<fPc, fCc, fCqCc, db, txVars, devVars, cqVars>>

\* handleRxCqe, second half, and the step of the loop: the packet is handed up
\* (or dropped, when it is in error or not wanted), and in each case "Every
\* consumed CQE returns one cyclic RQ slot, including errors."
PostRx ==
  /\ hpc = "rxpost"
  /\ fPc' = [fPc EXCEPT !["rx"] = Plus("rx", @, 1)]
  /\ db' = [db EXCEPT !["rx"] = fPc'["rx"]]
  /\ fCc' = [fCc EXCEPT !["rx"] = Plus("rx", cqe["rx"][Slot("rx", fCqCc["rx"])].ctr, 1)]
  /\ fCqCc' = [fCqCc EXCEPT !["rx"] = Plus("rx", @, 1)]
  /\ got' = None
  /\ hpc' = "rx"
  /\ UNCHANGED <<txVars, devVars, cqVars>>

\* The last look finds no new entry; CQEs may arrive before the CQ is armed.
PollEnds(q) ==
  /\ hpc = q
  /\ ~CqeReady(q)
  /\ hpc' = IF q = "tx" THEN "txarm" ELSE "rxarm"
  /\ UNCHANGED <<fPc, fCc, fCqCc, db, txVars, devVars, cqVars, got>>

\* updateCqConsumer and armCq, behind the loop.
ArmAfterPoll(q) ==
  /\ hpc = IF q = "tx" THEN "txarm" ELSE "rxarm"
  /\ ci' = [ci EXCEPT ![q] = fCqCc[q]]
  /\ Arm({q})
  /\ hpc' = "idle"
  /\ UNCHANGED <<fPc, fCc, fCqCc, db, txVars, devVars, got>>

----------------------------------------------------------------------------
RingsTypeOK ==
  /\ \A q \in Queues :
       /\ {fPc[q], fCc[q], fCqCc[q], ci[q], db[q], hw[q], cqHw[q]} \subseteq Counters(q)
       /\ cqe[q] \in [Slots(q) -> [own : 0 .. 1, ctr : Counters(q)] \cup {None}]
  /\ fWqeMbuf \in [Slots("tx") -> Pkts \cup {None}]
  /\ stack \in SUBSET Pkts
  /\ rxBuf \in [Slots("rx") -> Counters("rx") \cup {None}]
  /\ armed \in SUBSET Queues
  /\ fresh \in SUBSET Queues
  /\ events \in SUBSET Queues
  /\ hpc \in HandlerPoints
  /\ got \in Counters("rx") \cup {None}

=============================================================================
