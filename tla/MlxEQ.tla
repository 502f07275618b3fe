------------------------------- MODULE MlxEQ -------------------------------
(***************************************************************************)
(* Event queues, Sources/core/MlxEQ.cpp: the rings the firmware posts      *)
(* event entries (EQEs) to, the interrupt handlers that consume them, and  *)
(* the notifier registry they dispatch to.                                 *)
(*                                                                         *)
(* The async EQs share interrupt vector 0; a completion EQ has a vector of *)
(* its own.  All handlers run on one work loop, one at a time.  Notifiers  *)
(* (the page worker, the Ethernet driver, RoCE) register and, when they go *)
(* away, unregister and call synchronizeCallbacks, from threads of their   *)
(* own.  The event masks are disjoint, so an EQ stands for its event type. *)
(***************************************************************************)
EXTENDS Integers, FiniteSets

CONSTANTS NumAsync,     \* fNumAsyncEqs
          NumComp,      \* fNumCompEqs
          Size,         \* entries of a ring, 1 << logSize
          CiEvery,      \* the consumer index is written every CiEvery entries
          Notifiers,    \* the event notifiers
          EqOf,         \* notifier -> the EQ of the events it registers for
          MaxNotifiers, \* MLX_MAX_EVENT_NOTIFIERS
          MaxEvents     \* bound: EQ -> the events the firmware posts to it

ASSUME SizesAssumption ==
  /\ NumAsync \in Nat \ {0} /\ NumComp \in Nat
  /\ Size \in Nat \ {0} /\ CiEvery \in Nat \ {0}
  /\ MaxNotifiers \in Nat
ASSUME NotifiersAssumption == IsFiniteSet(Notifiers)

Eqs     == 0 .. NumAsync + NumComp - 1
Vectors == 0 .. NumComp
ASSUME EventsAssumption ==
  MaxEvents \in [Eqs -> Nat] /\ EqOf \in [Notifiers -> Eqs]
\* The EQs of a vector: all async ones, or one completion EQ.
First(v) == IF v = 0 THEN 0 ELSE NumAsync + v - 1
Last(v)  == NumAsync + v - 1
VectorOf(e) == IF e < NumAsync THEN 0 ELSE e - NumAsync + 1
Slot(i)     == i % Size
Phase(i)    == (i \div Size) % 2      \* the owner bit of the i-th entry

VARIABLES
  owner,           \* EQ -> slot -> the owner bit of the entry
  consIndex,       \* EQ -> consIndex
  prodIndex,       \* EQ -> the entries the firmware has posted
  ci,              \* EQ -> the consumer index last written to the doorbell
  armed,           \* the EQs that will raise an interrupt
  irq,             \* the vectors with an interrupt pending
  enabled,         \* the interrupt sources are enabled
  fShuttingDown,
  fNotifiers,      \* EQ -> the notifiers registered for its events
  fActiveCallbacks,
  targets,         \* the notifiers the handler has still to call back
  hpc, heq, hcount, hvec,  \* the handler: control point, EQ, iteration, vector
  client,          \* notifier -> the control point of its owner's thread
  spc, seq, sci,   \* setupInterrupts: control point, EQ, index it has read
  down             \* how far the driver's cleanup has come

ringVars    == <<owner, consIndex, prodIndex, ci, armed, irq>>
handlerVars == <<hpc, heq, hcount, hvec>>
setupVars   == <<spc, seq, sci>>
vars == <<ringVars, enabled, fShuttingDown, fNotifiers, fActiveCallbacks, targets,
          handlerVars, client, setupVars, down>>

Init ==
  /\ owner = [e \in Eqs |-> [i \in 0 .. Size - 1 |-> 1]]
  /\ consIndex = [e \in Eqs |-> 0]
  /\ prodIndex = [e \in Eqs |-> 0]
  /\ ci = [e \in Eqs |-> 0]
  /\ armed = {} /\ irq = {} /\ enabled = FALSE
  /\ fShuttingDown = FALSE
  /\ fNotifiers = [e \in Eqs |-> {}]
  /\ fActiveCallbacks = 0
  /\ targets = {}
  /\ hpc = "idle" /\ heq = 0 /\ hcount = 0 /\ hvec = 0
  /\ client = [n \in Notifiers |-> "idle"]
  /\ spc = "enable" /\ seq = 0 /\ sci = 0
  /\ down = "up"

----------------------------------------------------------------------------
(***************************************************************************)
(* The firmware.  It posts an entry when the ring has room by the consumer *)
(* index it was last told, and raises the vector of an armed EQ that has   *)
(* entries beyond that index.                                              *)
(***************************************************************************)
Post(e) ==
  /\ prodIndex[e] < MaxEvents[e]
  /\ prodIndex[e] - ci[e] < Size
  /\ owner' = [owner EXCEPT ![e][Slot(prodIndex[e])] = Phase(prodIndex[e])]
  /\ prodIndex' = [prodIndex EXCEPT ![e] = @ + 1]
  /\ UNCHANGED <<consIndex, ci, armed, irq, enabled, fShuttingDown, fNotifiers,
                 fActiveCallbacks, targets, handlerVars, client, setupVars, down>>

Raise(e) ==
  /\ e \in armed
  /\ prodIndex[e] # ci[e]
  /\ armed' = armed \ {e}
  /\ irq' = irq \cup {VectorOf(e)}
  /\ UNCHANGED <<owner, consIndex, prodIndex, ci, enabled, fShuttingDown, fNotifiers,
                 fActiveCallbacks, targets, handlerVars, client, setupVars, down>>

\* updateCi: the doorbell takes the consumer index and, at one of its two
\* addresses, arms the EQ.
UpdateCi(e, index, arm) ==
  /\ ci' = [ci EXCEPT ![e] = index]
  /\ armed' = IF arm THEN armed \cup {e} ELSE armed

----------------------------------------------------------------------------
(***************************************************************************)
(* asyncIntrHandler and compIntrHandler                                    *)
(***************************************************************************)
\* Mutation: the lap of the ring is not taken into account.
IsNewOnFirstLap(e) == owner[e][Slot(consIndex[e])] = 0

isNewEqe(e) == owner[e][Slot(consIndex[e])] = Phase(consIndex[e])

HandlerStarts(v) ==
  /\ enabled /\ v \in irq /\ hpc = "idle"
  /\ irq' = irq \ {v}
  /\ hvec' = v /\ heq' = First(v) /\ hcount' = 0
  /\ hpc' = "scan"
  /\ UNCHANGED <<owner, consIndex, prodIndex, ci, armed, enabled, fShuttingDown,
                 fNotifiers, fActiveCallbacks, targets, client, setupVars, down>>

\* Mutations: the callbacks are not counted; the entry is reported as consumed
\* before its callbacks have run.
DispatchUncounted ==
  /\ hpc = "scan"
  /\ hcount < Size /\ isNewEqe(heq)
  /\ targets' = IF fShuttingDown THEN {} ELSE fNotifiers[heq]
  /\ hpc' = "call"
  /\ UNCHANGED <<ringVars, enabled, fShuttingDown, fNotifiers, fActiveCallbacks, heq,
                 hcount, hvec, client, setupVars, down>>

DispatchReportsFirst ==
  /\ hpc = "scan"
  /\ hcount < Size /\ isNewEqe(heq)
  /\ UpdateCi(heq, consIndex[heq] + 1, FALSE)
  /\ targets' = IF fShuttingDown THEN {} ELSE fNotifiers[heq]
  /\ fActiveCallbacks' = fActiveCallbacks + Cardinality(targets')
  /\ hpc' = "call"
  /\ UNCHANGED <<owner, consIndex, prodIndex, irq, enabled, fShuttingDown, fNotifiers,
                 heq, hcount, hvec, client, setupVars, down>>

\* The targets of an entry are collected under fNotifierLock.
Dispatch ==
  /\ hpc = "scan"
  /\ hcount < Size /\ isNewEqe(heq)
  /\ targets' = IF fShuttingDown THEN {} ELSE fNotifiers[heq]
  /\ fActiveCallbacks' = fActiveCallbacks + Cardinality(targets')
  /\ hpc' = "call"
  /\ UNCHANGED <<ringVars, enabled, fShuttingDown, fNotifiers, heq, hcount, hvec,
                 client, setupVars, down>>

\* if (fActiveCallbacks) fActiveCallbacks--
OneCallbackLess == IF fActiveCallbacks > 0 THEN fActiveCallbacks - 1 ELSE 0

\* Mutations: the count is not decremented; one waiter is woken, not all.
CallbackKeepsCount(n) ==
  /\ hpc = "call"
  /\ n \in targets
  /\ targets' = targets \ {n}
  /\ UNCHANGED <<ringVars, enabled, fShuttingDown, fNotifiers, fActiveCallbacks,
                 handlerVars, client, setupVars, down>>

CallbackWakesOne(n) ==
  /\ hpc = "call"
  /\ n \in targets
  /\ targets' = targets \ {n}
  /\ fActiveCallbacks' = OneCallbackLess
  /\ IF fActiveCallbacks' = 0 /\ \E m \in Notifiers : client[m] = "asleep"
     THEN \E m \in Notifiers : client[m] = "asleep" /\ client' = [client EXCEPT ![m] = "sync"]
     ELSE UNCHANGED client
  /\ UNCHANGED <<ringVars, enabled, fShuttingDown, fNotifiers, handlerVars, setupVars,
                 down>>

\* One callback, outside the lock; the last one wakes those who wait for it.
CallbackReturns(n) ==
  /\ hpc = "call"
  /\ n \in targets
  /\ targets' = targets \ {n}
  /\ fActiveCallbacks' = OneCallbackLess
  /\ client' = [m \in Notifiers |->
                  IF fActiveCallbacks' = 0 /\ client[m] = "asleep" THEN "sync"
                  ELSE client[m]]
  /\ UNCHANGED <<ringVars, enabled, fShuttingDown, fNotifiers, handlerVars,
                 setupVars, down>>

Advance ==
  /\ hpc = "call"
  /\ targets = {}
  /\ consIndex' = [consIndex EXCEPT ![heq] = @ + 1]
  /\ IF consIndex'[heq] % CiEvery = 0
     THEN UpdateCi(heq, consIndex'[heq], FALSE)
     ELSE UNCHANGED <<ci, armed>>
  /\ hcount' = hcount + 1
  /\ hpc' = "scan"
  /\ UNCHANGED <<owner, prodIndex, irq, enabled, fShuttingDown, fNotifiers,
                 fActiveCallbacks, targets, heq, hvec, client, setupVars, down>>

\* Mutation: the consumer index is written, the EQ not armed.
ArmNothing ==
  /\ hpc = "scan"
  /\ ~(hcount < Size /\ isNewEqe(heq))
  /\ UpdateCi(heq, consIndex[heq], FALSE)
  /\ hcount' = 0
  /\ IF heq < Last(hvec)
     THEN heq' = heq + 1 /\ hpc' = "scan" /\ UNCHANGED hvec
     ELSE heq' = 0 /\ hpc' = "idle" /\ hvec' = 0
  /\ UNCHANGED <<owner, consIndex, prodIndex, irq, enabled, fShuttingDown, fNotifiers,
                 fActiveCallbacks, targets, client, setupVars, down>>

\* No new entry, or a whole ring consumed: the EQ is armed and the next one of
\* the vector is looked at.
Arm ==
  /\ hpc = "scan"
  /\ ~(hcount < Size /\ isNewEqe(heq))
  /\ UpdateCi(heq, consIndex[heq], TRUE)
  /\ hcount' = 0
  /\ IF heq < Last(hvec)
     THEN heq' = heq + 1 /\ hpc' = "scan" /\ UNCHANGED hvec
     ELSE heq' = 0 /\ hpc' = "idle" /\ hvec' = 0
  /\ UNCHANGED <<owner, consIndex, prodIndex, irq, enabled, fShuttingDown, fNotifiers,
                 fActiveCallbacks, targets, client, setupVars, down>>

----------------------------------------------------------------------------
(***************************************************************************)
(* setupInterrupts, on the thread of the driver's start: the sources are   *)
(* enabled, then every EQ is armed.  The index is read before it is        *)
(* written, and a handler may run in between.                              *)
(***************************************************************************)
EnableInterrupts ==
  /\ spc = "enable" /\ down = "up"
  /\ enabled' = TRUE
  /\ spc' = "read"
  /\ UNCHANGED <<ringVars, fShuttingDown, fNotifiers, fActiveCallbacks, targets,
                 handlerVars, client, seq, sci, down>>

\* A source is missing; those before it are enabled already.
SetupFails ==
  /\ spc = "enable" /\ down = "up"
  /\ enabled' \in BOOLEAN
  /\ spc' = "failed"
  /\ UNCHANGED <<ringVars, fShuttingDown, fNotifiers, fActiveCallbacks, targets,
                 handlerVars, client, seq, sci, down>>

ReadIndex ==
  /\ spc = "read"
  /\ sci' = consIndex[seq]
  /\ spc' = "write"
  /\ UNCHANGED <<ringVars, enabled, fShuttingDown, fNotifiers, fActiveCallbacks,
                 targets, handlerVars, client, seq, down>>

InitialArm ==
  /\ spc = "write"
  /\ UpdateCi(seq, sci, TRUE)
  /\ sci' = 0
  /\ IF seq + 1 \in Eqs THEN seq' = seq + 1 /\ spc' = "read"
                        ELSE seq' = 0 /\ spc' = "done"
  /\ UNCHANGED <<owner, consIndex, prodIndex, irq, enabled, fShuttingDown, fNotifiers,
                 fActiveCallbacks, targets, handlerVars, client, down>>

----------------------------------------------------------------------------
(***************************************************************************)
(* The notifiers' owners                                                   *)
(***************************************************************************)
RegisterNotifier(n) ==
  /\ client[n] = "idle"
  /\ IF ~fShuttingDown /\ Cardinality(fNotifiers[EqOf[n]]) < MaxNotifiers
     THEN fNotifiers' = [fNotifiers EXCEPT ![EqOf[n]] = @ \cup {n}]
     ELSE UNCHANGED fNotifiers       \* refused, and the caller is not told
  /\ client' = [client EXCEPT ![n] = "registered"]
  /\ UNCHANGED <<ringVars, enabled, fShuttingDown, fActiveCallbacks, targets,
                 handlerVars, setupVars, down>>

UnregisterNotifier(n) ==
  /\ client[n] = "registered"
  /\ fNotifiers' = [fNotifiers EXCEPT ![EqOf[n]] = @ \ {n}]
  /\ client' = [client EXCEPT ![n] = "sync"]
  /\ UNCHANGED <<ringVars, enabled, fShuttingDown, fActiveCallbacks, targets,
                 handlerVars, setupVars, down>>

\* synchronizeCallbacks sleeps while any callback is active.
SynchronizeCallbacks(n) ==
  /\ client[n] = "sync"
  /\ client' = [client EXCEPT ![n] = IF fActiveCallbacks > 0 THEN "asleep" ELSE "idle"]
  /\ UNCHANGED <<ringVars, enabled, fShuttingDown, fNotifiers, fActiveCallbacks,
                 targets, handlerVars, setupVars, down>>

----------------------------------------------------------------------------
(***************************************************************************)
(* The driver's cleanup: disableInterrupts waits for a running handler     *)
(* (removeEventSource takes the work loop's gate), then shutdown closes    *)
(* the registry.  Destroying the EQs is part of MlxPCIDriver.              *)
(***************************************************************************)
DisableInterrupts ==
  /\ down = "up" /\ spc \in {"done", "failed"}
  /\ hpc = "idle"
  /\ enabled' = FALSE
  /\ down' = "disabled"
  /\ UNCHANGED <<ringVars, fShuttingDown, fNotifiers, fActiveCallbacks, targets,
                 handlerVars, client, setupVars>>

Shutdown ==
  /\ down = "disabled"
  /\ fShuttingDown' = TRUE
  /\ fActiveCallbacks = 0           \* synchronizeCallbacks
  /\ down' = "shutdown"
  /\ UNCHANGED <<ringVars, enabled, fNotifiers, fActiveCallbacks, targets, handlerVars,
                 client, setupVars>>

----------------------------------------------------------------------------
Handler ==
  \/ \E v \in Vectors : HandlerStarts(v)
  \/ Dispatch
  \/ \E n \in Notifiers : CallbackReturns(n)
  \/ Advance
  \/ Arm

\* A start that fails goes on to clean up.
Setup ==
  \/ EnableInterrupts \/ ReadIndex \/ InitialArm
  \/ SetupFails
  \/ spc = "failed" /\ DisableInterrupts

Next ==
  \/ \E e \in Eqs : Post(e) \/ Raise(e)
  \/ Handler
  \/ Setup
  \/ \E n \in Notifiers :
       RegisterNotifier(n) \/ UnregisterNotifier(n) \/ SynchronizeCallbacks(n)
  \/ DisableInterrupts
  \/ Shutdown

Spec == Init /\ [][Next]_vars

(***************************************************************************)
(* The work loop, the start thread and threads in synchronizeCallbacks     *)
(* keep running, and the device delivers the interrupts it has been armed  *)
(* for.  Nothing obliges the firmware to post or a notifier to unregister. *)
(***************************************************************************)
FairSpec ==
  /\ Spec
  /\ WF_vars(Handler)
  /\ WF_vars(Setup)
  /\ \A e \in Eqs : WF_vars(Raise(e))
  /\ \A n \in Notifiers : WF_vars(SynchronizeCallbacks(n))

----------------------------------------------------------------------------
(***************************************************************************)
(* Properties                                                              *)
(***************************************************************************)
\* Indices, control points and sets stay in range.
TypeOK ==
  /\ owner \in [Eqs -> [0 .. Size - 1 -> {0, 1}]]
  /\ consIndex \in [Eqs -> Nat]
  /\ prodIndex \in [Eqs -> Nat]
  /\ ci \in [Eqs -> Nat]
  /\ armed \in SUBSET Eqs
  /\ irq \in SUBSET Vectors
  /\ enabled \in BOOLEAN
  /\ fShuttingDown \in BOOLEAN
  /\ fNotifiers \in [Eqs -> SUBSET Notifiers]
  /\ fActiveCallbacks \in 0 .. Cardinality(Notifiers)
  /\ targets \in SUBSET Notifiers
  /\ hpc \in {"idle", "scan", "call"}
  /\ heq \in Eqs
  /\ hcount \in 0 .. Size
  /\ hvec \in Vectors
  /\ client \in [Notifiers -> {"idle", "registered", "sync", "asleep"}]
  /\ spc \in {"enable", "read", "write", "done", "failed"}
  /\ seq \in Eqs
  /\ sci \in Nat
  /\ down \in {"up", "disabled", "shutdown"}

\* The owner bit tells a new entry from an old one on every lap of the ring: the
\* entry at consIndex is new exactly if the firmware has posted it, so that no
\* event is handled twice and none is passed over.
OwnerBitTells == \A e \in Eqs : isNewEqe(e) <=> consIndex[e] < prodIndex[e]

\* A callback reads its entry in the ring, not a copy: the firmware must not be
\* told of an entry as consumed, and so reuse it, while it is being dispatched.
EqeStable ==
  \A e \in Eqs :
    /\ ci[e] =< consIndex[e]
    /\ consIndex[e] =< prodIndex[e] /\ prodIndex[e] =< consIndex[e] + Size

\* When synchronizeCallbacks has returned after unregisterNotifier, no callback
\* of the notifier is running or about to run: its owner frees what it uses.
QuietAfterSync == \A n \in Notifiers : client[n] = "idle" => n \notin targets

\* Every posted event is consumed: none is stranded between the handler's last
\* look at the ring and the arming of the EQ, nor by the initial arming, which
\* races with a handler for the shared vector.
EventsServed ==
  \A e \in Eqs : consIndex[e] < prodIndex[e] /\ enabled
                   ~> consIndex[e] = prodIndex[e] \/ ~enabled

\* synchronizeCallbacks returns to every caller, also to two at the same time.
SyncReturns ==
  \A n \in Notifiers : client[n] \in {"sync", "asleep"} ~> client[n] = "idle"

=============================================================================
