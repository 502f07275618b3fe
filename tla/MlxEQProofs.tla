----------------------------- MODULE MlxEQProofs -----------------------------
(***************************************************************************)
(* Proofs about the event queues: for every number and size of the rings   *)
(* and any finite set of notifiers, the owner bit tells a new entry from   *)
(* an old one on every lap, an entry is not reused while it is dispatched, *)
(* and a notifier that has synchronized is not called back any more.       *)
(***************************************************************************)
EXTENDS MlxEQ, RingLemmas, FiniteSetTheorems

(***************************************************************************)
(* The inductive invariant.                                                *)
(***************************************************************************)

\* A ring's worth of entries from the producer on, the ones not posted yet: their
\* slots hold the owner bit of the lap before.
OwnerInv ==
  \A e \in Eqs, i \in Nat :
    prodIndex[e] =< i /\ i < prodIndex[e] + Size => owner[e][Slot(i)] # Phase(i)

\* The handler dispatches an entry that has been posted, within one ring's worth,
\* and counts the callbacks it has still to make.
HandlerInv ==
  /\ hpc = "call" => consIndex[heq] < prodIndex[heq] /\ hcount < Size
  /\ hpc # "call" => targets = {}
  /\ fActiveCallbacks = Cardinality(targets)

\* The index setupInterrupts has read may be out of date, never ahead.
SetupInv == spc = "write" => sci =< consIndex[seq]

\* A notifier in the registry is in use.
RegistryInv ==
  \A e \in Eqs : \A n \in fNotifiers[e] : e = EqOf[n] /\ client[n] = "registered"

IInv == /\ TypeOK /\ OwnerInv /\ EqeStable /\ HandlerInv /\ SetupInv /\ RegistryInv
        /\ QuietAfterSync

(***************************************************************************)
(* The owner bit.                                                          *)
(***************************************************************************)

\* A slot and a phase are in range.
LEMMA SlotType ==
  ASSUME NEW i \in Nat
  PROVE  Slot(i) \in 0 .. Size - 1 /\ Phase(i) \in {0, 1}
<1>1. Size \in Nat \ {0}
  BY SizesAssumption
<1>2. Slot(i) \in 0 .. Size - 1
  BY <1>1, ModRange DEF Slot
<1>3. i \div Size \in Nat
  BY <1>1, DivRange
<1>4. (i \div Size) % 2 \in 0 .. 1
  BY <1>3
<1> QED  BY <1>2, <1>4 DEF Phase

\* One lap on, an entry has the same slot and the other owner bit.
LEMMA LapFlipsPhase ==
  ASSUME NEW i \in Nat
  PROVE  Slot(i + Size) = Slot(i) /\ Phase(i + Size) = 1 - Phase(i)
<1>1. Size \in Nat \ {0}
  BY SizesAssumption
<1>2. /\ (i + Size) % Size = i % Size
      /\ (i + Size) \div Size = (i \div Size) + 1
  BY <1>1, NextLap
<1>3. i \div Size \in Nat
  BY <1>1, DivRange
<1>4. ((i \div Size) + 1) % 2 = 1 - ((i \div Size) % 2)
  <2> DEFINE q == i \div Size
  <2> HIDE DEF q
  <2>1. (q + 1) % 2 = 1 - (q % 2)
    BY <1>3 DEF q
  <2> QED  BY <2>1 DEF q
<1> QED  BY <1>2, <1>4 DEF Slot, Phase

\* Entries less than a lap apart have slots of their own.
LEMMA SlotsDiffer ==
  ASSUME NEW i \in Nat, NEW j \in Nat, i < j, j < i + Size
  PROVE  Slot(i) # Slot(j)
BY SizesAssumption, DistinctSlots DEF Slot

\* The invariant implies that the owner bit tells: an entry between consumer and
\* producer is, one lap on, among the ones not posted yet.
LEMMA OwnerBit ==
  ASSUME TypeOK, OwnerInv, EqeStable
  PROVE  OwnerBitTells
<1> SUFFICES ASSUME NEW e \in Eqs
             PROVE  isNewEqe(e) <=> consIndex[e] < prodIndex[e]
  BY DEF OwnerBitTells
<1> DEFINE c == consIndex[e]
           p == prodIndex[e]
<1>1. /\ c \in Nat /\ p \in Nat /\ Size \in Nat \ {0}
      /\ c =< p /\ p =< c + Size
  BY SizesAssumption DEF TypeOK, EqeStable
<1>2. CASE c = p
  <2>1. owner[e][Slot(c)] # Phase(c)
    BY <1>1, <1>2 DEF OwnerInv
  <2> QED  BY <1>2, <2>1, <1>1 DEF isNewEqe
<1>3. CASE c < p
  <2>1. owner[e][Slot(c + Size)] # Phase(c + Size)
    BY <1>1, <1>3 DEF OwnerInv
  <2>2. Slot(c + Size) = Slot(c) /\ Phase(c + Size) = 1 - Phase(c)
    BY <1>1, LapFlipsPhase
  <2>3. Slot(c) \in 0 .. Size - 1 /\ Phase(c) \in {0, 1}
    BY <1>1, SlotType
  <2>4. owner[e][Slot(c)] \in {0, 1}
    BY <2>3, ZenonT(30) DEF TypeOK
  <2>5. owner[e][Slot(c)] = Phase(c)
    BY <2>1, <2>2, <2>3, <2>4
  <2> QED  BY <1>3, <2>5 DEF isNewEqe
<1> QED  BY <1>1, <1>2, <1>3

(***************************************************************************)
(* The callbacks.                                                          *)
(***************************************************************************)

\* Any set of notifiers is finite, and its cardinality behaves as expected.
LEMMA CardinalityFacts ==
  ASSUME NEW S \in SUBSET Notifiers
  PROVE  /\ Cardinality(S) \in 0 .. Cardinality(Notifiers)
         /\ Cardinality(S) = 0 <=> S = {}
         /\ \A n \in S : Cardinality(S \ {n}) = Cardinality(S) - 1
<1>1. IsFiniteSet(Notifiers) /\ Cardinality(Notifiers) \in Nat
  BY NotifiersAssumption, FS_CardinalityType
<1>2. IsFiniteSet(S) /\ Cardinality(S) =< Cardinality(Notifiers)
  BY <1>1, FS_Subset
<1>3. Cardinality(S) \in Nat
  BY <1>2, FS_CardinalityType
<1>4. Cardinality(S) = 0 <=> S = {}
  BY <1>2, FS_EmptySet
<1>5. \A n \in S : Cardinality(S \ {n}) = Cardinality(S) - 1
  BY <1>2, FS_RemoveElement
<1> QED  BY <1>1, <1>2, <1>3, <1>4, <1>5

\* The vectors and the EQs of a vector are in range.
LEMMA VectorTypes ==
  /\ \A v \in Vectors : First(v) \in Eqs /\ Last(v) \in Eqs
  /\ \A e \in Eqs : VectorOf(e) \in Vectors
  /\ 0 \in Eqs /\ 0 \in Vectors
BY SizesAssumption DEF Vectors, Eqs, First, Last, VectorOf

(***************************************************************************)
(* Every action preserves the invariant.                                   *)
(***************************************************************************)

\* The types.
LEMMA TypeStep ==
  ASSUME IInv, Next
  PROVE  TypeOK'
<1> USE SizesAssumption DEF IInv, TypeOK, ringVars, handlerVars, setupVars
<1>1. ASSUME NEW e \in Eqs, Post(e)  PROVE TypeOK'
  <2>1. Slot(prodIndex[e]) \in 0 .. Size - 1 /\ Phase(prodIndex[e]) \in {0, 1}
    BY SlotType
  <2>2. owner' \in [Eqs -> [0 .. Size - 1 -> {0, 1}]]
    BY <1>1, <2>1 DEF Post
  <2>3. prodIndex' \in [Eqs -> Nat]
    BY <1>1 DEF Post
  <2>4. UNCHANGED <<consIndex, ci, armed, irq, enabled, fShuttingDown, fNotifiers,
                    fActiveCallbacks, targets, handlerVars, client, setupVars, down>>
    BY <1>1 DEF Post
  <2> QED  BY <2>2, <2>3, <2>4
<1>2. ASSUME NEW e \in Eqs, Raise(e)  PROVE TypeOK'
  BY <1>2, VectorTypes DEF Raise
<1>3. ASSUME NEW v \in Vectors, HandlerStarts(v)  PROVE TypeOK'
  <2>1. First(v) \in Eqs /\ 0 \in 0 .. Size
    BY VectorTypes
  <2> QED  BY <1>3, <2>1 DEF HandlerStarts
<1>4. CASE Dispatch
  <2>1. targets' \in SUBSET Notifiers /\ fActiveCallbacks = 0
    BY <1>4, FS_EmptySet DEF Dispatch, HandlerInv
  <2>2. fActiveCallbacks' = 0 + Cardinality(targets')
    BY <1>4, <2>1 DEF Dispatch
  <2>3. fActiveCallbacks' \in 0 .. Cardinality(Notifiers)
    <3>1. Cardinality(targets') \in 0 .. Cardinality(Notifiers)
      BY <2>1, CardinalityFacts
    <3> QED  BY <2>2, <3>1
  <2> QED  BY <1>4, <2>1, <2>3 DEF Dispatch
<1>5. ASSUME NEW n \in Notifiers, CallbackReturns(n)  PROVE TypeOK'
  <2>1. Cardinality(Notifiers) \in Nat
    BY NotifiersAssumption, FS_CardinalityType
  <2>2. OneCallbackLess \in 0 .. Cardinality(Notifiers)
    BY <2>1 DEF OneCallbackLess
  <2>3. client' \in [Notifiers -> {"idle", "registered", "sync", "asleep"}]
    BY <1>5 DEF CallbackReturns
  <2> QED  BY <1>5, <2>2, <2>3 DEF CallbackReturns
<1>6. CASE Advance
  <2>1. hcount' \in 0 .. Size
    BY <1>6 DEF Advance, HandlerInv
  <2>2. consIndex' \in [Eqs -> Nat] /\ consIndex'[heq] \in Nat
    BY <1>6 DEF Advance
  <2>3. ci' \in [Eqs -> Nat] /\ armed' \in SUBSET Eqs
    BY <1>6, <2>2 DEF Advance, UpdateCi
  <2> QED  BY <1>6, <2>1, <2>2, <2>3 DEF Advance
<1>7. CASE Arm
  <2>1. ci' \in [Eqs -> Nat] /\ armed' \in SUBSET Eqs
    BY <1>7 DEF Arm, UpdateCi
  <2>2. heq < Last(hvec) => heq + 1 \in Eqs
    <3>1. Last(hvec) \in Eqs
      BY VectorTypes
    <3> QED  BY <3>1 DEF Eqs
  <2>3. heq' \in Eqs /\ hvec' \in Vectors
    BY <1>7, <2>2, VectorTypes DEF Arm
  <2>4. 0 \in 0 .. Size
    OBVIOUS
  <2> QED  BY <1>7, <2>1, <2>3, <2>4 DEF Arm
<1>8. CASE EnableInterrupts
  BY <1>8 DEF EnableInterrupts
<1>9. CASE SetupFails
  BY <1>9 DEF SetupFails
<1>10. CASE ReadIndex
  BY <1>10 DEF ReadIndex
<1>11. CASE InitialArm
  <2>1. ci' \in [Eqs -> Nat] /\ armed' \in SUBSET Eqs
    BY <1>11 DEF InitialArm, UpdateCi
  <2> QED  BY <1>11, <2>1, VectorTypes DEF InitialArm
<1>12. ASSUME NEW n \in Notifiers, RegisterNotifier(n)  PROVE TypeOK'
  <2>1. EqOf[n] \in Eqs
    BY EventsAssumption
  <2>2. fNotifiers' \in [Eqs -> SUBSET Notifiers]
    <3> DEFINE free == ~fShuttingDown /\ Cardinality(fNotifiers[EqOf[n]]) < MaxNotifiers
    <3>1. CASE free
      <4>1. fNotifiers' = [fNotifiers EXCEPT ![EqOf[n]] = fNotifiers[EqOf[n]] \cup {n}]
        BY <1>12, <3>1 DEF RegisterNotifier
      <4>2. fNotifiers[EqOf[n]] \cup {n} \in SUBSET Notifiers
        BY <2>1
      <4> HIDE DEF free
      <4> QED  BY <2>1, <4>1, <4>2
    <3>2. CASE ~free
      BY <1>12, <2>1, <3>2 DEF RegisterNotifier
    <3> QED  BY <3>1, <3>2
  <2>3. client' \in [Notifiers -> {"idle", "registered", "sync", "asleep"}]
    BY <1>12 DEF RegisterNotifier
  <2>4. UNCHANGED <<ringVars, enabled, fShuttingDown, fActiveCallbacks, targets,
                    handlerVars, setupVars, down>>
    BY <1>12 DEF RegisterNotifier
  <2> QED  BY <2>2, <2>3, <2>4
<1>13. ASSUME NEW n \in Notifiers, UnregisterNotifier(n)  PROVE TypeOK'
  BY <1>13, EventsAssumption DEF UnregisterNotifier
<1>14. ASSUME NEW n \in Notifiers, SynchronizeCallbacks(n)  PROVE TypeOK'
  BY <1>14 DEF SynchronizeCallbacks
<1>15. CASE DisableInterrupts
  BY <1>15 DEF DisableInterrupts
<1>16. CASE Shutdown
  BY <1>16 DEF Shutdown
<1> QED
  BY <1>1, <1>2, <1>3, <1>4, <1>5, <1>6, <1>7, <1>8, <1>9, <1>10, <1>11, <1>12, <1>13,
     <1>14, <1>15, <1>16 DEF Next, Handler, Setup

\* The owner bits.  Posting an entry gives its slot the owner bit of its own lap,
\* which is the wrong one for the entry a lap on; the other slots are kept.
LEMMA OwnerStep ==
  ASSUME IInv, Next
  PROVE  OwnerInv'
<1> USE DEF IInv
<1>1. ASSUME NEW e \in Eqs, Post(e)  PROVE OwnerInv'
  <2> DEFINE p == prodIndex[e]
  <2>1. /\ p \in Nat /\ Size \in Nat \ {0}
        /\ Slot(p) \in 0 .. Size - 1
    BY SizesAssumption, SlotType DEF TypeOK
  <2>2. /\ prodIndex' = [prodIndex EXCEPT ![e] = p + 1]
        /\ owner' = [owner EXCEPT ![e][Slot(p)] = Phase(p)]
    BY <1>1 DEF Post
  <2> SUFFICES ASSUME NEW d \in Eqs, NEW i \in Nat,
                      prodIndex'[d] =< i, i < prodIndex'[d] + Size
               PROVE  owner'[d][Slot(i)] # Phase(i)
    BY DEF OwnerInv
  <2>3. CASE d # e
    BY <2>2, <2>3 DEF OwnerInv, TypeOK
  <2>4. CASE d = e
    <3>1. p + 1 =< i /\ i < (p + 1) + Size
      BY <2>1, <2>2, <2>4 DEF TypeOK
    <3>2. Slot(i) \in 0 .. Size - 1 /\ Phase(p) \in {0, 1}
      BY <2>1, SlotType
    <3>3. CASE i = p + Size
      <4>1. Slot(i) = Slot(p) /\ Phase(i) = 1 - Phase(p)
        BY <2>1, <3>3, LapFlipsPhase
      <4>2. owner'[d][Slot(i)] = Phase(p)
        BY <2>1, <2>2, <2>4, <4>1 DEF TypeOK
      <4> QED  BY <3>2, <4>1, <4>2
    <3>4. CASE i < p + Size
      <4>1. Slot(i) # Slot(p)
        BY <2>1, <3>1, <3>4, SlotsDiffer
      <4>2. owner'[d][Slot(i)] = owner[d][Slot(i)]
        BY <2>1, <2>2, <2>4, <3>2, <4>1 DEF TypeOK
      <4> QED  BY <2>1, <2>4, <3>1, <3>4, <4>2 DEF OwnerInv
    <3> QED  BY <2>1, <3>1, <3>3, <3>4
  <2> QED  BY <2>3, <2>4
<1>2. ASSUME UNCHANGED <<owner, prodIndex>>  PROVE OwnerInv'
  BY <1>2 DEF OwnerInv
<1>3. Next => (\E e \in Eqs : Post(e)) \/ UNCHANGED <<owner, prodIndex>>
  BY DEF Next, Raise, Handler, HandlerStarts, Dispatch, CallbackReturns, Advance, Arm,
         Setup, EnableInterrupts, SetupFails, ReadIndex, InitialArm, RegisterNotifier,
         UnregisterNotifier, SynchronizeCallbacks, DisableInterrupts, Shutdown, ringVars
<1> QED  BY <1>1, <1>2, <1>3

\* The indices.  The doorbell is told an index that is not ahead of consIndex, so
\* that the firmware never posts over an entry still to be dispatched.
LEMMA IndexStep ==
  ASSUME IInv, Next
  PROVE  EqeStable'
<1> USE SizesAssumption DEF IInv
<1>1. ASSUME UNCHANGED <<ci, consIndex, prodIndex>>  PROVE EqeStable'
  BY <1>1 DEF EqeStable
<1>2. ASSUME NEW e \in Eqs, Post(e)  PROVE EqeStable'
  <2>1. /\ prodIndex' = [prodIndex EXCEPT ![e] = prodIndex[e] + 1]
        /\ prodIndex[e] - ci[e] < Size
        /\ UNCHANGED <<ci, consIndex>>
    BY <1>2 DEF Post
  <2>2. /\ ci[e] \in Nat /\ consIndex[e] \in Nat /\ prodIndex[e] \in Nat
        /\ prodIndex'[e] = prodIndex[e] + 1
        /\ \A d \in Eqs : d # e => prodIndex'[d] = prodIndex[d]
    BY <2>1 DEF TypeOK
  <2>3. ASSUME NEW d \in Eqs
        PROVE  /\ ci'[d] =< consIndex'[d] /\ consIndex'[d] =< prodIndex'[d]
               /\ prodIndex'[d] =< consIndex'[d] + Size
    <3>1. CASE d = e
      BY <2>1, <2>2, <3>1 DEF EqeStable
    <3>2. CASE d # e
      BY <2>1, <2>2, <3>2 DEF EqeStable
    <3> QED  BY <3>1, <3>2
  <2> QED  BY <2>3 DEF EqeStable
<1>3. CASE Advance
  <2>1. /\ consIndex' = [consIndex EXCEPT ![heq] = consIndex[heq] + 1]
        /\ prodIndex' = prodIndex
        /\ ci' = ci \/ ci' = [ci EXCEPT ![heq] = consIndex[heq] + 1]
    BY <1>3 DEF Advance, UpdateCi, TypeOK
  <2>2. consIndex[heq] < prodIndex[heq]
    BY <1>3 DEF Advance, HandlerInv
  <2> QED  BY <2>1, <2>2, SMTT(30) DEF EqeStable, TypeOK
<1>4. CASE Arm
  BY <1>4 DEF Arm, UpdateCi, EqeStable, TypeOK
<1>5. CASE InitialArm
  BY <1>5 DEF InitialArm, UpdateCi, SetupInv, EqeStable, TypeOK
<1>6. Next => \/ \E e \in Eqs : Post(e)
              \/ Advance \/ Arm \/ InitialArm
              \/ UNCHANGED <<ci, consIndex, prodIndex>>
  BY DEF Next, Raise, Handler, HandlerStarts, Dispatch, CallbackReturns,
         Setup, EnableInterrupts, SetupFails, ReadIndex, RegisterNotifier,
         UnregisterNotifier, SynchronizeCallbacks, DisableInterrupts, Shutdown, ringVars
<1> QED  BY <1>1, <1>2, <1>3, <1>4, <1>5, <1>6

\* The handler.
LEMMA HandlerStep ==
  ASSUME IInv, Next
  PROVE  HandlerInv'
<1> USE SizesAssumption DEF IInv, HandlerInv
<1>1. ASSUME UNCHANGED <<hpc, heq, hcount, consIndex, prodIndex, targets,
                         fActiveCallbacks>>
      PROVE  HandlerInv'
  BY <1>1
<1>2. ASSUME NEW e \in Eqs, Post(e)  PROVE HandlerInv'
  BY <1>2, SMTT(30) DEF Post, handlerVars, TypeOK
<1>3. ASSUME NEW v \in Vectors, HandlerStarts(v)  PROVE HandlerInv'
  BY <1>3 DEF HandlerStarts
<1>4. CASE Dispatch
  <2>1. consIndex[heq] < prodIndex[heq]
    BY <1>4, OwnerBit DEF Dispatch, OwnerBitTells, TypeOK
  <2>2. fActiveCallbacks = 0 /\ targets' \in SUBSET Notifiers
    BY <1>4, FS_EmptySet DEF Dispatch, TypeOK
  <2>3. fActiveCallbacks' = Cardinality(targets')
    BY <1>4, <2>2, CardinalityFacts DEF Dispatch
  <2> QED  BY <1>4, <2>1, <2>3 DEF Dispatch, ringVars
<1>5. ASSUME NEW n \in Notifiers, CallbackReturns(n)  PROVE HandlerInv'
  <2>1. Cardinality(targets') = Cardinality(targets) - 1 /\ Cardinality(targets) \in Nat
    BY <1>5, CardinalityFacts, SMTT(30) DEF CallbackReturns, TypeOK
  <2>2. targets \in SUBSET Notifiers /\ targets # {}
    BY <1>5 DEF CallbackReturns, TypeOK
  <2>3. fActiveCallbacks' = Cardinality(targets')
    BY <1>5, <2>1, <2>2, CardinalityFacts DEF CallbackReturns, OneCallbackLess
  <2> QED  BY <1>5, <2>3 DEF CallbackReturns, ringVars, handlerVars
<1>6. CASE Advance
  BY <1>6 DEF Advance
<1>7. CASE Arm
  BY <1>7 DEF Arm
<1>8. Next => \/ \E e \in Eqs : Post(e)
              \/ \E v \in Vectors : HandlerStarts(v)
              \/ Dispatch
              \/ \E n \in Notifiers : CallbackReturns(n)
              \/ Advance \/ Arm
              \/ UNCHANGED <<hpc, heq, hcount, consIndex, prodIndex, targets,
                             fActiveCallbacks>>
  BY DEF Next, Raise, Handler, Setup, EnableInterrupts, SetupFails, ReadIndex,
         InitialArm, RegisterNotifier, UnregisterNotifier, SynchronizeCallbacks,
         DisableInterrupts, Shutdown, ringVars, handlerVars
<1> QED  BY <1>1, <1>2, <1>3, <1>4, <1>5, <1>6, <1>7, <1>8

\* setupInterrupts.
LEMMA SetupStep ==
  ASSUME IInv, Next
  PROVE  SetupInv'
<1> USE DEF IInv, SetupInv
<1>1. ASSUME UNCHANGED <<setupVars, consIndex>>  PROVE SetupInv'
  BY <1>1 DEF setupVars
<1>2. CASE Advance
  BY <1>2 DEF Advance, setupVars, TypeOK
<1>3. CASE EnableInterrupts \/ SetupFails \/ ReadIndex \/ InitialArm
  BY <1>3 DEF EnableInterrupts, SetupFails, ReadIndex, InitialArm, ringVars, TypeOK
<1>4. Next => \/ Advance
              \/ EnableInterrupts \/ SetupFails \/ ReadIndex \/ InitialArm
              \/ UNCHANGED <<setupVars, consIndex>>
  BY DEF Next, Post, Raise, Handler, HandlerStarts, Dispatch, CallbackReturns, Arm,
         Setup, RegisterNotifier, UnregisterNotifier, SynchronizeCallbacks,
         DisableInterrupts, Shutdown, ringVars
<1> QED  BY <1>1, <1>2, <1>3, <1>4

\* The registry.
LEMMA RegistryStep ==
  ASSUME IInv, Next
  PROVE  RegistryInv' /\ QuietAfterSync'
<1> USE EventsAssumption DEF IInv, TypeOK, RegistryInv, QuietAfterSync
<1>1. ASSUME UNCHANGED <<fNotifiers, client, targets>>
      PROVE  RegistryInv' /\ QuietAfterSync'
  BY <1>1
<1>2. CASE Dispatch
  BY <1>2 DEF Dispatch
<1>3. ASSUME NEW n \in Notifiers, CallbackReturns(n)
      PROVE  RegistryInv' /\ QuietAfterSync'
  BY <1>3 DEF CallbackReturns
<1>4. ASSUME NEW n \in Notifiers, RegisterNotifier(n)
      PROVE  RegistryInv' /\ QuietAfterSync'
  <2>1. /\ client[n] = "idle" /\ targets' = targets
        /\ client' = [client EXCEPT ![n] = "registered"]
    BY <1>4 DEF RegisterNotifier
  <2>2. ASSUME NEW e \in Eqs, NEW m \in fNotifiers'[e]
        PROVE  m \in fNotifiers[e] \/ (m = n /\ e = EqOf[n])
    BY <1>4, SMTT(30) DEF RegisterNotifier
  <2>3. ASSUME NEW e \in Eqs, NEW m \in fNotifiers'[e]
        PROVE  e = EqOf[m] /\ client'[m] = "registered"
    <3>1. CASE m \in fNotifiers[e]
      BY <2>1, <3>1
    <3>2. CASE m = n /\ e = EqOf[n]
      BY <2>1, <3>2
    <3> QED  BY <2>2, <3>1, <3>2
  <2>4. QuietAfterSync'
    BY <2>1
  <2> QED  BY <2>3, <2>4
<1>5. ASSUME NEW n \in Notifiers, UnregisterNotifier(n)
      PROVE  RegistryInv' /\ QuietAfterSync'
  BY <1>5, SMTT(30) DEF UnregisterNotifier
<1>6. ASSUME NEW n \in Notifiers, SynchronizeCallbacks(n)
      PROVE  RegistryInv' /\ QuietAfterSync'
  <2>1. fActiveCallbacks = 0 => targets = {}
    BY CardinalityFacts DEF HandlerInv
  <2>2. fActiveCallbacks \in Nat
    BY CardinalityFacts DEF HandlerInv
  <2>3. /\ client[n] = "sync" /\ UNCHANGED <<targets, fNotifiers>>
        /\ \/ client' = [client EXCEPT ![n] = "asleep"]
           \/ client' = [client EXCEPT ![n] = "idle"] /\ fActiveCallbacks = 0
    <3>1. CASE fActiveCallbacks = 0
      BY <1>6, <3>1 DEF SynchronizeCallbacks
    <3>2. CASE fActiveCallbacks > 0
      BY <1>6, <3>2 DEF SynchronizeCallbacks
    <3> QED  BY <2>2, <3>1, <3>2
  <2> QED  BY <2>1, <2>3
<1>7. Next => \/ Dispatch
              \/ \E n \in Notifiers :
                   \/ CallbackReturns(n) \/ RegisterNotifier(n)
                   \/ UnregisterNotifier(n) \/ SynchronizeCallbacks(n)
              \/ UNCHANGED <<fNotifiers, client, targets>>
  BY DEF Next, Post, Raise, Handler, HandlerStarts, Advance, Arm, Setup,
         EnableInterrupts, SetupFails, ReadIndex, InitialArm, DisableInterrupts, Shutdown
<1> QED  BY <1>1, <1>2, <1>3, <1>4, <1>5, <1>6, <1>7

(***************************************************************************)
(* The theorems.                                                           *)
(***************************************************************************)

\* IInv holds initially.
LEMMA InitInv == Init => IInv
<1> SUFFICES ASSUME Init PROVE IInv
  OBVIOUS
<1> USE SizesAssumption DEF Init
<1>1. TypeOK
  <2>1. 0 \in 0 .. Cardinality(Notifiers) /\ 0 \in 0 .. Size
    BY CardinalityFacts, FS_EmptySet
  <2> QED  BY <2>1, VectorTypes DEF TypeOK
<1>2. OwnerInv
  <2> SUFFICES ASSUME NEW e \in Eqs, NEW i \in Nat, 0 =< i, i < 0 + Size
               PROVE  owner[e][Slot(i)] # Phase(i)
    BY DEF OwnerInv
  <2>1. i \in 0 .. Size - 1 /\ Slot(i) \in 0 .. Size - 1
    BY SlotType
  <2>2. i \div Size = 0
    <3>1. /\ i \in Nat /\ 0 \in Nat /\ i = Size * 0 + i
      BY <2>1
    <3> QED  BY <2>1, <3>1, DivModUnique
  <2>3. 0 % 2 = 0
    OBVIOUS
  <2>4. Phase(i) = 0
    BY <2>2, <2>3 DEF Phase
  <2> QED  BY <2>1, <2>4
<1>3. EqeStable
  BY DEF EqeStable
<1>4. HandlerInv
  BY FS_EmptySet DEF HandlerInv
<1>5. SetupInv /\ RegistryInv /\ QuietAfterSync
  BY DEF SetupInv, RegistryInv, QuietAfterSync
<1> QED  BY <1>1, <1>2, <1>3, <1>4, <1>5 DEF IInv

\* Every step preserves it.
LEMMA StepInv == IInv /\ [Next]_vars => IInv'
<1>1. ASSUME IInv, Next  PROVE IInv'
  BY <1>1, TypeStep, OwnerStep, IndexStep, HandlerStep, SetupStep, RegistryStep
  DEF IInv
<1>2. ASSUME IInv, UNCHANGED vars  PROVE IInv'
  BY <1>2 DEF IInv, TypeOK, OwnerInv, EqeStable, HandlerInv, SetupInv, RegistryInv,
              QuietAfterSync, vars, ringVars, handlerVars, setupVars
<1> QED  BY <1>1, <1>2

\* IInv is an invariant.
LEMMA Invariance == Spec => []IInv
BY InitInv, StepInv, PTL DEF Spec

\* Indices, control points, the callback count and the sets stay in range; the count
\* never runs below zero or above the number of notifiers.
THEOREM TypeCorrect == Spec => []TypeOK
<1>1. IInv => TypeOK
  BY DEF IInv
<1> QED  BY <1>1, Invariance, PTL

\* isNewEqe is right on every lap of a ring of any size: an entry is taken for new
\* exactly if the firmware has posted it and it has not been consumed.
THEOREM OwnerBitCorrect == Spec => []OwnerBitTells
<1>1. IInv => OwnerBitTells
  BY OwnerBit DEF IInv
<1> QED  BY <1>1, Invariance, PTL

\* The firmware does not reuse an entry the handlers have not consumed, although
\* setupInterrupts writes an index it read earlier to the same doorbell.
THEOREM EntriesStable == Spec => []EqeStable
<1>1. IInv => EqeStable
  BY DEF IInv
<1> QED  BY <1>1, Invariance, PTL

\* After unregisterNotifier and synchronizeCallbacks, no callback of the notifier is
\* running or about to run.
THEOREM SynchronizedIsQuiet == Spec => []QuietAfterSync
<1>1. IInv => QuietAfterSync
  BY DEF IInv
<1> QED  BY <1>1, Invariance, PTL

=============================================================================
