---------------------------- MODULE MlxCmdProofs ----------------------------
(***************************************************************************)
(* Proofs about the command interface for any number of threads, slots and *)
(* entities.  The safety properties of MlxCmd follow from one inductive    *)
(* invariant, IInv, which says who may refer to an entity: the thread that *)
(* allocated it, the slot it registered it for, and the firmware through   *)
(* that slot's descriptor.                                                 *)
(***************************************************************************)
EXTENDS MlxCmd, TLAPS

\* The points at which a thread has an entity, and with mapped mailboxes.
HasEnt == {"submit", "poll", "expired", "release", "clear"}
Mapped == {"submit", "poll", "expired"}

\* A call in progress keeps the interface up, and the page lock has the thread
\* that holds the reserved slot as its holder.
CallInv ==
  /\ \A t \in Threads : pc[t] # "idle" => fUp
  /\ \A t \in Threads : fPageLock = t <=> op[t] = "page" /\ pc[t] \in Holding

\* A thread's slot is the reserved one exactly if its command is MANAGE_PAGES.
SlotKind ==
  \A t \in Threads : pc[t] \in Holding \cup HasEnt =>
    (op[t] = "page" <=> idx[t] = PageSlot)

\* Threads have entities of their own, allocated ones; the mailboxes are mapped
\* until the answer has been read.
EntInv ==
  /\ \A t \in Threads : pc[t] \in HasEnt =>
       /\ ent[t] \in heap
       /\ ent[t] \in mapped <=> pc[t] \in Mapped
  /\ \A t, u \in Threads :
       pc[t] \in HasEnt /\ pc[u] \in HasEnt /\ ent[t] = ent[u] => t = u

\* An entity is registered for its thread's slot only, and the slot of a thread
\* about to submit has no other entity registered.
ArrInv ==
  /\ EntArrValid
  /\ \A t \in Threads, s \in Slots :
       pc[t] \in HasEnt /\ fEntArr[s] = ent[t] => idx[t] = s
  /\ \A t \in Threads : pc[t] = "submit" => fEntArr[idx[t]] \in {None, ent[t]}

\* Unlike a regular slot, the reserved slot stays registered until its thread
\* has cleared it: nobody gets past AcquirePage in between, and after a timeout
\* nobody ever does.
PageInv ==
  /\ \A t \in Threads : op[t] = "page" /\ pc[t] \in HasEnt =>
       fEntArr[PageSlot] = ent[t]
  /\ \A t \in Threads : op[t] = "page" /\ pc[t] = "build" =>
       fEntArr[PageSlot] = None
  /\ fUp /\ PageSlot \in owned => fEntArr[PageSlot] # None
  /\ PageSlot \in owned => \A t \in Threads :
       op[t] = "page" /\ pc[t] \in HasEnt => pc[t] \in {"poll", "expired"}

\* The firmware reaches an entity that a thread still has only through the slot
\* that thread is waiting on.
DmaInv ==
  /\ NoLateDma
  /\ \A s \in owned, t \in Threads :
       pc[t] \in HasEnt /\ dma[s] # None /\ dma[s] = ent[t] =>
         idx[t] = s /\ pc[t] \in {"poll", "expired"}

\* An answer waiting in a descriptor is the one given to the thread that waits.
AnswerInv ==
  /\ \A t \in Threads : pc[t] = "poll" /\ idx[t] \notin owned =>
       answer[t] \in Replies /\ reply[idx[t]] = answer[t]
  /\ SuccessMeansAnswered

IInv ==
  /\ TypeOK
  /\ CallInv
  /\ SlotKind
  /\ SlotExclusion
  /\ NoSlotLeak
  /\ EntInv
  /\ ArrInv
  /\ PageInv
  /\ DmaInv
  /\ AnswerInv

----------------------------------------------------------------------------

\* exec's early returns leave everything but the thread's result alone.
LEMMA EarlyReturn ==
  ASSUME IInv, NEW t \in Threads, pc[t] \in {"idle", "acquire"},
         NEW r \in Results, Return(t, r), UNCHANGED <<cmdVars, memVars, hwVars>>
  PROVE  IInv'
<1> USE NumRegAssumption, NoneAssumption
   DEF IInv, TypeOK, Return, cmdVars, memVars, hwVars, callVars, Slots, Regular,
       PageSlot, Ops
<1>0. \A u \in Threads, s \in Slots : Holds(u, s)' <=> Holds(u, s)
  BY DEF Holds, Holding
<1>1. TypeOK'
  BY DEF Points, Results
<1>2. CallInv'
  BY DEF CallInv, Holding
<1>3. SlotKind'
  BY DEF SlotKind, Holding, HasEnt
<1>4. SlotExclusion'
  BY <1>0, ZenonT(30) DEF SlotExclusion, WaitedFor, Withheld
<1>5. NoSlotLeak'
  BY <1>0 DEF NoSlotLeak
<1>6. EntInv'
  BY DEF EntInv, HasEnt, Mapped
<1>7. ArrInv'
  BY DEF ArrInv, EntArrValid, EntInv, HasEnt, SlotExclusion, Holds, Holding
<1>8. PageInv'
  BY DEF PageInv, EntInv, ArrInv, SlotKind, HasEnt, CallInv, Holding
<1>9. DmaInv'
  BY
     DEF DmaInv, NoLateDma, EntInv, ArrInv, HasEnt, Mapped, SlotExclusion,
         Holds, Holding
<1>10. AnswerInv'
  BY DEF AnswerInv, SuccessMeansAnswered, SlotExclusion, Holds, Holding
<1> QED  BY <1>1, <1>2, <1>3, <1>4, <1>5, <1>6, <1>7, <1>8, <1>9, <1>10

\* exec's entry checks preserve the invariant.
LEMMA CallKeeps ==
  ASSUME IInv, NEW t \in Threads, NEW o \in Ops, NEW valid \in BOOLEAN,
         Call(t, o, valid)
  PROVE  IInv'
<1>1. CASE Rejected(o, valid)
  BY <1>1, EarlyReturn DEF Call, Results
<1>2. CASE ~Rejected(o, valid)
  <2> USE NumRegAssumption, NoneAssumption
     DEF IInv, TypeOK, cmdVars, memVars, hwVars, callVars, Slots, Regular,
         PageSlot, Ops
  <2> /\ pc[t] = "idle"
      /\ op' = [op EXCEPT ![t] = o]
      /\ pc' = [pc EXCEPT ![t] = "acquire"]
      /\ UNCHANGED <<cmdVars, memVars, hwVars, idx, ent, result, answer>>
    BY <1>2 DEF Call
  <2>0. \A u \in Threads, s \in Slots : Holds(u, s)' <=> Holds(u, s)
    BY DEF Holds, Holding
  <2>1. TypeOK'
    BY DEF Points, Results
  <2>2. CallInv'
    BY <1>2 DEF CallInv, Rejected, Holding
  <2>3. SlotKind'
    BY DEF SlotKind, Holding, HasEnt
  <2>4. SlotExclusion'
    BY <2>0 DEF SlotExclusion, WaitedFor, Withheld
  <2>5. NoSlotLeak'
    BY <2>0 DEF NoSlotLeak
  <2>6. EntInv'
    BY DEF EntInv, HasEnt, Mapped
  <2>7. ArrInv'
    BY DEF ArrInv, EntArrValid, EntInv, HasEnt, SlotExclusion, Holds, Holding
  <2>8. PageInv'
    BY DEF PageInv, EntInv, ArrInv, SlotKind, HasEnt, CallInv, Holding
  <2>9. DmaInv'
    BY
       DEF DmaInv, NoLateDma, EntInv, ArrInv, HasEnt, Mapped, SlotExclusion,
           Holds, Holding
  <2>10. AnswerInv'
    BY DEF AnswerInv, SuccessMeansAnswered, SlotExclusion, Holds, Holding
  <2> QED  BY <2>1, <2>2, <2>3, <2>4, <2>5, <2>6, <2>7, <2>8, <2>9, <2>10
<1> QED  BY <1>1, <1>2

\* Taking fPageLock preserves it: the reserved slot is neither held nor owned.
LEMMA AcquirePageKeeps ==
  ASSUME IInv, NEW t \in Threads, AcquirePage(t)
  PROVE  IInv'
<1>1. CASE fEntArr[PageSlot] # None
  BY <1>1, EarlyReturn DEF AcquirePage, Results, cmdVars
<1>2. CASE fEntArr[PageSlot] = None
  <2> USE NumRegAssumption, NoneAssumption
     DEF IInv, TypeOK, cmdVars, memVars, hwVars, callVars, Slots, Regular,
         PageSlot, Ops
  <2> /\ pc[t] = "acquire" /\ op[t] = "page"
      /\ fPageLock = None /\ fPageLock' = t
      /\ idx' = [idx EXCEPT ![t] = PageSlot]
      /\ pc' = [pc EXCEPT ![t] = "build"]
      /\ UNCHANGED <<fUp, fQuarantined, fBitmask, fEntArr, memVars, hwVars,
                     op, ent, result, answer>>
      /\ fEntArr[PageSlot] = None
    BY <1>2 DEF AcquirePage
  <2>1. TypeOK'
    BY DEF Points, Results
  <2>2. CallInv'
    BY DEF CallInv, Holding
  <2>3. SlotKind'
    BY DEF SlotKind, Holding, HasEnt
  <2>4. SlotExclusion'
    <3>1. \A s \in Slots, u, v \in Threads : Holds(u, s)' /\ Holds(v, s)' => u =
        v
      BY DEF SlotExclusion, Holds, Holding, CallInv, SlotKind
    <3>2. \A s \in Slots, u \in Threads : Holds(u, s)' => s \notin fBitmask'
      BY DEF SlotExclusion, Holds, Holding, CallInv, SlotKind
    <3>3. ASSUME NEW s \in owned'
          PROVE  WaitedFor(s)' \/ Withheld(s)'
      <4>1. CASE \E u \in Threads \ {t} : Holds(u, s) /\ pc[u] \in {"poll",
          "expired"}
        <5>1. PICK u \in Threads \ {t} : Holds(u, s) /\ pc[u] \in {"poll",
            "expired"}
          BY <4>1
        <5>2. Holds(u, s)' /\ pc'[u] \in {"poll", "expired"}
          BY <5>1 DEF Holds
        <5> QED  BY <5>2 DEF WaitedFor
      <4>2. CASE Withheld(s)
        BY <3>3, <4>2 DEF Withheld, Holds, Holding, SlotKind, PageInv, CallInv
      <4> QED  BY <3>3, <4>1, <4>2 DEF SlotExclusion, WaitedFor, Holds
    <3> QED  BY <3>1, <3>2, <3>3 DEF SlotExclusion
  <2>5. NoSlotLeak'
    <3>1. ASSUME NEW s \in (Regular \ fBitmask)', ~fQuarantined'
          PROVE  \E u \in Threads : Holds(u, s)'
      <4>1. PICK u \in Threads : Holds(u, s)
        BY <3>1 DEF NoSlotLeak
      <4>2. Holds(u, s)'
        BY <4>1 DEF Holds, Holding
      <4> QED  BY <4>2
    <3>2. ASSUME (fPageLock # None)'
          PROVE  Holds(fPageLock, PageSlot)'
      <4>1. (op[fPageLock] = "page" /\ pc[fPageLock] \in Holding)'
        BY <2>1, <2>2, <3>2 DEF CallInv
      <4> QED  BY <2>1, <2>3, <3>2, <4>1 DEF SlotKind, Holds
    <3> QED  BY <3>1, <3>2 DEF NoSlotLeak
  <2>6. EntInv'
    BY DEF EntInv, HasEnt, Mapped
  <2>7. ArrInv'
    BY DEF ArrInv, EntArrValid, EntInv, HasEnt, SlotExclusion, Holds, Holding
  <2>8. PageInv'
    BY DEF PageInv, EntInv, ArrInv, SlotKind, HasEnt, CallInv, Holding
  <2>9. DmaInv'
    BY
       DEF DmaInv, NoLateDma, EntInv, ArrInv, HasEnt, Mapped, SlotExclusion,
           Holds, Holding
  <2>10. AnswerInv'
    BY DEF AnswerInv, SuccessMeansAnswered, SlotExclusion, Holds, Holding
  <2> QED  BY <2>1, <2>2, <2>3, <2>4, <2>5, <2>6, <2>7, <2>8, <2>9, <2>10
<1> QED  BY <1>1, <1>2

\* allocIdx preserves it: an idle bit is neither held nor owned.
LEMMA AllocIdxKeeps ==
  ASSUME IInv, NEW t \in Threads, AllocIdx(t)
  PROVE  IInv'
<1>1. CASE Return(t, "Failed") /\ UNCHANGED fBitmask
  BY <1>1, EarlyReturn DEF AllocIdx, Results, cmdVars
<1>2. CASE \E bit \in fBitmask : AllocBit(t, bit)
  <2> PICK bit \in fBitmask : AllocBit(t, bit)
    BY <1>2
  <2> USE NumRegAssumption, NoneAssumption
     DEF IInv, TypeOK, AllocBit, cmdVars, memVars, hwVars, callVars, Slots,
         Regular, PageSlot, Ops
  <2> /\ pc[t] = "acquire" /\ op[t] # "page"
      /\ UNCHANGED <<fUp, fQuarantined, fPageLock, fEntArr, memVars, hwVars>>
    BY DEF AllocIdx
  <2>1. TypeOK'
    BY DEF Points, Results
  <2>2. CallInv'
    BY DEF CallInv, Holding
  <2>3. SlotKind'
    BY DEF SlotKind, Holding, HasEnt
  <2>4. SlotExclusion'
    <3>1. \A s \in Slots, u, v \in Threads : Holds(u, s)' /\ Holds(v, s)' => u =
        v
      BY DEF SlotExclusion, Holds, Holding, CallInv, SlotKind
    <3>2. \A s \in Slots, u \in Threads : Holds(u, s)' => s \notin fBitmask'
      BY DEF SlotExclusion, Holds, Holding, CallInv, SlotKind
    <3>3. ASSUME NEW s \in owned'
          PROVE  WaitedFor(s)' \/ Withheld(s)'
      <4>1. CASE \E u \in Threads \ {t} : Holds(u, s) /\ pc[u] \in {"poll",
          "expired"}
        <5>1. PICK u \in Threads \ {t} : Holds(u, s) /\ pc[u] \in {"poll",
            "expired"}
          BY <4>1
        <5>2. Holds(u, s)' /\ pc'[u] \in {"poll", "expired"}
          BY <5>1 DEF Holds
        <5> QED  BY <5>2 DEF WaitedFor
      <4>2. CASE Withheld(s)
        BY <3>3, <4>2 DEF Withheld, Holds, Holding, SlotKind, PageInv
      <4> QED  BY <3>3, <4>1, <4>2 DEF SlotExclusion, WaitedFor, Holds
    <3> QED  BY <3>1, <3>2, <3>3 DEF SlotExclusion
  <2>5. NoSlotLeak'
    <3>1. ASSUME NEW s \in (Regular \ fBitmask)', ~fQuarantined'
          PROVE  \E u \in Threads : Holds(u, s)'
      <4>1. CASE s = bit
        BY <4>1 DEF Holds, Holding
      <4>2. CASE s # bit
        <5>1. PICK u \in Threads : Holds(u, s)
          BY <3>1, <4>2 DEF NoSlotLeak
        <5>2. Holds(u, s)'
          BY <5>1 DEF Holds, Holding
        <5> QED  BY <5>2
      <4> QED  BY <4>1, <4>2
    <3>2. ASSUME (fPageLock # None)'
          PROVE  Holds(fPageLock, PageSlot)'
      <4>1. (op[fPageLock] = "page" /\ pc[fPageLock] \in Holding)'
        BY <2>1, <2>2, <3>2 DEF CallInv
      <4> QED  BY <2>1, <2>3, <3>2, <4>1 DEF SlotKind, Holds
    <3> QED  BY <3>1, <3>2 DEF NoSlotLeak
  <2>6. EntInv'
    BY DEF EntInv, HasEnt, Mapped
  <2>7. ArrInv'
    BY DEF ArrInv, EntArrValid, EntInv, HasEnt, SlotExclusion, Holds, Holding
  <2>8. PageInv'
    BY DEF PageInv, EntInv, ArrInv, SlotKind, HasEnt, CallInv, Holding
  <2>9. DmaInv'
    BY
       DEF DmaInv, NoLateDma, EntInv, ArrInv, HasEnt, Mapped, SlotExclusion,
           Holds, Holding
  <2>10. AnswerInv'
    BY DEF AnswerInv, SuccessMeansAnswered, SlotExclusion, Holds, Holding
  <2> QED  BY <2>1, <2>2, <2>3, <2>4, <2>5, <2>6, <2>7, <2>8, <2>9, <2>10
<1> QED  BY <1>1, <1>2 DEF AllocIdx

\* The path without memory for an entity preserves it: it gives the slot back.
LEMMA BuildNoEntityKeeps ==
  ASSUME IInv, NEW t \in Threads, BuildNoEntity(t)
  PROVE  IInv'
<1> USE NumRegAssumption, NoneAssumption
   DEF IInv, TypeOK, BuildNoEntity, GiveBackSlot, Return, cmdVars, memVars,
       hwVars, callVars, Slots, Regular, PageSlot, Ops
<1>1. TypeOK'
  <2>1. op[t] # "page" => idx[t] \in Regular
    BY DEF SlotKind, Holding
  <2>2. fBitmask' \in SUBSET Regular /\ fPageLock' \in Threads \cup {None}
    BY <2>1, ZenonT(30)
  <2> QED  BY <2>2 DEF Points, Results
<1>2. CallInv'
  BY DEF CallInv, Holding
<1>3. SlotKind'
  BY DEF SlotKind, Holding, HasEnt
<1>4. SlotExclusion'
  <2>1. \A s \in Slots, u, v \in Threads : Holds(u, s)' /\ Holds(v, s)' => u = v
    BY DEF SlotExclusion, Holds, Holding, CallInv, SlotKind
  <2>2. \A s \in Slots, u \in Threads : Holds(u, s)' => s \notin fBitmask'
    BY DEF SlotExclusion, Holds, Holding, CallInv, SlotKind
  <2>3. ASSUME NEW s \in owned'
        PROVE  WaitedFor(s)' \/ Withheld(s)'
    <3>1. CASE \E u \in Threads \ {t} : Holds(u, s) /\ pc[u] \in {"poll",
        "expired"}
      <4>1. PICK u \in Threads \ {t} : Holds(u, s) /\ pc[u] \in {"poll",
          "expired"}
        BY <3>1
      <4>2. Holds(u, s)' /\ pc'[u] \in {"poll", "expired"}
        BY <4>1 DEF Holds
      <4> QED  BY <4>2 DEF WaitedFor
    <3>2. CASE Withheld(s)
      BY <2>3, <3>2 DEF Withheld, Holds, Holding, SlotKind, PageInv
    <3> QED  BY <2>3, <3>1, <3>2 DEF SlotExclusion, WaitedFor, Holds
  <2> QED  BY <2>1, <2>2, <2>3 DEF SlotExclusion
<1>5. NoSlotLeak'
  <2>1. ASSUME NEW s \in (Regular \ fBitmask)', ~fQuarantined'
        PROVE  \E u \in Threads : Holds(u, s)'
    <3>1. PICK u \in Threads : Holds(u, s)
      BY <2>1 DEF NoSlotLeak
    <3>2. u # t
      BY <2>1, <3>1 DEF Holds, SlotKind, Holding
    <3>3. Holds(u, s)'
      BY <3>1, <3>2 DEF Holds, Holding
    <3> QED  BY <3>3
  <2>2. ASSUME (fPageLock # None)'
        PROVE  Holds(fPageLock, PageSlot)'
    <3>1. (op[fPageLock] = "page" /\ pc[fPageLock] \in Holding)'
      BY <1>1, <1>2, <2>2 DEF CallInv
    <3> QED  BY <1>1, <1>3, <2>2, <3>1 DEF SlotKind, Holds
  <2> QED  BY <2>1, <2>2 DEF NoSlotLeak
<1>6. EntInv'
  BY DEF EntInv, HasEnt, Mapped
<1>7. ArrInv'
  BY DEF ArrInv, EntArrValid, EntInv, HasEnt, SlotExclusion, Holds, Holding
<1>8. PageInv'
  BY DEF PageInv, EntInv, ArrInv, SlotKind, HasEnt, CallInv, Holding
<1>9. DmaInv'
  BY
     DEF DmaInv, NoLateDma, EntInv, ArrInv, HasEnt, Mapped, SlotExclusion,
         Holds, Holding
<1>10. AnswerInv'
  BY DEF AnswerInv, SuccessMeansAnswered, SlotExclusion, Holds, Holding
<1> QED  BY <1>1, <1>2, <1>3, <1>4, <1>5, <1>6, <1>7, <1>8, <1>9, <1>10

\* Registering a fresh entity preserves it: nobody else refers to it.
LEMMA BuildEntityKeeps ==
  ASSUME IInv, NEW t \in Threads, BuildEntity(t)
  PROVE  IInv'
<1> PICK e \in Ents \ heap : BuildWith(t, e)
  BY DEF BuildEntity
<1> pc[t] = "build"
  BY DEF BuildEntity
<1> USE NumRegAssumption, NoneAssumption
   DEF IInv, TypeOK, BuildWith, cmdVars, memVars, hwVars, callVars, Slots,
       Regular, PageSlot, Ops
<1>1. CASE /\ mapped' = mapped \cup {e}
           /\ pc' = [pc EXCEPT ![t] = "submit"]
           /\ UNCHANGED result
  <2> USE <1>1
  <2>0. \A u \in Threads, s \in Slots : Holds(u, s)' <=> Holds(u, s)
    BY DEF Holds, Holding
  <2>1. TypeOK'
    BY DEF Points, Results
  <2>2. CallInv'
    BY DEF CallInv, Holding
  <2>3. SlotKind'
    BY DEF SlotKind, Holding, HasEnt
  <2>4. SlotExclusion'
    <3>1. ASSUME NEW s \in owned'
          PROVE  WaitedFor(s)' \/ Withheld(s)'
      <4>1. CASE WaitedFor(s)
        <5>1. PICK u \in Threads : Holds(u, s) /\ pc[u] \in {"poll", "expired"}
          BY <4>1 DEF WaitedFor
        <5> QED  BY <2>0, <5>1 DEF WaitedFor
      <4>2. CASE Withheld(s)
        BY <2>0, <4>2 DEF Withheld
      <4> QED  BY <3>1, <4>1, <4>2 DEF SlotExclusion
    <3> QED  BY <2>0, <3>1 DEF SlotExclusion
  <2>5. NoSlotLeak'
    BY <2>0 DEF NoSlotLeak
  <2>6. EntInv'
    BY DEF EntInv, HasEnt, Mapped
  <2>7. ArrInv'
    BY DEF ArrInv, EntArrValid, EntInv, HasEnt, SlotExclusion, Holds, Holding
  <2>8. PageInv'
    BY DEF PageInv, EntInv, ArrInv, SlotKind, HasEnt, CallInv, Holding
  <2>9. DmaInv'
    BY
       DEF DmaInv, NoLateDma, EntInv, ArrInv, HasEnt, Mapped, SlotExclusion,
           Holds, Holding, CallInv
  <2>10. AnswerInv'
    BY DEF AnswerInv, SuccessMeansAnswered, SlotExclusion, Holds, Holding
  <2> QED  BY <2>1, <2>2, <2>3, <2>4, <2>5, <2>6, <2>7, <2>8, <2>9, <2>10
<1>2. CASE /\ result' = [result EXCEPT ![t] = "Failed"]
           /\ pc' = [pc EXCEPT ![t] = "release"]
           /\ UNCHANGED mapped
  <2> USE <1>2
  <2>0. \A u \in Threads, s \in Slots : Holds(u, s)' <=> Holds(u, s)
    BY DEF Holds, Holding
  <2>1. TypeOK'
    BY DEF Points, Results
  <2>2. CallInv'
    BY DEF CallInv, Holding
  <2>3. SlotKind'
    BY DEF SlotKind, Holding, HasEnt
  <2>4. SlotExclusion'
    <3>1. ASSUME NEW s \in owned'
          PROVE  WaitedFor(s)' \/ Withheld(s)'
      <4>1. CASE WaitedFor(s)
        <5>1. PICK u \in Threads : Holds(u, s) /\ pc[u] \in {"poll", "expired"}
          BY <4>1 DEF WaitedFor
        <5> QED  BY <2>0, <5>1 DEF WaitedFor
      <4>2. CASE Withheld(s)
        BY <2>0, <4>2 DEF Withheld
      <4> QED  BY <3>1, <4>1, <4>2 DEF SlotExclusion
    <3> QED  BY <2>0, <3>1 DEF SlotExclusion
  <2>5. NoSlotLeak'
    BY <2>0 DEF NoSlotLeak
  <2>6. EntInv'
    BY DEF EntInv, HasEnt, Mapped
  <2>7. ArrInv'
    BY DEF ArrInv, EntArrValid, EntInv, HasEnt, SlotExclusion, Holds, Holding
  <2>8. PageInv'
    BY DEF PageInv, EntInv, ArrInv, SlotKind, HasEnt, CallInv, Holding
  <2>9. DmaInv'
    BY
       DEF DmaInv, NoLateDma, EntInv, ArrInv, HasEnt, Mapped, SlotExclusion,
           Holds, Holding, CallInv
  <2>10. AnswerInv'
    BY DEF AnswerInv, SuccessMeansAnswered, SlotExclusion, Holds, Holding
  <2> QED  BY <2>1, <2>2, <2>3, <2>4, <2>5, <2>6, <2>7, <2>8, <2>9, <2>10
<1> QED  BY <1>1, <1>2 DEF BuildWith

\* submit preserves it: the descriptor gets the caller's mapped entity or none.
LEMMA SubmitKeeps ==
  ASSUME IInv, NEW t \in Threads, Submit(t)
  PROVE  IInv'
<1> USE NumRegAssumption, NoneAssumption
   DEF IInv, TypeOK, Submit, cmdVars, memVars, hwVars, callVars, Slots, Regular,
       PageSlot, Ops
<1>0. \A u \in Threads, s \in Slots : Holds(u, s)' <=> Holds(u, s)
  BY DEF Holds, Holding
<1>1. TypeOK'
  <2>1. fEntArr[idx[t]] \in Ents \cup {None}
    OBVIOUS
  <2> QED  BY <2>1, ZenonT(30) DEF Points
<1>2. CallInv'
  BY DEF CallInv, Holding
<1>3. SlotKind'
  BY DEF SlotKind, Holding, HasEnt
<1>4. SlotExclusion'
  <2>1. WaitedFor(idx[t])'
    BY DEF WaitedFor, Holds, Holding
  <2>2. ASSUME NEW s \in owned
        PROVE  WaitedFor(s)' \/ Withheld(s)'
    <3>1. CASE WaitedFor(s)
      <4>1. PICK u \in Threads : Holds(u, s) /\ pc[u] \in {"poll", "expired"}
        BY <3>1 DEF WaitedFor
      <4> QED  BY <1>0, <4>1 DEF WaitedFor
    <3>2. CASE Withheld(s)
      BY <1>0, <3>2 DEF Withheld
    <3> QED  BY <2>2, <3>1, <3>2 DEF SlotExclusion
  <2> QED  BY <1>0, <2>1, <2>2 DEF SlotExclusion
<1>5. NoSlotLeak'
  BY <1>0 DEF NoSlotLeak
<1>6. EntInv'
  BY DEF EntInv, HasEnt, Mapped
<1>7. ArrInv'
  BY DEF ArrInv, EntArrValid, EntInv, HasEnt, SlotExclusion, Holds, Holding
<1>8. PageInv'
  BY DEF PageInv, EntInv, ArrInv, SlotKind, HasEnt, CallInv, Holding
<1>9. DmaInv'
  BY
     DEF DmaInv, NoLateDma, EntInv, ArrInv, HasEnt, Mapped, SlotExclusion,
         Holds, Holding
<1>10. AnswerInv'
  BY DEF AnswerInv, SuccessMeansAnswered, SlotExclusion, Holds, Holding
<1> QED  BY <1>1, <1>2, <1>3, <1>4, <1>5, <1>6, <1>7, <1>8, <1>9, <1>10

\* Reading the answer preserves it: no descriptor refers to the freed mailboxes.
LEMMA ReadBackKeeps ==
  ASSUME IInv, NEW t \in Threads, ReadBack(t)
  PROVE  IInv'
<1> USE NumRegAssumption, NoneAssumption
   DEF IInv, TypeOK, ReadBack, ResultOf, cmdVars, memVars, hwVars, callVars,
       Slots, Regular, PageSlot, Ops
<1>0. \A u \in Threads, s \in Slots : Holds(u, s)' <=> Holds(u, s)
  BY DEF Holds, Holding
<1>1. TypeOK'
  BY DEF Points, Results
<1>2. CallInv'
  BY DEF CallInv, Holding
<1>3. SlotKind'
  BY DEF SlotKind, Holding, HasEnt
<1>4. SlotExclusion'
  <2>1. ASSUME NEW s \in owned'
        PROVE  WaitedFor(s)' \/ Withheld(s)'
    <3>1. CASE WaitedFor(s)
      <4>1. PICK u \in Threads : Holds(u, s) /\ pc[u] \in {"poll", "expired"}
        BY <3>1 DEF WaitedFor
      <4>2. u # t
        BY <2>1, <4>1 DEF Holds
      <4> QED  BY <1>0, <4>1, <4>2 DEF WaitedFor
    <3>2. CASE Withheld(s)
      BY <1>0, <3>2 DEF Withheld
    <3> QED  BY <2>1, <3>1, <3>2 DEF SlotExclusion
  <2> QED  BY <1>0, <2>1 DEF SlotExclusion
<1>5. NoSlotLeak'
  BY <1>0 DEF NoSlotLeak
<1>6. EntInv'
  BY DEF EntInv, HasEnt, Mapped
<1>7. ArrInv'
  BY DEF ArrInv, EntArrValid, EntInv, HasEnt, SlotExclusion, Holds, Holding
<1>8. PageInv'
  BY DEF PageInv, EntInv, ArrInv, SlotKind, HasEnt, CallInv, Holding
<1>9. DmaInv'
  BY
     DEF DmaInv, NoLateDma, EntInv, ArrInv, HasEnt, Mapped, SlotExclusion,
         Holds, Holding
<1>10. AnswerInv'
  BY DEF AnswerInv, SuccessMeansAnswered, SlotExclusion, Holds, Holding
<1> QED  BY <1>1, <1>2, <1>3, <1>4, <1>5, <1>6, <1>7, <1>8, <1>9, <1>10

\* The last look of the polling loop preserves it.
LEMMA PollExpiresKeeps ==
  ASSUME IInv, NEW t \in Threads, PollExpires(t)
  PROVE  IInv'
<1> USE NumRegAssumption, NoneAssumption
   DEF IInv, TypeOK, PollExpires, cmdVars, memVars, hwVars, callVars, Slots,
       Regular, PageSlot, Ops
<1>0. \A u \in Threads, s \in Slots : Holds(u, s)' <=> Holds(u, s)
  BY DEF Holds, Holding
<1>1. TypeOK'
  BY DEF Points, Results
<1>2. CallInv'
  BY DEF CallInv, Holding
<1>3. SlotKind'
  BY DEF SlotKind, Holding, HasEnt
<1>4. SlotExclusion'
  <2>1. ASSUME NEW s \in owned'
        PROVE  WaitedFor(s)' \/ Withheld(s)'
    <3>1. CASE WaitedFor(s)
      <4>1. PICK u \in Threads : Holds(u, s) /\ pc[u] \in {"poll", "expired"}
        BY <3>1 DEF WaitedFor
      <4> QED  BY <1>0, <4>1 DEF WaitedFor
    <3>2. CASE Withheld(s)
      BY <1>0, <3>2 DEF Withheld
    <3> QED  BY <2>1, <3>1, <3>2 DEF SlotExclusion
  <2> QED  BY <1>0, <2>1 DEF SlotExclusion
<1>5. NoSlotLeak'
  BY <1>0 DEF NoSlotLeak
<1>6. EntInv'
  BY DEF EntInv, HasEnt, Mapped
<1>7. ArrInv'
  BY DEF ArrInv, EntArrValid, EntInv, HasEnt, SlotExclusion, Holds, Holding
<1>8. PageInv'
  BY DEF PageInv, EntInv, ArrInv, SlotKind, HasEnt, CallInv, Holding
<1>9. DmaInv'
  BY
     DEF DmaInv, NoLateDma, EntInv, ArrInv, HasEnt, Mapped, SlotExclusion,
         Holds, Holding
<1>10. AnswerInv'
  BY DEF AnswerInv, SuccessMeansAnswered, SlotExclusion, Holds, Holding
<1> QED  BY <1>1, <1>2, <1>3, <1>4, <1>5, <1>6, <1>7, <1>8, <1>9, <1>10

\* The timeout path preserves it: the slot is withheld with its mailboxes.
LEMMA QuarantineKeeps ==
  ASSUME IInv, NEW t \in Threads, Quarantine(t)
  PROVE  IInv'
<1> USE NumRegAssumption, NoneAssumption
   DEF IInv, TypeOK, Quarantine, Return, cmdVars, memVars, hwVars, callVars,
       Slots, Regular, PageSlot, Ops
<1>1. TypeOK'
  BY DEF Points, Results
<1>2. CallInv'
  BY DEF CallInv, Holding
<1>3. SlotKind'
  BY DEF SlotKind, Holding, HasEnt
<1>4. SlotExclusion'
  <2>1. \A s \in Slots, u, v \in Threads : Holds(u, s)' /\ Holds(v, s)' => u = v
    BY DEF SlotExclusion, Holds, Holding, CallInv, SlotKind
  <2>2. \A s \in Slots, u \in Threads : Holds(u, s)' => s \notin fBitmask'
    BY DEF SlotExclusion, Holds, Holding, CallInv, SlotKind
  <2>3. ASSUME NEW s \in owned'
        PROVE  WaitedFor(s)' \/ Withheld(s)'
    <3>1. CASE \E u \in Threads \ {t} : Holds(u, s) /\ pc[u] \in {"poll",
        "expired"}
      <4>1. PICK u \in Threads \ {t} : Holds(u, s) /\ pc[u] \in {"poll",
          "expired"}
        BY <3>1
      <4>2. Holds(u, s)' /\ pc'[u] \in {"poll", "expired"}
        BY <4>1 DEF Holds
      <4> QED  BY <4>2 DEF WaitedFor
    <3>2. CASE Holds(t, s)
      BY <3>2 DEF SlotExclusion, Withheld, Holds, Holding
    <3>3. CASE Withheld(s)
      BY <3>3 DEF Withheld, Holds, Holding
    <3> QED  BY <2>3, <3>1, <3>2, <3>3 DEF SlotExclusion, WaitedFor
  <2> QED  BY <2>1, <2>2, <2>3 DEF SlotExclusion
<1>5. NoSlotLeak'
  <2>1. ASSUME NEW s \in (Regular \ fBitmask)', ~fQuarantined'
        PROVE  \E u \in Threads : Holds(u, s)'
    BY <2>1
  <2>2. ASSUME (fPageLock # None)'
        PROVE  Holds(fPageLock, PageSlot)'
    <3>1. (op[fPageLock] = "page" /\ pc[fPageLock] \in Holding)'
      BY <1>1, <1>2, <2>2 DEF CallInv
    <3> QED  BY <1>1, <1>3, <2>2, <3>1 DEF SlotKind, Holds
  <2> QED  BY <2>1, <2>2 DEF NoSlotLeak
<1>6. EntInv'
  BY DEF EntInv, HasEnt, Mapped
<1>7. ArrInv'
  BY DEF ArrInv, EntArrValid, EntInv, HasEnt, SlotExclusion, Holds, Holding
<1>8. PageInv'
  BY DEF PageInv, EntInv, ArrInv, SlotKind, HasEnt, CallInv, Holding
<1>9. DmaInv'
  BY
     DEF DmaInv, NoLateDma, EntInv, ArrInv, HasEnt, Mapped, SlotExclusion,
         Holds, Holding
<1>10. AnswerInv'
  BY DEF AnswerInv, SuccessMeansAnswered, SlotExclusion, Holds, Holding
<1> QED  BY <1>1, <1>2, <1>3, <1>4, <1>5, <1>6, <1>7, <1>8, <1>9, <1>10

\* Giving the slot back preserves it: the firmware no longer owns the slot.
LEMMA ReleaseKeeps ==
  ASSUME IInv, NEW t \in Threads, Release(t)
  PROVE  IInv'
<1> USE NumRegAssumption, NoneAssumption
   DEF IInv, TypeOK, Release, GiveBackSlot, cmdVars, memVars, hwVars, callVars,
       Slots, Regular, PageSlot, Ops
<1>1. TypeOK'
  <2>1. op[t] # "page" => idx[t] \in Regular
    BY DEF SlotKind, Holding
  <2>2. fBitmask' \in SUBSET Regular /\ fPageLock' \in Threads \cup {None}
    BY <2>1, ZenonT(30)
  <2> QED  BY <2>2 DEF Points, Results
<1>2. CallInv'
  BY DEF CallInv, Holding
<1>3. SlotKind'
  BY DEF SlotKind, Holding, HasEnt
<1>4. SlotExclusion'
  <2>1. \A s \in Slots, u, v \in Threads : Holds(u, s)' /\ Holds(v, s)' => u = v
    BY DEF SlotExclusion, Holds, Holding, CallInv, SlotKind
  <2>2. \A s \in Slots, u \in Threads : Holds(u, s)' => s \notin fBitmask'
    BY DEF SlotExclusion, Holds, Holding, CallInv, SlotKind
  <2>3. ASSUME NEW s \in owned'
        PROVE  WaitedFor(s)' \/ Withheld(s)'
    <3>1. CASE \E u \in Threads \ {t} : Holds(u, s) /\ pc[u] \in {"poll",
        "expired"}
      <4>1. PICK u \in Threads \ {t} : Holds(u, s) /\ pc[u] \in {"poll",
          "expired"}
        BY <3>1
      <4>2. Holds(u, s)' /\ pc'[u] \in {"poll", "expired"}
        BY <4>1 DEF Holds
      <4> QED  BY <4>2 DEF WaitedFor
    <3>2. CASE Withheld(s)
      BY <2>3, <3>2 DEF Withheld, Holds, Holding, SlotKind, PageInv
    <3> QED  BY <2>3, <3>1, <3>2 DEF SlotExclusion, WaitedFor, Holds
  <2> QED  BY <2>1, <2>2, <2>3 DEF SlotExclusion
<1>5. NoSlotLeak'
  <2>1. ASSUME NEW s \in (Regular \ fBitmask)', ~fQuarantined'
        PROVE  \E u \in Threads : Holds(u, s)'
    <3>1. PICK u \in Threads : Holds(u, s)
      BY <2>1 DEF NoSlotLeak
    <3>2. u # t
      BY <2>1, <3>1 DEF Holds, SlotKind, Holding
    <3>3. Holds(u, s)'
      BY <3>1, <3>2 DEF Holds, Holding
    <3> QED  BY <3>3
  <2>2. ASSUME (fPageLock # None)'
        PROVE  Holds(fPageLock, PageSlot)'
    <3>1. (op[fPageLock] = "page" /\ pc[fPageLock] \in Holding)'
      BY <1>1, <1>2, <2>2 DEF CallInv
    <3> QED  BY <1>1, <1>3, <2>2, <3>1 DEF SlotKind, Holds
  <2> QED  BY <2>1, <2>2 DEF NoSlotLeak
<1>6. EntInv'
  BY DEF EntInv, HasEnt, Mapped
<1>7. ArrInv'
  BY DEF ArrInv, EntArrValid, EntInv, HasEnt, SlotExclusion, Holds, Holding
<1>8. PageInv'
  BY DEF PageInv, EntInv, ArrInv, SlotKind, HasEnt, CallInv, Holding
<1>9. DmaInv'
  BY
     DEF DmaInv, NoLateDma, EntInv, ArrInv, HasEnt, Mapped, SlotExclusion,
         Holds, Holding
<1>10. AnswerInv'
  BY DEF AnswerInv, SuccessMeansAnswered, SlotExclusion, Holds, Holding
<1> QED  BY <1>1, <1>2, <1>3, <1>4, <1>5, <1>6, <1>7, <1>8, <1>9, <1>10

\* The late clearing of fEntArr preserves it, whoever is registered by then.
LEMMA ClearKeeps ==
  ASSUME IInv, NEW t \in Threads, Clear(t)
  PROVE  IInv'
<1> USE NumRegAssumption, NoneAssumption
   DEF IInv, TypeOK, Clear, Return, cmdVars, memVars, hwVars, callVars, Slots,
       Regular, PageSlot, Ops
<1>0. \A u \in Threads, s \in Slots : Holds(u, s)' <=> Holds(u, s)
  BY DEF Holds, Holding
<1>1. TypeOK'
  <2>1. mapped \in SUBSET (heap \ {ent[t]})
    BY DEF EntInv, HasEnt, Mapped
  <2>2. result[t] \in Results
    OBVIOUS
  <2> QED  BY <2>1, <2>2 DEF Points, Results
<1>2. CallInv'
  BY DEF CallInv, Holding
<1>3. SlotKind'
  BY DEF SlotKind, Holding, HasEnt
<1>4. SlotExclusion'
  <2>1. ASSUME NEW s \in owned'
        PROVE  WaitedFor(s)' \/ Withheld(s)'
    <3>1. CASE WaitedFor(s)
      <4>1. PICK u \in Threads : Holds(u, s) /\ pc[u] \in {"poll", "expired"}
        BY <3>1 DEF WaitedFor
      <4> QED  BY <1>0, <4>1 DEF WaitedFor
    <3>2. CASE Withheld(s)
      BY <1>0, <3>2 DEF Withheld
    <3> QED  BY <2>1, <3>1, <3>2 DEF SlotExclusion
  <2> QED  BY <1>0, <2>1 DEF SlotExclusion
<1>5. NoSlotLeak'
  BY <1>0 DEF NoSlotLeak
<1>6. EntInv'
  BY DEF EntInv, HasEnt, Mapped
<1>7. ArrInv'
  BY DEF ArrInv, EntArrValid, EntInv, HasEnt, SlotExclusion, Holds, Holding
<1>8. PageInv'
  BY DEF PageInv, EntInv, ArrInv, SlotKind, HasEnt, CallInv, Holding
<1>9. DmaInv'
  BY
     DEF DmaInv, NoLateDma, EntInv, ArrInv, HasEnt, Mapped, SlotExclusion,
         Holds, Holding
<1>10. AnswerInv'
  BY DEF AnswerInv, SuccessMeansAnswered, SlotExclusion, Holds, Holding
<1> QED  BY <1>1, <1>2, <1>3, <1>4, <1>5, <1>6, <1>7, <1>8, <1>9, <1>10

\* An answer, late or not, preserves it.
LEMMA FirmwareAnswersKeeps ==
  ASSUME IInv, NEW s \in Slots, NEW r \in Replies, FirmwareAnswers(s, r)
  PROVE  IInv'
<1> USE NumRegAssumption, NoneAssumption
   DEF IInv, TypeOK, FirmwareAnswers, cmdVars, memVars, hwVars, callVars, Slots,
       Regular, PageSlot, Ops
<1>0. \A u \in Threads, i \in Slots : Holds(u, i)' <=> Holds(u, i)
  BY DEF Holds, Holding
<1>1. TypeOK'
  BY DEF Points, Results
<1>2. CallInv'
  BY DEF CallInv, Holding
<1>3. SlotKind'
  BY DEF SlotKind, Holding, HasEnt
<1>4. SlotExclusion'
  <2>1. ASSUME NEW s0 \in owned'
        PROVE  WaitedFor(s0)' \/ Withheld(s0)'
    <3>1. CASE WaitedFor(s0)
      <4>1. PICK u \in Threads : Holds(u, s0) /\ pc[u] \in {"poll", "expired"}
        BY <3>1 DEF WaitedFor
      <4> QED  BY <1>0, <4>1 DEF WaitedFor
    <3>2. CASE Withheld(s0)
      BY <1>0, <3>2 DEF Withheld
    <3> QED  BY <2>1, <3>1, <3>2 DEF SlotExclusion
  <2> QED  BY <1>0, <2>1 DEF SlotExclusion
<1>5. NoSlotLeak'
  BY <1>0 DEF NoSlotLeak
<1>6. EntInv'
  BY DEF EntInv, HasEnt, Mapped
<1>7. ArrInv'
  BY DEF ArrInv, EntArrValid, EntInv, HasEnt, SlotExclusion, Holds, Holding
<1>8. PageInv'
  BY DEF PageInv, EntInv, ArrInv, SlotKind, HasEnt, CallInv, Holding
<1>9. DmaInv'
  BY
     DEF DmaInv, NoLateDma, EntInv, ArrInv, HasEnt, Mapped, SlotExclusion,
         Holds, Holding
<1>10. AnswerInv'
  BY DEF AnswerInv, SuccessMeansAnswered, SlotExclusion, Holds, Holding
<1> QED  BY <1>1, <1>2, <1>3, <1>4, <1>5, <1>6, <1>7, <1>8, <1>9, <1>10

\* free preserves it: no call is in progress, and none gets past the entry
\* checks afterwards.
LEMMA FreeKeeps ==
  ASSUME IInv, Free
  PROVE  IInv'
<1> USE NumRegAssumption, NoneAssumption
   DEF IInv, TypeOK, Free, FreeEntity, cmdVars, memVars, hwVars, callVars,
       Slots, Regular, PageSlot, Ops
<1>0. \A u \in Threads, s \in Slots : Holds(u, s)' <=> Holds(u, s)
  BY DEF Holds, Holding
<1>1. TypeOK'
  BY DEF Points, Results
<1>2. CallInv'
  BY DEF CallInv, Holding
<1>3. SlotKind'
  BY DEF SlotKind, Holding, HasEnt
<1>4. SlotExclusion'
  BY <1>0 DEF SlotExclusion, WaitedFor, Withheld
<1>5. NoSlotLeak'
  BY <1>0 DEF NoSlotLeak
<1>6. EntInv'
  BY DEF EntInv, HasEnt, Mapped
<1>7. ArrInv'
  BY DEF ArrInv, EntArrValid, EntInv, HasEnt, SlotExclusion, Holds, Holding
<1>8. PageInv'
  BY
     DEF PageInv, EntInv, ArrInv, SlotKind, HasEnt, CallInv, Holding,
         SlotExclusion, WaitedFor, Withheld, Holds
<1>9. DmaInv'
  BY
     DEF DmaInv, NoLateDma, EntInv, ArrInv, HasEnt, Mapped, SlotExclusion,
         Holds, Holding, WaitedFor, Withheld
<1>10. AnswerInv'
  BY DEF AnswerInv, SuccessMeansAnswered, SlotExclusion, Holds, Holding
<1> QED  BY <1>1, <1>2, <1>3, <1>4, <1>5, <1>6, <1>7, <1>8, <1>9, <1>10

----------------------------------------------------------------------------
(***************************************************************************)
(* The inductive invariant holds in every reachable state.                 *)
(***************************************************************************)
\* IInv holds initially (MlxCmd::init).
LEMMA InitIInv == Init => IInv
<1> SUFFICES ASSUME Init PROVE IInv
  OBVIOUS
<1> USE NumRegAssumption, NoneAssumption
   DEF Init, Slots, Regular, PageSlot, Ops, Points, Results
<1>1. TypeOK
  <2>1. 0 \in Slots /\ Regular \subseteq Slots
    OBVIOUS
  <2> QED  BY <2>1 DEF TypeOK
<1>2. CallInv /\ SlotKind /\ EntInv /\ ArrInv /\ PageInv /\ DmaInv /\ AnswerInv
  BY
     DEF CallInv, SlotKind, EntInv, ArrInv, EntArrValid, PageInv, DmaInv,
         NoLateDma, AnswerInv, SuccessMeansAnswered, Holding, HasEnt
<1>3. SlotExclusion /\ NoSlotLeak
  BY DEF SlotExclusion, NoSlotLeak, Holds, Holding
<1> QED  BY <1>1, <1>2, <1>3 DEF IInv

\* Every step of the command interface preserves IInv.
LEMMA NextIInv == IInv /\ [Next]_vars => IInv'
<1> SUFFICES ASSUME IInv, [Next]_vars PROVE IInv'
  OBVIOUS
<1>1. CASE \E t \in Threads, o \in Ops, valid \in BOOLEAN : Call(t, o, valid)
  BY <1>1, CallKeeps
<1>2. CASE \E t \in Threads : Step(t)
  <2>1. PICK t \in Threads : Step(t)
    BY <1>2
  <2> QED  BY <2>1, AcquirePageKeeps, AllocIdxKeeps, BuildNoEntityKeeps,
      BuildEntityKeeps, SubmitKeeps, ReadBackKeeps, PollExpiresKeeps,
      QuarantineKeeps, ReleaseKeeps, ClearKeeps
     DEF Step
<1>3. CASE \E s \in Slots, r \in Replies : FirmwareAnswers(s, r)
  BY <1>3, FirmwareAnswersKeeps
<1>4. CASE Free
  BY <1>4, FreeKeeps
<1>5. CASE UNCHANGED vars
  BY <1>5
     DEF vars, cmdVars, memVars, hwVars, callVars, IInv, TypeOK, CallInv,
         SlotKind, SlotExclusion, WaitedFor, Withheld, NoSlotLeak, EntInv,
         ArrInv, EntArrValid, PageInv, DmaInv, NoLateDma, AnswerInv,
         SuccessMeansAnswered, Holds
<1> QED  BY <1>1, <1>2, <1>3, <1>4, <1>5 DEF Next

\* IInv is an invariant of the command interface.
LEMMA Invariance == Spec => []IInv
BY InitIInv, NextIInv, PTL DEF Spec

(***************************************************************************)
(* Every variable of the command interface keeps its type; the idle bits   *)
(* never name the slot reserved for MANAGE_PAGES.                          *)
(***************************************************************************)
THEOREM TypeCorrect == Spec => []TypeOK
<1>1. IInv => TypeOK
  BY DEF IInv
<1> QED  BY <1>1, Invariance, PTL

(***************************************************************************)
(* Two calls of exec never share a slot, and a slot the firmware owns is   *)
(* never idle: MlxCmd::allocIdx and freeIdx keep slots exclusive although  *)
(* fEntArr is cleared after the slot has been given back.                  *)
(***************************************************************************)
THEOREM SlotsExclusive == Spec => []SlotExclusion
<1>1. IInv => SlotExclusion
  BY DEF IInv
<1> QED  BY <1>1, Invariance, PTL

(***************************************************************************)
(* A late answer never writes into freed memory: exec unmaps mailboxes     *)
(* only once the firmware has let go of the descriptor that names them.    *)
(***************************************************************************)
THEOREM LateDmaSafe == Spec => []NoLateDma
<1>1. IInv => NoLateDma
  BY DEF IInv, DmaInv
<1> QED  BY <1>1, Invariance, PTL

(***************************************************************************)
(* No error path of exec loses a slot or leaves fPageLock held.            *)
(***************************************************************************)
THEOREM SlotsNotLeaked == Spec => []NoSlotLeak
<1>1. IInv => NoSlotLeak
  BY DEF IInv
<1> QED  BY <1>1, Invariance, PTL

(***************************************************************************)
(* exec reports success only for a command the firmware completed with     *)
(* zero delivery and outbox status.                                        *)
(***************************************************************************)
THEOREM SuccessEarned == Spec => []SuccessMeansAnswered
<1>1. IInv => SuccessMeansAnswered
  BY DEF IInv, AnswerInv
<1> QED  BY <1>1, Invariance, PTL

(***************************************************************************)
(* fEntArr never holds a dangling pointer.                                 *)
(***************************************************************************)
THEOREM EntArrNeverDangles == Spec => []EntArrValid
<1>1. IInv => EntArrValid
  BY DEF IInv, ArrInv
<1> QED  BY <1>1, Invariance, PTL

----------------------------------------------------------------------------
(***************************************************************************)
(* Refinement: exec keeps the contract of CmdContract.                     *)
(***************************************************************************)

\* What a thread has been answered: nothing before it has submitted and while the
\* firmware owns its descriptor; behind that, what it is going to return.
HeardOK(t) ==
  /\ pc[t] \in {"idle", "acquire", "build", "submit"} => answer[t] = None
  /\ pc[t] \in {"poll", "expired"} => (answer[t] = None <=> idx[t] \in owned)
  /\ pc[t] \in {"release", "clear"} =>
       result[t] = IF answer[t] = None THEN "Failed" ELSE ResultOf(answer[t])

HeardInv == \A t \in Threads : HeardOK(t)

\* The variables of the contract, as MlxCmd has them.
Calls   == [t \in Threads |-> Phase(t)]
Exempt  == [t \in Threads |-> op[t] = "teardown"]
LateSet == {s \in owned : ~WaitedFor(s)}

\* A thread that returns.
LEMMA ReturnIs ==
  ASSUME TypeOK, NEW t \in Threads, NEW r \in Results, Return(t, r)
  PROVE  /\ \A u \in Threads \ {t} : /\ pc'[u] = pc[u] /\ op'[u] = op[u] /\ idx'[u] = idx[u]
                                     /\ result'[u] = result[u] /\ answer'[u] = answer[u]
         /\ pc'[t] = "idle" /\ op'[t] = "regular" /\ result'[t] = r /\ answer'[t] = None
         /\ answer' = [answer EXCEPT ![t] = None]
BY DEF TypeOK, Return

\* One thread steps, and the others are as they were.
LEMMA OtherHeard ==
  ASSUME HeardInv, NEW t \in Threads, HeardOK(t)',
         \A u \in Threads \ {t} :
           /\ pc'[u] = pc[u] /\ idx'[u] = idx[u] /\ result'[u] = result[u] /\ answer'[u] = answer[u]
           /\ pc[u] \in {"poll", "expired"} => (idx[u] \in owned' <=> idx[u] \in owned)
  PROVE  HeardInv'
BY DEF HeardInv, HeardOK

\* Every step keeps what is known of the answers.
LEMMA HeardStep ==
  ASSUME IInv, HeardInv, [Next]_vars
  PROVE  HeardInv'
<1>0. TypeOK
  BY DEF IInv
<1> USE DEF TypeOK
<1>1. ASSUME NEW t \in Threads, NEW r \in Results, Return(t, r), owned' = owned  PROVE HeardInv'
  <2>1. HeardOK(t)'
    BY <1>0, <1>1, ReturnIs DEF HeardOK
  <2> QED  BY <1>0, <1>1, <2>1, ReturnIs, OtherHeard
<1>2. ASSUME NEW t \in Threads, NEW o \in Ops, NEW v \in BOOLEAN, Call(t, o, v)  PROVE HeardInv'
  <2>1. owned' = owned /\ pc[t] = "idle"
    BY <1>2 DEF Call, hwVars
  <2>2. CASE Return(t, "Failed")
    BY <1>1, <2>1, <2>2 DEF Results
  <2>3. CASE pc' = [pc EXCEPT ![t] = "acquire"] /\ UNCHANGED <<idx, ent, result, answer>>
    <3>1. HeardOK(t)'
      BY <1>0, <2>1, <2>3 DEF HeardInv, HeardOK
    <3> QED  BY <1>0, <2>1, <2>3, <3>1, OtherHeard
  <2> QED  BY <1>2, <2>2, <2>3 DEF Call
<1>3. ASSUME NEW t \in Threads, AcquirePage(t) \/ AllocIdx(t) \/ BuildNoEntity(t)  PROVE HeardInv'
  <2>1. owned' = owned
    BY <1>3 DEF AcquirePage, AllocIdx, BuildNoEntity, hwVars
  <2>2. CASE Return(t, "Failed")
    BY <1>1, <2>1, <2>2 DEF Results
  <2>3. CASE /\ pc[t] = "acquire" /\ pc' = [pc EXCEPT ![t] = "build"]
             /\ UNCHANGED <<op, ent, result, answer>> /\ \E i : idx' = [idx EXCEPT ![t] = i]
    <3>1. HeardOK(t)'
      BY <1>0, <2>3 DEF HeardInv, HeardOK
    <3> QED  BY <1>0, <2>1, <2>3, <3>1, OtherHeard
  <2> QED  BY <1>3, <2>2, <2>3 DEF AcquirePage, AllocIdx, AllocBit, BuildNoEntity
<1>4. ASSUME NEW t \in Threads, BuildEntity(t)  PROVE HeardInv'
  <2>1. /\ owned' = owned /\ idx' = idx /\ answer' = answer /\ pc[t] = "build"
        /\ \/ pc' = [pc EXCEPT ![t] = "submit"] /\ result' = result
           \/ pc' = [pc EXCEPT ![t] = "release"] /\ result' = [result EXCEPT ![t] = "Failed"]
    BY <1>4 DEF BuildEntity, BuildWith, hwVars
  <2>2. HeardOK(t)'
    BY <1>0, <2>1 DEF HeardInv, HeardOK
  <2> QED  BY <1>0, <2>1, <2>2, OtherHeard
<1>5. ASSUME NEW t \in Threads, Submit(t)  PROVE HeardInv'
  <2>1. /\ owned' = owned \cup {idx[t]} /\ UNCHANGED <<idx, answer, result>> /\ pc[t] = "submit"
        /\ pc' = [pc EXCEPT ![t] = "poll"]
    BY <1>5 DEF Submit, callVars
  <2>2. HeardOK(t)'
    BY <1>0, <2>1 DEF HeardInv, HeardOK
  <2>3. \A u \in Threads \ {t} : pc[u] \in {"poll", "expired"} => idx[u] # idx[t]
    BY <1>0, <2>1 DEF IInv, SlotExclusion, Holds, Holding
  <2> QED  BY <1>0, <2>1, <2>2, <2>3, OtherHeard
<1>6. ASSUME NEW t \in Threads, ReadBack(t)  PROVE HeardInv'
  <2>1. /\ owned' = owned /\ UNCHANGED <<idx, answer>> /\ pc[t] = "poll" /\ idx[t] \notin owned
        /\ pc' = [pc EXCEPT ![t] = "release"]
        /\ result' = [result EXCEPT ![t] = ResultOf(reply[idx[t]])]
    BY <1>6 DEF ReadBack, callVars
  <2>2. answer[t] \in Replies /\ reply[idx[t]] = answer[t] /\ answer[t] # None
    BY <2>1, NoneAssumption DEF IInv, AnswerInv
  <2>3. HeardOK(t)'
    BY <1>0, <2>1, <2>2 DEF HeardOK
  <2> QED  BY <1>0, <2>1, <2>3, OtherHeard
<1>7. ASSUME NEW t \in Threads, PollExpires(t)  PROVE HeardInv'
  <2>1. /\ owned' = owned /\ UNCHANGED <<idx, answer, result>> /\ pc[t] = "poll"
        /\ pc' = [pc EXCEPT ![t] = "expired"]
    BY <1>7 DEF PollExpires, callVars, hwVars
  <2>2. HeardOK(t)'
    BY <1>0, <2>1 DEF HeardInv, HeardOK
  <2> QED  BY <1>0, <2>1, <2>2, OtherHeard
<1>8. ASSUME NEW t \in Threads, Quarantine(t)  PROVE HeardInv'
  BY <1>1, <1>8 DEF Quarantine, hwVars, Results
<1>9. ASSUME NEW t \in Threads, Release(t)  PROVE HeardInv'
  <2>1. /\ owned' = owned /\ UNCHANGED <<idx, answer, result>> /\ pc[t] = "release"
        /\ pc' = [pc EXCEPT ![t] = "clear"]
    BY <1>9 DEF Release, callVars, hwVars
  <2>2. HeardOK(t)'
    BY <1>0, <2>1 DEF HeardInv, HeardOK
  <2> QED  BY <1>0, <2>1, <2>2, OtherHeard
<1>10. ASSUME NEW t \in Threads, Clear(t)  PROVE HeardInv'
  <2>1. owned' = owned /\ Return(t, result[t]) /\ result[t] \in Results
    BY <1>0, <1>10 DEF Clear, hwVars
  <2> QED  BY <1>1, <2>1
<1>11. ASSUME NEW s \in Slots, NEW r \in Replies, FirmwareAnswers(s, r)  PROVE HeardInv'
  <2>1. /\ owned' = owned \ {s} /\ UNCHANGED <<idx, pc, result>> /\ s \in owned
        /\ answer' = [t \in Threads |-> IF pc[t] \in {"poll", "expired"} /\ idx[t] = s
                                        THEN r ELSE answer[t]]
    BY <1>11 DEF FirmwareAnswers, callVars
  <2>2. r # None
    BY NoneAssumption
  <2> QED  BY <2>1, <2>2 DEF HeardInv, HeardOK
<1>12. ASSUME Free \/ UNCHANGED vars  PROVE HeardInv'
  <2>1. UNCHANGED <<owned, idx, pc, result, answer>>
    BY <1>12 DEF Free, vars, callVars, hwVars
  <2> QED  BY <2>1 DEF HeardInv, HeardOK
<1> QED  BY <1>2, <1>3, <1>4, <1>5, <1>6, <1>7, <1>8, <1>9, <1>10, <1>11, <1>12 DEF Next, Step

\* The phase of one call changes.
LEMMA CallsAre ==
  ASSUME NEW t \in Threads, NEW v, Phase(t)' = v,
         \A u \in Threads \ {t} : Phase(u)' = Phase(u)
  PROVE  Calls' = [Calls EXCEPT ![t] = v]
BY DEF Calls

\* The thread's call is of another kind.
LEMMA ExemptIs ==
  ASSUME NEW t \in Threads, NEW x \in BOOLEAN, x <=> op'[t] = "teardown",
         \A u \in Threads \ {t} : op'[u] = op[u]
  PROVE  Exempt' = [Exempt EXCEPT ![t] = x]
BY DEF Exempt

\* Whoever waits for a slot that the firmware owns goes on waiting.
LEMMA LateSame ==
  ASSUME owned' = owned, \A s \in owned : WaitedFor(s)' <=> WaitedFor(s)
  PROVE  LateSet' = LateSet
BY DEF LateSet

\* A call that returns, with nobody waiting before.
LEMMA ReturnMaps ==
  ASSUME IInv, NEW t \in Threads, NEW r \in Results, Return(t, r)
  PROVE  /\ Calls' = [Calls EXCEPT ![t] = r]
         /\ Exempt' = [Exempt EXCEPT ![t] = FALSE]
         /\ answer' = [answer EXCEPT ![t] = None]
         /\ pc[t] \notin {"poll", "expired"} /\ owned' = owned => LateSet' = LateSet
<1>0. TypeOK
  BY DEF IInv
<1>1. /\ \A u \in Threads \ {t} : /\ pc'[u] = pc[u] /\ op'[u] = op[u] /\ idx'[u] = idx[u]
                                  /\ result'[u] = result[u] /\ answer'[u] = answer[u]
      /\ pc'[t] = "idle" /\ op'[t] = "regular" /\ result'[t] = r /\ answer'[t] = None
      /\ answer' = [answer EXCEPT ![t] = None]
  BY <1>0, ReturnIs
<1>2. Phase(t)' = r /\ \A u \in Threads \ {t} : Phase(u)' = Phase(u)
  BY <1>1 DEF Phase
<1>3. Exempt' = [Exempt EXCEPT ![t] = FALSE]
  <2>1. FALSE \in BOOLEAN /\ (FALSE <=> op'[t] = "teardown")
    BY <1>1
  <2> QED  BY <1>1, <2>1, ExemptIs
<1>4. ASSUME pc[t] \notin {"poll", "expired"}, owned' = owned  PROVE LateSet' = LateSet
  <2>1. \A s \in owned : WaitedFor(s)' <=> WaitedFor(s)
    BY <1>1, <1>4 DEF WaitedFor, Holds, Holding
  <2> QED  BY <1>4, <2>1, LateSame
<1> QED  BY <1>1, <1>2, <1>3, <1>4, CallsAre

\* A step of one thread that its caller cannot tell.
LEMMA Unseen ==
  ASSUME NEW t \in Threads, Phase(t)' = Phase(t), owned' = owned,
         \A u \in Threads \ {t} : pc'[u] = pc[u] /\ idx'[u] = idx[u] /\ result'[u] = result[u],
         UNCHANGED <<fUp, fQuarantined, op, answer>>,
         \A s \in owned : (Holds(t, s) /\ pc[t] \in {"poll", "expired"})' <=>
                          (Holds(t, s) /\ pc[t] \in {"poll", "expired"})
  PROVE  UNCHANGED <<fUp, fQuarantined, Calls, Exempt, answer, LateSet>>
<1>1. \A u \in Threads \ {t} : Phase(u)' = Phase(u)
  BY DEF Phase
<1>2. Calls' = Calls
  BY <1>1 DEF Calls
<1>3. Exempt' = Exempt
  BY DEF Exempt
<1>4. \A s \in owned : WaitedFor(s)' <=> WaitedFor(s)
  BY DEF WaitedFor, Holds
<1> QED  BY <1>2, <1>3, <1>4, LateSame

\* The contract's steps, in the variables above.
Refuses(t) ==
  /\ Calls[t] \in Results \cup {"asked"}
  /\ Calls' = [Calls EXCEPT ![t] = "Failed"]
  /\ Exempt' = [Exempt EXCEPT ![t] = FALSE]
  /\ answer' = [answer EXCEPT ![t] = None]
  /\ UNCHANGED <<fUp, fQuarantined, LateSet>>

Stays == UNCHANGED <<fUp, fQuarantined, Calls, Exempt, answer, LateSet>>

\* A refusal in these variables is one in the contract's.
LEMMA RefuseMaps ==
  ASSUME NEW t \in Threads, Refuses(t)
  PROVE  Contract!Next
<1>1. Contract!Refuse(t)
  BY DEF Refuses, Contract!Refuse, Contract!Return, Contract!Returned, Calls, Exempt, LateSet, Results
<1> QED  BY <1>1 DEF Contract!Next

\* So is a step that changes none of them.
LEMMA StayMaps ==
  ASSUME Stays
  PROVE  UNCHANGED Contract!vars
BY DEF Stays, Contract!vars, Calls, Exempt, LateSet

\* What a call's point says of its phase.
LEMMA PhaseIs ==
  ASSUME IInv, HeardInv, NEW t \in Threads
  PROVE  /\ Calls[t] = Phase(t)
         /\ pc[t] = "idle" => Phase(t) = result[t] /\ result[t] \in Results
         /\ pc[t] \in {"acquire", "build", "submit"} => Phase(t) = "asked" /\ answer[t] = None
         /\ pc[t] \in {"poll", "expired"} =>
              Phase(t) = IF idx[t] \in owned THEN "sent" ELSE "answered"
         /\ pc[t] \in {"release", "clear"} =>
              Phase(t) = IF answer[t] = None THEN "asked" ELSE "answered"
<1>0. /\ Calls[t] = Phase(t) /\ HeardOK(t) /\ result[t] \in Results /\ pc[t] \in Points
  BY DEF Calls, HeardInv, IInv, TypeOK
<1> QED  BY <1>0 DEF HeardOK, Phase

\* exec's entry checks.
LEMMA CallMaps ==
  ASSUME IInv, HeardInv, NEW t \in Threads, NEW o \in Ops, NEW v \in BOOLEAN, Call(t, o, v)
  PROVE  Contract!Next
<1>0. /\ UNCHANGED <<fUp, fQuarantined, owned>> /\ pc[t] = "idle" /\ TypeOK
  BY DEF Call, cmdVars, hwVars, IInv
<1>1. CASE Return(t, "Failed")
  <2>1. "Failed" \in Results
    BY DEF Results
  <2>2. Refuses(t)
    BY <1>0, <1>1, <2>1, ReturnMaps, PhaseIs DEF Refuses
  <2> QED  BY <2>2, RefuseMaps
<1>2. CASE /\ ~Rejected(o, v) /\ op' = [op EXCEPT ![t] = o] /\ pc' = [pc EXCEPT ![t] = "acquire"]
           /\ UNCHANGED <<idx, ent, result, answer>>
  <2>1. PICK x \in BOOLEAN : x <=> o = "teardown"
    OBVIOUS
  <2>2. /\ pc'[t] = "acquire" /\ op'[t] = o /\ answer[t] = None
        /\ \A u \in Threads \ {t} : pc'[u] = pc[u] /\ op'[u] = op[u]
    BY <1>0, <1>2 DEF TypeOK, HeardInv, HeardOK
  <2>3. Phase(t)' = "asked" /\ \A u \in Threads \ {t} : Phase(u)' = Phase(u)
    BY <1>2, <2>2 DEF Phase
  <2>4. Calls' = [Calls EXCEPT ![t] = "asked"]
    BY <2>3, CallsAre
  <2>5. Exempt' = [Exempt EXCEPT ![t] = x]
    BY <2>1, <2>2, ExemptIs
  <2>6. LateSet' = LateSet
    <3>1. \A s \in owned : WaitedFor(s)' <=> WaitedFor(s)
      BY <1>0, <1>2, <2>2 DEF WaitedFor, Holds, Holding
    <3> QED  BY <1>0, <3>1, LateSame
  <2>7. fUp /\ (fQuarantined => x) /\ Calls[t] \in Results
    BY <1>0, <1>2, <2>1, PhaseIs DEF Rejected, TypeOK
  <2>8. Contract!Ask(t, x)
    BY <1>0, <1>2, <2>4, <2>5, <2>6, <2>7 DEF Contract!Ask, Contract!Returned, Calls, Exempt, LateSet, Results
  <2> QED  BY <2>8 DEF Contract!Next
<1> QED  BY <1>1, <1>2 DEF Call

\* A slot, an entity and mailboxes, or none of them to be had.
LEMMA PrepareMaps ==
  ASSUME IInv, HeardInv, NEW t \in Threads,
         AcquirePage(t) \/ AllocIdx(t) \/ BuildNoEntity(t) \/ BuildEntity(t)
  PROVE  Contract!Next \/ UNCHANGED Contract!vars
<1>0. /\ UNCHANGED <<fUp, fQuarantined, owned>> /\ pc[t] \in {"acquire", "build"} /\ TypeOK
  BY DEF AcquirePage, AllocIdx, BuildNoEntity, BuildEntity, BuildWith, hwVars, IInv
<1>1. CASE Return(t, "Failed")
  <2>1. "Failed" \in Results
    BY DEF Results
  <2>2. Refuses(t)
    BY <1>0, <1>1, <2>1, ReturnMaps, PhaseIs DEF Refuses
  <2> QED  BY <2>2, RefuseMaps
<1>2. CASE /\ UNCHANGED <<op, answer>> /\ \E p \in {"build", "submit", "release"} : pc' = [pc EXCEPT ![t] = p]
           /\ idx' = idx \/ \E i : idx' = [idx EXCEPT ![t] = i]
           /\ result' = result \/ result' = [result EXCEPT ![t] = "Failed"]
  <2>1. /\ pc'[t] \in {"build", "submit", "release"}
        /\ \A u \in Threads \ {t} : pc'[u] = pc[u] /\ idx'[u] = idx[u] /\ result'[u] = result[u]
    BY <1>0, <1>2 DEF TypeOK
  <2>2. answer'[t] = None /\ Phase(t) = "asked"
    BY <1>0, <1>2, PhaseIs
  <2>3. Phase(t)' = "asked"
    BY <2>1, <2>2 DEF Phase
  <2>4. Stays
    BY <1>0, <1>2, <2>1, <2>2, <2>3, Unseen DEF Stays
  <2> QED  BY <2>4, StayMaps
<1> QED  BY <1>1, <1>2 DEF AcquirePage, AllocIdx, AllocBit, BuildNoEntity, BuildEntity, BuildWith

\* The doorbell: nothing has been left behind in the slot.
LEMMA SubmitMaps ==
  ASSUME IInv, HeardInv, NEW t \in Threads, Submit(t)
  PROVE  Contract!Next
<1>0. /\ UNCHANGED <<fUp, fQuarantined, op, idx, result, answer>> /\ pc[t] = "submit" /\ TypeOK
      /\ owned' = owned \cup {idx[t]} /\ pc' = [pc EXCEPT ![t] = "poll"]
  BY DEF Submit, cmdVars, callVars, IInv
<1>1. pc'[t] = "poll" /\ \A u \in Threads \ {t} : pc'[u] = pc[u]
  BY <1>0 DEF TypeOK
<1>2. Phase(t)' = "sent" /\ \A u \in Threads \ {t} : Phase(u)' = Phase(u)
  BY <1>0, <1>1, PhaseIs DEF Phase
<1>3. idx[t] \notin owned
  <2>1. Holds(t, idx[t]) /\ idx[t] \in Slots
    BY <1>0 DEF Holds, Holding, TypeOK
  <2>2. ~WaitedFor(idx[t])
    BY <1>0, <2>1 DEF WaitedFor, IInv, SlotExclusion
  <2> QED  BY <2>1, <2>2 DEF IInv, SlotExclusion, Withheld
<1>4. LateSet' = LateSet
  <2>1. WaitedFor(idx[t])'
    BY <1>0, <1>1 DEF WaitedFor, Holds, Holding
  <2>2. \A s \in owned : WaitedFor(s)' <=> WaitedFor(s)
    BY <1>0, <1>1, <1>3 DEF WaitedFor, Holds, Holding
  <2> QED  BY <1>0, <1>3, <2>1, <2>2 DEF LateSet
<1>5. Calls' = [Calls EXCEPT ![t] = "sent"] /\ Exempt' = Exempt /\ Calls[t] = "asked"
  BY <1>0, <1>2, CallsAre, PhaseIs DEF Exempt
<1>6. Contract!Send(t)
  BY <1>0, <1>4, <1>5 DEF Contract!Send, Calls, Exempt, LateSet
<1> QED  BY <1>6 DEF Contract!Next

\* The answer is read, the time is up, the slot is given back.
LEMMA WaitMaps ==
  ASSUME IInv, HeardInv, NEW t \in Threads, ReadBack(t) \/ PollExpires(t) \/ Release(t)
  PROVE  UNCHANGED Contract!vars
<1>0. TypeOK /\ UNCHANGED <<fUp, fQuarantined, owned, op, idx, answer>>
  BY DEF IInv, ReadBack, PollExpires, Release, cmdVars, hwVars, callVars
<1>1. CASE ReadBack(t)
  <2>1. /\ pc[t] = "poll" /\ idx[t] \notin owned /\ pc' = [pc EXCEPT ![t] = "release"]
        /\ \E r : result' = [result EXCEPT ![t] = r]
    BY <1>1 DEF ReadBack
  <2>2. /\ pc'[t] = "release"
        /\ \A u \in Threads \ {t} : pc'[u] = pc[u] /\ result'[u] = result[u]
    BY <1>0, <2>1 DEF TypeOK
  <2>3. answer[t] # None /\ Phase(t) = "answered"
    BY <2>1, PhaseIs DEF HeardInv, HeardOK
  <2>4. Phase(t)' = "answered"
    BY <1>0, <2>2, <2>3 DEF Phase
  <2>5. \A s \in owned : (Holds(t, s) /\ pc[t] \in {"poll", "expired"})' <=>
                         (Holds(t, s) /\ pc[t] \in {"poll", "expired"})
    BY <2>1, <2>2 DEF Holds
  <2>6. Stays
    BY <1>0, <2>2, <2>3, <2>4, <2>5, Unseen DEF Stays
  <2> QED  BY <2>6, StayMaps
<1>2. CASE PollExpires(t) \/ Release(t)
  <2>1. /\ result' = result
        /\ \/ pc[t] = "poll" /\ pc' = [pc EXCEPT ![t] = "expired"]
           \/ pc[t] = "release" /\ pc' = [pc EXCEPT ![t] = "clear"]
    BY <1>2 DEF PollExpires, Release
  <2>2. /\ (pc[t] = "poll" /\ pc'[t] = "expired") \/ (pc[t] = "release" /\ pc'[t] = "clear")
        /\ \A u \in Threads \ {t} : pc'[u] = pc[u] /\ result'[u] = result[u]
    BY <1>0, <2>1 DEF TypeOK
  <2>3. Phase(t)' = Phase(t)
    BY <1>0, <2>2 DEF Phase
  <2>4. \A s \in owned : (Holds(t, s) /\ pc[t] \in {"poll", "expired"})' <=>
                         (Holds(t, s) /\ pc[t] \in {"poll", "expired"})
    BY <1>0, <2>2 DEF Holds, Holding
  <2>5. Stays
    BY <1>0, <2>2, <2>3, <2>4, Unseen DEF Stays
  <2> QED  BY <2>5, StayMaps
<1> QED  BY <1>1, <1>2

\* The timeout: the command stays behind in its slot, if it has not been answered.
LEMMA QuarantineMaps ==
  ASSUME IInv, HeardInv, NEW t \in Threads, Quarantine(t)
  PROVE  Contract!Next
<1>0. /\ fQuarantined' = TRUE /\ UNCHANGED <<fUp, owned>> /\ pc[t] = "expired" /\ TypeOK
      /\ Return(t, "Timeout") /\ "Timeout" \in Results
  BY DEF Quarantine, hwVars, IInv, Results
<1>1. /\ Calls' = [Calls EXCEPT ![t] = "Timeout"]
      /\ Exempt' = [Exempt EXCEPT ![t] = FALSE]
      /\ answer' = [answer EXCEPT ![t] = None]
  BY <1>0, ReturnMaps
<1>2. Calls[t] = IF idx[t] \in owned THEN "sent" ELSE "answered"
  BY <1>0, PhaseIs
<1>3. /\ pc'[t] = "idle" /\ \A u \in Threads \ {t} : pc'[u] = pc[u] /\ idx'[u] = idx[u]
  BY <1>0, ReturnIs
<1>4. PICK i \in Slots : i = idx[t] /\ Holds(t, i) /\ WaitedFor(i)
  BY <1>0 DEF TypeOK, WaitedFor, Holds, Holding
<1>5. /\ ~WaitedFor(i)'
      /\ \A s \in Slots \ {i} : WaitedFor(s)' <=> WaitedFor(s)
  <2>1. \A u \in Threads \ {t} : ~Holds(u, i)
    BY <1>4 DEF IInv, SlotExclusion
  <2>2. ASSUME NEW s \in Slots
        PROVE  WaitedFor(s)' <=> \E u \in Threads \ {t} : Holds(u, s) /\ pc[u] \in {"poll", "expired"}
    BY <1>3 DEF WaitedFor, Holds
  <2>3. \A s \in Slots \ {i} : ~Holds(t, s)
    BY <1>4 DEF Holds
  <2>4. \A s \in Slots \ {i} : WaitedFor(s)' <=> WaitedFor(s)
    BY <2>2, <2>3 DEF WaitedFor
  <2>5. ~WaitedFor(i)'
    BY <2>1, <2>2
  <2> QED  BY <2>4, <2>5
<1>6. CASE idx[t] \in owned
  <2>1. LateSet' = LateSet \cup {i} /\ i \in Slots \ LateSet
    BY <1>0, <1>4, <1>5, <1>6 DEF LateSet, TypeOK
  <2>2. Contract!GiveUp(t)
    BY <1>0, <1>1, <1>2, <1>6, <2>1 DEF Contract!GiveUp, Contract!Return, Calls, Exempt, LateSet
  <2> QED  BY <2>2 DEF Contract!Next
<1>7. CASE idx[t] \notin owned
  <2>1. LateSet' = LateSet
    BY <1>0, <1>4, <1>5, <1>7 DEF LateSet, TypeOK
  <2>2. Contract!GiveUp(t)
    BY <1>0, <1>1, <1>2, <1>7, <2>1 DEF Contract!GiveUp, Contract!Return, Calls, Exempt, LateSet
  <2> QED  BY <2>2 DEF Contract!Next
<1> QED  BY <1>6, <1>7

\* exec returns: the answer to its command, or a failure to submit one.
LEMMA ClearMaps ==
  ASSUME IInv, HeardInv, NEW t \in Threads, Clear(t)
  PROVE  Contract!Next
<1>0. /\ UNCHANGED <<fUp, fQuarantined, owned>> /\ pc[t] = "clear" /\ TypeOK
      /\ Return(t, result[t]) /\ result[t] \in Results
  BY DEF Clear, hwVars, IInv, TypeOK
<1>1. /\ Calls' = [Calls EXCEPT ![t] = result[t]]
      /\ Exempt' = [Exempt EXCEPT ![t] = FALSE]
      /\ answer' = [answer EXCEPT ![t] = None]
      /\ LateSet' = LateSet
  BY <1>0, ReturnMaps
<1>2. result[t] = IF answer[t] = None THEN "Failed" ELSE ResultOf(answer[t])
  BY <1>0 DEF HeardInv, HeardOK
<1>3. CASE answer[t] = None
  <2>1. Calls[t] = "asked"
    BY <1>0, <1>3, PhaseIs
  <2>2. Refuses(t)
    BY <1>0, <1>1, <1>2, <1>3, <2>1 DEF Refuses
  <2> QED  BY <2>2, RefuseMaps
<1>4. CASE answer[t] # None
  <2>1. Calls[t] = "answered" /\ answer[t] \in Replies
    BY <1>0, <1>4, PhaseIs DEF TypeOK
  <2>2. result[t] = IF answer[t] \in {r \in Replies : r.delivery = 0 /\ r.outbox = 0}
                    THEN "Success" ELSE "Failed"
    BY <1>2, <1>4, <2>1 DEF ResultOf
  <2>3. Contract!Finish(t)
    BY <1>0, <1>1, <2>1, <2>2 DEF Contract!Finish, Contract!Return, Calls, Exempt, LateSet
  <2> QED  BY <2>3 DEF Contract!Next
<1> QED  BY <1>3, <1>4

\* The firmware's answer, to the one thread that waits for it or to nobody.
LEMMA AnswerMaps ==
  ASSUME IInv, HeardInv, NEW s \in Slots, NEW r \in Replies, FirmwareAnswers(s, r)
  PROVE  Contract!Next
<1>0. /\ UNCHANGED <<fUp, fQuarantined, op, idx, pc, result>> /\ s \in owned /\ owned' = owned \ {s}
      /\ answer' = [t \in Threads |-> IF pc[t] \in {"poll", "expired"} /\ idx[t] = s
                                      THEN r ELSE answer[t]]
      /\ TypeOK /\ r # None
  BY NoneAssumption DEF FirmwareAnswers, cmdVars, callVars, IInv
<1>1. \A i \in Slots : WaitedFor(i)' <=> WaitedFor(i)
  BY <1>0 DEF WaitedFor, Holds
<1>2. owned \subseteq Slots /\ Exempt' = Exempt
  BY <1>0 DEF TypeOK, Exempt
<1>3. CASE WaitedFor(s)
  <2>1. PICK t \in Threads : Holds(t, s) /\ pc[t] \in {"poll", "expired"}
    BY <1>3 DEF WaitedFor
  <2>2. idx[t] = s /\ \A u \in Threads \ {t} : ~(pc[u] \in {"poll", "expired"} /\ idx[u] = s)
    BY <2>1 DEF Holds, Holding, IInv, SlotExclusion
  <2>3. answer'[t] = r /\ \A u \in Threads \ {t} : answer'[u] = answer[u]
    BY <1>0, <2>1, <2>2
  <2>4. answer' = [answer EXCEPT ![t] = r]
    BY <1>0, <2>3 DEF TypeOK
  <2>5. Phase(t)' = "answered" /\ \A u \in Threads \ {t} : Phase(u)' = Phase(u)
    BY <1>0, <2>1, <2>3 DEF Phase
  <2>6. Calls' = [Calls EXCEPT ![t] = "answered"] /\ Calls[t] = "sent"
    BY <1>0, <2>1, <2>2, <2>5, CallsAre, PhaseIs
  <2>7. LateSet' = LateSet
    BY <1>0, <1>1, <1>2, <1>3 DEF LateSet
  <2>8. Contract!CarryOut(t, r)
    BY <1>0, <1>2, <2>4, <2>6, <2>7 DEF Contract!CarryOut, Calls, Exempt, LateSet
  <2> QED  BY <2>8 DEF Contract!Next
<1>4. CASE ~WaitedFor(s)
  <2>1. \A u \in Threads : ~(pc[u] \in {"poll", "expired"} /\ idx[u] = s)
    BY <1>4 DEF WaitedFor, Holds, Holding
  <2>2. answer' = answer
    BY <1>0, <2>1 DEF TypeOK
  <2>3. Calls' = Calls
    BY <1>0, <2>2 DEF Calls, Phase
  <2>4. s \in LateSet /\ LateSet' = LateSet \ {s}
    BY <1>0, <1>1, <1>2, <1>4 DEF LateSet
  <2>5. Contract!CarryOutLate(s)
    BY <1>0, <1>2, <2>2, <2>3, <2>4 DEF Contract!CarryOutLate, Calls, Exempt, LateSet
  <2> QED  BY <2>4, <2>5 DEF Contract!Next, LateSet
<1> QED  BY <1>3, <1>4

\* free.
LEMMA FreeMaps ==
  ASSUME IInv, HeardInv, Free
  PROVE  Contract!Next
<1>0. /\ UNCHANGED <<fQuarantined, op, idx, pc, result, answer, owned>> /\ fUp' = FALSE
      /\ \A t \in Threads : pc[t] = "idle"
  BY DEF Free, callVars, hwVars
<1>1. Calls' = Calls /\ Exempt' = Exempt
  BY <1>0 DEF Calls, Phase, Exempt
<1>2. LateSet' = LateSet
  <2>1. \A s \in owned : WaitedFor(s)' <=> WaitedFor(s)
    BY <1>0 DEF WaitedFor, Holds
  <2> QED  BY <1>0, <2>1, LateSame
<1>3. \A t \in Threads : Calls[t] \in Results
  BY <1>0, PhaseIs
<1>4. Contract!Free
  BY <1>0, <1>1, <1>2, <1>3 DEF Contract!Free, Contract!Returned, Calls, Exempt, LateSet, Results
<1> QED  BY <1>4 DEF Contract!Next

\* Every step of exec and of the firmware is a step of the contract, or none.
LEMMA StepMaps ==
  ASSUME IInv, HeardInv, [Next]_vars
  PROVE  [Contract!Next]_(Contract!vars)
<1>1. ASSUME NEW t \in Threads, NEW o \in Ops, NEW v \in BOOLEAN, Call(t, o, v)
      PROVE  Contract!Next
  BY <1>1, CallMaps
<1>2. ASSUME NEW t \in Threads, Step(t)
      PROVE  Contract!Next \/ UNCHANGED Contract!vars
  BY <1>2, PrepareMaps, SubmitMaps, WaitMaps, QuarantineMaps, ClearMaps DEF Step
<1>3. ASSUME NEW s \in Slots, NEW r \in Replies, FirmwareAnswers(s, r)  PROVE Contract!Next
  BY <1>3, AnswerMaps
<1>4. ASSUME Free  PROVE Contract!Next
  BY <1>4, FreeMaps
<1>5. ASSUME UNCHANGED vars  PROVE UNCHANGED Contract!vars
  <2>1. UNCHANGED <<fUp, fQuarantined, op, idx, pc, result, answer, owned>>
    BY <1>5 DEF vars, cmdVars, callVars, hwVars
  <2>2. Calls' = Calls /\ Exempt' = Exempt
    BY <2>1 DEF Calls, Phase, Exempt
  <2>3. LateSet' = LateSet
    BY <2>1, LateSame DEF WaitedFor, Holds
  <2> QED  BY <2>1, <2>2, <2>3, StayMaps DEF Stays
<1> QED  BY <1>1, <1>2, <1>3, <1>4, <1>5 DEF Next

\* The initial states.
LEMMA InitMaps ==
  ASSUME Init
  PROVE  HeardInv /\ Contract!Init
<1>1. HeardInv
  BY DEF Init, HeardInv, HeardOK
<1>2. \A t \in Threads : Phase(t) = "Success"
  BY DEF Init, Phase
<1>3. \A t \in Threads : ~(op[t] = "teardown")
  BY DEF Init
<1>4. Exempt = [t \in Threads |-> FALSE]
  BY <1>3 DEF Exempt
<1>5. Contract!Init
  BY <1>2, <1>4 DEF Init, Contract!Init, Exempt
<1> QED  BY <1>1, <1>5

(***************************************************************************)
(* exec implements the contract: for any threads, slots and entities, and  *)
(* whatever the firmware answers and when, a call is refused and leaves no *)
(* trace, or its command is carried out once and its answer returned, or   *)
(* it times out, quarantines the interface and is carried out at most once *)
(* later.                                                                  *)
(***************************************************************************)
THEOREM ExecKeepsContract == Spec => ImplementsContract
<1>1. IInv /\ HeardInv /\ [Next]_vars => HeardInv'
  BY HeardStep
<1>2. IInv /\ HeardInv /\ [Next]_vars => [Contract!Next]_(Contract!vars)
  BY StepMaps
<1>3. Init => HeardInv /\ Contract!Init
  BY InitMaps
<1> QED  BY <1>1, <1>2, <1>3, Invariance, PTL DEF Spec, ImplementsContract, Contract!Spec

=============================================================================
