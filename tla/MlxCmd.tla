------------------------------- MODULE MlxCmd -------------------------------
(***************************************************************************)
(* The firmware command interface, Sources/core/MlxCmd.cpp.                *)
(*                                                                         *)
(* Any kernel thread may call exec(): the driver's start and stop, the     *)
(* page worker, the Ethernet driver, user-client methods.  A call takes a  *)
(* command slot, allocates an in-flight entity (MlxCmdEnt) with its DMA    *)
(* mailboxes, fills the slot's descriptor, rings the doorbell and polls    *)
(* the descriptor's ownership bit until the firmware clears it or the      *)
(* timeout expires.  The code between two points where threads can affect  *)
(* each other is one step here; pc names the point a thread has reached.   *)
(*                                                                         *)
(* An entity stands for its mailboxes: a descriptor built from entity e    *)
(* carries e's token and the DMA addresses of e's mailbox blocks.          *)
(***************************************************************************)
EXTENDS Integers

CONSTANTS Threads,    \* the threads that call exec
          Ents,       \* the entities IOMallocZero can return
          NumReg,     \* fMaxRegCmds: the regular slots, the queue less one
          Replies,    \* the [delivery, outbox] statuses the firmware answers with
          None        \* NULL: no entity, no lock holder, no reply

ASSUME NumRegAssumption == NumReg \in Nat \ {0}
ASSUME NoneAssumption   == None \notin Threads \cup Ents \cup Replies

VARIABLES
  fUp,            \* the interface is initialised and not freed
  fQuarantined,   \* a command timed out
  fBitmask,       \* the idle regular slots
  fPageLock,      \* the holder of fPageLock, or None
  fEntArr,        \* slot -> the entity registered for it, or None
  heap,           \* the entities currently allocated
  mapped,         \* the entities whose mailboxes are allocated and mapped
  owned,          \* the slots whose descriptor the firmware owns
  dma,            \* slot -> the entity whose mailboxes the firmware may access
                  \*   through the slot's descriptor, or None
  reply,          \* slot -> the statuses in its descriptor not read yet, or None
  pc, op, idx, ent, result,   \* per thread: exec's control point and locals
  answer          \* per thread: what the firmware answered to its current call

cmdVars  == <<fUp, fQuarantined, fBitmask, fPageLock, fEntArr>>
memVars  == <<heap, mapped>>
hwVars   == <<owned, dma, reply>>
callVars == <<op, idx, ent>>
vars     == <<cmdVars, memVars, hwVars, callVars, pc, result, answer>>

Regular  == 0 .. NumReg - 1
PageSlot == NumReg                \* the last slot is kept for MANAGE_PAGES
Slots    == 0 .. NumReg

(***************************************************************************)
(* The opcodes exec tells apart: MANAGE_PAGES, the two that a quarantined  *)
(* interface still takes (TEARDOWN_HCA, DISABLE_HCA), and all the others.  *)
(***************************************************************************)
Ops    == {"page", "teardown", "regular"}
Points == {"idle", "acquire", "build", "submit", "poll", "expired",
           "release", "clear"}

(***************************************************************************)
(* exec's results, as far as its callers tell them apart: every IOReturn   *)
(* other than kIOReturnSuccess and kIOReturnTimeout is "Failed".           *)
(***************************************************************************)
Results == {"Success", "Timeout", "Failed"}

\* Mutation: the outbox status is not looked at.
ResultIgnoringOutbox(r) == IF r.delivery = 0 THEN "Success" ELSE "Failed"

(***************************************************************************)
(* Descriptor delivery and the outbox status are separate gates.           *)
(***************************************************************************)
ResultOf(r) == IF r.delivery = 0 /\ r.outbox = 0 THEN "Success" ELSE "Failed"

----------------------------------------------------------------------------
Init ==
  /\ fUp = TRUE
  /\ fQuarantined = FALSE
  /\ fBitmask = Regular
  /\ fPageLock = None
  /\ fEntArr = [s \in Slots |-> None]
  /\ heap = {}
  /\ mapped = {}
  /\ owned = {}
  /\ dma = [s \in Slots |-> None]
  /\ reply = [s \in Slots |-> None]
  /\ pc = [t \in Threads |-> "idle"]
  /\ op = [t \in Threads |-> "regular"]
  /\ idx = [t \in Threads |-> 0]
  /\ ent = [t \in Threads |-> None]
  /\ result = [t \in Threads |-> "Success"]
  /\ answer = [t \in Threads |-> None]

\* exec returns r; its locals are gone.
Return(t, r) ==
  /\ pc' = [pc EXCEPT ![t] = "idle"]
  /\ result' = [result EXCEPT ![t] = r]
  /\ op' = [op EXCEPT ![t] = "regular"]
  /\ idx' = [idx EXCEPT ![t] = 0]
  /\ ent' = [ent EXCEPT ![t] = None]
  /\ answer' = [answer EXCEPT ![t] = None]

\* Mutation: the quarantine is not looked at.
RejectedUnlessQuarantined(o, valid) == ~fUp \/ ~valid

(***************************************************************************)
(* exec's entry checks.  fUp and fQuarantined are read without a lock.     *)
(***************************************************************************)
Rejected(o, valid) ==
  \/ ~fUp
  \/ fQuarantined /\ o # "teardown"
  \/ ~valid

Call(t, o, valid) ==
  /\ pc[t] = "idle"
  /\ \/ /\ Rejected(o, valid)
        /\ Return(t, "Failed")
     \/ /\ ~Rejected(o, valid)
        /\ op' = [op EXCEPT ![t] = o]
        /\ pc' = [pc EXCEPT ![t] = "acquire"]
        /\ UNCHANGED <<idx, ent, result, answer>>
  /\ UNCHANGED <<cmdVars, memVars, hwVars>>

(***************************************************************************)
(* A page command takes fPageLock and the reserved slot, unless an entity  *)
(* is still registered there; any other command takes the lowest idle bit. *)
(***************************************************************************)
AcquirePage(t) ==
  /\ pc[t] = "acquire"
  /\ op[t] = "page"
  /\ fPageLock = None
  /\ \/ /\ fEntArr[PageSlot] # None
        /\ Return(t, "Failed")
        /\ UNCHANGED fPageLock
     \/ /\ fEntArr[PageSlot] = None
        /\ fPageLock' = t
        /\ idx' = [idx EXCEPT ![t] = PageSlot]
        /\ pc' = [pc EXCEPT ![t] = "build"]
        /\ UNCHANGED <<op, ent, result, answer>>
  /\ UNCHANGED <<fUp, fQuarantined, fBitmask, fEntArr, memVars, hwVars>>

AllocBit(t, bit) ==
  /\ \A other \in fBitmask : bit =< other
  /\ fBitmask' = fBitmask \ {bit}
  /\ idx' = [idx EXCEPT ![t] = bit]
  /\ pc' = [pc EXCEPT ![t] = "build"]
  /\ UNCHANGED <<op, ent, result, answer>>

AllocIdx(t) ==
  /\ pc[t] = "acquire"
  /\ op[t] # "page"
  /\ \/ /\ fBitmask = {}
        /\ Return(t, "Failed")
        /\ UNCHANGED fBitmask
     \/ \E bit \in fBitmask : AllocBit(t, bit)
  /\ UNCHANGED <<fUp, fQuarantined, fPageLock, fEntArr, memVars, hwVars>>

\* Mutation: the reserved slot goes to the idle bits like any other.
GiveBackAnySlot(t) ==
  /\ fBitmask' = fBitmask \cup {idx[t]}
  /\ fPageLock' = IF op[t] = "page" THEN None ELSE fPageLock

(***************************************************************************)
(* Giving the slot back: fPageLock is dropped, or the bit is set again.    *)
(***************************************************************************)
GiveBackSlot(t) ==
  IF op[t] = "page"
  THEN fPageLock' = None /\ UNCHANGED fBitmask
  ELSE fBitmask' = fBitmask \cup {idx[t]} /\ UNCHANGED fPageLock

\* Mutation: the error path forgets the slot.
BuildNoEntityLeaks(t) ==
  /\ pc[t] = "build"
  /\ fPageLock' = IF op[t] = "page" THEN None ELSE fPageLock
  /\ Return(t, "Failed")
  /\ UNCHANGED <<fUp, fQuarantined, fBitmask, fEntArr, memVars, hwVars>>

(***************************************************************************)
(* The entity is allocated, registered in fEntArr, and gets its mailboxes. *)
(***************************************************************************)
BuildNoEntity(t) ==
  /\ pc[t] = "build"
  /\ GiveBackSlot(t)
  /\ Return(t, "Failed")
  /\ UNCHANGED <<fUp, fQuarantined, fEntArr, memVars, hwVars>>

BuildWith(t, e) ==
  /\ heap' = heap \cup {e}
  /\ ent' = [ent EXCEPT ![t] = e]
  /\ fEntArr' = [fEntArr EXCEPT ![idx[t]] = e]
  /\ \/ /\ mapped' = mapped \cup {e}
        /\ pc' = [pc EXCEPT ![t] = "submit"]
        /\ UNCHANGED result
     \/ /\ result' = [result EXCEPT ![t] = "Failed"]
        /\ pc' = [pc EXCEPT ![t] = "release"]
        /\ UNCHANGED mapped
  /\ UNCHANGED <<fUp, fQuarantined, fBitmask, fPageLock, hwVars, op, idx, answer>>

BuildEntity(t) ==
  /\ pc[t] = "build"
  /\ Ents \ heap # {}
  /\ BuildWith(t, CHOOSE e \in Ents \ heap : TRUE)

(***************************************************************************)
(* submit() reads the entity back from fEntArr, builds the descriptor from *)
(* it, hands the descriptor to the firmware and rings the doorbell.        *)
(***************************************************************************)
Submit(t) ==
  /\ pc[t] = "submit"
  /\ dma' = [dma EXCEPT ![idx[t]] = fEntArr[idx[t]]]
  /\ reply' = [reply EXCEPT ![idx[t]] = None]
  /\ owned' = owned \cup {idx[t]}
  /\ pc' = [pc EXCEPT ![t] = "poll"]
  /\ UNCHANGED <<cmdVars, memVars, callVars, result, answer>>

(***************************************************************************)
(* The polling loop finds the ownership bit cleared: the response is read  *)
(* from the descriptor and the mailboxes are freed.                        *)
(***************************************************************************)
ReadBack(t) ==
  /\ pc[t] = "poll"
  /\ idx[t] \notin owned
  /\ result' = [result EXCEPT ![t] = ResultOf(reply[idx[t]])]
  /\ reply' = [reply EXCEPT ![idx[t]] = None]
  /\ mapped' = mapped \ {ent[t]}
  /\ pc' = [pc EXCEPT ![t] = "release"]
  /\ UNCHANGED <<cmdVars, heap, owned, dma, callVars, answer>>

(***************************************************************************)
(* The loop's last look finds the bit still set and the time used up.  The *)
(* answer may arrive between that look and the quarantine.                 *)
(***************************************************************************)
PollExpires(t) ==
  /\ pc[t] = "poll"
  /\ idx[t] \in owned
  /\ pc' = [pc EXCEPT ![t] = "expired"]
  /\ UNCHANGED <<cmdVars, memVars, hwVars, callVars, result, answer>>

\* Mutations of the timeout path: it frees the slot, frees the mailboxes, keeps
\* fPageLock.
QuarantineFreesSlot(t) ==
  /\ pc[t] = "expired"
  /\ fQuarantined' = TRUE
  /\ GiveBackSlot(t)
  /\ Return(t, "Timeout")
  /\ UNCHANGED <<fUp, fEntArr, memVars, hwVars>>

QuarantineFreesMailbox(t) ==
  /\ pc[t] = "expired"
  /\ fQuarantined' = TRUE
  /\ fPageLock' = IF op[t] = "page" THEN None ELSE fPageLock
  /\ mapped' = mapped \ {ent[t]}
  /\ Return(t, "Timeout")
  /\ UNCHANGED <<fUp, fBitmask, fEntArr, heap, hwVars>>

QuarantineKeepsLock(t) ==
  /\ pc[t] = "expired"
  /\ fQuarantined' = TRUE
  /\ Return(t, "Timeout")
  /\ UNCHANGED <<fUp, fBitmask, fPageLock, fEntArr, memVars, hwVars>>

(***************************************************************************)
(* The interface is quarantined; slot, entity and mailboxes stay as they   *)
(* are.  Only fPageLock is dropped.                                        *)
(***************************************************************************)
Quarantine(t) ==
  /\ pc[t] = "expired"
  /\ fQuarantined' = TRUE
  /\ fPageLock' = IF op[t] = "page" THEN None ELSE fPageLock
  /\ Return(t, "Timeout")
  /\ UNCHANGED <<fUp, fBitmask, fEntArr, memVars, hwVars>>

(***************************************************************************)
(* The slot is given back first, fEntArr is cleared afterwards.            *)
(***************************************************************************)
Release(t) ==
  /\ pc[t] = "release"
  /\ GiveBackSlot(t)
  /\ pc' = [pc EXCEPT ![t] = "clear"]
  /\ UNCHANGED <<fUp, fQuarantined, fEntArr, memVars, hwVars, callVars, result,
                 answer>>

\* Mutation: the entity is freed and its pointer left behind.
ClearLeavesPointer(t) ==
  /\ pc[t] = "clear"
  /\ heap' = heap \ {ent[t]}
  /\ Return(t, result[t])
  /\ UNCHANGED <<cmdVars, mapped, hwVars>>

Clear(t) ==
  /\ pc[t] = "clear"
  /\ fEntArr' = [fEntArr EXCEPT ![idx[t]] = None]
  /\ heap' = heap \ {ent[t]}
  /\ Return(t, result[t])
  /\ UNCHANGED <<fUp, fQuarantined, fBitmask, fPageLock, mapped, hwVars>>

(***************************************************************************)
(* The firmware answers a command it owns: it writes the response through  *)
(* the mailboxes the descriptor points to and clears the ownership bit.    *)
(* It may do so at any time, or never.                                     *)
(***************************************************************************)
FirmwareAnswers(s, r) ==
  /\ s \in owned
  /\ owned' = owned \ {s}
  /\ dma' = [dma EXCEPT ![s] = None]
  /\ reply' = [reply EXCEPT ![s] = r]
  /\ answer' = [t \in Threads |->
                  IF pc[t] \in {"poll", "expired"} /\ idx[t] = s
                  THEN r ELSE answer[t]]
  /\ UNCHANGED <<cmdVars, memVars, callVars, pc, result>>

(***************************************************************************)
(* free(), when no call is in progress.  It releases every registered      *)
(* entity, those of timed-out commands included: that no firmware access   *)
(* can follow is for the driver to see to (see MlxPCIDriver).              *)
(***************************************************************************)
FreeEntity(e) == \E s \in Slots : fEntArr[s] = e

Free ==
  /\ fUp
  /\ \A t \in Threads : pc[t] = "idle"
  /\ fUp' = FALSE
  /\ heap' = {e \in heap : ~FreeEntity(e)}
  /\ mapped' = {e \in mapped : ~FreeEntity(e)}
  /\ fEntArr' = [s \in Slots |-> None]
  /\ UNCHANGED <<fQuarantined, fBitmask, fPageLock, hwVars, callVars, pc, result,
                 answer>>

----------------------------------------------------------------------------
Step(t) ==
  \/ AcquirePage(t)
  \/ AllocIdx(t)
  \/ BuildNoEntity(t)
  \/ BuildEntity(t)
  \/ Submit(t)
  \/ ReadBack(t)
  \/ PollExpires(t)
  \/ Quarantine(t)
  \/ Release(t)
  \/ Clear(t)

Next ==
  \/ \E t \in Threads, o \in Ops, valid \in BOOLEAN : Call(t, o, valid)
  \/ \E t \in Threads : Step(t)
  \/ \E s \in Slots, r \in Replies : FirmwareAnswers(s, r)
  \/ Free

Spec == Init /\ [][Next]_vars

(***************************************************************************)
(* A thread in exec keeps running, and one that waits for fPageLock gets   *)
(* it if it keeps becoming free (an IOLock queues its waiters).  Nothing   *)
(* is assumed of the firmware: it may never answer.                        *)
(***************************************************************************)
FairSpec ==
  /\ Spec
  /\ \A t \in Threads : WF_vars(Step(t)) /\ SF_vars(AcquirePage(t))

----------------------------------------------------------------------------
(***************************************************************************)
(* Properties                                                              *)
(***************************************************************************)

\* The variables hold what the code's types and geometry allow: in particular
\* the idle bits are regular slots only (fMaxRegCmds).
TypeOK ==
  /\ fUp \in BOOLEAN
  /\ fQuarantined \in BOOLEAN
  /\ fBitmask \in SUBSET Regular
  /\ fPageLock \in Threads \cup {None}
  /\ fEntArr \in [Slots -> Ents \cup {None}]
  /\ heap \in SUBSET Ents
  /\ mapped \in SUBSET heap
  /\ owned \in SUBSET Slots
  /\ dma \in [Slots -> Ents \cup {None}]
  /\ reply \in [Slots -> Replies \cup {None}]
  /\ pc \in [Threads -> Points]
  /\ op \in [Threads -> Ops]
  /\ idx \in [Threads -> Slots]
  /\ ent \in [Threads -> Ents \cup {None}]
  /\ result \in [Threads -> Results]
  /\ answer \in [Threads -> Replies \cup {None}]

\* The points of exec at which a thread has a slot to itself.
Holding == {"build", "submit", "poll", "expired", "release"}
Holds(t, s) == pc[t] \in Holding /\ idx[t] = s

\* exec never lets two commands into one slot: no two threads hold the same
\* slot, no held slot is idle, and the firmware owns a descriptor only while
\* its caller waits for it or after a timeout has withheld the slot for good.
WaitedFor(s) ==
  \E t \in Threads : Holds(t, s) /\ pc[t] \in {"poll", "expired"}
Withheld(s) ==
  fQuarantined /\ s \notin fBitmask /\ \A t \in Threads : ~Holds(t, s)

SlotExclusion ==
  /\ \A s \in Slots, t, u \in Threads : Holds(t, s) /\ Holds(u, s) => t = u
  /\ \A s \in Slots, t \in Threads : Holds(t, s) => s \notin fBitmask
  /\ \A s \in owned : WaitedFor(s) \/ Withheld(s)

\* "rather than allowing a late DMA into freed memory": until the interface is
\* freed, whatever the firmware may still answer, the mailboxes its descriptor
\* points to are mapped.
NoLateDma ==
  fUp => \A s \in owned : dma[s] # None => dma[s] \in mapped

\* No path of exec loses a slot: a regular slot that is neither idle nor held
\* was withheld by a timeout, and fPageLock has a holder that is in exec.
NoSlotLeak ==
  /\ \A s \in Regular \ fBitmask :
       (\E t \in Threads : Holds(t, s)) \/ fQuarantined
  /\ fPageLock # None => Holds(fPageLock, PageSlot)

\* exec returns kIOReturnSuccess only for a command the firmware answered with
\* both statuses zero: no timeout, no stale descriptor, no other thread's
\* answer turns into a success.
SuccessMeansAnswered ==
  \A t \in Threads :
    pc[t] \in {"release", "clear"} /\ result[t] = "Success" =>
      answer[t] # None /\ answer[t].delivery = 0 /\ answer[t].outbox = 0

\* fEntArr never points to a freed entity (free() and submit() follow it).
EntArrValid ==
  \A s \in Slots : fEntArr[s] # None => fEntArr[s] \in heap

\* Every call of exec returns, whatever the firmware does.
ExecReturns ==
  \A t \in Threads : pc[t] # "idle" ~> pc[t] = "idle"

(***************************************************************************)
(* What a caller can tell of its call: what the last one returned, or      *)
(* whether the command has reached the firmware and been answered.         *)
(***************************************************************************)
Phase(t) ==
  CASE pc[t] = "idle" -> result[t]
    [] pc[t] # "idle" /\ answer[t] # None -> "answered"
    [] pc[t] \in {"poll", "expired"} /\ answer[t] = None -> "sent"
    [] OTHER -> "asked"

Contract == INSTANCE CmdContract WITH
              Places      <- Slots,
              Good        <- {r \in Replies : r.delivery = 0 /\ r.outbox = 0},
              up          <- fUp,
              quarantined <- fQuarantined,
              call        <- [t \in Threads |-> Phase(t)],
              exempt      <- [t \in Threads |-> op[t] = "teardown"],
              heard       <- answer,
              late        <- {s \in owned : ~WaitedFor(s)}

\* exec keeps the contract its callers rely on, for all its slots, locks and races:
\* a call that is refused never reaches the firmware, every other one is carried
\* out at most once and returns the answer to it and to no other, or times out,
\* and behind a timeout no call is let in but TEARDOWN_HCA and DISABLE_HCA.
ImplementsContract == Contract!Spec

\* "Large input -> mailbox", "Record the in-flight entity": a submitted
\* descriptor is built from its caller's entity and carries its mailboxes.
DescriptorHasMailbox ==
  \A s \in owned : dma[s] # None

=============================================================================
