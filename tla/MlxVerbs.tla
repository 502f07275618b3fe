------------------------------ MODULE MlxVerbs ------------------------------
(***************************************************************************)
(* The verbs objects of the RoCE device and the user clients that own      *)
(* them: Sources/ib/MlxQP.cpp, MlxCQ.cpp, MlxMR.cpp, MlxRoCE.cpp,          *)
(* Sources/userclient/MlxUserClient.cpp, and the doorbell slots of         *)
(* MlxUAR.cpp and the pins of MlxDMA.cpp they take.                        *)
(*                                                                         *)
(* A client's calls run concurrently, and with the calls of other clients. *)
(* A call takes fOwnedLock for each look at the client's lists and fLock   *)
(* of a table for each change of it, and holds neither while the firmware  *)
(* works (modifyQP holds the QP table's).  Between a DESTROY command and   *)
(* the removal of the context the firmware may give the number to another  *)
(* object.                                                                 *)
(*                                                                         *)
(* Commands have the outcomes MlxCmd shows: carried out; failed; timed     *)
(* out, carried out later or never, and every later command refused.       *)
(***************************************************************************)
EXTENDS Integers, Sequences, FiniteSets

CONSTANTS
  Threads,    \* the threads of the clients' tasks
  ClientOf,   \* thread -> its client
  MaxObjs,    \* bound: objects ever created
  NSlots,     \* 32-bit slots in the doorbell-record page
  EthSlots,   \* the slots the Ethernet interface holds
  Worlds      \* bounds taken together, see WorldType

Clients == {ClientOf[t] : t \in Threads}
Objs    == 1 .. MaxObjs
Slots   == 0 .. NSlots - 1

\* How many objects there may be ever and regions at one time, whose calls there
\* are, whether the firmware uses numbers again and whether it may be too late,
\* how often there is no memory for a context or a list entry.
WorldType == [objs : 0 .. MaxObjs, regions : 0 .. MaxObjs, callers : SUBSET Clients,
              reuse : BOOLEAN, timeouts : BOOLEAN, shortages : 0 .. MaxObjs]

ASSUME VerbsAssumption ==
  /\ MaxObjs \in Nat
  /\ NSlots \in Nat
  /\ EthSlots \subseteq Slots
  /\ ClientOf \in [Threads -> Clients]
  /\ Worlds \subseteq WorldType

Kinds    == {"qp", "cq", "mr"}
QpStates == {"RST", "INIT", "RTR", "RTS"}
NoSlot   == -1

VARIABLES
  world,         \* what may happen, one of Worlds less the shortages so far
  roce,          \* the life of the MlxRoCE object
  made,          \* how many objects there have been
  blind,         \* history: createQP's clean-up has dropped another QP's context
  obj,           \* object -> what the driver and the firmware have of it
  table,         \* fQpTable, fCqTable, fMrTable: the objects, oldest first
  fDbBitmap,     \* the doorbell slots that are taken
  owned,         \* client -> kind -> the numbers in its list
  fActiveCq,     \* client -> the number of its active CQ, or 0
  client,        \* client -> open, closing, closed
  late,          \* a timed-out command the firmware has not carried out
  quarantined,   \* the command interface is quarantined
  pc, call       \* thread -> control point, and what it works on

memVars  == <<obj, table, fDbBitmap>>
ownVars  == <<owned, fActiveCq>>
cmdVars  == <<late, quarantined>>
lifeVars == <<roce, client>>
vars     == <<world, lifeVars, made, blind, memVars, ownVars, cmdVars, pc, call>>

(***************************************************************************)
(* What there is of an object: its kind and client; its number, 0 as long  *)
(* as it has none; the first of its doorbell slots; whether its memory is  *)
(* pinned and mapped; its state in the firmware; the context's state, for  *)
(* a QP; and whether the context is in the table, or has been.             *)
(***************************************************************************)
Nothing == [kind |-> "none", client |-> "none", num |-> 0, slot |-> NoSlot,
            pinned |-> FALSE, fw |-> "none", state |-> "RST", rec |-> "no"]

NoCall    == [job |-> "none", kind |-> "none", num |-> 0, obj |-> 0]
NoCommand == [op |-> "none", obj |-> 0]

Live(o) == obj[o].fw \in {"live"} \cup QpStates

Init ==
  /\ world \in Worlds
  /\ roce = "new"
  /\ made = 0
  /\ blind = FALSE
  /\ obj = [o \in Objs |-> Nothing]
  /\ table = [k \in Kinds |-> <<>>]
  /\ fDbBitmap = EthSlots
  /\ owned = [c \in Clients |-> [k \in Kinds |-> {}]]
  /\ fActiveCq = [c \in Clients |-> 0]
  /\ client = [c \in Clients |-> "open"]
  /\ late = NoCommand
  /\ quarantined = FALSE
  /\ pc = [t \in Threads |-> "idle"]
  /\ call = [t \in Threads |-> NoCall]

\* MlxRoCE::start: locks, tables, capabilities, the default GID, the objects'
\* managers, the notifiers; a failure releases what there is.
RoceStart(ok) ==
  /\ roce = "new"
  /\ roce' = IF ok THEN "up" ELSE "failed"
  /\ UNCHANGED <<world, client, made, blind, memVars, ownVars, cmdVars, pc, call>>

----------------------------------------------------------------------------
(***************************************************************************)
(* Doorbell slots and pins.                                                *)
(***************************************************************************)
\* Mutation: only the first slot of the pair is looked at.
PairFreeFirstOnly(s) == s \notin fDbBitmap

\* The inner loop of allocDbSlots for a count of two.
PairFree(s) == {s, s + 1} \cap fDbBitmap = {}

FreePairs == {s \in Slots : s + 1 \in Slots /\ PairFree(s)}

Pair(s) == IF s = NoSlot THEN {} ELSE {s, s + 1}

\* allocDbSlots: the first pair that is free.  A memory region needs none.
AllocDbSlots(kind) ==
  IF kind = "mr" THEN NoSlot ELSE CHOOSE s \in FreePairs : \A r \in FreePairs : s =< r

\* freeDbSlots.
FreeDbSlots(s) == fDbBitmap \ Pair(s)

\* unpinMemory for both queues of a QP; the CQ's buffer unmapped and released;
\* the region's descriptor and mapping released.
Unpin(o) == [obj EXCEPT ![o].pinned = FALSE]

\* Memory and slots of object o are released; an object that is not in the
\* firmware, and is not to be, is forgotten.
Release(o) ==
  /\ fDbBitmap' = FreeDbSlots(obj[o].slot)
  /\ obj' = IF obj[o].fw = "none" THEN [obj EXCEPT ![o] = Nothing] ELSE Unpin(o)

\* Mutation: the table is searched from its end.
LastMatch(kind, n) ==
  LET hits == {i \in 1 .. Len(table[kind]) : obj[table[kind][i]].num = n}
  IN  IF hits = {} THEN 0 ELSE CHOOSE i \in hits : \A j \in hits : j =< i

\* The position in the table of an object with number n, or 0: the loops over the
\* tables stop at the first.
FirstMatch(kind, n) ==
  LET hits == {i \in 1 .. Len(table[kind]) : obj[table[kind][i]].num = n}
  IN  IF hits = {} THEN 0 ELSE CHOOSE i \in hits : \A j \in hits : i =< j

Without(seq, i) == SubSeq(seq, 1, i - 1) \o SubSeq(seq, i + 1, Len(seq))

----------------------------------------------------------------------------
(***************************************************************************)
(* The firmware.                                                           *)
(***************************************************************************)
\* The number of a new object: if numbers are used again, the least that no
\* object in the firmware has.  A memory key carries a variant of its own.
NewNumber(o) ==
  LET kind == obj[o].kind
      used == {obj[p].num : p \in {q \in Objs : Live(q) /\ obj[q].kind = kind}}
  IN  IF kind # "mr" /\ world.reuse
      THEN CHOOSE n \in Objs \ used : \A m \in Objs \ used : n =< m
      ELSE o

FirstState(kind) == IF kind = "qp" THEN "RST" ELSE "live"

NextState(s) == CASE s = "RST" -> "INIT" [] s = "INIT" -> "RTR" [] s = "RTR" -> "RTS"

\* The objects in the firmware that a command with a number is about.
Named(kind, n) == {o \in Objs : Live(o) /\ obj[o].kind = kind /\ obj[o].num = n}

\* The wait for an answer ends without one, and the interface is quarantined.
GivesUp == world.timeouts /\ ~quarantined /\ quarantined' = TRUE

TimesOut(op, o) == GivesUp /\ late' = [op |-> op, obj |-> o]

\* A timed-out command about an object that is not there changes nothing.
TimesOutOn(op, kind, n) ==
  IF Named(kind, n) = {}
  THEN GivesUp /\ UNCHANGED late
  ELSE \E o \in Named(kind, n) : TimesOut(op, o)

FirmwareAnswersLate ==
  LET o == late.obj
  IN
  /\ late # NoCommand
  /\ late' = NoCommand
  /\ obj' = CASE late.op = "create" -> [obj EXCEPT ![o].fw = FirstState(obj[o].kind)]
              [] late.op = "modify" -> [obj EXCEPT ![o].fw = NextState(@)]
              [] late.op = "destroy" -> [obj EXCEPT ![o].fw = "gone"]
  /\ UNCHANGED <<world, lifeVars, made, blind, table, fDbBitmap, ownVars, quarantined, pc, call>>

----------------------------------------------------------------------------
(***************************************************************************)
(* Calls.                                                                  *)
(***************************************************************************)
Me(t) == ClientOf[t]

\* An allocation fails, or none does.
OutOfMemory == world.shortages > 0 /\ world' = [world EXCEPT !.shortages = @ - 1]
Allocated   == UNCHANGED world

Goto(t, p) ==
  /\ pc' = [pc EXCEPT ![t] = p]
  /\ UNCHANGED call

\* The call returns; releaseOwnedResources goes on with the next object.
Done(t) ==
  IF call[t].job = "close"
  THEN Goto(t, "close")
  ELSE /\ pc' = [pc EXCEPT ![t] = "idle"]
       /\ call' = [call EXCEPT ![t] = NoCall]

MayCall(t) ==
  Me(t) \in world.callers /\ roce = "up" /\ client[Me(t)] = "open" /\ pc[t] = "idle"

\* A new object of t's client, with its slots and its memory pinned and mapped.
NewObject(t, kind) ==
  [Nothing EXCEPT !.kind = kind, !.client = Me(t),
                  !.slot = AllocDbSlots(kind), !.pinned = TRUE]

(***************************************************************************)
(* createQP, createCQ and regMR up to their command.  A call that is       *)
(* refused, or fails to get slots or to pin memory, leaves nothing behind. *)
(***************************************************************************)
Create(t, kind) ==
  /\ MayCall(t)
  /\ made < world.objs
  /\ made' = made + 1
  /\ obj' = [obj EXCEPT ![made'] = NewObject(t, kind)]
  /\ fDbBitmap' = fDbBitmap \cup Pair(NewObject(t, kind).slot)
  /\ pc' = [pc EXCEPT ![t] = "ask"]
  /\ call' = [call EXCEPT ![t] =
                 [job |-> "create", kind |-> kind, num |-> 0, obj |-> made']]
  /\ UNCHANGED <<world, lifeVars, blind, table, ownVars, cmdVars>>

\* The QP's CQs must be owned by the client when the call begins.
CreateQP(t) == owned[Me(t)]["cq"] # {} /\ FreePairs # {} /\ Create(t, "qp")

\* A client has one CQ: fActiveCq is looked at without the lock.
CreateCQ(t) == fActiveCq[Me(t)] = 0 /\ FreePairs # {} /\ Create(t, "cq")

RegMR(t) ==
  /\ Cardinality({o \in Objs : obj[o].kind = "mr"}) < world.regions
  /\ Create(t, "mr")

\* CREATE_QP, CREATE_CQ, CREATE_MKEY.  Any failure, a timeout too, releases
\* memory and slots.
Ask(t) ==
  LET o == call[t].obj
  IN
  /\ pc[t] = "ask"
  /\ \/ /\ ~quarantined
        /\ obj' = [obj EXCEPT ![o].num = NewNumber(o), ![o].fw = FirstState(obj[o].kind)]
        /\ pc' = [pc EXCEPT ![t] = "record"]
        /\ call' = [call EXCEPT ![t].num = NewNumber(o)]
        /\ UNCHANGED <<fDbBitmap, cmdVars>>
     \/ Release(o) /\ Done(t) /\ UNCHANGED cmdVars
     \/ /\ TimesOut("create", o)
        /\ obj' = Unpin(o)
        /\ fDbBitmap' = FreeDbSlots(obj[o].slot)
        /\ Done(t)
  /\ UNCHANGED <<world, lifeVars, made, blind, table, ownVars>>

\* The context is added to the table, or there is no memory for it.
Record(t) ==
  LET o == call[t].obj
  IN
  /\ pc[t] = "record"
  /\ \/ /\ table' = [table EXCEPT ![obj[o].kind] = Append(@, o)]
        /\ obj' = [obj EXCEPT ![o].rec = "in"]
        /\ Goto(t, "own")
        /\ Allocated
     \/ /\ OutOfMemory
        /\ Goto(t, "unrecord")
        /\ UNCHANGED <<obj, table>>
  /\ UNCHANGED <<lifeVars, made, blind, fDbBitmap, ownVars, cmdVars>>

(***************************************************************************)
(* Without a context the object is destroyed at once.  When that fails, a  *)
(* QP's and a region's memory is quarantined, a CQ's is released.  When it *)
(* succeeds, destroyQP also looks through the table, where a context with  *)
(* this number is another QP's: one the firmware has given it to since.    *)
(***************************************************************************)
Unrecord(t) ==
  LET o == call[t].obj
  IN
  /\ pc[t] = "unrecord"
  /\ \/ /\ ~quarantined
        /\ obj' = [obj EXCEPT ![o].fw = "gone", ![o].pinned = call[t].kind = "qp"]
        /\ IF call[t].kind = "qp"
           THEN Goto(t, "drop") /\ UNCHANGED fDbBitmap
           ELSE Done(t) /\ fDbBitmap' = FreeDbSlots(obj[o].slot)
        /\ UNCHANGED cmdVars
     \/ /\ UNCHANGED cmdVars \/ TimesOut("destroy", o)
        /\ IF call[t].kind = "cq" THEN Release(o) ELSE UNCHANGED <<obj, fDbBitmap>>
        /\ Done(t)
  /\ UNCHANGED <<world, lifeVars, made, blind, table, ownVars>>

\* addOwned behind a create; without memory for the list entry the object is
\* destroyed again, whatever comes of it.
Own(t) ==
  LET c == Me(t)
  IN
  /\ pc[t] = "own"
  /\ \/ /\ owned' = [owned EXCEPT ![c][call[t].kind] = @ \cup {call[t].num}]
        /\ IF call[t].kind = "cq" THEN Goto(t, "activate") ELSE Done(t)
        /\ Allocated
     \/ /\ OutOfMemory
        /\ pc' = [pc EXCEPT ![t] = "destroy"]
        /\ call' = [call EXCEPT ![t].job = "undo", ![t].obj = 0]
        /\ UNCHANGED owned
  /\ UNCHANGED <<lifeVars, made, blind, memVars, fActiveCq, cmdVars>>

\* createCQ sets the active CQ without the lock, after the list has the number:
\* another call may have destroyed the CQ by now.
Activate(t) ==
  /\ pc[t] = "activate"
  /\ fActiveCq' = [fActiveCq EXCEPT ![Me(t)] = call[t].num]
  /\ Done(t)
  /\ UNCHANGED <<world, lifeVars, made, blind, memVars, owned, cmdVars>>

----------------------------------------------------------------------------
(***************************************************************************)
(* destroyQP, destroyCQ, deregMR: the number is taken out of the client's  *)
(* list, so that no other call of the client finds it.                     *)
(***************************************************************************)
Destroy(t, kind, n, next) ==
  /\ MayCall(t)
  /\ n \in owned[Me(t)][kind]
  /\ owned' = [owned EXCEPT ![Me(t)][kind] = @ \ {n}]
  /\ pc' = [pc EXCEPT ![t] = next]
  /\ call' = [call EXCEPT ![t] = [job |-> "destroy", kind |-> kind, num |-> n, obj |-> 0]]
  /\ UNCHANGED <<world, lifeVars, made, blind, memVars, fActiveCq, cmdVars>>

DestroyQP(t, n) == Destroy(t, "qp", n, "destroy")

DeregMR(t, n) == Destroy(t, "mr", n, "destroy")

\* The CQ goes back to the list if the client has a QP in its own.
DestroyCQ(t, n) ==
  Destroy(t, "cq", n, IF owned[Me(t)]["qp"] # {} THEN "back" ELSE "destroy")

\* The DESTROY command.  A failed one gives the number back to the list; behind a
\* failed create, and in releaseOwnedResources, nobody looks at the result.
DestroyCommand(t) ==
  LET kind == call[t].kind
      n    == call[t].num
  IN
  /\ pc[t] = "destroy"
  /\ \/ /\ ~quarantined
        /\ \E o \in Named(kind, n) : obj' = [obj EXCEPT ![o].fw = "gone"]
        /\ Goto(t, "drop")
        /\ UNCHANGED cmdVars
     \/ /\ UNCHANGED cmdVars \/ TimesOutOn("destroy", kind, n)
        /\ IF call[t].job = "destroy" THEN Goto(t, "back") ELSE Done(t)
        /\ UNCHANGED obj
  /\ UNCHANGED <<world, lifeVars, made, blind, table, fDbBitmap, ownVars>>

\* Under fLock: the first context with the number leaves the table and releases
\* its memory and slots.  A QP that never had a context also releases its own.
Drop(t) ==
  LET kind == call[t].kind
      n    == call[t].num
      i    == FirstMatch(kind, n)
      own  == IF call[t].job = "create" THEN {call[t].obj} ELSE {}
      out  == own \cup (IF i = 0 THEN {} ELSE {table[kind][i]})
  IN
  /\ pc[t] = "drop"
  /\ table' = IF i = 0 THEN table ELSE [table EXCEPT ![kind] = Without(@, i)]
  /\ fDbBitmap' = fDbBitmap \ UNION {Pair(obj[o].slot) : o \in out}
  /\ obj' = [o \in Objs |->
               CASE o \notin out -> obj[o]
                 [] o \in out /\ Live(o) -> [obj[o] EXCEPT !.pinned = FALSE, !.rec = "out"]
                 [] OTHER -> Nothing]
  /\ fActiveCq' = IF call[t].job = "destroy" /\ kind = "cq" /\ fActiveCq[Me(t)] = n
                  THEN [fActiveCq EXCEPT ![Me(t)] = 0] ELSE fActiveCq
  /\ blind' = (blind \/ (call[t].job = "create" /\ i # 0))
  /\ Done(t)
  /\ UNCHANGED <<world, lifeVars, made, owned, cmdVars>>

\* addOwned behind a modify or a failed or refused destroy; nobody looks at its
\* result.
Back(t) ==
  /\ pc[t] = "back"
  /\ \/ owned' = [owned EXCEPT ![Me(t)][call[t].kind] = @ \cup {call[t].num}] /\ Allocated
     \/ UNCHANGED owned /\ OutOfMemory
  /\ Done(t)
  /\ UNCHANGED <<lifeVars, made, blind, memVars, fActiveCq, cmdVars>>

----------------------------------------------------------------------------
\* Mutation: the number is looked up in the list and stays there.
TakenToModifyLookup(c, n) == owned[c]["qp"]

\* removeOwned at the head of modifyQP.
TakenToModify(c, n) == owned[c]["qp"] \ {n}

ModifyQP(t, n) ==
  LET c == Me(t)
  IN
  /\ MayCall(t)
  /\ n \in owned[c]["qp"]
  /\ owned' = [owned EXCEPT ![c]["qp"] = TakenToModify(c, n)]
  /\ pc' = [pc EXCEPT ![t] = "modify"]
  /\ call' = [call EXCEPT ![t] = [job |-> "modify", kind |-> "qp", num |-> n, obj |-> 0]]
  /\ UNCHANGED <<world, lifeVars, made, blind, memVars, fActiveCq, cmdVars>>

(***************************************************************************)
(* MlxQP::modifyQP under fLock: the context's state must be the one the    *)
(* caller names and have a successor; the firmware checks its own state.   *)
(* Refused requests end here.                                              *)
(***************************************************************************)
ModifyCommand(t) ==
  LET i    == FirstMatch("qp", call[t].num)
      ctx  == table["qp"][i]
      from == obj[ctx].state
  IN
  /\ pc[t] = "modify"
  /\ \/ /\ ~quarantined
        /\ i # 0
        /\ from # "RTS"
        /\ \E o \in Named("qp", call[t].num) :
             /\ obj[o].fw = from
             /\ obj' = [[obj EXCEPT ![o].fw = NextState(from)]
                               EXCEPT ![ctx].state = NextState(from)]
        /\ UNCHANGED cmdVars
     \/ UNCHANGED <<obj, cmdVars>>
     \/ /\ i # 0
        /\ from # "RTS"
        /\ \E o \in Named("qp", call[t].num) : obj[o].fw = from /\ TimesOut("modify", o)
        /\ UNCHANGED obj
  /\ Goto(t, "back")
  /\ UNCHANGED <<world, lifeVars, made, blind, table, fDbBitmap, ownVars>>

----------------------------------------------------------------------------
(***************************************************************************)
(* cleanup, from clientClose, stop or free: releaseOwnedResources takes    *)
(* the QPs, regions and CQs out of the lists one by one and destroys them. *)
(* No other call of the client runs meanwhile: cleanup frees the lock and  *)
(* the lists that such a call would use.                                   *)
(***************************************************************************)
Close(t) ==
  LET c == Me(t)
  IN
  /\ client[c] = "open"
  /\ roce = "up"
  /\ \A u \in Threads : Me(u) = c => pc[u] = "idle"
  /\ client' = [client EXCEPT ![c] = "closing"]
  /\ pc' = [pc EXCEPT ![t] = "close"]
  /\ call' = [call EXCEPT ![t].job = "close"]
  /\ UNCHANGED <<world, roce, made, blind, memVars, ownVars, cmdVars>>

\* takeOwned on the lists in their order.
TakeNext(t) ==
  LET c    == Me(t)
      kind == IF owned[c]["qp"] # {} THEN "qp"
              ELSE IF owned[c]["mr"] # {} THEN "mr" ELSE "cq"
  IN
  /\ pc[t] = "close"
  /\ \E n \in owned[c][kind] :
       /\ owned' = [owned EXCEPT ![c][kind] = @ \ {n}]
       /\ call' = [call EXCEPT ![t].kind = kind, ![t].num = n]
  /\ pc' = [pc EXCEPT ![t] = "destroy"]
  /\ UNCHANGED <<world, lifeVars, made, blind, memVars, fActiveCq, cmdVars>>

Closed(t) ==
  LET c == Me(t)
  IN
  /\ pc[t] = "close"
  /\ owned[c] = [k \in Kinds |-> {}]
  /\ client' = [client EXCEPT ![c] = "closed"]
  /\ fActiveCq' = [fActiveCq EXCEPT ![c] = 0]
  /\ pc' = [pc EXCEPT ![t] = "idle"]
  /\ call' = [call EXCEPT ![t] = NoCall]
  /\ UNCHANGED <<world, roce, made, blind, memVars, owned, cmdVars>>

(***************************************************************************)
(* cleanupResources of MlxRoCE, behind its last client: MlxQP, MlxCQ and   *)
(* MlxMR are freed in this order, and each destroys what is left in its    *)
(* table.  If that fails, a QP's and a region's memory is quarantined and  *)
(* a CQ's is released all the same.                                        *)
(***************************************************************************)
FreeOrder == <<"qp", "cq", "mr">>

DestroyedInFree(o) ==
  /\ ~quarantined
  /\ Live(o)
  /\ obj' = [obj EXCEPT ![o] = Nothing]
  /\ fDbBitmap' = FreeDbSlots(obj[o].slot)
  /\ UNCHANGED cmdVars

NotDestroyedInFree(kind, o) ==
  /\ UNCHANGED cmdVars \/ (Live(o) /\ TimesOut("destroy", o))
  /\ obj' = [obj EXCEPT ![o].rec = "out", ![o].pinned = kind # "cq"]
  /\ fDbBitmap' = IF kind = "cq" THEN FreeDbSlots(obj[o].slot) ELSE fDbBitmap

FreeNext ==
  LET kind == FreeOrder[CHOOSE i \in 1 .. 3 :
                          /\ table[FreeOrder[i]] # <<>>
                          /\ \A j \in 1 .. i - 1 : table[FreeOrder[j]] = <<>>]
      o    == table[kind][1]
  IN
  /\ roce = "up"
  /\ \A c \in Clients : client[c] = "closed"
  /\ \E k \in Kinds : table[k] # <<>>
  /\ table' = [table EXCEPT ![kind] = Tail(@)]
  /\ DestroyedInFree(o) \/ NotDestroyedInFree(kind, o)
  /\ UNCHANGED <<world, lifeVars, made, blind, ownVars, pc, call>>

RoceStop ==
  /\ roce = "up"
  /\ \A c \in Clients : client[c] = "closed"
  /\ \A k \in Kinds : table[k] = <<>>
  /\ roce' = "stopped"
  /\ UNCHANGED <<world, client, made, blind, memVars, ownVars, cmdVars, pc, call>>

----------------------------------------------------------------------------
Next ==
  \/ \E ok \in BOOLEAN : RoceStart(ok)
  \/ \E t \in Threads :
       \/ CreateQP(t)
       \/ CreateCQ(t)
       \/ RegMR(t)
       \/ Ask(t)
       \/ Record(t)
       \/ Unrecord(t)
       \/ Own(t)
       \/ Activate(t)
       \/ DestroyCommand(t)
       \/ Drop(t)
       \/ Back(t)
       \/ \E n \in Objs :
            ModifyQP(t, n) \/ DestroyQP(t, n) \/ DestroyCQ(t, n) \/ DeregMR(t, n)
       \/ ModifyCommand(t)
       \/ Close(t)
       \/ TakeNext(t)
       \/ Closed(t)
  \/ FreeNext
  \/ RoceStop
  \/ FirmwareAnswersLate

Spec == Init /\ [][Next]_vars

----------------------------------------------------------------------------
(***************************************************************************)
(* Properties                                                              *)
(***************************************************************************)

\* What the driver, its clients and the firmware have is of its type.
StateOK ==
  /\ world \in WorldType
  /\ roce \in {"new", "up", "failed", "stopped"}
  /\ made \in 0 .. MaxObjs
  /\ obj \in [Objs -> [kind : Kinds \cup {"none"}, client : Clients \cup {"none"},
                       num : 0 .. MaxObjs, slot : Slots \cup {NoSlot}, pinned : BOOLEAN,
                       fw : {"none", "live", "gone"} \cup QpStates, state : QpStates,
                       rec : {"no", "in", "out"}]]
  /\ table \in [Kinds -> Seq(Objs)]
  /\ fDbBitmap \subseteq Slots
  /\ owned \in [Clients -> [Kinds -> SUBSET Objs]]
  /\ fActiveCq \in [Clients -> 0 .. MaxObjs]
  /\ client \in [Clients -> {"open", "closing", "closed"}]
  /\ late \in [op : {"none", "create", "modify", "destroy"}, obj : 0 .. MaxObjs]
  /\ quarantined \in BOOLEAN
  /\ pc \in [Threads -> {"idle", "ask", "record", "unrecord", "own", "activate",
                         "destroy", "drop", "back", "modify", "close"}]
  /\ call \in [Threads -> [job : {"none", "create", "undo", "destroy", "modify", "close"},
                           kind : Kinds \cup {"none"}, num : 0 .. MaxObjs,
                           obj : 0 .. MaxObjs]]

\* Everything is of its type.
TypeOK == StateOK /\ blind \in BOOLEAN

Kept(o) == obj[o].pinned /\ Pair(obj[o].slot) \subseteq fDbBitmap

SharesSlot(o, p) == Pair(obj[o].slot) \cap Pair(obj[p].slot) # {}

\* Its creator is still at work on object o, which has no context.
BeingMade(o) == \E t \in Threads : pc[t] \in {"record", "unrecord"} /\ call[t].obj = o

\* "Never release DMA memory until the referencing hardware object is confirmed
\* destroyed."  The code breaks this for three kinds of objects, each by a decision
\* of its own: one whose CREATE timed out, so that createQP, createCQ or regMR gave
\* its memory back, and was carried out later; a CQ that createCQ's clean-up has
\* failed to destroy without looking; a CQ that MlxCQ::free has failed to destroy.
Abandoned(o) ==
  \/ obj[o].num = 0
  \/ obj[o].kind = "cq" /\ obj[o].rec = "no" /\ ~BeingMade(o)
  \/ obj[o].kind = "cq" /\ obj[o].rec = "out" /\ (\A c \in Clients : client[c] = "closed")

\* Every other object in the firmware keeps its memory pinned and its doorbell
\* slots taken, whichever commands fail or time out, although contexts are found
\* by a number the firmware may have given to another object since.  The code
\* breaks this in one way (blind): destroyQP in createQP's clean-up looks for the
\* context by number behind its DESTROY, and finds that of the next QP.
KeptUnlessAbandoned ==
  ~blind => \A o \in Objs : Live(o) /\ ~Abandoned(o) => Kept(o)

\* And until then two of them never share a doorbell record, nor does one with the
\* Ethernet interface: their slots are given back once, when the object is gone.
ApartUnlessAbandoned ==
  ~blind =>
    \A o \in Objs : Live(o) /\ ~Abandoned(o) =>
      /\ Pair(obj[o].slot) \cap EthSlots = {}
      /\ \A p \in Objs \ {o} : Live(p) /\ ~Abandoned(p) => ~SharesSlot(o, p)

\* Who may use the number of object o: the lists that hold it, and the calls that
\* have taken it out of a list or not put it in yet.
Holders(o) ==
  {c \in Clients : obj[o].num \in owned[c][obj[o].kind]} \cup
  {t \in Threads : /\ pc[t] \in {"own", "destroy", "modify", "back"}
                   /\ call[t].kind = obj[o].kind /\ call[t].num = obj[o].num}

\* A live object is in one pair of hands at most, and in those of the client it
\* was created for, although numbers are used again and calls overlap: no call
\* destroys or modifies an object another call works on, or another client's.
SoleHolder ==
  \A o \in Objs : Live(o) =>
    /\ Cardinality(Holders(o)) =< 1
    /\ Holders(o) \subseteq {obj[o].client} \cup {t \in Threads : Me(t) = obj[o].client}

=============================================================================
