--------------------------- MODULE MlxVerbsProofs ---------------------------
(***************************************************************************)
(* Proofs about the verbs objects and their clients: for any threads,      *)
(* clients and worlds, any number of objects and of doorbell slots, a live *)
(* object is in one pair of hands at most, and it keeps its memory and its *)
(* doorbell slots although the driver finds contexts by numbers that the   *)
(* firmware uses again, as long as createQP's clean-up has not dropped a   *)
(* context that is not its own, and except for those it abandons.          *)
(***************************************************************************)
EXTENDS MlxVerbs, FiniteSetTheorems, NaturalsInduction, SequenceTheorems, TLAPS

(***************************************************************************)
(* The inductive invariant.                                                *)
(***************************************************************************)

\* A call that works on an object of its own creation; a call that has the right
\* to use a number; a call that is about to drop a context found by its number.
Creating(t) == pc[t] \in {"ask", "record", "unrecord"} \/ (pc[t] = "drop" /\ call[t].job = "create")
Claims(t)   == pc[t] \in {"record", "unrecord", "own", "destroy", "modify", "back"}
Dropping(t) == pc[t] = "drop" /\ call[t].job # "create"

\* Call t, or client c, has the right to use number n of the kind.
Claim(t, kind, n) == Claims(t) /\ call[t].kind = kind /\ call[t].num = n

\* What a call's point says of its locals.
JobOK(t) ==
  /\ pc[t] = "idle" => call[t] = NoCall
  /\ pc[t] \in {"ask", "record", "unrecord", "own", "activate"} => call[t].job = "create"
  /\ pc[t] = "destroy" => call[t].job \in {"undo", "destroy", "close"}
  /\ pc[t] = "drop" => call[t].job \in {"create", "undo", "destroy", "close"}
  /\ pc[t] = "back" => call[t].job \in {"destroy", "modify"}
  /\ pc[t] = "modify" => call[t].job = "modify" /\ call[t].kind = "qp"
  /\ pc[t] = "close" => call[t].job = "close"
  /\ Claims(t) \/ pc[t] \in {"ask", "drop"} => call[t].kind \in Kinds
  /\ Claims(t) \/ pc[t] = "drop" => call[t].num \in Objs
  /\ pc[t] = "drop" /\ call[t].job = "create" => call[t].kind = "qp"

JobInv == \A t \in Threads : JobOK(t)

\* cleanup runs alone among the calls of its client, and leaves empty lists.
ClientInv ==
  /\ \A t \in Threads : client[Me(t)] = "closed" => pc[t] = "idle"
  /\ \A t \in Threads : call[t].job = "close" => client[Me(t)] = "closing"
  /\ \A t, u \in Threads : call[t].job = "close" /\ Me(t) = Me(u) /\ t # u => pc[u] = "idle"
  /\ \A c \in Clients : client[c] = "closed" => \A k \in Kinds : owned[c][k] = {}

\* The object of a create until it has a context: nobody else has it.
CreateOK(t) ==
  LET o == call[t].obj IN
  /\ o \in 1 .. made
  /\ obj[o].kind = call[t].kind /\ obj[o].client = Me(t)
  /\ obj[o].rec = "no" /\ obj[o].pinned
  /\ late.obj # o
  /\ pc[t] = "ask" => obj[o].num = 0 /\ obj[o].fw = "none"
  /\ pc[t] # "ask" => obj[o].num = call[t].num
  /\ pc[t] \in {"record", "unrecord"} => Live(o)
  /\ pc[t] = "drop" => obj[o].fw = "gone"

CreateInv ==
  /\ \A t \in Threads : Creating(t) => CreateOK(t)
  /\ \A t, u \in Threads : Creating(t) /\ Creating(u) /\ call[t].obj = call[u].obj => t = u

\* Numbers: never used again for a region, or if the firmware does not; otherwise
\* again for an object of the kind only if no live one has it.
NumInv ==
  /\ \A o \in Objs : made < o => obj[o] = Nothing
  /\ \A o \in Objs : obj[o].kind = "mr" \/ ~world.reuse => obj[o].num \in {0, o}
  /\ \A o \in Objs : Live(o) => obj[o].kind \in Kinds
  /\ \A o, p \in Objs :
       Live(o) /\ Live(p) /\ obj[o].kind = obj[p].kind /\ obj[o].num = obj[p].num
         /\ obj[o].num # 0 => o = p

\* The contexts in a table.  Of those with one number all but the last are dead.
TableInv ==
  /\ \A o \in Objs : obj[o].rec = "in" =>
       /\ obj[o].kind \in Kinds
       /\ \E i \in 1 .. Len(table[obj[o].kind]) : table[obj[o].kind][i] = o
  /\ \A k \in Kinds : \A i \in 1 .. Len(table[k]) :
       LET o == table[k][i] IN
       obj[o].kind = k /\ obj[o].num # 0 /\ obj[o].rec = "in" /\ obj[o].pinned
  /\ \A k \in Kinds : \A i, j \in 1 .. Len(table[k]) : i < j =>
       /\ table[k][i] # table[k][j]
       /\ obj[table[k][i]].num = obj[table[k][j]].num => ~Live(table[k][i])

\* Memory and slots are released together, so that pinned objects have their pairs.
SlotInv ==
  /\ EthSlots \subseteq fDbBitmap
  /\ \A o \in Objs : obj[o].pinned =>
       /\ obj[o].kind \in Kinds
       /\ Pair(obj[o].slot) \subseteq fDbBitmap
       /\ Pair(obj[o].slot) \cap EthSlots = {}
       /\ \A p \in Objs : obj[p].pinned /\ p # o => Pair(obj[o].slot) \cap Pair(obj[p].slot) = {}

\* Every number is in one list or with one call at most.
OneHolder ==
  /\ \A t, u \in Threads : Claims(t) /\ Claim(u, call[t].kind, call[t].num) => t = u
  /\ \A t \in Threads, c \in Clients : Claims(t) => call[t].num \notin owned[c][call[t].kind]
  /\ \A c, d \in Clients, k \in Kinds : c # d => owned[c][k] \cap owned[d][k] = {}

\* As long as no command has timed out, a live object has it.
HeldIsLive ==
  ~quarantined =>
    /\ \A t \in Threads : Claims(t) => Named(call[t].kind, call[t].num) # {}
    /\ \A c \in Clients, k \in Kinds : \A n \in owned[c][k] : Named(k, n) # {}

\* And a live object that has it is one of that client, and has been in the table
\* unless its call is still creating it.
HeldIsOwn ==
  \A o \in Objs : Live(o) /\ obj[o].num # 0 =>
    /\ \A t \in Threads : Claim(t, obj[o].kind, obj[o].num) =>
         /\ Me(t) = obj[o].client
         /\ pc[t] \notin {"record", "unrecord"} => obj[o].rec # "no"
    /\ \A c \in Clients : obj[o].num \in owned[c][obj[o].kind] =>
         c = obj[o].client /\ obj[o].rec # "no"

HoldInv == OneHolder /\ HeldIsLive /\ HeldIsOwn

\* The command that timed out: its object has not changed since.
LateInv ==
  /\ late.op # "none" => late.obj \in Objs /\ quarantined
  /\ late.op = "none" => late.obj = 0
  /\ late.op = "create" =>
       LET o == late.obj IN
       obj[o].fw = "none" /\ obj[o].kind \in Kinds /\ obj[o].num = 0 /\ obj[o].rec = "no"
  /\ late.op = "modify" => obj[late.obj].fw \in {"RST", "INIT", "RTR"}
  /\ late.op = "destroy" => Live(late.obj)

IInv == /\ StateOK /\ JobInv /\ ClientInv /\ CreateInv /\ NumInv /\ TableInv /\ SlotInv
        /\ HoldInv /\ LateInv

(***************************************************************************)
(* What holds until createQP's clean-up has dropped a context that is not  *)
(* its own (blind).                                                        *)
(***************************************************************************)

\* A call drops the context of an object it has destroyed, or that of an object
\* destroyed with the same number before; every such call finds one.
DropInv ==
  \E f \in [Threads -> Objs \cup {0}] :
    \A t \in Threads : Dropping(t) =>
      /\ f[t] \in Objs
      /\ obj[f[t]].rec = "in" /\ ~Live(f[t])
      /\ obj[f[t]].kind = call[t].kind /\ obj[f[t]].num = call[t].num
      /\ \A u \in Threads : Dropping(u) /\ f[u] = f[t] => u = t

\* A live object has lost its context only to free, which keeps its memory.
RecInv ==
  \A o \in Objs : Live(o) /\ obj[o].rec = "out" =>
    /\ \A c \in Clients : client[c] = "closed"
    /\ obj[o].kind = "cq" \/ obj[o].pinned

\* A live QP or region without a context keeps its memory: its creator is at work
\* on it, or has failed to destroy it.
Bare(o) == Live(o) /\ obj[o].rec = "no" /\ obj[o].num # 0 /\ obj[o].kind # "cq"

BareInv == \A o \in Objs : Bare(o) => obj[o].pinned

DInv == DropInv /\ RecInv /\ BareInv

(***************************************************************************)
(* Least elements, numbers, slots and tables.                              *)
(***************************************************************************)

\* A set of naturals that is not empty has a least element.
LEMMA NatMin ==
  ASSUME NEW S \in SUBSET Nat, S # {}
  PROVE  \E m \in S : \A n \in S : m =< n
<1>1. PICK x \in S : \A y \in S : ~(<<y, x>> \in OpToRel(<, Nat))
  BY NatLessThanWellFounded, WFMin, Zenon
<1>2. \A y \in S : ~(y < x)
  BY <1>1 DEF OpToRel
<1> QED  BY <1>2

\* The records of StateOK.
ObjType  == [kind : Kinds \cup {"none"}, client : Clients \cup {"none"},
             num : 0 .. MaxObjs, slot : Slots \cup {NoSlot}, pinned : BOOLEAN,
             fw : {"none", "live", "gone"} \cup QpStates, state : QpStates,
             rec : {"no", "in", "out"}]
CallType == [job : {"none", "create", "undo", "destroy", "modify", "close"},
             kind : Kinds \cup {"none"}, num : 0 .. MaxObjs, obj : 0 .. MaxObjs]

\* The fields of objects and calls.
LEMMA Fields ==
  ASSUME StateOK
  PROVE  /\ obj \in [Objs -> ObjType] /\ call \in [Threads -> CallType]
         /\ \A o \in Objs :
              /\ obj[o].kind \in Kinds \cup {"none"} /\ obj[o].num \in 0 .. MaxObjs
              /\ obj[o].slot \in Slots \cup {NoSlot} /\ obj[o].pinned \in BOOLEAN
              /\ obj[o].fw \in {"none", "live", "gone"} \cup QpStates
              /\ obj[o].state \in QpStates /\ obj[o].rec \in {"no", "in", "out"}
         /\ \A t \in Threads :
              /\ call[t].kind \in Kinds \cup {"none"} /\ call[t].num \in 0 .. MaxObjs
              /\ call[t].obj \in 0 .. MaxObjs
         /\ \A k \in Kinds : table[k] \in Seq(Objs) /\ Len(table[k]) \in Nat
         /\ \A k \in Kinds : \A i \in 1 .. Len(table[k]) : table[k][i] \in Objs
<1>1. obj \in [Objs -> ObjType] /\ call \in [Threads -> CallType]
  BY DEF StateOK, ObjType, CallType
<1>2. \A o \in Objs :
              /\ obj[o].kind \in Kinds \cup {"none"} /\ obj[o].num \in 0 .. MaxObjs
              /\ obj[o].slot \in Slots \cup {NoSlot} /\ obj[o].pinned \in BOOLEAN
              /\ obj[o].fw \in {"none", "live", "gone"} \cup QpStates
              /\ obj[o].state \in QpStates /\ obj[o].rec \in {"no", "in", "out"}
  <2> SUFFICES ASSUME NEW o \in Objs
               PROVE  /\ obj[o].kind \in Kinds \cup {"none"} /\ obj[o].num \in 0 .. MaxObjs
                      /\ obj[o].slot \in Slots \cup {NoSlot} /\ obj[o].pinned \in BOOLEAN
                      /\ obj[o].fw \in {"none", "live", "gone"} \cup QpStates
                      /\ obj[o].state \in QpStates /\ obj[o].rec \in {"no", "in", "out"}
    OBVIOUS
  <2>1. obj[o] \in ObjType
    BY <1>1
  <2> QED  BY <2>1 DEF ObjType
<1>3. \A t \in Threads :
              /\ call[t].kind \in Kinds \cup {"none"} /\ call[t].num \in 0 .. MaxObjs
              /\ call[t].obj \in 0 .. MaxObjs
  <2> SUFFICES ASSUME NEW t \in Threads
               PROVE  /\ call[t].kind \in Kinds \cup {"none"} /\ call[t].num \in 0 .. MaxObjs
                      /\ call[t].obj \in 0 .. MaxObjs
    OBVIOUS
  <2>1. call[t] \in CallType
    BY <1>1
  <2> QED  BY <2>1 DEF CallType
<1>4. \A k \in Kinds : table[k] \in Seq(Objs) /\ Len(table[k]) \in Nat
  BY DEF StateOK
<1>5. \A k \in Kinds : \A i \in 1 .. Len(table[k]) : table[k][i] \in Objs
  BY <1>4
<1> QED  BY <1>1, <1>2, <1>3, <1>4, <1>5, Zenon

\* The loops over a table find the first entry with the number, if there is one.
LEMMA FirstMatchIs ==
  ASSUME StateOK, NEW kind \in Kinds, NEW n
  PROVE  /\ FirstMatch(kind, n) \in 0 .. Len(table[kind])
         /\ FirstMatch(kind, n) = 0 =>
              \A j \in 1 .. Len(table[kind]) : obj[table[kind][j]].num # n
         /\ FirstMatch(kind, n) # 0 =>
              /\ FirstMatch(kind, n) \in 1 .. Len(table[kind])
              /\ obj[table[kind][FirstMatch(kind, n)]].num = n
              /\ \A j \in 1 .. Len(table[kind]) :
                   obj[table[kind][j]].num = n => FirstMatch(kind, n) =< j
<1> DEFINE hits == {i \in 1 .. Len(table[kind]) : obj[table[kind][i]].num = n}
<1>0. Len(table[kind]) \in Nat
  BY Fields
<1>1. FirstMatch(kind, n) = IF hits = {} THEN 0 ELSE CHOOSE i \in hits : \A j \in hits : i =< j
  BY DEF FirstMatch
<1>2. CASE hits = {}
  BY <1>0, <1>1, <1>2
<1>3. CASE hits # {}
  <2>1. hits \in SUBSET Nat
    BY <1>0
  <2>2. \E i \in hits : \A j \in hits : i =< j
    BY <2>1, <1>3, NatMin
  <2>3. /\ FirstMatch(kind, n) \in hits
        /\ \A j \in hits : FirstMatch(kind, n) =< j
    <3> HIDE DEF hits
    <3> QED  BY <2>2, <1>1, <1>3
  <2> QED  BY <2>3, <1>0
<1> QED  BY <1>2, <1>3

\* Without takes one entry out and keeps the order of the others.
LEMMA WithoutIs ==
  ASSUME NEW S, NEW s \in Seq(S), NEW i \in 1 .. Len(s)
  PROVE  /\ Without(s, i) \in Seq(S)
         /\ Len(Without(s, i)) = Len(s) - 1
         /\ \A j \in 1 .. Len(s) - 1 : Without(s, i)[j] = IF j < i THEN s[j] ELSE s[j + 1]
<1> DEFINE a == SubSeq(s, 1, i - 1)  b == SubSeq(s, i + 1, Len(s))
<1>0. Len(s) \in Nat /\ \A j \in 1 .. Len(s) : s[j] \in S
  OBVIOUS
<1>1. /\ a \in Seq(S) /\ Len(a) = i - 1
      /\ \A j \in 1 .. i - 1 : a[j] = s[j]
  <2>1. \A j \in 1 .. i - 1 : s[j] \in S
    BY <1>0
  <2>2. /\ a \in Seq(S) /\ Len(a) = IF 1 <= i - 1 THEN (i - 1) - 1 + 1 ELSE 0
        /\ \A j \in 1 .. (i - 1) - 1 + 1 : a[j] = s[1 + j - 1]
    BY <1>0, <2>1, SubSeqProperties
  <2> QED  BY <2>2, <1>0
<1>2. /\ b \in Seq(S) /\ Len(b) = Len(s) - i
      /\ \A j \in 1 .. Len(s) - i : b[j] = s[i + j]
  <2>1. \A j \in i + 1 .. Len(s) : s[j] \in S
    BY <1>0
  <2>2. /\ b \in Seq(S) /\ Len(b) = IF i + 1 <= Len(s) THEN Len(s) - (i + 1) + 1 ELSE 0
        /\ \A j \in 1 .. Len(s) - (i + 1) + 1 : b[j] = s[(i + 1) + j - 1]
    BY <1>0, <2>1, SubSeqProperties
  <2> QED  BY <2>2, <1>0
<1>3. Without(s, i) = a \o b
  BY DEF Without
<1> HIDE DEF a, b
<1>4. /\ a \o b \in Seq(S) /\ Len(a \o b) = Len(a) + Len(b)
      /\ \A j \in 1 .. Len(a) + Len(b) : (a \o b)[j] = IF j <= Len(a) THEN a[j] ELSE b[j - Len(a)]
  BY <1>1, <1>2, ConcatProperties
<1>5. Len(Without(s, i)) = Len(s) - 1
  BY <1>0, <1>1, <1>2, <1>3, <1>4
<1>6. ASSUME NEW j \in 1 .. Len(s) - 1
      PROVE  Without(s, i)[j] = IF j < i THEN s[j] ELSE s[j + 1]
  <2>1. Without(s, i)[j] = IF j <= i - 1 THEN a[j] ELSE b[j - (i - 1)]
    BY <1>0, <1>1, <1>2, <1>3, <1>4
  <2>2. CASE j < i
    BY <2>1, <2>2, <1>0, <1>1
  <2>3. CASE ~(j < i)
    <3>1. j - (i - 1) \in 1 .. Len(s) - i /\ i + (j - (i - 1)) = j + 1
      BY <2>3, <1>0
    <3>2. ~(j <= i - 1)
      BY <2>3, <1>0
    <3>3. b[j - (i - 1)] = s[i + (j - (i - 1))]
      BY <3>1, <1>2
    <3> QED  BY <2>1, <2>3, <3>1, <3>2, <3>3
  <2> QED  BY <2>2, <2>3
<1> QED  BY <1>3, <1>4, <1>5, <1>6

\* allocDbSlots finds a pair in the page that nobody has.
LEMMA AllocIs ==
  ASSUME StateOK, NEW kind \in Kinds, kind # "mr" => FreePairs # {}
  PROVE  /\ AllocDbSlots(kind) \in Slots \cup {NoSlot}
         /\ Pair(AllocDbSlots(kind)) \subseteq Slots
         /\ Pair(AllocDbSlots(kind)) \cap fDbBitmap = {}
<1>1. CASE kind = "mr"
  BY <1>1 DEF AllocDbSlots, Pair
<1>2. CASE kind # "mr"
  <2>1. FreePairs \in SUBSET Nat
    BY VerbsAssumption DEF FreePairs, Slots
  <2>2. \E s \in FreePairs : \A r \in FreePairs : s =< r
    BY <2>1, <1>2, NatMin
  <2>3. AllocDbSlots(kind) \in FreePairs
    BY <2>2, <1>2 DEF AllocDbSlots
  <2> QED  BY <2>3 DEF FreePairs, PairFree, Pair
<1> QED  BY <1>1, <1>2

\* There is always a number left, since the object that gets it is not live.
LEMMA NumberLeft ==
  ASSUME StateOK, NEW o \in Objs, ~Live(o), NEW L \in SUBSET Objs, \A p \in L : Live(p)
  PROVE  Objs \ {obj[p].num : p \in L} # {}
<1> SUFFICES ASSUME Objs \subseteq {obj[p].num : p \in L}  PROVE FALSE
  OBVIOUS
<1> DEFINE M == {p \in L : obj[p].num \in Objs}
           f == [p \in M |-> obj[p].num]
<1>1. f \in [M -> Objs] /\ \A n \in Objs : \E p \in M : f[p] = n
  OBVIOUS
<1>2. f \in Surjection(M, Objs)
  <2> HIDE DEF M, f
  <2> QED  BY <1>1 DEF Surjection
<1>3. IsFiniteSet(Objs) /\ Cardinality(Objs) \in Nat
  <2>1. MaxObjs \in Int /\ 1 \in Int
    BY VerbsAssumption
  <2> QED  BY <2>1, FS_Interval, FS_CardinalityType DEF Objs
<1>4. /\ IsFiniteSet(Objs \ {o}) /\ Cardinality(Objs \ {o}) = Cardinality(Objs) - 1
  BY <1>3, FS_RemoveElement
<1>5. M \in SUBSET (Objs \ {o})
  OBVIOUS
<1> HIDE DEF M, f
<1>6. IsFiniteSet(M) /\ Cardinality(M) <= Cardinality(Objs \ {o}) /\ Cardinality(M) \in Nat
  BY <1>4, <1>5, FS_Subset, FS_CardinalityType
<1>7. Cardinality(Objs) <= Cardinality(M)
  BY <1>2, <1>6, FS_Surjection
<1> QED  BY <1>3, <1>4, <1>6, <1>7

\* The firmware numbers a new object so that no live one of its kind has the number.
LEMMA NewNumberIs ==
  ASSUME StateOK, NumInv, NEW o \in Objs, ~Live(o), obj[o].kind \in Kinds
  PROVE  /\ NewNumber(o) \in Objs
         /\ \A p \in Objs : Live(p) /\ obj[p].kind = obj[o].kind => obj[p].num # NewNumber(o)
         /\ obj[o].kind = "mr" \/ ~world.reuse => NewNumber(o) = o
<1> DEFINE L    == {p \in Objs : Live(p) /\ obj[p].kind = obj[o].kind}
           used == {obj[p].num : p \in L}
           R    == Objs \ used
<1>1. NewNumber(o) = IF obj[o].kind # "mr" /\ world.reuse
                     THEN CHOOSE n \in R : \A m \in R : n =< m
                     ELSE o
  BY DEF NewNumber
<1>2. CASE obj[o].kind # "mr" /\ world.reuse
  <2>1. R # {}
    <3>1. L \in SUBSET Objs /\ \A p \in L : Live(p)
      OBVIOUS
    <3> HIDE DEF L
    <3> QED  BY <3>1, NumberLeft
  <2>2. R \in SUBSET Nat
    BY VerbsAssumption DEF Objs
  <2> HIDE DEF R
  <2>3. \E n \in R : \A m \in R : n =< m
    BY <2>1, <2>2, NatMin
  <2>4. NewNumber(o) \in R
    BY <2>3, <1>1, <1>2
  <2> QED  BY <2>4, <1>2 DEF R
<1>3. CASE ~(obj[o].kind # "mr" /\ world.reuse)
  <2>1. NewNumber(o) = o
    BY <1>1, <1>3
  <2>2. \A p \in Objs : Live(p) /\ obj[p].kind = obj[o].kind => obj[p].num \in {0, p} /\ p # o
    BY <1>3 DEF NumInv
  <2> QED  BY <2>1, <2>2, VerbsAssumption DEF Objs
<1> QED  BY <1>2, <1>3

(***************************************************************************)
(* What a step leaves alone keeps its part of the invariant.               *)
(***************************************************************************)

\* Unchanged objects, tables and slots.
LEMMA MemFrame ==
  ASSUME NumInv, TableInv, SlotInv, LateInv, world'.reuse = world.reuse,
         UNCHANGED <<made, obj, table, fDbBitmap, late, quarantined>>
  PROVE  NumInv' /\ TableInv' /\ SlotInv' /\ LateInv'
<1>1. NumInv'
  BY DEF NumInv, Live
<1>2. TableInv'
  BY DEF TableInv, Live
<1>3. SlotInv'
  BY DEF SlotInv
<1>4. LateInv'
  BY DEF LateInv, Live
<1> QED  BY <1>1, <1>2, <1>3, <1>4

\* One call changes its point.
LEMMA JobFrame ==
  ASSUME JobInv, NEW t \in Threads, JobOK(t)',
         \A u \in Threads \ {t} : pc'[u] = pc[u] /\ call'[u] = call[u]
  PROVE  JobInv'
<1> SUFFICES ASSUME NEW u \in Threads \ {t}  PROVE JobOK(u)'
  BY DEF JobInv
<1>1. JobOK(u)
  BY DEF JobInv
<1> QED  BY <1>1 DEF JobOK, Claims

\* One call of a client that is not closed changes its point.
LEMMA ClientFrame ==
  ASSUME StateOK, ClientInv, NEW t \in Threads,
         \A u \in Threads \ {t} : pc'[u] = pc[u] /\ call'[u] = call[u],
         \A c \in Clients \ {Me(t)} : owned'[c] = owned[c],
         client' = client, client[Me(t)] # "closed",
         pc[t] # "idle" \/ client[Me(t)] = "open",
         call'[t].job = "close" => call[t].job = "close"
  PROVE  ClientInv'
<1>1. \A u \in Threads : client'[Me(u)] = "closed" => pc'[u] = "idle"
  BY DEF ClientInv
<1>2. \A u \in Threads : call'[u].job = "close" => client'[Me(u)] = "closing"
  BY DEF ClientInv
<1>3. \A u, v \in Threads :
        call'[u].job = "close" /\ Me(u) = Me(v) /\ u # v => pc'[v] = "idle"
  BY DEF ClientInv
<1>4. \A c \in Clients : client'[c] = "closed" => \A k \in Kinds : owned'[c][k] = {}
  BY DEF ClientInv
<1> QED  BY <1>1, <1>2, <1>3, <1>4 DEF ClientInv, Me

\* The objects under creation are left alone.
LEMMA CreateFrame ==
  ASSUME StateOK, CreateInv, made' \in Nat, made =< made',
         \A u \in Threads : Creating(u)' =>
           /\ Creating(u) /\ pc'[u] = pc[u] /\ call'[u] = call[u]
           /\ obj'[call[u].obj] = obj[call[u].obj]
           /\ late'.obj # call[u].obj
  PROVE  CreateInv'
<1>1. ASSUME NEW t \in Threads, Creating(t)'
      PROVE  CreateOK(t)'
  <2>1. /\ CreateOK(t) /\ pc'[t] = pc[t] /\ call'[t] = call[t]
        /\ obj'[call[t].obj] = obj[call[t].obj] /\ late'.obj # call[t].obj
    BY <1>1 DEF CreateInv
  <2>2. made \in Nat
    BY VerbsAssumption DEF StateOK
  <2> QED  BY <2>1, <2>2 DEF CreateOK, Live, Me
<1>2. ASSUME NEW t \in Threads, NEW u \in Threads, Creating(t)', Creating(u)',
             call'[t].obj = call'[u].obj
      PROVE  t = u
  BY <1>2 DEF CreateInv
<1> QED  BY <1>1, <1>2 DEF CreateInv

(***************************************************************************)
(* A number moves between the list of a client and a call of the client,   *)
(* or is let go; objects may die, one with t's number if t lets it go.     *)
(***************************************************************************)
Early == {"record", "unrecord"}

LEMMA HoldMove ==
  ASSUME StateOK, JobInv, NumInv, HoldInv, NEW t \in Threads,
         \A u \in Threads \ {t} : pc'[u] = pc[u] /\ call'[u] = call[u],
         \A c \in Clients \ {Me(t)} : owned'[c] = owned[c],
         \A k \in Kinds : \A n \in owned'[Me(t)][k] : n \in owned[Me(t)][k] \/ Claim(t, k, n),
         Claims(t)' =>
           /\ call'[t].kind \in Kinds
           /\ call'[t].num \notin owned'[Me(t)][call'[t].kind]
           /\ \/ Claim(t, call'[t].kind, call'[t].num)
              \/ call'[t].num \in owned[Me(t)][call'[t].kind],
         pc[t] \in Early =>
           /\ owned' = owned
           /\ Claims(t)' => \/ pc'[t] \in Early
                            \/ \A o \in Named(call[t].kind, call[t].num) : obj'[o].rec # "no",
         \A o \in Objs : Live(o)' /\ obj'[o].num # 0 =>
           /\ Live(o) /\ obj'[o].kind = obj[o].kind /\ obj'[o].num = obj[o].num
           /\ obj'[o].client = obj[o].client /\ (obj[o].rec # "no" => obj'[o].rec # "no"),
         ~quarantined' =>
           /\ ~quarantined
           /\ \A k \in Kinds, n \in Nat : Named(k, n) # {} /\ Named(k, n)' = {} =>
                Claim(t, k, n) /\ ~Claims(t)' /\ owned' = owned
  PROVE  HoldInv'
<1> USE DEF HoldInv
<1>0. /\ Me(t) \in Clients
      /\ \A c \in Clients, k \in Kinds : owned[c][k] \subseteq Objs
      /\ \A u \in Threads : Claims(u) => call[u].kind \in Kinds /\ call[u].num \in Nat
  <2>1. Me(t) \in Clients
    BY DEF Me, Clients
  <2>2. \A c \in Clients, k \in Kinds : owned[c][k] \subseteq Objs
    BY DEF StateOK
  <2>3. \A u \in Threads : Claims(u) => call[u].kind \in Kinds /\ call[u].num \in Nat
    BY VerbsAssumption DEF JobInv, JobOK, Objs
  <2> QED  BY <2>1, <2>2, <2>3
<1>1. \A u \in Threads \ {t} : Claims(u)' = Claims(u) /\ \A k, n : Claim(u, k, n)' = Claim(u, k, n)
  BY DEF Claims, Claim
<1>2. \A u \in Threads : Claims(u) <=> Claim(u, call[u].kind, call[u].num)
  BY DEF Claim
<1>3. \A k, n : Claim(t, k, n)' <=> Claims(t)' /\ call'[t].kind = k /\ call'[t].num = n
  BY DEF Claim
<1>4. \A u, v \in Threads, k \in Kinds, n \in Nat : Claim(u, k, n) /\ Claim(v, k, n) => u = v
  BY DEF OneHolder, Claim
<1>5. \A u \in Threads, c \in Clients, k \in Kinds, n \in Nat : Claim(u, k, n) => n \notin owned[c][k]
  BY DEF OneHolder, Claim
<1>6. Claims(t)' => call'[t].num \in Nat
  BY <1>0, VerbsAssumption DEF Claim, Objs
<1>7. \A c \in Clients, d \in Clients, k \in Kinds, n \in Nat :
        n \in owned[c][k] /\ n \in owned[d][k] => c = d
  BY DEF OneHolder
<1>8. \A c \in Clients, k \in Kinds : owned'[c][k] \subseteq Nat
  BY <1>0, VerbsAssumption DEF Objs, Claim
<1>9. \A u \in Threads \ {t} : Claims(u) => call'[u] = call[u] /\ call[u].kind \in Kinds /\ call[u].num \in Nat
  BY <1>0
<1>10. OneHolder'
  <2>1. ASSUME NEW u \in Threads, NEW v \in Threads, Claims(u)',
               Claim(v, call[u].kind, call[u].num)'
        PROVE  u = v
    <3>1. CASE u # t /\ v # t
      BY <3>1, <2>1, <1>1, <1>4, <1>9, <1>2
    <3>2. CASE u = t /\ v # t
      <4>1. Claim(v, call'[t].kind, call'[t].num)
        BY <3>2, <2>1, <1>1
      <4>2. call'[t].kind \in Kinds /\ call'[t].num \in Nat
        BY <3>2, <2>1, <1>6
      <4>3. ~Claim(t, call'[t].kind, call'[t].num)
        BY <4>1, <4>2, <3>2, <1>4
      <4>4. call'[t].num \in owned[Me(t)][call'[t].kind]
        BY <4>3, <3>2, <2>1
      <4> QED  BY <4>1, <4>2, <4>4, <1>5, <1>0
    <3>3. CASE u # t /\ v = t
      <4>1. Claim(u, call'[t].kind, call'[t].num) /\ Claims(t)'
        BY <3>3, <2>1, <1>1, <1>2, <1>3
      <4>2. call'[t].kind \in Kinds /\ call'[t].num \in Nat
        BY <4>1, <1>6
      <4>3. ~Claim(t, call'[t].kind, call'[t].num)
        BY <4>1, <4>2, <3>3, <1>4
      <4>4. call'[t].num \in owned[Me(t)][call'[t].kind]
        BY <4>3, <4>1
      <4> QED  BY <4>1, <4>2, <4>4, <1>5, <1>0
    <3> QED  BY <3>1, <3>2, <3>3
  <2>2. ASSUME NEW u \in Threads, NEW c \in Clients, Claims(u)',
               call'[u].num \in owned'[c][call'[u].kind]
        PROVE  FALSE
    <3>1. CASE u # t
      <4>1. Claim(u, call'[u].kind, call'[u].num) /\ call'[u].kind \in Kinds /\ call'[u].num \in Nat
        BY <3>1, <2>2, <1>1, <1>2, <1>9
      <4>2. c = Me(t) /\ Claim(t, call'[u].kind, call'[u].num)
        BY <4>1, <2>2, <1>5
      <4> QED  BY <4>1, <4>2, <3>1, <1>4
    <3>2. CASE u = t
      <4>1. c # Me(t) /\ owned'[c] = owned[c]
        BY <3>2, <2>2
      <4>2. call'[t].kind \in Kinds /\ call'[t].num \in Nat
        BY <3>2, <2>2, <1>6
      <4>3. call'[t].num \in owned[c][call'[t].kind]
        BY <4>1, <3>2, <2>2
      <4>4. ~Claim(t, call'[t].kind, call'[t].num)
        BY <4>2, <4>3, <1>5
      <4>5. call'[t].num \in owned[Me(t)][call'[t].kind]
        BY <4>4, <3>2, <2>2
      <4> QED  BY <4>1, <4>2, <4>3, <4>5, <1>7, <1>0
    <3> QED  BY <3>1, <3>2
  <2>3. ASSUME NEW c \in Clients, NEW d \in Clients, NEW k \in Kinds, c # d,
               NEW n \in owned'[c][k] \cap owned'[d][k]
        PROVE  FALSE
    <3>1. n \in Nat
      BY <1>8
    <3>2. CASE c # Me(t) /\ d # Me(t)
      BY <3>1, <3>2, <2>3, <1>7
    <3>3. CASE c = Me(t)
      BY <3>1, <3>3, <2>3, <1>7, <1>5
    <3>4. CASE d = Me(t)
      BY <3>1, <3>4, <2>3, <1>7, <1>5
    <3> QED  BY <3>2, <3>3, <3>4
  <2> QED  BY <2>1, <2>2, <2>3 DEF OneHolder
<1>11. HeldIsLive'
  <2> SUFFICES ASSUME ~quarantined'
               PROVE  /\ \A u \in Threads : Claims(u)' => Named(call[u].kind, call[u].num)' # {}
                      /\ \A c \in Clients, k \in Kinds : \A n \in owned'[c][k] : Named(k, n)' # {}
    BY DEF HeldIsLive
  <2>0. /\ \A u \in Threads, k \in Kinds, n \in Nat : Claim(u, k, n) => Named(k, n) # {}
        /\ \A c \in Clients, k \in Kinds, n \in Nat : n \in owned[c][k] => Named(k, n) # {}
    BY DEF HeldIsLive, Claim
  <2>1. ASSUME NEW u \in Threads, NEW k \in Kinds, NEW n \in Nat, Claim(u, k, n)'
        PROVE  Named(k, n)' # {}
    <3>1. CASE u # t
      <4>1. Claim(u, k, n) /\ Named(k, n) # {}
        BY <3>1, <2>1, <2>0, <1>1
      <4>2. ~Claim(t, k, n)
        BY <4>1, <3>1, <1>4
      <4> QED  BY <4>1, <4>2
    <3>2. CASE u = t
      <4>1. Claims(t)' /\ (Claim(t, k, n) \/ n \in owned[Me(t)][k])
        BY <3>2, <2>1, <1>3
      <4> QED  BY <4>1, <2>0, <1>0
    <3> QED  BY <3>1, <3>2
  <2>2. ASSUME NEW c \in Clients, NEW k \in Kinds, NEW n \in owned'[c][k]
        PROVE  Named(k, n)' # {}
    <3>1. n \in Nat
      BY <1>8
    <3>2. Named(k, n) # {}
      BY <3>1, <2>0, <2>2, <1>0
    <3>3. ASSUME Claim(t, k, n), owned' = owned  PROVE FALSE
      BY <3>1, <3>3, <1>5
    <3> QED  BY <3>1, <3>2, <3>3
  <2>3. \A u \in Threads : Claims(u)' => Claim(u, call[u].kind, call[u].num)'
    BY DEF Claim
  <2>4. \A u \in Threads : Claims(u)' => call'[u].kind \in Kinds /\ call'[u].num \in Nat
    BY <1>1, <1>6, <1>9
  <2> QED  BY <2>1, <2>2, <2>3, <2>4
<1>12. HeldIsOwn'
  <2> SUFFICES ASSUME NEW o \in Objs, Live(o)', obj'[o].num # 0
               PROVE  /\ \A u \in Threads : Claim(u, obj[o].kind, obj[o].num)' =>
                           /\ Me(u) = obj'[o].client
                           /\ pc'[u] \notin Early => obj'[o].rec # "no"
                      /\ \A c \in Clients : obj'[o].num \in owned'[c][obj'[o].kind] =>
                           c = obj'[o].client /\ obj'[o].rec # "no"
    BY DEF HeldIsOwn, Me, Early
  <2>1. /\ Live(o) /\ obj[o].num # 0 /\ obj'[o].kind = obj[o].kind /\ obj'[o].num = obj[o].num
        /\ obj'[o].client = obj[o].client /\ (obj[o].rec # "no" => obj'[o].rec # "no")
    OBVIOUS
  <2>2. /\ \A u \in Threads : Claim(u, obj[o].kind, obj[o].num) =>
             /\ Me(u) = obj[o].client
             /\ pc[u] \notin Early => obj[o].rec # "no"
        /\ \A c \in Clients : obj[o].num \in owned[c][obj[o].kind] =>
             c = obj[o].client /\ obj[o].rec # "no"
    BY <2>1 DEF HeldIsOwn, Early
  <2>3. ASSUME NEW u \in Threads, Claim(u, obj[o].kind, obj[o].num)'
        PROVE  Me(u) = obj'[o].client /\ (pc'[u] \notin Early => obj'[o].rec # "no")
    <3>1. CASE u # t
      BY <3>1, <2>1, <2>2, <2>3, <1>1
    <3>2. CASE u = t
      <4>1. Claims(t)' /\ call'[t].kind = obj[o].kind /\ call'[t].num = obj[o].num
        BY <3>2, <2>1, <2>3, <1>3
      <4>2. Claim(t, obj[o].kind, obj[o].num) \/ obj[o].num \in owned[Me(t)][obj[o].kind]
        BY <4>1
      <4>3. CASE obj[o].num \in owned[Me(t)][obj[o].kind]
        BY <3>2, <4>3, <2>1, <2>2, <1>0
      <4>4. CASE Claim(t, obj[o].kind, obj[o].num)
        <5>1. o \in Named(call[t].kind, call[t].num)
          BY <4>4, <2>1 DEF Claim, Named
        <5> QED  BY <3>2, <4>1, <4>4, <5>1, <2>1, <2>2
      <4> QED  BY <4>2, <4>3, <4>4
    <3> QED  BY <3>1, <3>2
  <2>4. ASSUME NEW c \in Clients, obj'[o].num \in owned'[c][obj'[o].kind]
        PROVE  c = obj'[o].client /\ obj'[o].rec # "no"
    <3>1. CASE c # Me(t)
      BY <3>1, <2>1, <2>2, <2>4
    <3>2. CASE c = Me(t) /\ obj[o].num \in owned[c][obj[o].kind]
      BY <3>2, <2>1, <2>2
    <3>3. CASE c = Me(t) /\ obj[o].num \notin owned[c][obj[o].kind] /\ obj[o].kind \in Kinds
      <4>1. Claim(t, obj[o].kind, obj[o].num) /\ owned' # owned
        BY <3>3, <2>1, <2>4
      <4>2. pc[t] \notin Early
        BY <4>1
      <4> QED  BY <3>3, <4>1, <4>2, <2>1, <2>2
    <3>4. obj[o].kind \in Kinds
      BY <2>1 DEF NumInv
    <3> QED  BY <3>1, <3>2, <3>3, <3>4
  <2> QED  BY <2>3, <2>4
<1> QED  BY <1>10, <1>11, <1>12

\* A step of t on the client's lists and its own point, with the objects as they are.
LEMMA QuietStep ==
  ASSUME IInv, StateOK', ClientInv', NEW t \in Threads, JobOK(t)', ~Creating(t)',
         \A u \in Threads \ {t} : pc'[u] = pc[u] /\ call'[u] = call[u],
         \A c \in Clients \ {Me(t)} : owned'[c] = owned[c],
         UNCHANGED <<made, obj, table, fDbBitmap, late, quarantined>>,
         world'.reuse = world.reuse,
         pc[t] \notin Early, pc'[t] \notin Early,
         \A k \in Kinds : \A n \in owned'[Me(t)][k] : n \in owned[Me(t)][k] \/ Claim(t, k, n),
         Claims(t)' =>
           /\ call'[t].kind \in Kinds
           /\ call'[t].num \notin owned'[Me(t)][call'[t].kind]
           /\ \/ Claim(t, call'[t].kind, call'[t].num)
              \/ call'[t].num \in owned[Me(t)][call'[t].kind]
  PROVE  IInv'
<1> USE DEF IInv
<1>1. NumInv' /\ TableInv' /\ SlotInv' /\ LateInv'
  BY MemFrame
<1>2. JobInv'
  BY JobFrame
<1>3. CreateInv'
  <2>1. made \in Nat
    BY VerbsAssumption DEF StateOK
  <2>2. ASSUME NEW u \in Threads, Creating(u)'
        PROVE  Creating(u) /\ u # t /\ CreateOK(u)
    BY <2>2 DEF Creating, CreateInv
  <2> QED  BY <2>1, <2>2, CreateFrame DEF CreateOK
<1>4. HoldInv'
  <2>1. \A o \in Objs : Live(o)' = Live(o)
    BY DEF Live
  <2>2. \A k, n : Named(k, n)' = Named(k, n)
    BY DEF Named, Live
  <2> QED  BY <2>1, <2>2, HoldMove
<1> QED  BY <1>1, <1>2, <1>3, <1>4

\* An allocation that fails leaves the rest of the world as it is.
LEMMA WorldStep ==
  ASSUME StateOK, OutOfMemory \/ Allocated
  PROVE  world' \in WorldType /\ world'.reuse = world.reuse
<1>1. CASE Allocated
  BY <1>1 DEF Allocated, StateOK
<1>2. CASE OutOfMemory
  <2>1. /\ world \in WorldType /\ world.shortages > 0
        /\ world' = [world EXCEPT !.shortages = world.shortages - 1]
    BY <1>2 DEF OutOfMemory, StateOK
  <2>2. world.shortages \in 0 .. MaxObjs /\ MaxObjs \in Nat
    BY <2>1, VerbsAssumption DEF WorldType
  <2>3. world.shortages - 1 \in 0 .. MaxObjs
    BY <2>1, <2>2
  <2> QED  BY <2>1, <2>3 DEF WorldType
<1> QED  BY <1>1, <1>2

\* The points of a call, and the start of a call on a number of the list.
Points == {"idle", "ask", "record", "unrecord", "own", "activate",
           "destroy", "drop", "back", "modify", "close"}

\* A call that returns.
LEMMA DoneIs ==
  ASSUME StateOK, NEW t \in Threads, Done(t)
  PROVE  /\ pc' \in [Threads -> Points] /\ call' \in [Threads -> CallType]
         /\ \A u \in Threads \ {t} : pc'[u] = pc[u] /\ call'[u] = call[u]
         /\ call[t].job = "close" => pc'[t] = "close" /\ call'[t] = call[t]
         /\ call[t].job # "close" => pc'[t] = "idle" /\ call'[t] = NoCall
<1>0. pc \in [Threads -> Points] /\ call \in [Threads -> CallType]
  BY Fields DEF StateOK, Points
<1>1. NoCall \in CallType
  BY VerbsAssumption DEF NoCall, CallType
<1> QED  BY <1>0, <1>1 DEF Done, Goto, Points

\* A call that goes on.
LEMMA GotoIs ==
  ASSUME StateOK, NEW t \in Threads, NEW p \in Points, Goto(t, p)
  PROVE  /\ pc' \in [Threads -> Points] /\ call' \in [Threads -> CallType]
         /\ \A u \in Threads \ {t} : pc'[u] = pc[u]
         /\ pc'[t] = p /\ call' = call
<1>0. pc \in [Threads -> Points] /\ call \in [Threads -> CallType]
  BY Fields DEF StateOK, Points
<1> QED  BY <1>0 DEF Goto

\* addOwned and removeOwned.
LEMMA OwnedIs ==
  ASSUME StateOK, NEW c \in Clients, NEW k \in Kinds, NEW S \in SUBSET Objs,
         owned' = [owned EXCEPT ![c][k] = S]
  PROVE  /\ owned' \in [Clients -> [Kinds -> SUBSET Objs]]
         /\ \A d \in Clients \ {c} : owned'[d] = owned[d]
         /\ \A l \in Kinds : owned'[c][l] = IF l = k THEN S ELSE owned[c][l]
BY DEF StateOK

\* The types of a step that leaves the objects alone.
LEMMA QuietType ==
  ASSUME StateOK, world' \in WorldType, UNCHANGED <<roce, made, memVars, cmdVars>>,
         owned' \in [Clients -> [Kinds -> SUBSET Objs]],
         fActiveCq' \in [Clients -> 0 .. MaxObjs],
         client' \in [Clients -> {"open", "closing", "closed"}],
         pc' \in [Threads -> Points], call' \in [Threads -> CallType]
  PROVE  StateOK'
BY DEF StateOK, memVars, cmdVars, Points, CallType

\* The client of a call.
LEMMA MeIs ==
  ASSUME NEW t \in Threads
  PROVE  Me(t) \in Clients /\ Me(t)' = Me(t)
BY DEF Me, Clients

\* A call that is under way has not been overtaken by the close of its client.
LEMMA NotClosed ==
  ASSUME StateOK, ClientInv, NEW t \in Threads, pc[t] # "idle"
  PROVE  client[Me(t)] # "closed"
BY DEF ClientInv

(***************************************************************************)
(* The calls, as far as they leave the objects alone.                      *)
(***************************************************************************)

\* addOwned behind a create.
LEMMA OwnStep ==
  ASSUME IInv, NEW t \in Threads, Own(t)
  PROVE  IInv'
<1> USE DEF IInv
<1>0. /\ pc[t] = "own" /\ UNCHANGED <<lifeVars, made, memVars, fActiveCq, cmdVars>>
      /\ Claims(t) /\ call[t].kind \in Kinds /\ call[t].num \in Objs /\ call[t].job = "create"
      /\ Me(t) \in Clients /\ client[Me(t)] # "closed"
  <2>1. pc[t] = "own" /\ UNCHANGED <<lifeVars, made, memVars, fActiveCq, cmdVars>>
    BY DEF Own
  <2>2. JobOK(t)
    BY DEF JobInv
  <2> QED  BY <2>1, <2>2, MeIs, NotClosed DEF JobOK, Claims
<1>1. Claim(t, call[t].kind, call[t].num)
  BY <1>0 DEF Claim
<1>2. CASE /\ owned' = [owned EXCEPT ![Me(t)][call[t].kind] = @ \cup {call[t].num}]
           /\ IF call[t].kind = "cq" THEN Goto(t, "activate") ELSE Done(t)
           /\ Allocated
  <2>1. /\ owned' \in [Clients -> [Kinds -> SUBSET Objs]]
        /\ \A d \in Clients \ {Me(t)} : owned'[d] = owned[d]
        /\ \A l \in Kinds : owned'[Me(t)][l] =
             IF l = call[t].kind THEN owned[Me(t)][l] \cup {call[t].num} ELSE owned[Me(t)][l]
    <3> DEFINE S == owned[Me(t)][call[t].kind] \cup {call[t].num}
    <3>1. S \in SUBSET Objs
      BY <1>0 DEF StateOK
    <3>2. owned' = [owned EXCEPT ![Me(t)][call[t].kind] = S]
      BY <1>2
    <3> HIDE DEF S
    <3>3. /\ owned' \in [Clients -> [Kinds -> SUBSET Objs]]
          /\ \A d \in Clients \ {Me(t)} : owned'[d] = owned[d]
          /\ \A l \in Kinds : owned'[Me(t)][l] = IF l = call[t].kind THEN S ELSE owned[Me(t)][l]
      BY <3>1, <3>2, <1>0, OwnedIs
    <3> QED  BY <3>3 DEF S
  <2>2. /\ pc' \in [Threads -> Points] /\ call' \in [Threads -> CallType]
        /\ \A u \in Threads \ {t} : pc'[u] = pc[u] /\ call'[u] = call[u]
        /\ \/ pc'[t] = "activate" /\ call'[t] = call[t]
           \/ pc'[t] = "idle" /\ call'[t] = NoCall
    <3>1. CASE call[t].kind = "cq"
      <4>1. Goto(t, "activate") /\ "activate" \in Points
        BY <1>2, <3>1 DEF Points
      <4> QED  BY <4>1, GotoIs
    <3>2. CASE call[t].kind # "cq"
      BY <1>2, <1>0, <3>2, DoneIs
    <3> QED  BY <3>1, <3>2
  <2>3. StateOK'
    BY <1>0, <1>2, <2>1, <2>2, WorldStep, QuietType DEF lifeVars, StateOK
  <2>4. ClientInv'
    BY <1>0, <2>1, <2>2, ClientFrame DEF lifeVars, NoCall
  <2>5. JobOK(t)' /\ ~Creating(t)' /\ ~Claims(t)'
    BY <1>0, <2>2 DEF JobOK, Creating, Claims, NoCall
  <2>6. \A k \in Kinds : \A n \in owned'[Me(t)][k] : n \in owned[Me(t)][k] \/ Claim(t, k, n)
    BY <2>1, <1>1
  <2>7. world'.reuse = world.reuse
    BY <1>2, WorldStep
  <2> QED  BY <1>0, <2>1, <2>2, <2>3, <2>4, <2>5, <2>6, <2>7, QuietStep
             DEF Early, memVars, cmdVars
<1>3. CASE /\ OutOfMemory
           /\ pc' = [pc EXCEPT ![t] = "destroy"]
           /\ call' = [call EXCEPT ![t].job = "undo", ![t].obj = 0]
           /\ UNCHANGED owned
  <2>2. /\ pc' \in [Threads -> Points] /\ call' \in [Threads -> CallType]
        /\ \A u \in Threads \ {t} : pc'[u] = pc[u] /\ call'[u] = call[u]
        /\ pc'[t] = "destroy" /\ call'[t].job = "undo"
        /\ call'[t].kind = call[t].kind /\ call'[t].num = call[t].num
    <3>1. pc \in [Threads -> Points] /\ call \in [Threads -> CallType]
      BY Fields DEF StateOK, Points
    <3>2. pc' \in [Threads -> Points] /\ pc'[t] = "destroy" /\ \A u \in Threads \ {t} : pc'[u] = pc[u]
      BY <3>1, <1>3 DEF Points
    <3>3. 0 \in 0 .. MaxObjs /\ call[t] \in CallType
      BY <3>1, VerbsAssumption
    <3>4. call' = [call EXCEPT ![t] = [call[t] EXCEPT !.job = "undo", !.obj = 0]]
      BY <1>3, <3>1 DEF CallType
    <3>5. [call[t] EXCEPT !.job = "undo", !.obj = 0] \in CallType
      BY <3>3 DEF CallType
    <3> QED  BY <3>1, <3>2, <3>3, <3>4, <3>5 DEF CallType
  <2>3. StateOK'
    BY <1>0, <1>3, <2>2, WorldStep, QuietType DEF lifeVars, StateOK
  <2>4. ClientInv'
    BY <1>0, <1>3, <2>2, ClientFrame DEF lifeVars
  <2>5. JobOK(t)' /\ ~Creating(t)'
    BY <1>0, <2>2 DEF JobOK, Creating, Claims
  <2>6. call'[t].num \notin owned'[Me(t)][call'[t].kind]
    BY <1>0, <1>3, <2>2 DEF HoldInv, OneHolder
  <2>7. world'.reuse = world.reuse
    BY <1>3, WorldStep
  <2> QED  BY <1>0, <1>1, <1>3, <2>2, <2>3, <2>4, <2>5, <2>6, <2>7, QuietStep
             DEF Early, memVars, cmdVars
<1> QED  BY <1>2, <1>3 DEF Own

\* The active CQ is set, outside any lock.
LEMMA ActivateStep ==
  ASSUME IInv, NEW t \in Threads, Activate(t)
  PROVE  IInv'
<1> USE DEF IInv
<1>0. /\ pc[t] = "activate" /\ UNCHANGED <<world, lifeVars, made, memVars, owned, cmdVars>>
      /\ fActiveCq' = [fActiveCq EXCEPT ![Me(t)] = call[t].num]
      /\ call[t].job = "create" /\ Me(t) \in Clients /\ client[Me(t)] # "closed"
  <2>1. /\ pc[t] = "activate" /\ UNCHANGED <<world, lifeVars, made, memVars, owned, cmdVars>>
        /\ fActiveCq' = [fActiveCq EXCEPT ![Me(t)] = call[t].num]
    BY DEF Activate
  <2>2. JobOK(t)
    BY DEF JobInv
  <2> QED  BY <2>1, <2>2, MeIs, NotClosed DEF JobOK
<1>2. /\ pc' \in [Threads -> Points] /\ call' \in [Threads -> CallType]
      /\ \A u \in Threads \ {t} : pc'[u] = pc[u] /\ call'[u] = call[u]
      /\ pc'[t] = "idle" /\ call'[t] = NoCall
  <2>1. Done(t)
    BY DEF Activate
  <2> QED  BY <2>1, <1>0, DoneIs
<1>3. StateOK'
  <2>1. fActiveCq' \in [Clients -> 0 .. MaxObjs]
    BY <1>0, Fields DEF StateOK
  <2> QED  BY <1>0, <1>2, <2>1, QuietType DEF lifeVars, StateOK
<1>4. ClientInv'
  BY <1>0, <1>2, ClientFrame DEF lifeVars, NoCall
<1>5. JobOK(t)' /\ ~Creating(t)' /\ ~Claims(t)'
  BY <1>0, <1>2 DEF JobOK, Creating, Claims
<1> QED  BY <1>0, <1>2, <1>3, <1>4, <1>5, QuietStep DEF Early, memVars, cmdVars

\* addOwned behind a modify or a destroy that did not happen.
LEMMA BackStep ==
  ASSUME IInv, NEW t \in Threads, Back(t)
  PROVE  IInv'
<1> USE DEF IInv
<1>0. /\ pc[t] = "back" /\ UNCHANGED <<lifeVars, made, memVars, fActiveCq, cmdVars>>
      /\ Claims(t) /\ call[t].kind \in Kinds /\ call[t].num \in Objs
      /\ call[t].job \in {"destroy", "modify"}
      /\ Me(t) \in Clients /\ client[Me(t)] # "closed"
      /\ Claim(t, call[t].kind, call[t].num)
  <2>1. pc[t] = "back" /\ UNCHANGED <<lifeVars, made, memVars, fActiveCq, cmdVars>>
    BY DEF Back
  <2>2. JobOK(t)
    BY DEF JobInv
  <2> QED  BY <2>1, <2>2, MeIs, NotClosed DEF JobOK, Claims, Claim
<1>1. world' \in WorldType /\ world'.reuse = world.reuse
  BY WorldStep DEF Back
<1>2. /\ pc' \in [Threads -> Points] /\ call' \in [Threads -> CallType]
      /\ \A u \in Threads \ {t} : pc'[u] = pc[u] /\ call'[u] = call[u]
      /\ pc'[t] = "idle" /\ call'[t] = NoCall
  <2>1. Done(t)
    BY DEF Back
  <2> QED  BY <2>1, <1>0, DoneIs
<1>3. /\ owned' \in [Clients -> [Kinds -> SUBSET Objs]]
      /\ \A d \in Clients \ {Me(t)} : owned'[d] = owned[d]
      /\ \A l \in Kinds : owned'[Me(t)][l] \subseteq
           IF l = call[t].kind THEN owned[Me(t)][l] \cup {call[t].num} ELSE owned[Me(t)][l]
  <2> DEFINE S == owned[Me(t)][call[t].kind] \cup {call[t].num}
  <2>1. CASE owned' = [owned EXCEPT ![Me(t)][call[t].kind] = @ \cup {call[t].num}]
    <3>1. S \in SUBSET Objs
      BY <1>0 DEF StateOK
    <3>2. owned' = [owned EXCEPT ![Me(t)][call[t].kind] = S]
      BY <2>1
    <3> HIDE DEF S
    <3>3. /\ owned' \in [Clients -> [Kinds -> SUBSET Objs]]
          /\ \A d \in Clients \ {Me(t)} : owned'[d] = owned[d]
          /\ \A l \in Kinds : owned'[Me(t)][l] = IF l = call[t].kind THEN S ELSE owned[Me(t)][l]
      BY <3>1, <3>2, <1>0, OwnedIs
    <3> QED  BY <3>3 DEF S
  <2>2. CASE UNCHANGED owned
    BY <2>2 DEF StateOK
  <2> QED  BY <2>1, <2>2 DEF Back
<1>4. StateOK'
  BY <1>0, <1>1, <1>2, <1>3, QuietType DEF lifeVars, StateOK
<1>5. ClientInv'
  BY <1>0, <1>2, <1>3, ClientFrame DEF lifeVars, NoCall
<1>6. JobOK(t)' /\ ~Creating(t)' /\ ~Claims(t)'
  BY <1>0, <1>2 DEF JobOK, Creating, Claims
<1>7. \A k \in Kinds : \A n \in owned'[Me(t)][k] : n \in owned[Me(t)][k] \/ Claim(t, k, n)
  BY <1>0, <1>3
<1> QED  BY <1>0, <1>1, <1>2, <1>3, <1>4, <1>5, <1>6, <1>7, QuietStep
           DEF Early, memVars, cmdVars

\* A call takes a number out of its client's list.
LEMMA TakeStep ==
  ASSUME IInv, NEW t \in Threads, NEW kind \in Kinds, NEW n \in owned[Me(t)][kind],
         owned' = [owned EXCEPT ![Me(t)][kind] = @ \ {n}],
         pc' \in [Threads -> Points], call' \in [Threads -> CallType],
         \A u \in Threads \ {t} : pc'[u] = pc[u] /\ call'[u] = call[u],
         pc'[t] \in {"destroy", "back", "modify"}, pc'[t] = "modify" => kind = "qp",
         call'[t].kind = kind, call'[t].num = n,
         call'[t].job = IF pc'[t] = "modify" THEN "modify"
                        ELSE IF pc[t] = "close" THEN "close" ELSE "destroy",
         pc[t] = "close" => pc'[t] = "destroy",
         pc[t] = "close" \/ (pc[t] = "idle" /\ client[Me(t)] = "open"),
         UNCHANGED <<world, lifeVars, made, memVars, fActiveCq, cmdVars>>
  PROVE  IInv'
<1> USE DEF IInv
<1>0. /\ Me(t) \in Clients /\ client[Me(t)] # "closed" /\ n \in Objs
      /\ pc[t] = "close" => call[t].job = "close"
  <2>1. JobOK(t)
    BY DEF JobInv
  <2> QED  BY <2>1, MeIs, NotClosed DEF JobOK, StateOK
<1>1. /\ owned' \in [Clients -> [Kinds -> SUBSET Objs]]
      /\ \A d \in Clients \ {Me(t)} : owned'[d] = owned[d]
      /\ \A l \in Kinds : owned'[Me(t)][l] =
           IF l = kind THEN owned[Me(t)][l] \ {n} ELSE owned[Me(t)][l]
  <2>1. owned \in [Clients -> [Kinds -> SUBSET Objs]] /\ owned[Me(t)] \in [Kinds -> SUBSET Objs]
    BY <1>0 DEF StateOK
  <2> QED  BY <2>1, <1>0
<1>2. StateOK'
  BY <1>1, QuietType DEF lifeVars, StateOK
<1>3. ClientInv'
  BY <1>0, <1>1, ClientFrame DEF lifeVars
<1>4. JobOK(t)' /\ ~Creating(t)'
  BY <1>0 DEF JobOK, Creating, Claims
<1>5. /\ call'[t].num \notin owned'[Me(t)][call'[t].kind]
      /\ call'[t].num \in owned[Me(t)][call'[t].kind]
  BY <1>1
<1>6. \A k \in Kinds : \A m \in owned'[Me(t)][k] : m \in owned[Me(t)][k]
  BY <1>1
<1> QED  BY <1>1, <1>2, <1>3, <1>4, <1>5, <1>6, QuietStep DEF Early, memVars, cmdVars

\* The record of a call is a call.
LEMMA CallIs ==
  ASSUME StateOK, NEW t \in Threads, NEW p \in Points, NEW c \in CallType,
         pc' = [pc EXCEPT ![t] = p], call' = [call EXCEPT ![t] = c]
  PROVE  /\ pc' \in [Threads -> Points] /\ call' \in [Threads -> CallType]
         /\ \A u \in Threads \ {t} : pc'[u] = pc[u] /\ call'[u] = call[u]
         /\ pc'[t] = p /\ call'[t] = c
<1>0. pc \in [Threads -> Points] /\ call \in [Threads -> CallType]
  BY Fields DEF StateOK, Points
<1> QED  BY <1>0

\* destroyQP, destroyCQ and deregMR take the number.
LEMMA DestroyStep ==
  ASSUME IInv, NEW t \in Threads, NEW kind \in Kinds, NEW n \in Objs,
         NEW next \in {"destroy", "back"}, Destroy(t, kind, n, next)
  PROVE  IInv'
<1> DEFINE c == [job |-> "destroy", kind |-> kind, num |-> n, obj |-> 0]
<1>1. c \in CallType /\ StateOK /\ next \in Points
  BY VerbsAssumption DEF IInv, CallType, Objs, Points
<1>2. /\ n \in owned[Me(t)][kind] /\ owned' = [owned EXCEPT ![Me(t)][kind] = @ \ {n}]
      /\ pc' = [pc EXCEPT ![t] = next] /\ call' = [call EXCEPT ![t] = c]
      /\ pc[t] = "idle" /\ client[Me(t)] = "open"
      /\ UNCHANGED <<world, lifeVars, made, memVars, fActiveCq, cmdVars>>
  BY DEF Destroy, MayCall
<1>3. c.job = "destroy" /\ c.kind = kind /\ c.num = n
  OBVIOUS
<1> HIDE DEF c
<1>4. /\ pc' \in [Threads -> Points] /\ call' \in [Threads -> CallType]
      /\ \A u \in Threads \ {t} : pc'[u] = pc[u] /\ call'[u] = call[u]
      /\ pc'[t] = next /\ call'[t] = c
  BY <1>1, <1>2, CallIs
<1> QED  BY <1>2, <1>3, <1>4, TakeStep

\* modifyQP takes the number.
LEMMA ModifyQPStep ==
  ASSUME IInv, NEW t \in Threads, NEW n \in Objs, ModifyQP(t, n)
  PROVE  IInv'
<1> DEFINE c == [job |-> "modify", kind |-> "qp", num |-> n, obj |-> 0]
<1>1. c \in CallType /\ StateOK /\ "modify" \in Points /\ "qp" \in Kinds
  BY VerbsAssumption DEF IInv, CallType, Objs, Points, Kinds
<1>2. /\ n \in owned[Me(t)]["qp"] /\ owned' = [owned EXCEPT ![Me(t)]["qp"] = owned[Me(t)]["qp"] \ {n}]
      /\ pc' = [pc EXCEPT ![t] = "modify"] /\ call' = [call EXCEPT ![t] = c]
      /\ pc[t] = "idle" /\ client[Me(t)] = "open"
      /\ UNCHANGED <<world, lifeVars, made, memVars, fActiveCq, cmdVars>>
  BY DEF ModifyQP, MayCall, TakenToModify
<1>3. c.job = "modify" /\ c.kind = "qp" /\ c.num = n
  OBVIOUS
<1> HIDE DEF c
<1>4. /\ pc' \in [Threads -> Points] /\ call' \in [Threads -> CallType]
      /\ \A u \in Threads \ {t} : pc'[u] = pc[u] /\ call'[u] = call[u]
      /\ pc'[t] = "modify" /\ call'[t] = c
  BY <1>1, <1>2, CallIs
<1>5. owned' = [owned EXCEPT ![Me(t)]["qp"] = @ \ {n}]
  BY <1>2
<1> QED  BY <1>1, <1>2, <1>3, <1>4, <1>5, TakeStep

\* releaseOwnedResources takes the next number.
LEMMA TakeNextStep ==
  ASSUME IInv, NEW t \in Threads, TakeNext(t)
  PROVE  IInv'
<1> DEFINE kind == IF owned[Me(t)]["qp"] # {} THEN "qp"
                   ELSE IF owned[Me(t)]["mr"] # {} THEN "mr" ELSE "cq"
<1>0. kind \in Kinds /\ StateOK /\ Me(t) \in Clients
  BY MeIs DEF Kinds, IInv
<1>1. PICK n \in owned[Me(t)][kind] :
        /\ owned' = [owned EXCEPT ![Me(t)][kind] = @ \ {n}]
        /\ call' = [call EXCEPT ![t].kind = kind, ![t].num = n]
  BY DEF TakeNext
<1>2. /\ pc[t] = "close" /\ pc' = [pc EXCEPT ![t] = "destroy"]
      /\ UNCHANGED <<world, lifeVars, made, memVars, fActiveCq, cmdVars>>
  BY DEF TakeNext
<1> HIDE DEF kind
<1>3. n \in Objs /\ n \in 0 .. MaxObjs /\ call[t] \in CallType /\ call[t].job = "close"
  <2>1. JobOK(t)
    BY DEF JobInv, IInv
  <2>2. n \in Objs
    BY <1>0, <1>1 DEF StateOK
  <2>3. call[t].job = "close"
    BY <2>1, <1>2 DEF JobOK
  <2>4. call[t] \in CallType
    BY <1>0, Fields
  <2>5. n \in 0 .. MaxObjs
    BY <2>2, VerbsAssumption DEF Objs
  <2> QED  BY <2>2, <2>3, <2>4, <2>5
<1> DEFINE c == [call[t] EXCEPT !.kind = kind, !.num = n]
<1>4. c \in CallType /\ c.job = "close" /\ c.kind = kind /\ c.num = n
  BY <1>0, <1>3 DEF CallType
<1>5. call' = [call EXCEPT ![t] = c] /\ "destroy" \in Points
  BY <1>1, <1>0, Fields DEF Points
<1> HIDE DEF c
<1>6. /\ pc' \in [Threads -> Points] /\ call' \in [Threads -> CallType]
      /\ \A u \in Threads \ {t} : pc'[u] = pc[u] /\ call'[u] = call[u]
      /\ pc'[t] = "destroy" /\ call'[t] = c
  BY <1>0, <1>2, <1>4, <1>5, CallIs
<1> QED  BY <1>0, <1>1, <1>2, <1>4, <1>6, TakeStep

\* A step that changes the life of the MlxRoCE object only, or nothing.
LEMMA RoceStep ==
  ASSUME IInv, roce' \in {"new", "up", "failed", "stopped"},
         UNCHANGED <<world, client, made, memVars, ownVars, cmdVars, pc, call>>
  PROVE  IInv'
<1> USE DEF IInv
<1>0. UNCHANGED <<world, client, made, obj, table, fDbBitmap, owned, fActiveCq, late, quarantined, pc, call>>
  BY DEF memVars, ownVars, cmdVars
<1>1. StateOK'
  BY <1>0 DEF StateOK
<1>2. NumInv' /\ TableInv' /\ SlotInv' /\ LateInv'
  BY <1>0, MemFrame
<1>3. JobInv'
  BY <1>0 DEF JobInv, JobOK, Claims
<1>4. ClientInv'
  BY <1>0 DEF ClientInv, Me
<1>5. CreateInv'
  BY <1>0 DEF CreateInv, Creating, CreateOK, Live, Me
<1>6. HoldInv'
  <2>1. OneHolder'
    BY <1>0 DEF HoldInv, OneHolder, Claims, Claim
  <2>2. HeldIsLive'
    BY <1>0 DEF HoldInv, HeldIsLive, Claims, Named, Live
  <2>3. HeldIsOwn'
    BY <1>0 DEF HoldInv, HeldIsOwn, Claims, Claim, Live, Me
  <2> QED  BY <2>1, <2>2, <2>3 DEF HoldInv
<1> QED  BY <1>1, <1>2, <1>3, <1>4, <1>5, <1>6

\* cleanup begins when no call of the client runs.
LEMMA CloseStep ==
  ASSUME IInv, NEW t \in Threads, Close(t)
  PROVE  IInv'
<1> USE DEF IInv
<1>0. /\ client[Me(t)] = "open" /\ \A u \in Threads : Me(u) = Me(t) => pc[u] = "idle"
      /\ client' = [client EXCEPT ![Me(t)] = "closing"]
      /\ pc' = [pc EXCEPT ![t] = "close"] /\ call' = [call EXCEPT ![t].job = "close"]
      /\ UNCHANGED <<world, roce, made, memVars, ownVars, cmdVars>>
      /\ Me(t) \in Clients /\ pc[t] = "idle"
  BY MeIs DEF Close
<1>1. /\ pc' \in [Threads -> Points] /\ call' \in [Threads -> CallType]
      /\ \A u \in Threads \ {t} : pc'[u] = pc[u] /\ call'[u] = call[u]
      /\ pc'[t] = "close" /\ call'[t].job = "close"
  <2> DEFINE c == [call[t] EXCEPT !.job = "close"]
  <2>1. call[t] \in CallType /\ call \in [Threads -> CallType] /\ "close" \in Points
    BY Fields DEF Points
  <2>2. c \in CallType /\ c.job = "close"
    BY <2>1 DEF CallType
  <2>3. call' = [call EXCEPT ![t] = c]
    BY <1>0, <2>1
  <2> HIDE DEF c
  <2>4. /\ pc' \in [Threads -> Points] /\ call' \in [Threads -> CallType]
        /\ \A u \in Threads \ {t} : pc'[u] = pc[u] /\ call'[u] = call[u]
        /\ pc'[t] = "close" /\ call'[t] = c
    BY <1>0, <2>1, <2>2, <2>3, CallIs
  <2> QED  BY <2>2, <2>4
<1>2. /\ client' \in [Clients -> {"open", "closing", "closed"}]
      /\ client'[Me(t)] = "closing" /\ \A c \in Clients \ {Me(t)} : client'[c] = client[c]
  BY <1>0 DEF StateOK
<1>3. StateOK'
  BY <1>0, <1>1, <1>2, QuietType DEF ownVars, StateOK
<1>4. ClientInv'
  <2>0. \A u \in Threads : Me(u) \in Clients /\ Me(u)' = Me(u)
    BY MeIs
  <2>1. \A u \in Threads : client'[Me(u)] = "closed" => pc'[u] = "idle"
    BY <1>0, <1>1, <1>2, <2>0 DEF ClientInv
  <2>2. \A u \in Threads : call'[u].job = "close" => client'[Me(u)] = "closing"
    BY <1>0, <1>1, <1>2, <2>0 DEF ClientInv
  <2>3. \A u, v \in Threads :
          call'[u].job = "close" /\ Me(u) = Me(v) /\ u # v => pc'[v] = "idle"
    <3> SUFFICES ASSUME NEW u \in Threads, NEW v \in Threads,
                        call'[u].job = "close", Me(u) = Me(v), u # v
                 PROVE  pc'[v] = "idle"
      OBVIOUS
    <3>1. CASE u = t
      BY <3>1, <1>0, <1>1
    <3>2. CASE u # t
      <4>1. client[Me(u)] = "closing"
        BY <3>2, <1>1 DEF ClientInv
      <4>2. v # t
        BY <4>1, <1>0
      <4> QED  BY <4>2, <3>2, <1>1 DEF ClientInv
    <3> QED  BY <3>1, <3>2
  <2>4. \A c \in Clients : client'[c] = "closed" => \A k \in Kinds : owned'[c][k] = {}
    BY <1>0, <1>2 DEF ClientInv, ownVars
  <2> QED  BY <2>0, <2>1, <2>2, <2>3, <2>4 DEF ClientInv
<1>5. JobOK(t)' /\ ~Creating(t)' /\ ~Claims(t)'
  BY <1>0, <1>1 DEF JobOK, Creating, Claims
<1> QED  BY <1>0, <1>1, <1>3, <1>4, <1>5, QuietStep DEF Early, memVars, ownVars, cmdVars

\* cleanup ends with empty lists.
LEMMA ClosedStep ==
  ASSUME IInv, NEW t \in Threads, Closed(t)
  PROVE  IInv'
<1> USE DEF IInv
<1>0. /\ pc[t] = "close" /\ owned[Me(t)] = [k \in Kinds |-> {}]
      /\ client' = [client EXCEPT ![Me(t)] = "closed"]
      /\ fActiveCq' = [fActiveCq EXCEPT ![Me(t)] = 0]
      /\ pc' = [pc EXCEPT ![t] = "idle"] /\ call' = [call EXCEPT ![t] = NoCall]
      /\ UNCHANGED <<world, roce, made, memVars, owned, cmdVars>>
      /\ Me(t) \in Clients /\ call[t].job = "close"
  <2>1. JobOK(t)
    BY DEF JobInv
  <2> QED  BY <2>1, MeIs DEF Closed, JobOK
<1>1. /\ pc' \in [Threads -> Points] /\ call' \in [Threads -> CallType]
      /\ \A u \in Threads \ {t} : pc'[u] = pc[u] /\ call'[u] = call[u]
      /\ pc'[t] = "idle" /\ call'[t] = NoCall
  <2>1. NoCall \in CallType /\ "idle" \in Points
    BY VerbsAssumption DEF NoCall, CallType, Points
  <2> QED  BY <1>0, <2>1, CallIs
<1>2. /\ client' \in [Clients -> {"open", "closing", "closed"}]
      /\ client'[Me(t)] = "closed" /\ \A c \in Clients \ {Me(t)} : client'[c] = client[c]
  BY <1>0 DEF StateOK
<1>3. StateOK'
  <2>1. fActiveCq' \in [Clients -> 0 .. MaxObjs]
    BY <1>0, VerbsAssumption DEF StateOK
  <2> QED  BY <1>0, <1>1, <1>2, <2>1, QuietType DEF StateOK
<1>4. ClientInv'
  <2>0. \A u \in Threads : Me(u) \in Clients /\ Me(u)' = Me(u)
    BY MeIs
  <2>1. \A u \in Threads : client'[Me(u)] = "closed" => pc'[u] = "idle"
    BY <1>0, <1>1, <1>2, <2>0 DEF ClientInv
  <2>2. ASSUME NEW u \in Threads, call'[u].job = "close"
        PROVE  u # t /\ client'[Me(u)] = "closing"
    <3>1. u # t /\ call[u].job = "close"
      BY <2>2, <1>1 DEF NoCall
    <3>2. Me(u) # Me(t)
      BY <3>1, <1>0 DEF ClientInv
    <3> QED  BY <3>1, <3>2, <1>2, <2>0 DEF ClientInv
  <2>3. \A u, v \in Threads :
          call'[u].job = "close" /\ Me(u) = Me(v) /\ u # v => pc'[v] = "idle"
    BY <1>1, <2>2 DEF ClientInv
  <2>4. \A c \in Clients : client'[c] = "closed" => \A k \in Kinds : owned'[c][k] = {}
    BY <1>0, <1>2 DEF ClientInv
  <2> QED  BY <2>0, <2>1, <2>2, <2>3, <2>4 DEF ClientInv
<1>5. JobOK(t)' /\ ~Creating(t)' /\ ~Claims(t)'
  BY <1>0, <1>1 DEF JobOK, Creating, Claims
<1> QED  BY <1>0, <1>1, <1>3, <1>4, <1>5, QuietStep DEF Early, memVars, cmdVars

(***************************************************************************)
(* What a step that changes objects owes to each part of the invariant.    *)
(***************************************************************************)

\* Tables that stay, with their entries only dying.
LEMMA TableFrame ==
  ASSUME StateOK, TableInv, table' = table,
         \A o \in Objs : obj'[o].rec = "in" => obj[o].rec = "in",
         \A o \in Objs : obj[o].rec = "in" =>
           /\ obj'[o].kind = obj[o].kind /\ obj'[o].num = obj[o].num
           /\ obj'[o].rec = "in" /\ obj'[o].pinned = obj[o].pinned
           /\ Live(o)' => Live(o)
  PROVE  TableInv'
<1>0. \A k \in Kinds : \A i \in 1 .. Len(table[k]) : table[k][i] \in Objs /\ obj[table[k][i]].rec = "in"
  BY Fields DEF TableInv
<1>1. \A o \in Objs : obj'[o].rec = "in" =>
        obj'[o].kind \in Kinds /\ \E i \in 1 .. Len(table'[obj'[o].kind]) : table'[obj'[o].kind][i] = o
  BY DEF TableInv
<1>2. \A k \in Kinds : \A i \in 1 .. Len(table'[k]) :
        LET o == table'[k][i] IN
        obj'[o].kind = k /\ obj'[o].num # 0 /\ obj'[o].rec = "in" /\ obj'[o].pinned
  BY <1>0 DEF TableInv
<1>3. \A k \in Kinds : \A i, j \in 1 .. Len(table'[k]) : i < j =>
        /\ table'[k][i] # table'[k][j]
        /\ obj'[table'[k][i]].num = obj'[table'[k][j]].num => ~Live(table[k][i])'
  <2> SUFFICES ASSUME NEW k \in Kinds, NEW i \in 1 .. Len(table[k]), NEW j \in 1 .. Len(table[k]), i < j
               PROVE  /\ table[k][i] # table[k][j]
                      /\ obj'[table[k][i]].num = obj'[table[k][j]].num => ~Live(table[k][i])'
    OBVIOUS
  <2> DEFINE a == table[k][i]  b == table[k][j]
  <2>1. /\ a \in Objs /\ obj[a].rec = "in" /\ b \in Objs /\ obj[b].rec = "in"
        /\ a # b /\ (obj[a].num = obj[b].num => ~Live(a))
    BY <1>0 DEF TableInv
  <2>2. Live(table[k][i])' <=> obj'[a].fw \in {"live"} \cup QpStates
    BY DEF Live
  <2>3. \A o \in Objs : Live(o)' <=> obj'[o].fw \in {"live"} \cup QpStates
    BY DEF Live
  <2> HIDE DEF a, b
  <2>4. obj'[a].num = obj'[b].num => ~(obj'[a].fw \in {"live"} \cup QpStates)
    BY <2>1, <2>3
  <2> QED  BY <2>1, <2>2, <2>4 DEF a, b
<1> QED  BY <1>1, <1>2, <1>3 DEF TableInv

\* Slots are given back with the pins, by objects that have them.
LEMMA SlotFrame ==
  ASSUME StateOK, SlotInv, NEW F \in SUBSET Objs,
         \A o \in F : obj[o].pinned /\ ~obj'[o].pinned,
         \A s \in fDbBitmap : s \in fDbBitmap' \/ \E o \in F : s \in Pair(obj[o].slot),
         \A o \in Objs : obj'[o].pinned =>
           obj[o].pinned /\ obj'[o].slot = obj[o].slot /\ obj'[o].kind = obj[o].kind
  PROVE  SlotInv'
<1>1. EthSlots \subseteq fDbBitmap'
  BY DEF SlotInv
<1>2. \A o \in Objs : obj'[o].pinned =>
        /\ obj'[o].kind \in Kinds
        /\ Pair(obj'[o].slot) \subseteq fDbBitmap'
        /\ Pair(obj'[o].slot) \cap EthSlots = {}
        /\ \A p \in Objs : obj'[p].pinned /\ p # o => Pair(obj'[o].slot) \cap Pair(obj'[p].slot) = {}
  <2> SUFFICES ASSUME NEW o \in Objs, obj'[o].pinned
               PROVE  /\ obj'[o].kind \in Kinds
                      /\ Pair(obj'[o].slot) \subseteq fDbBitmap'
                      /\ Pair(obj'[o].slot) \cap EthSlots = {}
                      /\ \A p \in Objs : obj'[p].pinned /\ p # o =>
                           Pair(obj'[o].slot) \cap Pair(obj'[p].slot) = {}
    OBVIOUS
  <2>1. obj[o].pinned /\ obj'[o].slot = obj[o].slot /\ obj'[o].kind = obj[o].kind /\ o \notin F
    OBVIOUS
  <2>2. \A p \in F : Pair(obj[o].slot) \cap Pair(obj[p].slot) = {}
    BY <2>1 DEF SlotInv
  <2>3. Pair(obj[o].slot) \subseteq fDbBitmap'
    BY <2>1, <2>2 DEF SlotInv
  <2> QED  BY <2>1, <2>3 DEF SlotInv
<1> QED  BY <1>1, <1>2 DEF SlotInv, Pair, NoSlot

\* One call moves with the object it creates.
LEMMA CreateMove ==
  ASSUME StateOK, CreateInv, NEW t \in Threads, made' \in Nat, made =< made',
         \A u \in Threads \ {t} : pc'[u] = pc[u] /\ call'[u] = call[u],
         Creating(t)' =>
           /\ CreateOK(t)'
           /\ (Creating(t) /\ call'[t].obj = call[t].obj) \/ call'[t].obj \notin 1 .. made,
         \A u \in Threads \ {t} : Creating(u) =>
           obj'[call[u].obj] = obj[call[u].obj] /\ late'.obj # call[u].obj
  PROVE  CreateInv'
<1>0. made \in Nat
  BY VerbsAssumption DEF StateOK
<1>1. ASSUME NEW u \in Threads, Creating(u)', u # t
      PROVE  Creating(u) /\ CreateOK(u) /\ CreateOK(u)' /\ call'[u].obj = call[u].obj
  <2>1. /\ Creating(u) /\ CreateOK(u) /\ pc'[u] = pc[u] /\ call'[u] = call[u]
        /\ obj'[call[u].obj] = obj[call[u].obj] /\ late'.obj # call[u].obj
    BY <1>1 DEF CreateInv, Creating
  <2> QED  BY <2>1, <1>0 DEF CreateOK, Live, Me
<1>2. ASSUME NEW u \in Threads, Creating(u)'
      PROVE  CreateOK(u)'
  BY <1>1, <1>2
<1>3. ASSUME NEW u \in Threads, NEW v \in Threads, Creating(u)', Creating(v)',
             call'[u].obj = call'[v].obj
      PROVE  u = v
  <2>1. \A w \in Threads \ {t} : Creating(w)' => Creating(w) /\ call[w].obj \in 1 .. made /\ call'[w].obj = call[w].obj
    BY <1>1 DEF CreateOK
  <2>2. \A w \in Threads \ {t} : Creating(w)' /\ Creating(t)' => call'[w].obj # call'[t].obj
    BY <2>1 DEF CreateInv
  <2> QED  BY <1>3, <2>1, <2>2 DEF CreateInv
<1> QED  BY <1>2, <1>3 DEF CreateInv

\* Numbers stay, or go with the objects.
LEMMA NumFrame ==
  ASSUME NumInv, world'.reuse = world.reuse,
         \A o \in Objs : made' < o => obj'[o] = Nothing,
         \A o \in Objs : \/ obj'[o].num = 0
                         \/ /\ obj'[o].kind = obj[o].kind /\ obj'[o].num = obj[o].num
                            /\ Live(o)' => Live(o),
         \A o \in Objs : Live(o)' => obj'[o].kind \in Kinds
  PROVE  NumInv'
BY DEF NumInv

\* The object of a command that timed out is one that was made.
LEMMA LateMade ==
  ASSUME StateOK, NumInv, LateInv
  PROVE  late.obj \in 0 .. made
<1>0. made \in Nat /\ MaxObjs \in Nat
  BY VerbsAssumption DEF StateOK
<1>1. late.obj \in 0 .. MaxObjs /\ late.op \in {"none", "create", "modify", "destroy"}
  BY DEF StateOK
<1>2. CASE late.op = "none"
  BY <1>0, <1>2 DEF LateInv
<1>3. CASE late.op # "none"
  <2>1. late.obj \in Objs /\ obj[late.obj] # Nothing
    BY <1>1, <1>3 DEF LateInv, Nothing, Live, Kinds, QpStates
  <2> QED  BY <1>0, <1>1, <2>1 DEF NumInv, Objs
<1> QED  BY <1>2, <1>3

\* The command that timed out is as it was, and so is its object.
LEMMA LateFrame ==
  ASSUME StateOK, LateInv, late' = late, quarantined => quarantined',
         late.op # "none" =>
           /\ obj'[late.obj].fw = obj[late.obj].fw
           /\ late.op = "create" =>
                /\ obj'[late.obj].kind = obj[late.obj].kind
                /\ obj'[late.obj].num = obj[late.obj].num
                /\ obj'[late.obj].rec = obj[late.obj].rec
  PROVE  LateInv'
BY DEF LateInv, Live

(***************************************************************************)
(* The calls that create.                                                  *)
(***************************************************************************)

\* The types of a step that leaves the lists and the clients alone.
LEMMA ObjType1 ==
  ASSUME StateOK, world' \in WorldType, roce' = roce, made' \in 0 .. MaxObjs,
         obj' \in [Objs -> ObjType], table' \in [Kinds -> Seq(Objs)],
         fDbBitmap' \subseteq Slots, UNCHANGED <<owned, client>>,
         fActiveCq' \in [Clients -> 0 .. MaxObjs],
         late' \in [op : {"none", "create", "modify", "destroy"}, obj : 0 .. MaxObjs],
         quarantined' \in BOOLEAN,
         pc' \in [Threads -> Points], call' \in [Threads -> CallType]
  PROVE  StateOK'
BY DEF StateOK, Points, CallType, ObjType

\* createQP, createCQ and regMR up to their command.
LEMMA CreateStep ==
  ASSUME IInv, NEW t \in Threads, NEW kind \in Kinds, kind # "mr" => FreePairs # {},
         Create(t, kind)
  PROVE  IInv'
<1> USE DEF IInv
<1> DEFINE x == made + 1
           new == NewObject(t, kind)
           c == [job |-> "create", kind |-> kind, num |-> 0, obj |-> x]
<1>0. /\ MayCall(t) /\ made' = x /\ obj' = [obj EXCEPT ![x] = new]
      /\ fDbBitmap' = fDbBitmap \cup Pair(new.slot)
      /\ pc' = [pc EXCEPT ![t] = "ask"] /\ call' = [call EXCEPT ![t] = c]
      /\ UNCHANGED <<world, lifeVars, table, ownVars, cmdVars>>
  BY DEF Create
<1>1. /\ made \in Nat /\ x \in Objs /\ x \in 0 .. MaxObjs /\ made < x /\ Me(t) \in Clients
      /\ pc[t] = "idle" /\ client[Me(t)] = "open" /\ obj[x] = Nothing
  <2>1. /\ made \in Nat /\ made < world.objs /\ world.objs \in 0 .. MaxObjs /\ MaxObjs \in Nat
    BY VerbsAssumption DEF StateOK, WorldType, Create
  <2>2. x \in Objs /\ x \in 0 .. MaxObjs /\ made < x
    BY <2>1 DEF Objs
  <2> QED  BY <1>0, <2>1, <2>2, MeIs DEF MayCall, NumInv
<1>2. Nothing \in ObjType
  BY VerbsAssumption DEF Nothing, ObjType, QpStates
<1>3. /\ AllocDbSlots(kind) \in Slots \cup {NoSlot}
      /\ Pair(AllocDbSlots(kind)) \subseteq Slots
      /\ Pair(AllocDbSlots(kind)) \cap fDbBitmap = {}
  BY AllocIs
<1>4. /\ new \in ObjType /\ new.kind = kind /\ new.client = Me(t) /\ new.num = 0 /\ new.fw = "none"
      /\ new.pinned = TRUE /\ new.rec = "no" /\ new.slot = AllocDbSlots(kind)
  <2>1. Nothing.num = 0 /\ Nothing.fw = "none" /\ Nothing.rec = "no"
    BY DEF Nothing
  <2> QED  BY <1>1, <1>2, <1>3, <2>1 DEF ObjType, NewObject
<1> HIDE DEF new
<1>5. /\ obj' \in [Objs -> ObjType] /\ obj'[x] = new
      /\ \A o \in Objs \ {x} : obj'[o] = obj[o]
  BY <1>0, <1>1, <1>4, Fields
<1>6. /\ pc' \in [Threads -> Points] /\ call' \in [Threads -> CallType]
      /\ \A u \in Threads \ {t} : pc'[u] = pc[u] /\ call'[u] = call[u]
      /\ pc'[t] = "ask" /\ call'[t] = c
  <2>1. c \in CallType /\ "ask" \in Points
    BY <1>1, VerbsAssumption DEF CallType, Points
  <2> HIDE DEF c
  <2> QED  BY <1>0, <2>1, CallIs
<1>7. c.job = "create" /\ c.kind = kind /\ c.obj = x
  OBVIOUS
<1> HIDE DEF c
<1>8. StateOK'
  <2>1. fDbBitmap' \subseteq Slots
    BY <1>0, <1>3, <1>4 DEF StateOK
  <2>2. made' \in 0 .. MaxObjs
    BY <1>0, <1>1
  <2>3. /\ UNCHANGED <<world, roce, client, table, owned, fActiveCq, late, quarantined>>
    BY <1>0 DEF lifeVars, ownVars, cmdVars
  <2>4. /\ world' \in WorldType /\ table' \in [Kinds -> Seq(Objs)]
        /\ fActiveCq' \in [Clients -> 0 .. MaxObjs] /\ quarantined' \in BOOLEAN
        /\ late' \in [op : {"none", "create", "modify", "destroy"}, obj : 0 .. MaxObjs]
    BY <2>3 DEF StateOK
  <2> QED  BY <1>5, <1>6, <2>1, <2>2, <2>3, <2>4, ObjType1
<1>9. JobInv'
  <2>1. JobOK(t)'
    BY <1>6, <1>7 DEF JobOK, Claims
  <2> QED  BY <2>1, <1>6, JobFrame
<1>10. ClientInv'
  BY <1>0, <1>1, <1>6, <1>7, ClientFrame DEF lifeVars, ownVars
<1>11. late' = late /\ late.obj # x
  <2>1. late.obj \in 0 .. made
    BY LateMade
  <2> QED  BY <1>0, <1>1, <2>1 DEF cmdVars
<1>12. CreateInv'
  <2>1. CreateOK(t)'
    <3>1. x \in 1 .. made'
      BY <1>0, <1>1
    <3> QED  BY <3>1, <1>4, <1>5, <1>6, <1>7, <1>11, MeIs DEF CreateOK
  <2>2. call'[t].obj \notin 1 .. made
    BY <1>1, <1>6, <1>7
  <2>3. ASSUME NEW u \in Threads \ {t}, Creating(u)
        PROVE  obj'[call[u].obj] = obj[call[u].obj] /\ late'.obj # call[u].obj
    <3>1. call[u].obj \in 1 .. made /\ late.obj # call[u].obj
      BY <2>3 DEF CreateInv, CreateOK
    <3>2. call[u].obj \in Objs \ {x}
      BY <3>1, <1>1, VerbsAssumption DEF Objs
    <3> QED  BY <3>1, <3>2, <1>5, <1>11
  <2>4. made' \in Nat /\ made =< made'
    BY <1>0, <1>1
  <2> QED  BY <2>1, <2>2, <2>3, <2>4, <1>6, CreateMove
<1>13. \A o \in Objs : (Live(o)' <=> Live(o)) /\ (Live(o)' => obj'[o] = obj[o])
  BY <1>1, <1>4, <1>5 DEF Live, Nothing, QpStates
<1>14. NumInv'
  <2>1. \A o \in Objs : made' < o => obj'[o] = Nothing
    <3> SUFFICES ASSUME NEW o \in Objs, made' < o  PROVE obj'[o] = Nothing
      OBVIOUS
    <3>1. made < o /\ o # x
      BY <1>0, <1>1 DEF Objs
    <3> QED  BY <3>1, <1>5 DEF NumInv
  <2>2. \A o \in Objs : obj'[o].num = 0 \/ obj'[o] = obj[o]
    BY <1>4, <1>5
  <2>3. \A o \in Objs : Live(o)' => obj'[o].kind \in Kinds
    BY <1>13 DEF NumInv
  <2>4. world'.reuse = world.reuse
    BY <1>0
  <2> QED  BY <1>13, <2>1, <2>2, <2>3, <2>4, NumFrame
<1>15. TableInv'
  <2>1. \A o \in Objs : obj'[o].rec = "in" => obj[o].rec = "in"
    BY <1>4, <1>5
  <2>2. \A o \in Objs : obj[o].rec = "in" => obj'[o] = obj[o]
    BY <1>1, <1>5 DEF Nothing
  <2>3. table' = table
    BY <1>0
  <2> QED  BY <1>13, <2>1, <2>2, <2>3, TableFrame
<1>16. SlotInv'
  <2>1. /\ EthSlots \subseteq fDbBitmap'
    BY <1>0 DEF SlotInv
  <2>2. /\ Pair(new.slot) \cap fDbBitmap = {} /\ Pair(new.slot) \subseteq fDbBitmap'
    BY <1>0, <1>3, <1>4
  <2>3. Pair(new.slot) \cap EthSlots = {}
    BY <2>2 DEF SlotInv
  <2>4. \A o \in Objs : o # x /\ obj'[o].pinned =>
          /\ obj[o].pinned /\ obj'[o].kind \in Kinds
          /\ Pair(obj'[o].slot) \subseteq fDbBitmap /\ Pair(obj'[o].slot) \subseteq fDbBitmap'
          /\ Pair(obj'[o].slot) \cap EthSlots = {}
    BY <1>0, <1>5 DEF SlotInv
  <2>5. \A o \in Objs : o # x /\ obj'[o].pinned => Pair(new.slot) \cap Pair(obj'[o].slot) = {}
    BY <2>2, <2>4
  <2>6. \A o, p \in Objs : obj'[o].pinned /\ obj'[p].pinned /\ p # o =>
          Pair(obj'[o].slot) \cap Pair(obj'[p].slot) = {}
    <3> SUFFICES ASSUME NEW o \in Objs, NEW p \in Objs, obj'[o].pinned, obj'[p].pinned, p # o
                 PROVE  Pair(obj'[o].slot) \cap Pair(obj'[p].slot) = {}
      OBVIOUS
    <3>1. CASE o = x
      BY <3>1, <2>5, <1>5
    <3>2. CASE p = x
      BY <3>2, <2>5, <1>5
    <3>3. CASE o # x /\ p # x
      BY <3>3, <1>5 DEF SlotInv
    <3> QED  BY <3>1, <3>2, <3>3
  <2>7. \A o \in Objs : obj'[o].pinned =>
          /\ obj'[o].kind \in Kinds
          /\ Pair(obj'[o].slot) \subseteq fDbBitmap'
          /\ Pair(obj'[o].slot) \cap EthSlots = {}
    BY <1>4, <1>5, <2>2, <2>3, <2>4
  <2> QED  BY <2>1, <2>6, <2>7 DEF SlotInv, Pair, NoSlot
<1>17. HoldInv'
  <2>1. ~Claims(t)' /\ pc[t] \notin Early
    BY <1>1, <1>6 DEF Claims, Early
  <2>2. UNCHANGED <<owned, quarantined>>
    BY <1>0 DEF ownVars, cmdVars
  <2>3. \A k, n : Named(k, n)' = Named(k, n)
    BY <1>13 DEF Named
  <2> QED  BY <1>6, <1>13, <2>1, <2>2, <2>3, HoldMove
<1>18. LateInv'
  <2>1. quarantined' = quarantined
    BY <1>0 DEF cmdVars
  <2>2. late.op # "none" => obj'[late.obj] = obj[late.obj]
    BY <1>5, <1>11 DEF LateInv
  <2> QED  BY <1>11, <2>1, <2>2, LateFrame
<1> QED  BY <1>8, <1>9, <1>10, <1>12, <1>14, <1>15, <1>16, <1>17, <1>18

\* What is known of a call that creates, and of its object.
LEMMA CreatingIs ==
  ASSUME IInv, NEW t \in Threads, Creating(t)
  PROVE  /\ CreateOK(t) /\ call[t].obj \in Objs /\ call[t].kind \in Kinds
         /\ call[t].job = "create" /\ Me(t) \in Clients /\ client[Me(t)] # "closed"
         /\ \A u \in Threads \ {t} : Creating(u) =>
              /\ call[u].obj # call[t].obj /\ call[u].obj \in Objs
              /\ late.obj # call[u].obj
<1> USE DEF IInv
<1>1. made \in Nat /\ MaxObjs \in Nat /\ made =< MaxObjs
  BY VerbsAssumption DEF StateOK
<1>2. \A u \in Threads : Creating(u) => call[u].obj \in Objs /\ late.obj # call[u].obj
  BY <1>1 DEF CreateInv, CreateOK, Objs
<1>3. JobOK(t) /\ pc[t] # "idle"
  BY DEF JobInv, Creating
<1> QED  BY <1>2, <1>3, MeIs, NotClosed DEF CreateInv, JobOK, Creating, Claims

(***************************************************************************)
(* A call gives up the object it creates: it releases the memory and the   *)
(* slots, or keeps both; what the firmware does about the object is that   *)
(* it goes, or that a command about it has timed out.                      *)
(***************************************************************************)
LEMMA LetGo ==
  ASSUME IInv, NEW t \in Threads, Creating(t), pc[t] # "drop", Done(t),
         NEW x \in Objs, x = call[t].obj,
         NEW y \in ObjType, obj' = [obj EXCEPT ![x] = y],
         y.rec = "no",
         \/ y = Nothing
         \/ /\ y.num = obj[x].num /\ y.kind = obj[x].kind
            /\ y.client = obj[x].client,
         y.fw \in {"live"} \cup QpStates => Live(x),
         y.pinned => y.slot = obj[x].slot /\ y.kind = obj[x].kind,
         fDbBitmap' = IF y.pinned THEN fDbBitmap ELSE fDbBitmap \ Pair(obj[x].slot),
         \/ UNCHANGED cmdVars
         \/ /\ quarantined' = TRUE
            /\ late' \in [op : {"create", "destroy"}, obj : {x}]
            /\ late'.op = "create" =>
                 y.fw = "none" /\ y.kind \in Kinds /\ y.num = 0
            /\ late'.op = "destroy" => y.fw \in {"live"} \cup QpStates,
         UNCHANGED <<world, lifeVars, made, table, ownVars>>
  PROVE  IInv'
<1> USE DEF IInv
<1>0. /\ CreateOK(t) /\ call[t].kind \in Kinds
      /\ call[t].job = "create" /\ Me(t) \in Clients /\ client[Me(t)] # "closed"
      /\ \A u \in Threads \ {t} : Creating(u) =>
           call[u].obj # x /\ call[u].obj \in Objs /\ late.obj # call[u].obj
  BY CreatingIs
<1>1. /\ obj' \in [Objs -> ObjType] /\ obj'[x] = y
      /\ \A o \in Objs \ {x} : obj'[o] = obj[o]
  BY <1>0, Fields
<1>2. /\ pc' \in [Threads -> Points] /\ call' \in [Threads -> CallType]
      /\ \A u \in Threads \ {t} : pc'[u] = pc[u] /\ call'[u] = call[u]
      /\ pc'[t] = "idle" /\ call'[t] = NoCall
  BY <1>0, DoneIs
<1>3. /\ UNCHANGED <<world, roce, client, made, table, owned, fActiveCq>>
      /\ \/ late' = late /\ quarantined' = quarantined
         \/ quarantined' = TRUE /\ late'.obj = x
  BY DEF lifeVars, ownVars, cmdVars
<1>4. /\ x \in 1 .. made /\ obj[x].kind = call[t].kind /\ obj[x].client = Me(t)
      /\ obj[x].rec = "no" /\ obj[x].pinned /\ late.obj # x
      /\ Live(x) => pc[t] \in Early /\ obj[x].num = call[t].num
  BY <1>0 DEF CreateOK, Live, Creating, Early, QpStates
<1>5. /\ Live(x)' <=> y.fw \in {"live"} \cup QpStates
      /\ \A o \in Objs \ {x} : Live(o)' <=> Live(o)
  BY <1>0, <1>1 DEF Live
<1>6. \A o \in Objs : Live(o)' =>
        /\ Live(o) /\ obj'[o].num = obj[o].num /\ obj'[o].kind = obj[o].kind
        /\ obj'[o].client = obj[o].client /\ obj'[o].rec = obj[o].rec
  <2>1. Live(x)' => Live(x) /\ y.num = obj[x].num /\ y.kind = obj[x].kind /\ y.client = obj[x].client
    BY <1>5 DEF Nothing, QpStates
  <2> QED  BY <1>1, <1>4, <1>5, <2>1
<1>7. StateOK'
  <2>1. fDbBitmap' \subseteq Slots
    BY DEF StateOK
  <2>2. /\ late' \in [op : {"none", "create", "modify", "destroy"}, obj : 0 .. MaxObjs]
        /\ quarantined' \in BOOLEAN
    <3>1. x \in 0 .. MaxObjs
      BY Fields
    <3> QED  BY <3>1 DEF StateOK, cmdVars
  <2>3. /\ world' \in WorldType /\ table' \in [Kinds -> Seq(Objs)] /\ made' \in 0 .. MaxObjs
        /\ fActiveCq' \in [Clients -> 0 .. MaxObjs]
    BY <1>3 DEF StateOK
  <2> QED  BY <1>1, <1>2, <1>3, <2>1, <2>2, <2>3, ObjType1
<1>8. JobInv'
  <2>1. JobOK(t)'
    BY <1>2 DEF JobOK, Claims
  <2> QED  BY <2>1, <1>2, JobFrame
<1>9. ClientInv'
  BY <1>0, <1>2, <1>3, ClientFrame DEF NoCall, Creating
<1>10. CreateInv'
  <2>1. made' \in Nat /\ made =< made' /\ ~Creating(t)'
    BY <1>2, <1>3, VerbsAssumption DEF StateOK, Creating
  <2>2. \A u \in Threads \ {t} : Creating(u) =>
          obj'[call[u].obj] = obj[call[u].obj] /\ late'.obj # call[u].obj
    BY <1>0, <1>1, <1>3
  <2> QED  BY <1>2, <2>1, <2>2, CreateMove
<1>11. NumInv'
  <2>1. \A o \in Objs : made' < o => obj'[o] = Nothing
    <3> SUFFICES ASSUME NEW o \in Objs, made' < o  PROVE obj'[o] = Nothing
      OBVIOUS
    <3>1. o # x /\ made < o
      BY <1>3, <1>4, VerbsAssumption DEF StateOK, Objs
    <3> QED  BY <3>1, <1>1 DEF NumInv
  <2>2. \A o \in Objs : \/ obj'[o].num = 0
                        \/ /\ obj'[o].kind = obj[o].kind /\ obj'[o].num = obj[o].num
                           /\ Live(o)' => Live(o)
    <3>1. y.num = 0 \/ (y.kind = obj[x].kind /\ y.num = obj[x].num)
      BY DEF Nothing
    <3> QED  BY <1>1, <1>6, <3>1
  <2>3. \A o \in Objs : Live(o)' => obj'[o].kind \in Kinds
    BY <1>6 DEF NumInv
  <2>4. world'.reuse = world.reuse
    BY <1>3
  <2> QED  BY <2>1, <2>2, <2>3, <2>4, NumFrame
<1>12. TableInv'
  <2>1. \A o \in Objs : obj'[o].rec = "in" => obj[o].rec = "in"
    BY <1>1, <1>4
  <2>2. \A o \in Objs : obj[o].rec = "in" => obj'[o] = obj[o]
    BY <1>1, <1>4
  <2> QED  BY <1>3, <1>6, <2>1, <2>2, TableFrame
<1>13. SlotInv'
  <2> DEFINE F == IF y.pinned THEN {} ELSE {x}
  <2>1. F \in SUBSET Objs /\ \A o \in F : obj[o].pinned /\ ~obj'[o].pinned
    BY <1>0, <1>1, <1>4
  <2>2. \A s \in fDbBitmap : s \in fDbBitmap' \/ \E o \in F : s \in Pair(obj[o].slot)
    OBVIOUS
  <2>3. \A o \in Objs : obj'[o].pinned =>
          obj[o].pinned /\ obj'[o].slot = obj[o].slot /\ obj'[o].kind = obj[o].kind
    BY <1>1, <1>4
  <2> HIDE DEF F
  <2> QED  BY <2>1, <2>2, <2>3, SlotFrame
<1>14. HoldInv'
  <2>1. ~Claims(t)' /\ owned' = owned
    BY <1>2, <1>3 DEF Claims
  <2>2. ASSUME ~quarantined'
        PROVE  /\ ~quarantined
               /\ \A k \in Kinds, n \in Nat : Named(k, n) # {} /\ Named(k, n)' = {} => Claim(t, k, n)
    <3>1. ~quarantined
      BY <2>2, <1>3
    <3>2. ASSUME NEW k \in Kinds, NEW n \in Nat, Named(k, n) # {}, Named(k, n)' = {}
          PROVE  Claim(t, k, n)
      <4>1. PICK p \in Objs : Live(p) /\ obj[p].kind = k /\ obj[p].num = n
        BY <3>2 DEF Named
      <4>2. p = x
        <5> SUFFICES ASSUME p # x  PROVE FALSE
          OBVIOUS
        <5>1. Live(p)' /\ obj'[p].kind = k /\ obj'[p].num = n
          BY <4>1, <1>1, <1>5
        <5> QED  BY <5>1, <3>2 DEF Named
      <4> QED  BY <4>1, <4>2, <1>4 DEF Claim, Claims, Early
    <3> QED  BY <3>1, <3>2
  <2> QED  BY <1>2, <1>3, <1>6, <2>1, <2>2, HoldMove
<1>15. LateInv'
  <2>1. CASE UNCHANGED cmdVars
    <3>1. late.op # "none" => obj'[late.obj] = obj[late.obj]
      BY <1>1, <1>4 DEF LateInv
    <3> QED  BY <3>1, <2>1, LateFrame DEF cmdVars
  <2>2. CASE ~UNCHANGED cmdVars
    <3>1. /\ quarantined' = TRUE /\ late'.op \in {"create", "destroy"} /\ late'.obj = x
          /\ late'.op = "create" => y.fw = "none" /\ y.kind \in Kinds /\ y.num = 0
          /\ late'.op = "destroy" => y.fw \in {"live"} \cup QpStates
      BY <2>2
    <3>2. late'.op = "destroy" => obj'[late'.obj].fw \in {"live"} \cup QpStates
      BY <3>1, <1>1
    <3>3. late'.op = "create" => /\ obj'[late'.obj].fw = "none" /\ obj'[late'.obj].kind \in Kinds
                                 /\ obj'[late'.obj].num = 0 /\ obj'[late'.obj].rec = "no"
      BY <3>1, <1>1
    <3> QED  BY <3>1, <3>2, <3>3, <1>0 DEF LateInv, Live
  <2> QED  BY <2>1, <2>2
<1> QED  BY <1>7, <1>8, <1>9, <1>10, <1>11, <1>12, <1>13, <1>14, <1>15

\* A field of an object changes.
LEMMA Unpinned ==
  ASSUME StateOK, NEW x \in Objs
  PROVE  /\ [obj[x] EXCEPT !.pinned = FALSE] \in ObjType
         /\ Unpin(x) = [obj EXCEPT ![x] = [obj[x] EXCEPT !.pinned = FALSE]]
<1>1. obj \in [Objs -> ObjType] /\ obj[x] \in ObjType
  BY Fields
<1> QED  BY <1>1 DEF Unpin, ObjType

\* The firmware has a new object, with a number that nobody holds.
LEMMA AskSucceeds ==
  ASSUME IInv, NEW t \in Threads, pc[t] = "ask", NEW x \in Objs, x = call[t].obj, ~quarantined,
         NEW n, n = NewNumber(x),
         NEW y \in ObjType, obj' = [obj EXCEPT ![x] = y],
         y.num = n, y.fw \in {"live"} \cup QpStates, y.kind = obj[x].kind,
         y.client = obj[x].client, y.slot = obj[x].slot, y.pinned = obj[x].pinned,
         y.rec = obj[x].rec,
         NEW c \in CallType, call' = [call EXCEPT ![t] = c], pc' = [pc EXCEPT ![t] = "record"],
         c.num = n, c.job = "create", c.kind = call[t].kind, c.obj = x,
         UNCHANGED <<world, lifeVars, made, table, fDbBitmap, ownVars, cmdVars>>
  PROVE  IInv'
<1> USE DEF IInv
<1>0. /\ Creating(t) /\ CreateOK(t) /\ call[t].kind \in Kinds
      /\ call[t].job = "create" /\ Me(t) \in Clients /\ client[Me(t)] # "closed"
      /\ \A u \in Threads \ {t} : Creating(u) =>
           call[u].obj # x /\ call[u].obj \in Objs /\ late.obj # call[u].obj
  <2>1. Creating(t)
    BY DEF Creating
  <2> QED  BY <2>1, CreatingIs
<1>1. UNCHANGED <<world, roce, client, made, table, fDbBitmap, owned, fActiveCq, late, quarantined>>
  BY DEF lifeVars, ownVars, cmdVars
<1>2. /\ x \in 1 .. made /\ obj[x].kind = call[t].kind /\ obj[x].client = Me(t)
      /\ obj[x].rec = "no" /\ obj[x].pinned /\ late.obj # x /\ obj[x].num = 0 /\ ~Live(x)
  BY <1>0 DEF CreateOK, Live, QpStates
<1>3. /\ n \in Objs /\ n # 0 /\ n \in 0 .. MaxObjs
      /\ \A p \in Objs : Live(p) /\ obj[p].kind = obj[x].kind => obj[p].num # n
      /\ obj[x].kind = "mr" \/ ~world.reuse => n = x
  BY <1>0, <1>2, NewNumberIs, VerbsAssumption DEF Objs
<1>4. /\ y \in ObjType /\ y.num = n /\ y.fw \in {"live"} \cup QpStates
      /\ y.kind = obj[x].kind /\ y.client = obj[x].client /\ y.slot = obj[x].slot
      /\ y.pinned = obj[x].pinned /\ y.rec = obj[x].rec
  OBVIOUS
<1>5. /\ c.num = n /\ c.job = "create" /\ c.kind = call[t].kind /\ c.obj = x
      /\ "record" \in Points
  BY DEF Points
<1>7. /\ obj' \in [Objs -> ObjType] /\ obj'[x] = y
      /\ \A o \in Objs \ {x} : obj'[o] = obj[o]
  <2>1. obj \in [Objs -> ObjType]
    BY Fields
  <2> QED  BY <2>1
<1>8. /\ pc' \in [Threads -> Points] /\ call' \in [Threads -> CallType]
      /\ \A u \in Threads \ {t} : pc'[u] = pc[u] /\ call'[u] = call[u]
      /\ pc'[t] = "record" /\ call'[t] = c
  BY <1>5, CallIs
<1>9. /\ Live(x)'
      /\ \A o \in Objs \ {x} : Live(o)' <=> Live(o)
  BY <1>4, <1>7 DEF Live
<1>10. StateOK'
  <2>1. /\ world' \in WorldType /\ table' \in [Kinds -> Seq(Objs)] /\ made' \in 0 .. MaxObjs
        /\ fActiveCq' \in [Clients -> 0 .. MaxObjs] /\ fDbBitmap' \subseteq Slots
        /\ late' \in [op : {"none", "create", "modify", "destroy"}, obj : 0 .. MaxObjs]
        /\ quarantined' \in BOOLEAN
    BY <1>1 DEF StateOK
  <2> QED  BY <1>1, <1>7, <1>8, <2>1, ObjType1
<1>11. JobInv'
  <2>1. JobOK(t)'
    BY <1>0, <1>3, <1>5, <1>8 DEF JobOK, Claims
  <2> QED  BY <2>1, <1>8, JobFrame
<1>12. ClientInv'
  BY <1>0, <1>1, <1>5, <1>8, ClientFrame
<1>13. CreateInv'
  <2>1. made' \in Nat /\ made =< made' /\ Creating(t)' /\ call'[t].obj = call[t].obj
    BY <1>1, <1>5, <1>8, VerbsAssumption DEF StateOK, Creating
  <2>2. \A u \in Threads \ {t} : Creating(u) =>
          obj'[call[u].obj] = obj[call[u].obj] /\ late'.obj # call[u].obj
    BY <1>0, <1>1, <1>7
  <2>3. CreateOK(t)'
    <3>1. obj'[call'[t].obj].fw \in {"live"} \cup QpStates
      BY <1>4, <1>5, <1>7, <1>8
    <3>2. /\ call'[t].obj = x /\ call'[t].kind = call[t].kind /\ call'[t].num = n
          /\ x \in 1 .. made' /\ late'.obj # x /\ pc'[t] = "record"
      BY <1>1, <1>2, <1>5, <1>8
    <3>3. /\ obj'[x].kind = call[t].kind /\ obj'[x].client = Me(t) /\ Me(t)' = Me(t)
          /\ obj'[x].rec = "no" /\ obj'[x].pinned /\ obj'[x].num = n
      BY <1>2, <1>4, <1>7, MeIs
    <3>4. Live(call[t].obj)'
      BY <3>1 DEF Live
    <3> QED  BY <3>2, <3>3, <3>4 DEF CreateOK
  <2> QED  BY <1>0, <1>8, <2>1, <2>2, <2>3, CreateMove
<1>14. NumInv'
  <2>1. \A o \in Objs : made' < o => obj'[o] = Nothing
    <3> SUFFICES ASSUME NEW o \in Objs, made' < o  PROVE obj'[o] = Nothing
      OBVIOUS
    <3>1. o # x /\ made < o
      BY <1>1, <1>2, VerbsAssumption DEF StateOK, Objs
    <3> QED  BY <3>1, <1>7 DEF NumInv
  <2>2. \A o \in Objs : obj'[o].kind = "mr" \/ ~world'.reuse => obj'[o].num \in {0, o}
    <3> SUFFICES ASSUME NEW o \in Objs, obj'[o].kind = "mr" \/ ~world.reuse
                 PROVE  obj'[o].num \in {0, o}
      BY <1>1
    <3>1. CASE o = x
      BY <3>1, <1>3, <1>4, <1>7
    <3>2. CASE o # x
      BY <3>2, <1>7 DEF NumInv
    <3> QED  BY <3>1, <3>2
  <2>3. \A o \in Objs : Live(o)' => obj'[o].kind \in Kinds
    BY <1>0, <1>2, <1>4, <1>7, <1>9 DEF NumInv
  <2>4. ASSUME NEW o \in Objs, NEW p \in Objs, Live(o)', Live(p)',
               obj'[o].kind = obj'[p].kind, obj'[o].num = obj'[p].num, obj'[o].num # 0
        PROVE  o = p
    <3>1. CASE o # x /\ p # x
      BY <3>1, <2>4, <1>7, <1>9 DEF NumInv
    <3>2. \A q \in Objs \ {x} : Live(q)' /\ obj'[q].kind = obj[x].kind => obj'[q].num # n
      BY <1>3, <1>7, <1>9
    <3>3. obj'[x].kind = obj[x].kind /\ obj'[x].num = n
      BY <1>4, <1>7
    <3>4. CASE o = x /\ p # x
      BY <3>2, <3>3, <3>4, <2>4
    <3>5. CASE o # x /\ p = x
      BY <3>2, <3>3, <3>5, <2>4
    <3> QED  BY <3>1, <3>4, <3>5
  <2> QED  BY <2>1, <2>2, <2>3, <2>4 DEF NumInv
<1>15. TableInv'
  <2>1. \A o \in Objs : obj'[o].rec = "in" => obj[o].rec = "in"
    BY <1>4, <1>7
  <2>2. \A o \in Objs : obj[o].rec = "in" => o # x /\ obj'[o] = obj[o]
    BY <1>2, <1>7
  <2> QED  BY <1>1, <1>9, <2>1, <2>2, TableFrame
<1>16. SlotInv'
  <2>1. {} \in SUBSET Objs
    OBVIOUS
  <2>2. \A o \in Objs : obj'[o].pinned =>
          obj[o].pinned /\ obj'[o].slot = obj[o].slot /\ obj'[o].kind = obj[o].kind
    BY <1>4, <1>7
  <2> QED  BY <1>1, <2>1, <2>2, SlotFrame
<1>17. HoldInv'
  <2>0. obj[x].kind \in Kinds /\ c.kind = obj[x].kind
    BY <1>0, <1>2, <1>5
  <2>1. /\ \A u \in Threads : ~Claim(u, obj[x].kind, n)
        /\ \A d \in Clients : n \notin owned[d][obj[x].kind]
    <3>1. Named(obj[x].kind, n) = {}
      BY <1>3 DEF Named
    <3> QED  BY <3>1, <2>0 DEF HoldInv, HeldIsLive, Claim
  <2>2. /\ \A u \in Threads \ {t} : (Claims(u)' <=> Claims(u)) /\ (\A k, m : Claim(u, k, m)' <=> Claim(u, k, m))
        /\ Claims(t)' /\ ~Claims(t)
        /\ \A k, m : Claim(t, k, m)' <=> k = obj[x].kind /\ m = n
    BY <1>5, <1>8, <2>0 DEF Claims, Claim
  <2>3. \A u \in Threads \ {t} : Claims(u) <=> Claim(u, call[u].kind, call[u].num)
    BY DEF Claim
  <2>4. OneHolder'
    <3>1. ASSUME NEW u \in Threads, NEW v \in Threads, Claims(u)',
                 Claim(v, call[u].kind, call[u].num)'
          PROVE  u = v
      <4>1. CASE u # t /\ v # t
        BY <4>1, <3>1, <2>2, <1>8 DEF HoldInv, OneHolder
      <4>2. CASE u = t /\ v # t
        <5>1. Claim(v, obj[x].kind, n)
          BY <4>2, <3>1, <2>0, <2>2, <1>5, <1>8
        <5> QED  BY <5>1, <2>1
      <4>3. CASE u # t /\ v = t
        <5>1. Claim(u, obj[x].kind, n)
          BY <4>3, <3>1, <2>2, <2>3, <1>8
        <5> QED  BY <5>1, <2>1
      <4> QED  BY <4>1, <4>2, <4>3
    <3>2. ASSUME NEW u \in Threads, NEW d \in Clients, Claims(u)'
          PROVE  call'[u].num \notin owned'[d][call'[u].kind]
      <4>1. CASE u # t
        BY <4>1, <3>2, <2>2, <1>1, <1>8 DEF HoldInv, OneHolder
      <4>2. CASE u = t
        BY <4>2, <2>0, <2>1, <1>1, <1>5, <1>8
      <4> QED  BY <4>1, <4>2
    <3>3. \A d, e \in Clients, k \in Kinds : d # e => owned'[d][k] \cap owned'[e][k] = {}
      BY <1>1 DEF HoldInv, OneHolder
    <3> QED  BY <3>1, <3>2, <3>3 DEF OneHolder
  <2>5. HeldIsLive'
    <3>1. \A k, m : Named(k, m) # {} => Named(k, m)' # {}
      <4> SUFFICES ASSUME NEW k, NEW m, NEW p \in Named(k, m)  PROVE Named(k, m)' # {}
        OBVIOUS
      <4>1. p \in Objs \ {x} /\ Live(p) /\ obj[p].kind = k /\ obj[p].num = m
        BY <1>2 DEF Named
      <4>2. p \in Named(k, m)'
        BY <4>1, <1>7, <1>9 DEF Named
      <4> QED  BY <4>2
    <3>2. Named(call[t].kind, call[t].num)' # {}
      <4>1. call'[t].kind = obj'[x].kind /\ call'[t].num = obj'[x].num
        BY <1>4, <1>5, <1>7, <1>8, <2>0
      <4>2. x \in Named(call[t].kind, call[t].num)'
        BY <4>1, <1>9 DEF Named
      <4> QED  BY <4>2
    <3>3. ASSUME NEW u \in Threads \ {t}, Claims(u)'
          PROVE  Named(call[u].kind, call[u].num)' # {}
      <4>1. Claims(u) /\ call'[u] = call[u]
        BY <3>3, <2>2, <1>8
      <4>2. Named(call[u].kind, call[u].num) # {}
        BY <4>1 DEF HoldInv, HeldIsLive
      <4>3. Named(call[u].kind, call[u].num)' = {o \in Objs : Live(o)' /\ obj'[o].kind = call[u].kind /\ obj'[o].num = call[u].num}
        BY <4>1 DEF Named
      <4>4. PICK p \in Objs \ {x} : Live(p) /\ obj[p].kind = call[u].kind /\ obj[p].num = call[u].num
        BY <4>2, <1>2 DEF Named
      <4> QED  BY <4>3, <4>4, <1>7, <1>9
    <3>4. \A d \in Clients, k \in Kinds : \A m \in owned'[d][k] : Named(k, m)' # {}
      BY <3>1, <1>1 DEF HoldInv, HeldIsLive
    <3> QED  BY <3>2, <3>3, <3>4 DEF HeldIsLive
  <2>6. HeldIsOwn'
    <3>1. ASSUME NEW o \in Objs, Live(o)', obj'[o].num # 0, NEW u \in Threads,
                 Claim(u, obj[o].kind, obj[o].num)'
          PROVE  Me(u) = obj'[o].client /\ (pc'[u] \notin Early => obj'[o].rec # "no")
      <4>1. CASE o = x /\ u = t
        BY <4>1, <1>2, <1>4, <1>7, <1>8 DEF Early
      <4>2. CASE o = x /\ u # t
        <5>1. Claim(u, obj[x].kind, n)
          BY <4>2, <3>1, <2>2, <1>4, <1>7
        <5> QED  BY <5>1, <2>1
      <4>3. CASE o # x /\ u = t
        <5>1. obj[o].kind = obj[x].kind /\ obj[o].num = n /\ Live(o)
          BY <4>3, <3>1, <2>2, <1>7, <1>9
        <5> QED  BY <5>1, <1>3
      <4>4. CASE o # x /\ u # t
        <5>1. Claim(u, obj[o].kind, obj[o].num) /\ Live(o) /\ obj[o].num # 0
          BY <4>4, <3>1, <2>2, <1>7, <1>9
        <5> QED  BY <5>1, <4>4, <1>7, <1>8 DEF HoldInv, HeldIsOwn, Early
      <4> QED  BY <4>1, <4>2, <4>3, <4>4
    <3>2. ASSUME NEW o \in Objs, Live(o)', obj'[o].num # 0, NEW d \in Clients,
                 obj'[o].num \in owned'[d][obj'[o].kind]
          PROVE  d = obj'[o].client /\ obj'[o].rec # "no"
      <4>1. CASE o = x
        BY <4>1, <3>2, <2>1, <1>1, <1>4, <1>7
      <4>2. CASE o # x
        BY <4>2, <3>2, <1>1, <1>7, <1>9 DEF HoldInv, HeldIsOwn
      <4> QED  BY <4>1, <4>2
    <3> QED  BY <3>1, <3>2, MeIs DEF HeldIsOwn, Early
  <2> QED  BY <2>4, <2>5, <2>6 DEF HoldInv
<1>18. LateInv'
  <2>1. late.op # "none" => obj'[late.obj] = obj[late.obj]
    BY <1>2, <1>7 DEF LateInv
  <2> QED  BY <1>1, <2>1, LateFrame
<1> QED  BY <1>10, <1>11, <1>12, <1>13, <1>14, <1>15, <1>16, <1>17, <1>18

\* CREATE_QP, CREATE_CQ and CREATE_MKEY.
LEMMA AskStep ==
  ASSUME IInv, NEW t \in Threads, Ask(t)
  PROVE  IInv'
<1> DEFINE o == call[t].obj
<1>0. /\ StateOK /\ pc[t] = "ask" /\ Creating(t) /\ o \in Objs /\ CreateOK(t) /\ call[t].kind \in Kinds
      /\ UNCHANGED <<world, lifeVars, made, table, ownVars>>
  <2>1. pc[t] = "ask" /\ UNCHANGED <<world, lifeVars, made, table, ownVars>> /\ StateOK
    BY DEF Ask, IInv
  <2>2. Creating(t)
    BY <2>1 DEF Creating
  <2> QED  BY <2>1, <2>2, CreatingIs
<1>1. PICK x \in Objs : x = o
  BY <1>0
<1> HIDE DEF o
<1>2. obj[x].fw = "none" /\ obj[x].kind \in Kinds /\ obj[x].num = 0 /\ obj[x].rec = "no"
  BY <1>0, <1>1 DEF CreateOK, o
<1>3. CASE /\ ~quarantined
           /\ obj' = [obj EXCEPT ![x].num = NewNumber(x), ![x].fw = FirstState(obj[x].kind)]
           /\ pc' = [pc EXCEPT ![t] = "record"]
           /\ call' = [call EXCEPT ![t].num = NewNumber(x)]
           /\ UNCHANGED <<fDbBitmap, cmdVars>>
  <2> DEFINE n == NewNumber(x)
             y == [obj[x] EXCEPT !.num = n, !.fw = FirstState(obj[x].kind)]
             c == [call[t] EXCEPT !.num = n]
  <2>0. /\ obj \in [Objs -> ObjType] /\ call \in [Threads -> CallType]
        /\ obj[x] \in ObjType /\ call[t] \in CallType /\ call[t].job = "create"
    BY <1>0, Fields, CreatingIs
  <2>1. n \in Objs /\ n \in 0 .. MaxObjs
    <3>1. NumInv /\ ~Live(x)
      BY <1>2 DEF IInv, Live, QpStates
    <3> QED  BY <3>1, <1>0, <1>2, NewNumberIs, VerbsAssumption DEF Objs
  <2>2. obj' = [obj EXCEPT ![x] = y] /\ call' = [call EXCEPT ![t] = c]
    BY <1>3, <2>0 DEF ObjType
  <2> HIDE DEF n
  <2>3. /\ y \in ObjType /\ y.num = n /\ y.fw \in {"live"} \cup QpStates
        /\ y.kind = obj[x].kind /\ y.client = obj[x].client /\ y.slot = obj[x].slot
        /\ y.pinned = obj[x].pinned /\ y.rec = obj[x].rec
    <3>1. FirstState(obj[x].kind) \in {"live"} \cup QpStates
      BY DEF FirstState, QpStates
    <3> QED  BY <3>1, <2>0, <2>1 DEF ObjType
  <2>4. c \in CallType /\ c.num = n /\ c.job = "create" /\ c.kind = call[t].kind /\ c.obj = x
    BY <2>0, <2>1, <1>1 DEF CallType, o
  <2> HIDE DEF y, c
  <2>5. n = NewNumber(x) /\ x = call[t].obj
    BY <1>1 DEF n, o
  <2>6. /\ pc[t] = "ask" /\ ~quarantined /\ pc' = [pc EXCEPT ![t] = "record"]
        /\ UNCHANGED <<world, lifeVars, made, table, fDbBitmap, ownVars, cmdVars>>
    BY <1>0, <1>3
  <2> QED  BY <2>2, <2>3, <2>4, <2>5, <2>6, AskSucceeds
<1>4. CASE Release(x) /\ Done(t) /\ UNCHANGED cmdVars
  <2>1. /\ obj' = [obj EXCEPT ![x] = Nothing] /\ fDbBitmap' = fDbBitmap \ Pair(obj[x].slot)
    BY <1>2, <1>4 DEF Release, FreeDbSlots
  <2>2. /\ Nothing \in ObjType /\ Nothing.rec = "no" /\ ~Nothing.pinned
        /\ Nothing.fw \notin {"live"} \cup QpStates
    BY VerbsAssumption DEF Nothing, ObjType, QpStates
  <2> QED  BY <1>0, <1>1, <1>4, <2>1, <2>2, LetGo DEF o
<1>5. CASE /\ TimesOut("create", x)
           /\ obj' = Unpin(x)
           /\ fDbBitmap' = FreeDbSlots(obj[x].slot)
           /\ Done(t)
  <2> DEFINE y == [obj[x] EXCEPT !.pinned = FALSE]
  <2>1. y \in ObjType /\ obj' = [obj EXCEPT ![x] = y] /\ fDbBitmap' = fDbBitmap \ Pair(obj[x].slot)
    BY <1>0, <1>5, Unpinned DEF FreeDbSlots
  <2>2. /\ y.rec = "no" /\ ~y.pinned /\ y.fw = "none" /\ y.num = obj[x].num /\ y.kind = obj[x].kind
        /\ y.client = obj[x].client
    <3>1. obj[x] \in ObjType
      BY <1>0, Fields
    <3> QED  BY <3>1, <1>2 DEF ObjType
  <2> HIDE DEF y
  <2>3. /\ quarantined' = TRUE /\ late' \in [op : {"create", "destroy"}, obj : {x}]
        /\ late'.op = "create"
    BY <1>5 DEF TimesOut, GivesUp
  <2>4. y.fw \notin {"live"} \cup QpStates
    BY <2>2 DEF QpStates
  <2> QED  BY <1>0, <1>1, <1>2, <1>5, <2>1, <2>2, <2>3, <2>4, LetGo DEF o
<1> QED  BY <1>1, <1>3, <1>4, <1>5 DEF Ask, o

\* An object whose number one call may use is not under creation by another.
LEMMA NotCreated ==
  ASSUME IInv, NEW t \in Threads, Claims(t), NEW x \in Named(call[t].kind, call[t].num),
         NEW u \in Threads \ {t}, Creating(u)
  PROVE  call[u].obj # x
<1> SUFFICES ASSUME call[u].obj = x  PROVE FALSE
  OBVIOUS
<1>1. CreateOK(u) /\ Live(x) /\ obj[x].kind = call[t].kind /\ obj[x].num = call[t].num
  BY DEF IInv, CreateInv, Named
<1>2. pc[u] \in Early
  BY <1>1 DEF CreateOK, Creating, Early, Live, QpStates
<1>3. Claim(u, call[t].kind, call[t].num)
  BY <1>1, <1>2 DEF Claim, Claims, CreateOK, Early
<1> QED  BY <1>3 DEF IInv, HoldInv, OneHolder

\* An entry at the end of a table.
LEMMA AppendTo ==
  ASSUME StateOK, NEW k \in Kinds, NEW x \in Objs, table' = [table EXCEPT ![k] = Append(@, x)]
  PROVE  /\ table' \in [Kinds -> Seq(Objs)]
         /\ \A l \in Kinds \ {k} : table'[l] = table[l]
         /\ Len(table'[k]) = Len(table[k]) + 1
         /\ table'[k][Len(table[k]) + 1] = x
         /\ \A i \in 1 .. Len(table[k]) : table'[k][i] = table[k][i]
<1>1. table \in [Kinds -> Seq(Objs)] /\ table[k] \in Seq(Objs)
  BY DEF StateOK
<1>2. /\ Append(table[k], x) \in Seq(Objs) /\ Len(Append(table[k], x)) = Len(table[k]) + 1
      /\ Append(table[k], x)[Len(table[k]) + 1] = x
      /\ \A i \in 1 .. Len(table[k]) : Append(table[k], x)[i] = table[k][i]
  BY <1>1, AppendProperties
<1>3. table' = [table EXCEPT ![k] = Append(table[k], x)]
  OBVIOUS
<1> QED  BY <1>1, <1>2, <1>3

\* A new context is the last in its table: older ones with its number are dead.
LEMMA AppendTable ==
  ASSUME StateOK, NumInv, TableInv, NEW x \in Objs, NEW k \in Kinds, k = obj[x].kind,
         obj[x].num # 0, obj[x].rec = "no", obj[x].pinned, Live(x),
         \A l \in Kinds \ {k} : table'[l] = table[l],
         Len(table'[k]) = Len(table[k]) + 1, table'[k][Len(table[k]) + 1] = x,
         \A i \in 1 .. Len(table[k]) : table'[k][i] = table[k][i],
         \A o \in Objs : /\ Live(o)' <=> Live(o)
                         /\ obj'[o].num = obj[o].num /\ obj'[o].kind = obj[o].kind
                         /\ obj'[o].pinned = obj[o].pinned
                         /\ obj'[o].rec = IF o = x THEN "in" ELSE obj[o].rec
  PROVE  TableInv'
<1>0. /\ \A l \in Kinds : Len(table[l]) \in Nat
      /\ \A l \in Kinds : \A i \in 1 .. Len(table[l]) :
           /\ table[l][i] \in Objs /\ obj[table[l][i]].kind = l /\ obj[table[l][i]].num # 0
           /\ obj[table[l][i]].rec = "in" /\ obj[table[l][i]].pinned /\ table[l][i] # x
  BY Fields DEF TableInv
<1>1. ASSUME NEW o \in Objs, obj'[o].rec = "in"
      PROVE  /\ obj'[o].kind \in Kinds
             /\ \E i \in 1 .. Len(table'[obj'[o].kind]) : table'[obj'[o].kind][i] = o
  <2>1. CASE o = x
    <3>1. Len(table[k]) + 1 \in 1 .. Len(table'[k]) /\ obj'[o].kind = k
      BY <2>1, <1>0
    <3> QED  BY <2>1, <3>1
  <2>2. CASE o # x
    <3>1. obj[o].rec = "in" /\ obj'[o].kind = obj[o].kind
      BY <2>2, <1>1
    <3>2. PICK i \in 1 .. Len(table[obj[o].kind]) : table[obj[o].kind][i] = o
      BY <3>1 DEF TableInv
    <3>3. obj[o].kind \in Kinds
      BY <3>1 DEF TableInv
    <3>4. i \in 1 .. Len(table'[obj[o].kind]) /\ table'[obj[o].kind][i] = o
      <4>1. CASE obj[o].kind = k
        <5>1. i \in 1 .. Len(table[k]) /\ table[k][i] = o /\ Len(table[k]) \in Nat
          BY <3>2, <4>1, <1>0
        <5>2. i \in 1 .. Len(table[k]) + 1
          BY <5>1
        <5> QED  BY <5>1, <5>2, <4>1
      <4>2. CASE obj[o].kind # k
        <5>1. table'[obj[o].kind] = table[obj[o].kind]
          BY <4>2, <3>3
        <5> QED  BY <5>1, <3>2
      <4> QED  BY <4>1, <4>2
    <3> QED  BY <3>1, <3>3, <3>4
  <2> QED  BY <2>1, <2>2
<1>2. ASSUME NEW l \in Kinds, NEW i \in 1 .. Len(table'[l])
      PROVE  \/ table'[l][i] = x /\ l = k /\ i = Len(table[k]) + 1
             \/ i \in 1 .. Len(table[l]) /\ table'[l][i] = table[l][i]
  <2>1. CASE l = k
    <3>1. i \in 1 .. Len(table[k]) + 1 /\ Len(table[k]) \in Nat
      BY <2>1, <1>0
    <3>2. i = Len(table[k]) + 1 \/ i \in 1 .. Len(table[k])
      BY <3>1
    <3> QED  BY <3>2, <2>1
  <2>2. CASE l # k
    <3>1. table'[l] = table[l]
      BY <2>2
    <3> QED  BY <3>1
  <2> QED  BY <2>1, <2>2
<1>3. \A l \in Kinds : \A i \in 1 .. Len(table'[l]) :
        LET o == table'[l][i] IN
        obj'[o].kind = l /\ obj'[o].num # 0 /\ obj'[o].rec = "in" /\ obj'[o].pinned
  <2> SUFFICES ASSUME NEW l \in Kinds, NEW i \in 1 .. Len(table'[l])
               PROVE  LET o == table'[l][i] IN
                      obj'[o].kind = l /\ obj'[o].num # 0 /\ obj'[o].rec = "in" /\ obj'[o].pinned
    OBVIOUS
  <2>1. PICK o \in Objs : /\ o = table'[l][i] /\ obj[o].kind = l /\ obj[o].num # 0
                          /\ obj[o].pinned /\ (o = x \/ obj[o].rec = "in")
    BY <1>0, <1>2, SMTT(30)
  <2> QED  BY <2>1
<1>4. ASSUME NEW l \in Kinds, NEW i \in 1 .. Len(table'[l]), NEW j \in 1 .. Len(table'[l]), i < j
      PROVE  /\ table'[l][i] # table'[l][j]
             /\ obj'[table'[l][i]].num = obj'[table'[l][j]].num => ~Live(table[l][i])'
  <2>0. Live(table[l][i])' <=> obj'[table'[l][i]].fw \in {"live"} \cup QpStates
    BY DEF Live
  <2>1. i \in 1 .. Len(table[l]) /\ table'[l][i] = table[l][i]
    <3>1. l = k => i < Len(table[k]) + 1
      BY <1>4, <1>0
    <3> QED  BY <3>1, <1>2, <1>0
  <2>2. PICK a \in Objs : a = table[l][i] /\ obj[a].kind = l /\ a # x
    BY <2>1, <1>0
  <2>3. PICK b \in Objs : b = table'[l][j]
    BY <1>2, <1>0
  <2>4. a # b /\ (obj[a].num = obj[b].num => ~Live(a))
    <3>1. CASE b = x /\ l = k
      BY <3>1, <2>2 DEF NumInv
    <3>2. CASE j \in 1 .. Len(table[l]) /\ b = table[l][j]
      BY <3>2, <2>1, <2>2, <1>4 DEF TableInv
    <3> QED  BY <3>1, <3>2, <2>3, <1>2
  <2>5. obj'[a].num = obj'[b].num => ~(obj'[a].fw \in {"live"} \cup QpStates)
    BY <2>4 DEF Live
  <2> QED  BY <2>0, <2>1, <2>2, <2>3, <2>4, <2>5
<1> QED  BY <1>1, <1>3, <1>4 DEF TableInv

\* The context is in the table.
LEMMA RecordSucceeds ==
  ASSUME IInv, NEW t \in Threads, pc[t] = "record", NEW x \in Objs, x = call[t].obj,
         NEW k \in Kinds, k = obj[x].kind,
         table' \in [Kinds -> Seq(Objs)], TableInv',
         NEW y \in ObjType, obj' = [obj EXCEPT ![x] = y],
         y.rec = "in", y.fw = obj[x].fw, y.num = obj[x].num, y.kind = obj[x].kind,
         y.client = obj[x].client, y.slot = obj[x].slot, y.pinned = obj[x].pinned,
         Goto(t, "own"), UNCHANGED <<world, lifeVars, made, fDbBitmap, ownVars, cmdVars>>
  PROVE  IInv'
<1> USE DEF IInv
<1>0. /\ Creating(t) /\ CreateOK(t) /\ call[t].kind \in Kinds
      /\ call[t].job = "create" /\ Me(t) \in Clients /\ client[Me(t)] # "closed"
      /\ \A u \in Threads \ {t} : Creating(u) =>
           call[u].obj # x /\ call[u].obj \in Objs /\ late.obj # call[u].obj
  <2>1. Creating(t)
    BY DEF Creating
  <2> QED  BY <2>1, CreatingIs
<1>1. UNCHANGED <<world, roce, client, made, fDbBitmap, owned, fActiveCq, late, quarantined>>
  BY DEF lifeVars, ownVars, cmdVars
<1>2. /\ x \in 1 .. made /\ k = call[t].kind /\ obj[x].client = Me(t)
      /\ obj[x].rec = "no" /\ obj[x].pinned /\ late.obj # x /\ obj[x].num = call[t].num /\ Live(x)
      /\ Claims(t) /\ obj[x].num \in Objs
  <2>1. JobOK(t) /\ Claims(t)
    BY DEF JobInv, Claims
  <2> QED  BY <2>1, <1>0 DEF CreateOK, JobOK
<1>3. obj[x].num # 0
  BY <1>2, VerbsAssumption DEF Objs
<1>4. /\ obj' \in [Objs -> ObjType] /\ obj'[x] = y
      /\ \A o \in Objs \ {x} : obj'[o] = obj[o]
  BY Fields
<1>5. /\ pc' \in [Threads -> Points] /\ call' \in [Threads -> CallType]
      /\ \A u \in Threads \ {t} : pc'[u] = pc[u]
      /\ pc'[t] = "own" /\ call' = call
  <2>1. "own" \in Points
    BY DEF Points
  <2> QED  BY <2>1, GotoIs
<1>7. \A o \in Objs : /\ Live(o)' <=> Live(o)
                      /\ obj'[o].num = obj[o].num /\ obj'[o].kind = obj[o].kind
                      /\ obj'[o].client = obj[o].client /\ obj'[o].pinned = obj[o].pinned
                      /\ obj'[o].slot = obj[o].slot
                      /\ obj'[o].rec = IF o = x THEN "in" ELSE obj[o].rec
  BY <1>4 DEF Live
<1>8. StateOK'
  <2>1. /\ world' \in WorldType /\ made' \in 0 .. MaxObjs
        /\ fActiveCq' \in [Clients -> 0 .. MaxObjs] /\ fDbBitmap' \subseteq Slots
        /\ late' \in [op : {"none", "create", "modify", "destroy"}, obj : 0 .. MaxObjs]
        /\ quarantined' \in BOOLEAN
    BY <1>1 DEF StateOK
  <2> QED  BY <1>1, <1>4, <1>5, <2>1, ObjType1
<1>9. JobInv'
  <2>1. JobOK(t)'
    BY <1>0, <1>2, <1>5 DEF JobOK, Claims
  <2> QED  BY <2>1, <1>5, JobFrame
<1>10. ClientInv'
  BY <1>0, <1>1, <1>5, ClientFrame
<1>11. CreateInv'
  <2>1. made' \in Nat /\ made =< made' /\ ~Creating(t)'
    BY <1>1, <1>5, VerbsAssumption DEF StateOK, Creating
  <2>2. \A u \in Threads \ {t} : Creating(u) =>
          obj'[call[u].obj] = obj[call[u].obj] /\ late'.obj # call[u].obj
    BY <1>0, <1>1, <1>4
  <2> QED  BY <1>5, <2>1, <2>2, CreateMove
<1>12. NumInv'
  <2>1. \A o \in Objs : made' < o => obj'[o] = Nothing
    <3> SUFFICES ASSUME NEW o \in Objs, made' < o  PROVE obj'[o] = Nothing
      OBVIOUS
    <3>1. o # x /\ made < o
      BY <1>1, <1>2, VerbsAssumption DEF StateOK, Objs
    <3> QED  BY <3>1, <1>4 DEF NumInv
  <2>2. \A o \in Objs : Live(o)' => obj'[o].kind \in Kinds
    BY <1>7 DEF NumInv
  <2> QED  BY <1>1, <1>7, <2>1, <2>2, NumFrame
<1>14. SlotInv'
  <2>1. {} \in SUBSET Objs
    OBVIOUS
  <2> QED  BY <1>1, <1>7, <2>1, SlotFrame
<1>15. HoldInv'
  <2>1. \A o \in Named(call[t].kind, call[t].num) : obj'[o].rec # "no"
    <3> SUFFICES ASSUME NEW o \in Named(call[t].kind, call[t].num)  PROVE o = x
      BY <1>7
    <3> QED  BY <1>2, <1>3 DEF Named, NumInv
  <2>2. Claim(t, call'[t].kind, call'[t].num) /\ call'[t].kind \in Kinds
    BY <1>0, <1>2, <1>5 DEF Claim
  <2>3. call'[t].num \notin owned'[Me(t)][call'[t].kind]
    BY <1>0, <1>1, <1>2, <1>5 DEF HoldInv, OneHolder
  <2>4. \A l, m : Named(l, m)' = Named(l, m)
    BY <1>7 DEF Named
  <2>5. \A o \in Objs : obj[o].rec # "no" => obj'[o].rec # "no"
    BY <1>7
  <2> QED  BY <1>1, <1>5, <1>7, <2>1, <2>2, <2>3, <2>4, <2>5, HoldMove
<1>16. LateInv'
  <2>1. late.op # "none" => obj'[late.obj] = obj[late.obj]
    BY <1>2, <1>4 DEF LateInv
  <2> QED  BY <1>1, <2>1, LateFrame
<1> QED  BY <1>8, <1>9, <1>10, <1>11, <1>12, <1>14, <1>15, <1>16

\* The context is recorded, or there is no memory for it.
LEMMA RecordStep ==
  ASSUME IInv, NEW t \in Threads, Record(t)
  PROVE  IInv'
<1>0. /\ StateOK /\ pc[t] = "record" /\ Creating(t) /\ call[t].obj \in Objs /\ CreateOK(t)
      /\ call[t].kind \in Kinds /\ call[t].job = "create"
      /\ Me(t) \in Clients /\ client[Me(t)] # "closed"
      /\ UNCHANGED <<lifeVars, made, fDbBitmap, ownVars, cmdVars>>
  <2>1. /\ pc[t] = "record" /\ UNCHANGED <<lifeVars, made, fDbBitmap, ownVars, cmdVars>> /\ StateOK
    BY DEF Record, IInv
  <2>2. Creating(t)
    BY <2>1 DEF Creating
  <2> QED  BY <2>1, <2>2, CreatingIs
<1>1. PICK x \in Objs : x = call[t].obj
  BY <1>0
<1>2. /\ obj[x].kind \in Kinds /\ obj[x].kind = call[t].kind /\ obj[x].num = call[t].num
      /\ obj[x].rec = "no" /\ obj[x].pinned /\ Live(x) /\ obj[x].num # 0 /\ call[t].num \in Objs
      /\ Claims(t)
  <2>1. JobOK(t) /\ Claims(t)
    BY <1>0 DEF IInv, JobInv, Claims
  <2> QED  BY <2>1, <1>0, <1>1, VerbsAssumption DEF CreateOK, JobOK, Objs
<1>3. CASE /\ table' = [table EXCEPT ![obj[x].kind] = Append(@, x)]
           /\ obj' = [obj EXCEPT ![x].rec = "in"]
           /\ Goto(t, "own")
           /\ Allocated
  <2> DEFINE y == [obj[x] EXCEPT !.rec = "in"]
  <2>1. /\ y \in ObjType /\ y.rec = "in" /\ y.fw = obj[x].fw /\ y.num = obj[x].num
        /\ y.kind = obj[x].kind /\ y.client = obj[x].client /\ y.slot = obj[x].slot
        /\ y.pinned = obj[x].pinned /\ obj' = [obj EXCEPT ![x] = y]
    <3>1. obj \in [Objs -> ObjType] /\ obj[x] \in ObjType
      BY <1>0, Fields
    <3> QED  BY <3>1, <1>3 DEF ObjType
  <2> HIDE DEF y
  <2>2. \A o \in Objs : /\ Live(o)' <=> Live(o)
                        /\ obj'[o].num = obj[o].num /\ obj'[o].kind = obj[o].kind
                        /\ obj'[o].pinned = obj[o].pinned
                        /\ obj'[o].rec = IF o = x THEN "in" ELSE obj[o].rec
    <3>1. obj'[x] = y /\ \A o \in Objs \ {x} : obj'[o] = obj[o]
      BY <1>0, <2>1, Fields
    <3> QED  BY <3>1, <2>1 DEF Live
  <2>3. PICK k \in Kinds : k = obj[x].kind
    BY <1>2
  <2>4. table' = [table EXCEPT ![k] = Append(@, x)]
    BY <1>3, <2>3
  <2>5. /\ table' \in [Kinds -> Seq(Objs)]
        /\ \A l \in Kinds \ {k} : table'[l] = table[l]
        /\ Len(table'[k]) = Len(table[k]) + 1
        /\ table'[k][Len(table[k]) + 1] = x
        /\ \A i \in 1 .. Len(table[k]) : table'[k][i] = table[k][i]
    BY <1>0, <2>4, AppendTo
  <2>6. TableInv'
    <3>1. NumInv /\ TableInv
      BY DEF IInv
    <3> QED  BY <3>1, <1>0, <1>2, <2>2, <2>3, <2>5, AppendTable
  <2>7. UNCHANGED <<world, lifeVars, made, fDbBitmap, ownVars, cmdVars>> /\ Goto(t, "own")
    BY <1>0, <1>3 DEF Allocated
  <2> QED  BY <1>0, <1>1, <2>1, <2>3, <2>5, <2>6, <2>7, RecordSucceeds
<1>4. CASE /\ OutOfMemory
           /\ Goto(t, "unrecord")
           /\ UNCHANGED <<obj, table>>
  <2> USE DEF IInv
  <2>1. /\ pc' \in [Threads -> Points] /\ call' \in [Threads -> CallType]
        /\ \A u \in Threads \ {t} : pc'[u] = pc[u]
        /\ pc'[t] = "unrecord" /\ call' = call
    <3>1. "unrecord" \in Points /\ Goto(t, "unrecord")
      BY <1>4 DEF Points
    <3> QED  BY <3>1, <1>0, GotoIs
  <2>2. world' \in WorldType /\ world'.reuse = world.reuse
    BY <1>0, <1>4, WorldStep
  <2>3. UNCHANGED <<roce, client, made, obj, table, fDbBitmap, owned, fActiveCq, late, quarantined>>
    BY <1>0, <1>4 DEF lifeVars, ownVars, cmdVars
  <2>4. StateOK'
    BY <1>0, <2>1, <2>2, <2>3, QuietType DEF memVars, cmdVars, StateOK
  <2>5. JobInv'
    <3>1. JobOK(t)'
      BY <1>0, <1>2, <2>1 DEF JobOK, Claims
    <3> QED  BY <3>1, <2>1, JobFrame
  <2>6. ClientInv'
    BY <1>0, <2>1, <2>3, ClientFrame
  <2>7. CreateInv'
    <3>1. CreateOK(t)'
      BY <1>0, <2>1, <2>3, MeIs DEF CreateOK, Live
    <3>2. \A u \in Threads \ {t} : Creating(u) =>
            obj'[call[u].obj] = obj[call[u].obj] /\ late'.obj # call[u].obj
      BY <2>3 DEF CreateInv, CreateOK
    <3>3. made' \in Nat /\ made =< made'
      BY <2>3, VerbsAssumption DEF StateOK
    <3> QED  BY <1>0, <2>1, <3>1, <3>2, <3>3, CreateMove
  <2>8. NumInv' /\ TableInv' /\ SlotInv' /\ LateInv'
    BY <2>2, <2>3, MemFrame
  <2>9. HoldInv'
    <3>1. \A o \in Objs : Live(o)' = Live(o)
      BY <2>3 DEF Live
    <3>2. \A k, n : Named(k, n)' = Named(k, n)
      BY <2>3 DEF Named, Live
    <3>3. Claim(t, call'[t].kind, call'[t].num) /\ call'[t].kind \in Kinds /\ pc'[t] \in Early
      BY <1>0, <1>2, <2>1 DEF Claim, Early
    <3>4. call'[t].num \notin owned'[Me(t)][call'[t].kind]
      BY <1>0, <1>2, <2>1, <2>3 DEF HoldInv, OneHolder
    <3> QED  BY <1>0, <2>1, <2>3, <3>1, <3>2, <3>3, <3>4, HoldMove
  <2> QED  BY <2>4, <2>5, <2>6, <2>7, <2>8, <2>9
<1> QED  BY <1>1, <1>3, <1>4 DEF Record

\* The firmware destroys the object a call has the right to destroy, and the call
\* goes on to the context.
LEMMA KillStep ==
  ASSUME IInv, NEW t \in Threads, NEW x \in Named(call[t].kind, call[t].num), ~quarantined,
         \/ pc[t] = "unrecord" /\ x = call[t].obj /\ call[t].kind = "qp"
         \/ pc[t] = "destroy",
         NEW y \in ObjType, obj' = [obj EXCEPT ![x] = y],
         y.fw = "gone", y.rec = obj[x].rec, y.num = obj[x].num, y.kind = obj[x].kind,
         y.client = obj[x].client, y.slot = obj[x].slot, y.pinned = obj[x].pinned,
         Goto(t, "drop"),
         UNCHANGED <<world, lifeVars, made, table, fDbBitmap, ownVars, cmdVars>>
  PROVE  IInv'
<1> USE DEF IInv
<1>0. /\ Claims(t) /\ call[t].kind \in Kinds /\ call[t].num \in Objs
      /\ call[t].job \in {"create", "undo", "destroy", "close"}
      /\ pc[t] = "unrecord" <=> call[t].job = "create"
      /\ Me(t) \in Clients /\ client[Me(t)] # "closed" /\ pc[t] # "idle"
  <2>1. JobOK(t) /\ Claims(t)
    BY DEF JobInv, Claims
  <2> QED  BY <2>1, MeIs, NotClosed DEF JobOK
<1>1. UNCHANGED <<world, roce, client, made, table, fDbBitmap, owned, fActiveCq, late, quarantined>>
  BY DEF lifeVars, ownVars, cmdVars
<1>2. x \in Objs /\ Live(x) /\ obj[x].kind = call[t].kind /\ obj[x].num = call[t].num
  BY DEF Named
<1>3. /\ obj' \in [Objs -> ObjType] /\ obj'[x] = y
      /\ \A o \in Objs \ {x} : obj'[o] = obj[o]
  BY <1>2, Fields
<1>4. /\ pc' \in [Threads -> Points] /\ call' \in [Threads -> CallType]
      /\ \A u \in Threads \ {t} : pc'[u] = pc[u]
      /\ pc'[t] = "drop" /\ call' = call
  <2>1. "drop" \in Points
    BY DEF Points
  <2> QED  BY <2>1, GotoIs
<1>5. \A o \in Objs : /\ Live(o)' <=> Live(o) /\ o # x
                      /\ obj'[o].num = obj[o].num /\ obj'[o].kind = obj[o].kind
                      /\ obj'[o].client = obj[o].client /\ obj'[o].pinned = obj[o].pinned
                      /\ obj'[o].slot = obj[o].slot /\ obj'[o].rec = obj[o].rec
  BY <1>2, <1>3 DEF Live, QpStates
<1>6. StateOK'
  <2>1. /\ world' \in WorldType /\ made' \in 0 .. MaxObjs /\ table' \in [Kinds -> Seq(Objs)]
        /\ fActiveCq' \in [Clients -> 0 .. MaxObjs] /\ fDbBitmap' \subseteq Slots
        /\ late' \in [op : {"none", "create", "modify", "destroy"}, obj : 0 .. MaxObjs]
        /\ quarantined' \in BOOLEAN
    BY <1>1 DEF StateOK
  <2> QED  BY <1>1, <1>3, <1>4, <2>1, ObjType1
<1>7. JobInv'
  <2>1. JobOK(t)'
    BY <1>0, <1>4 DEF JobOK, Claims
  <2> QED  BY <2>1, <1>4, JobFrame
<1>8. ClientInv'
  BY <1>0, <1>1, <1>4, ClientFrame
<1>9. CreateInv'
  <2>1. made' \in Nat /\ made =< made'
    BY <1>1, VerbsAssumption DEF StateOK
  <2>2. \A u \in Threads \ {t} : Creating(u) =>
          obj'[call[u].obj] = obj[call[u].obj] /\ late'.obj # call[u].obj
    <3> SUFFICES ASSUME NEW u \in Threads \ {t}, Creating(u)
                 PROVE  obj'[call[u].obj] = obj[call[u].obj] /\ late'.obj # call[u].obj
      OBVIOUS
    <3>1. call[u].obj # x
      BY <1>0, NotCreated
    <3>2. call[u].obj \in Objs /\ late.obj # call[u].obj
      BY CreatingIs DEF CreateOK
    <3> QED  BY <3>1, <3>2, <1>1, <1>3
  <2>3. ASSUME Creating(t)'
        PROVE  CreateOK(t)' /\ Creating(t) /\ call'[t].obj = call[t].obj
    <3>1. pc[t] = "unrecord" /\ x = call[t].obj
      BY <2>3, <1>0, <1>4 DEF Creating
    <3>2. Creating(t) /\ CreateOK(t)
      BY <3>1 DEF Creating, CreateInv
    <3>3. CreateOK(t)'
      BY <3>1, <3>2, <1>1, <1>3, <1>4, <1>5, MeIs DEF CreateOK
    <3> QED  BY <3>2, <3>3, <1>4
  <2> QED  BY <1>4, <2>1, <2>2, <2>3, CreateMove
<1>10. NumInv'
  <2>1. \A o \in Objs : made' < o => obj'[o] = Nothing
    <3> SUFFICES ASSUME NEW o \in Objs, made < o  PROVE obj'[o] = Nothing
      BY <1>1
    <3>1. obj[o] = Nothing
      BY DEF NumInv
    <3>2. o # x
      BY <3>1, <1>2 DEF Live, Nothing, QpStates
    <3> QED  BY <3>1, <3>2, <1>3
  <2>2. \A o \in Objs : Live(o)' => obj'[o].kind \in Kinds
    BY <1>5 DEF NumInv
  <2> QED  BY <1>1, <1>5, <2>1, <2>2, NumFrame
<1>11. TableInv'
  BY <1>1, <1>5, TableFrame
<1>12. SlotInv'
  <2>1. {} \in SUBSET Objs
    OBVIOUS
  <2> QED  BY <1>1, <1>5, <2>1, SlotFrame
<1>13. HoldInv'
  <2>1. ~Claims(t)' /\ owned' = owned /\ \A u \in Threads \ {t} : call'[u] = call[u]
    BY <1>1, <1>4 DEF Claims
  <2>2. ASSUME NEW k \in Kinds, NEW n \in Nat, Named(k, n) # {}, Named(k, n)' = {}
        PROVE  Claim(t, k, n)
    <3>1. PICK p \in Objs : Live(p) /\ obj[p].kind = k /\ obj[p].num = n
      BY <2>2 DEF Named
    <3>2. p = x
      BY <3>1, <2>2, <1>5 DEF Named
    <3> QED  BY <3>1, <3>2, <1>0, <1>2 DEF Claim
  <2> QED  BY <1>1, <1>4, <1>5, <2>1, <2>2, HoldMove
<1>14. LateInv'
  <2>1. late.op = "none"
    BY DEF LateInv
  <2> QED  BY <2>1, <1>1, LateFrame
<1> QED  BY <1>6, <1>7, <1>8, <1>9, <1>10, <1>11, <1>12, <1>13, <1>14

\* The object without a context is destroyed.
LEMMA UnrecordStep ==
  ASSUME IInv, NEW t \in Threads, Unrecord(t)
  PROVE  IInv'
<1>0. /\ StateOK /\ pc[t] = "unrecord" /\ Creating(t) /\ call[t].obj \in Objs /\ CreateOK(t)
      /\ call[t].kind \in Kinds /\ call[t].job = "create"
      /\ UNCHANGED <<world, lifeVars, made, table, ownVars>>
  <2>1. /\ pc[t] = "unrecord" /\ UNCHANGED <<world, lifeVars, made, table, ownVars>> /\ StateOK
    BY DEF Unrecord, IInv
  <2>2. Creating(t)
    BY <2>1 DEF Creating
  <2> QED  BY <2>1, <2>2, CreatingIs
<1>1. PICK x \in Objs : x = call[t].obj
  BY <1>0
<1>2. /\ obj[x].kind \in Kinds /\ obj[x].kind = call[t].kind /\ obj[x].num = call[t].num
      /\ obj[x].rec = "no" /\ obj[x].pinned /\ Live(x) /\ obj[x].fw # "none"
      /\ obj[x].fw \in {"live"} \cup QpStates
  BY <1>0, <1>1 DEF CreateOK, Live, QpStates
<1>3. obj \in [Objs -> ObjType] /\ obj[x] \in ObjType
  BY <1>0, Fields
<1>4. CASE /\ ~quarantined
           /\ obj' = [obj EXCEPT ![x].fw = "gone", ![x].pinned = call[t].kind = "qp"]
           /\ IF call[t].kind = "qp"
              THEN Goto(t, "drop") /\ UNCHANGED fDbBitmap
              ELSE Done(t) /\ fDbBitmap' = FreeDbSlots(obj[x].slot)
           /\ UNCHANGED cmdVars
  <2>1. PICK b \in BOOLEAN : b = (call[t].kind = "qp")
    OBVIOUS
  <2> DEFINE y == [obj[x] EXCEPT !.fw = "gone", !.pinned = b]
  <2>2. obj' = [obj EXCEPT ![x] = y]
    BY <1>3, <1>4, <2>1 DEF ObjType
  <2>3. /\ y \in ObjType /\ y.fw = "gone" /\ y.rec = obj[x].rec /\ y.num = obj[x].num
        /\ y.kind = obj[x].kind /\ y.client = obj[x].client /\ y.slot = obj[x].slot
        /\ y.pinned = b
    BY <1>3 DEF ObjType
  <2> HIDE DEF y
  <2>4. CASE call[t].kind = "qp"
    <3>1. x \in Named(call[t].kind, call[t].num)
      BY <1>2 DEF Named
    <3>2. /\ Goto(t, "drop") /\ ~quarantined
          /\ UNCHANGED <<world, lifeVars, made, table, fDbBitmap, ownVars, cmdVars>>
      BY <1>0, <1>4, <2>4
    <3>3. y.pinned = obj[x].pinned
      BY <2>1, <2>3, <2>4, <1>2, <1>3 DEF ObjType
    <3> QED  BY <1>0, <1>1, <2>2, <2>3, <2>4, <3>1, <3>2, <3>3, KillStep
  <2>5. CASE call[t].kind # "qp"
    <3>1. /\ Done(t) /\ fDbBitmap' = fDbBitmap \ Pair(obj[x].slot) /\ ~y.pinned
          /\ UNCHANGED cmdVars
      BY <1>4, <2>1, <2>3, <2>5 DEF FreeDbSlots
    <3>2. y.fw \notin {"live"} \cup QpStates /\ y.rec = "no"
      BY <2>3, <1>2 DEF QpStates
    <3> QED  BY <1>0, <1>1, <2>2, <2>3, <3>1, <3>2, LetGo
  <2> QED  BY <2>4, <2>5
<1>5. CASE /\ UNCHANGED cmdVars \/ TimesOut("destroy", x)
           /\ IF call[t].kind = "cq" THEN Release(x) ELSE UNCHANGED <<obj, fDbBitmap>>
           /\ Done(t)
  <2> DEFINE y == IF call[t].kind = "cq" THEN [obj[x] EXCEPT !.pinned = FALSE] ELSE obj[x]
  <2>1. /\ obj' = [obj EXCEPT ![x] = y] /\ y \in ObjType
        /\ fDbBitmap' = IF call[t].kind = "cq" THEN fDbBitmap \ Pair(obj[x].slot) ELSE fDbBitmap
    <3>1. CASE call[t].kind = "cq"
      <4>1. obj' = Unpin(x) /\ fDbBitmap' = fDbBitmap \ Pair(obj[x].slot)
        BY <1>2, <1>5, <3>1 DEF Release, FreeDbSlots
      <4> QED  BY <4>1, <3>1, <1>0, Unpinned
    <3>2. CASE call[t].kind # "cq"
      BY <1>3, <1>5, <3>2
    <3> QED  BY <3>1, <3>2
  <2>2. /\ y.fw = obj[x].fw /\ y.rec = obj[x].rec /\ y.num = obj[x].num
        /\ y.kind = obj[x].kind /\ y.client = obj[x].client /\ y.slot = obj[x].slot
        /\ y.pinned <=> call[t].kind # "cq"
    BY <1>2, <1>3 DEF ObjType
  <2> HIDE DEF y
  <2>3. fDbBitmap' = IF y.pinned THEN fDbBitmap ELSE fDbBitmap \ Pair(obj[x].slot)
    BY <2>1, <2>2
  <2>4. \/ UNCHANGED cmdVars
        \/ /\ quarantined' = TRUE /\ late' \in [op : {"create", "destroy"}, obj : {x}]
           /\ late'.op = "destroy"
    BY <1>5 DEF TimesOut, GivesUp
  <2>5. Done(t) /\ pc[t] # "drop" /\ y.rec = "no" /\ y.fw \in {"live"} \cup QpStates
    BY <1>0, <1>2, <1>5, <2>2
  <2>6. \/ UNCHANGED cmdVars
        \/ /\ quarantined' = TRUE
           /\ late' \in [op : {"create", "destroy"}, obj : {x}]
           /\ late'.op = "create" => y.fw = "none" /\ y.kind \in Kinds /\ y.num = 0
           /\ late'.op = "destroy" => y.fw \in {"live"} \cup QpStates
    BY <2>4, <2>5
  <2> QED  BY <1>0, <1>1, <1>2, <2>1, <2>2, <2>3, <2>5, <2>6, LetGo
<1> QED  BY <1>1, <1>4, <1>5 DEF Unrecord

(***************************************************************************)
(* A command about a number the call may use that leaves all objects in    *)
(* the firmware: it failed, timed out, or was a MODIFY.                    *)
(***************************************************************************)
LEMMA AnswerStep ==
  ASSUME IInv, NEW t \in Threads, pc[t] \in {"destroy", "modify"},
         pc' \in [Threads -> Points], call' \in [Threads -> CallType],
         \A u \in Threads \ {t} : pc'[u] = pc[u] /\ call'[u] = call[u],
         \/ pc'[t] = "back" /\ call'[t] = call[t] /\ call[t].job \in {"destroy", "modify"}
         \/ pc'[t] = "idle" /\ call'[t] = NoCall
         \/ pc'[t] = "close" /\ call'[t] = call[t] /\ call[t].job = "close",
         obj' \in [Objs -> ObjType],
         \A o \in Objs : /\ Live(o)' <=> Live(o)
                         /\ obj'[o].num = obj[o].num /\ obj'[o].kind = obj[o].kind
                         /\ obj'[o].client = obj[o].client /\ obj'[o].pinned = obj[o].pinned
                         /\ obj'[o].slot = obj[o].slot /\ obj'[o].rec = obj[o].rec,
         \A o \in Objs : \/ obj'[o] = obj[o] \/ obj[o].rec = "in"
                         \/ o \in Named(call[t].kind, call[t].num),
         \/ UNCHANGED cmdVars /\ (obj' = obj \/ ~quarantined)
         \/ /\ quarantined' = TRUE /\ obj' = obj
            /\ \/ late' = late /\ ~quarantined
               \/ /\ late' \in [op : {"modify", "destroy"}, obj : Named(call[t].kind, call[t].num)]
                  /\ late'.op = "modify" => obj[late'.obj].fw \in {"RST", "INIT", "RTR"},
         UNCHANGED <<world, lifeVars, made, table, fDbBitmap, ownVars>>
  PROVE  IInv'
<1> USE DEF IInv
<1>0. /\ Claims(t) /\ call[t].kind \in Kinds /\ call[t].num \in Objs
      /\ Me(t) \in Clients /\ client[Me(t)] # "closed" /\ pc[t] # "idle" /\ ~Creating(t)
      /\ Named(call[t].kind, call[t].num) \subseteq Objs
  <2>1. JobOK(t) /\ Claims(t) /\ ~Creating(t)
    BY DEF JobInv, Claims, Creating
  <2> QED  BY <2>1, MeIs, NotClosed DEF JobOK, Named
<1>1. UNCHANGED <<world, roce, client, made, table, fDbBitmap, owned, fActiveCq>>
  BY DEF lifeVars, ownVars
<1>2. /\ quarantined' = quarantined \/ (quarantined' = TRUE /\ obj' = obj)
      /\ \/ late' = late /\ (obj' = obj \/ ~quarantined)
         \/ /\ late' \in [op : {"modify", "destroy"}, obj : Named(call[t].kind, call[t].num)]
            /\ late'.op = "modify" => obj[late'.obj].fw \in {"RST", "INIT", "RTR"}
            /\ quarantined' = TRUE /\ obj' = obj
  BY DEF cmdVars
<1>3. StateOK'
  <2>1. /\ world' \in WorldType /\ made' \in 0 .. MaxObjs /\ table' \in [Kinds -> Seq(Objs)]
        /\ fActiveCq' \in [Clients -> 0 .. MaxObjs] /\ fDbBitmap' \subseteq Slots
    BY <1>1 DEF StateOK
  <2>2. quarantined' \in BOOLEAN
    BY <1>2 DEF StateOK
  <2>3. late' \in [op : {"none", "create", "modify", "destroy"}, obj : 0 .. MaxObjs]
    <3>1. Named(call[t].kind, call[t].num) \subseteq 0 .. MaxObjs
      BY <1>0, VerbsAssumption DEF Objs
    <3> QED  BY <3>1, <1>2 DEF StateOK
  <2> QED  BY <1>1, <2>1, <2>2, <2>3, ObjType1
<1>4. JobInv'
  <2>1. JobOK(t)'
    BY <1>0 DEF JobOK, Claims
  <2> QED  BY <2>1, JobFrame
<1>5. ClientInv'
  <2>1. call'[t].job = "close" => call[t].job = "close"
    BY DEF NoCall
  <2> QED  BY <1>0, <1>1, <2>1, ClientFrame
<1>6. CreateInv'
  <2>1. made' \in Nat /\ made =< made' /\ ~Creating(t)'
    BY <1>1, VerbsAssumption DEF StateOK, Creating
  <2>2. \A u \in Threads \ {t} : Creating(u) =>
          obj'[call[u].obj] = obj[call[u].obj] /\ late'.obj # call[u].obj
    <3> SUFFICES ASSUME NEW u \in Threads \ {t}, Creating(u)
                 PROVE  obj'[call[u].obj] = obj[call[u].obj] /\ late'.obj # call[u].obj
      OBVIOUS
    <3>1. call[u].obj \notin Named(call[t].kind, call[t].num)
      BY <1>0, NotCreated
    <3>2. call[u].obj \in Objs /\ late.obj # call[u].obj /\ obj[call[u].obj].rec = "no"
      BY CreatingIs DEF CreateOK
    <3>3. obj'[call[u].obj] = obj[call[u].obj]
      BY <3>1, <3>2
    <3>4. late'.obj # call[u].obj
      BY <3>1, <3>2, <1>2
    <3> QED  BY <3>3, <3>4
  <2> QED  BY <2>1, <2>2, CreateMove
<1>7. NumInv'
  <2>1. \A o \in Objs : made' < o => obj'[o] = Nothing
    <3> SUFFICES ASSUME NEW o \in Objs, made < o  PROVE obj'[o] = Nothing
      BY <1>1
    <3>1. obj[o] = Nothing
      BY DEF NumInv
    <3>2. obj[o].rec # "in" /\ o \notin Named(call[t].kind, call[t].num)
      BY <3>1 DEF Named, Live, Nothing, QpStates
    <3> QED  BY <3>1, <3>2
  <2>2. \A o \in Objs : Live(o)' => obj'[o].kind \in Kinds
    BY DEF NumInv
  <2> QED  BY <1>1, <2>1, <2>2, NumFrame
<1>8. TableInv'
  BY <1>1, TableFrame
<1>9. SlotInv'
  <2>1. {} \in SUBSET Objs
    OBVIOUS
  <2> QED  BY <1>1, <2>1, SlotFrame
<1>10. HoldInv'
  <2>1. Claims(t)' => /\ call'[t].kind \in Kinds /\ Claim(t, call'[t].kind, call'[t].num)
                      /\ call'[t].num \notin owned'[Me(t)][call'[t].kind]
    <3> SUFFICES ASSUME Claims(t)'
                 PROVE  /\ call'[t].kind \in Kinds /\ Claim(t, call'[t].kind, call'[t].num)
                        /\ call'[t].num \notin owned'[Me(t)][call'[t].kind]
      OBVIOUS
    <3>1. call'[t] = call[t]
      BY DEF Claims
    <3> QED  BY <3>1, <1>0, <1>1 DEF Claim, HoldInv, OneHolder
  <2>2. \A k, n : Named(k, n)' = Named(k, n)
    BY DEF Named
  <2>3. pc[t] \notin Early
    BY DEF Early
  <2>4. ~quarantined' => ~quarantined
    BY <1>2 DEF StateOK
  <2> QED  BY <1>1, <2>1, <2>2, <2>3, <2>4, HoldMove
<1>11. LateInv'
  <2>1. CASE late' = late /\ (obj' = obj \/ ~quarantined)
    <3>1. late.op # "none" => obj' = obj
      BY <2>1 DEF LateInv
    <3>2. quarantined => quarantined'
      BY <1>2
    <3> QED  BY <2>1, <3>1, <3>2, LateFrame
  <2>2. CASE /\ late' \in [op : {"modify", "destroy"}, obj : Named(call[t].kind, call[t].num)]
             /\ late'.op = "modify" => obj[late'.obj].fw \in {"RST", "INIT", "RTR"}
             /\ quarantined' = TRUE /\ obj' = obj
    <3>1. /\ late'.op \in {"modify", "destroy"} /\ late'.obj \in Objs
          /\ obj[late'.obj].fw \in {"live"} \cup QpStates
      BY <2>2 DEF Named, Live
    <3> QED  BY <2>2, <3>1 DEF LateInv, Live
  <2> QED  BY <1>2, <2>1, <2>2
<1> QED  BY <1>3, <1>4, <1>5, <1>6, <1>7, <1>8, <1>9, <1>10, <1>11

\* The DESTROY command.
LEMMA DestroyCommandStep ==
  ASSUME IInv, NEW t \in Threads, DestroyCommand(t)
  PROVE  IInv'
<1> USE DEF IInv
<1>0. /\ pc[t] = "destroy" /\ UNCHANGED <<world, lifeVars, made, table, fDbBitmap, ownVars>>
      /\ call[t].job \in {"undo", "destroy", "close"}
  <2>1. JobOK(t)
    BY DEF JobInv
  <2> QED  BY <2>1 DEF DestroyCommand, JobOK
<1>1. CASE /\ ~quarantined
           /\ \E o \in Named(call[t].kind, call[t].num) : obj' = [obj EXCEPT ![o].fw = "gone"]
           /\ Goto(t, "drop")
           /\ UNCHANGED cmdVars
  <2>1. PICK x \in Named(call[t].kind, call[t].num) : obj' = [obj EXCEPT ![x].fw = "gone"]
    BY <1>1
  <2> DEFINE y == [obj[x] EXCEPT !.fw = "gone"]
  <2>2. x \in Objs /\ obj \in [Objs -> ObjType] /\ obj[x] \in ObjType
    BY Fields DEF Named
  <2>3. obj' = [obj EXCEPT ![x] = y]
    BY <2>1, <2>2
  <2>4. /\ y \in ObjType /\ y.fw = "gone" /\ y.rec = obj[x].rec /\ y.num = obj[x].num
        /\ y.kind = obj[x].kind /\ y.client = obj[x].client /\ y.slot = obj[x].slot
        /\ y.pinned = obj[x].pinned
    BY <2>2 DEF ObjType
  <2> HIDE DEF y
  <2>5. UNCHANGED <<world, lifeVars, made, table, fDbBitmap, ownVars, cmdVars>>
    BY <1>0, <1>1
  <2> QED  BY <1>0, <1>1, <2>3, <2>4, <2>5, KillStep
<1>2. CASE /\ UNCHANGED cmdVars \/ TimesOutOn("destroy", call[t].kind, call[t].num)
           /\ IF call[t].job = "destroy" THEN Goto(t, "back") ELSE Done(t)
           /\ UNCHANGED obj
  <2>1. /\ pc' \in [Threads -> Points] /\ call' \in [Threads -> CallType]
        /\ \A u \in Threads \ {t} : pc'[u] = pc[u] /\ call'[u] = call[u]
        /\ \/ pc'[t] = "back" /\ call'[t] = call[t] /\ call[t].job \in {"destroy", "modify"}
           \/ pc'[t] = "idle" /\ call'[t] = NoCall
           \/ pc'[t] = "close" /\ call'[t] = call[t] /\ call[t].job = "close"
    <3>1. CASE call[t].job = "destroy"
      <4>1. "back" \in Points /\ Goto(t, "back")
        BY <3>1, <1>2 DEF Points
      <4> QED  BY <4>1, <3>1, GotoIs
    <3>2. CASE call[t].job # "destroy"
      BY <3>2, <1>2, DoneIs
    <3> QED  BY <3>1, <3>2
  <2>2. \/ UNCHANGED cmdVars
        \/ /\ quarantined' = TRUE
           /\ \/ late' = late /\ ~quarantined
              \/ /\ late' \in [op : {"modify", "destroy"}, obj : Named(call[t].kind, call[t].num)]
                 /\ late'.op = "modify" => obj[late'.obj].fw \in {"RST", "INIT", "RTR"}
    BY <1>2 DEF TimesOutOn, TimesOut, GivesUp
  <2>3. obj' = obj /\ obj' \in [Objs -> ObjType] /\ \A o \in Objs : Live(o)' <=> Live(o)
    BY <1>2, Fields DEF Live
  <2> QED  BY <1>0, <2>1, <2>2, <2>3, AnswerStep
<1> QED  BY <1>1, <1>2 DEF DestroyCommand

\* The successor of a QP's state.
LEMMA NextStateIs ==
  ASSUME NEW s \in QpStates, s # "RTS"
  PROVE  NextState(s) \in QpStates
BY DEF NextState, QpStates

\* MODIFY_QP.
LEMMA ModifyCommandStep ==
  ASSUME IInv, NEW t \in Threads, ModifyCommand(t)
  PROVE  IInv'
<1> USE DEF IInv
<1> DEFINE n == call[t].num  i == FirstMatch("qp", n)
<1>0. /\ pc[t] = "modify" /\ UNCHANGED <<world, lifeVars, made, table, fDbBitmap, ownVars>>
      /\ call[t].job = "modify" /\ call[t].kind = "qp" /\ "qp" \in Kinds /\ Goto(t, "back")
  <2>1. JobOK(t)
    BY DEF JobInv
  <2> QED  BY <2>1 DEF ModifyCommand, JobOK, Kinds
<1>1. /\ pc' \in [Threads -> Points] /\ call' \in [Threads -> CallType]
      /\ \A u \in Threads \ {t} : pc'[u] = pc[u] /\ call'[u] = call[u]
      /\ pc'[t] = "back" /\ call'[t] = call[t]
  <2>1. "back" \in Points
    BY DEF Points
  <2> QED  BY <2>1, <1>0, GotoIs
<1>2. i # 0 => table["qp"][i] \in Objs /\ obj[table["qp"][i]].rec = "in"
               /\ obj[table["qp"][i]].state \in QpStates
  <2> SUFFICES ASSUME i # 0
               PROVE  table["qp"][i] \in Objs /\ obj[table["qp"][i]].rec = "in"
                      /\ obj[table["qp"][i]].state \in QpStates
    OBVIOUS
  <2>1. i \in 1 .. Len(table["qp"])
    BY <1>0, FirstMatchIs
  <2> HIDE DEF i
  <2> QED  BY <1>0, <2>1, Fields DEF TableInv
<1>3. CASE /\ ~quarantined /\ i # 0 /\ obj[table["qp"][i]].state # "RTS"
           /\ \E o \in Named("qp", n) :
                /\ obj[o].fw = obj[table["qp"][i]].state
                /\ obj' = [[obj EXCEPT ![o].fw = NextState(obj[table["qp"][i]].state)]
                                EXCEPT ![table["qp"][i]].state = NextState(obj[table["qp"][i]].state)]
           /\ UNCHANGED cmdVars
  <2>1. PICK ctx \in Objs : ctx = table["qp"][i] /\ obj[ctx].rec = "in" /\ obj[ctx].state \in QpStates
                            /\ obj[ctx].state # "RTS"
    BY <1>2, <1>3
  <2>2. PICK s \in QpStates : s = NextState(obj[ctx].state)
    BY <2>1, NextStateIs
  <2>3. PICK o \in Named("qp", n) :
          /\ obj[o].fw = obj[ctx].state
          /\ obj' = [[obj EXCEPT ![o].fw = s] EXCEPT ![ctx].state = s]
    BY <1>3, <2>1, <2>2
  <2> HIDE DEF n, i
  <2>4. /\ o \in Objs /\ Live(o) /\ obj \in [Objs -> ObjType]
    BY Fields DEF Named
  <2>5. PICK z \in [Objs -> ObjType] : z = [obj EXCEPT ![o] = [obj[o] EXCEPT !.fw = s]]
    <3>1. [obj[o] EXCEPT !.fw = s] \in ObjType
      BY <2>4 DEF ObjType
    <3> QED  BY <3>1, <2>4
  <2>6. /\ \A p \in Objs : /\ z[p].num = obj[p].num /\ z[p].kind = obj[p].kind
                           /\ z[p].client = obj[p].client /\ z[p].pinned = obj[p].pinned
                           /\ z[p].slot = obj[p].slot /\ z[p].rec = obj[p].rec
                           /\ z[p].fw = IF p = o THEN s ELSE obj[p].fw
        /\ \A p \in Objs \ {o} : z[p] = obj[p]
    BY <2>4, <2>5 DEF ObjType
  <2>7. obj' = [z EXCEPT ![ctx] = [z[ctx] EXCEPT !.state = s]]
    <3>1. obj' = [z EXCEPT ![ctx].state = s]
      BY <2>3, <2>4, <2>5
    <3> QED  BY <3>1
  <2>8. /\ obj' \in [Objs -> ObjType]
        /\ \A p \in Objs : /\ obj'[p].num = obj[p].num /\ obj'[p].kind = obj[p].kind
                           /\ obj'[p].client = obj[p].client /\ obj'[p].pinned = obj[p].pinned
                           /\ obj'[p].slot = obj[p].slot /\ obj'[p].rec = obj[p].rec
                           /\ obj'[p].fw = IF p = o THEN s ELSE obj[p].fw
        /\ \A p \in Objs \ {o, ctx} : obj'[p] = obj[p]
    <3>1. [z[ctx] EXCEPT !.state = s] \in ObjType
      BY DEF ObjType
    <3>2. obj'[ctx] = [z[ctx] EXCEPT !.state = s] /\ \A p \in Objs \ {ctx} : obj'[p] = z[p]
      BY <2>7
    <3>3. obj' \in [Objs -> ObjType]
      BY <3>1, <2>7
    <3>4. z[ctx] \in ObjType
      OBVIOUS
    <3>5. /\ obj'[ctx].num = z[ctx].num /\ obj'[ctx].kind = z[ctx].kind
          /\ obj'[ctx].client = z[ctx].client /\ obj'[ctx].pinned = z[ctx].pinned
          /\ obj'[ctx].slot = z[ctx].slot /\ obj'[ctx].rec = z[ctx].rec
          /\ obj'[ctx].fw = z[ctx].fw
      BY <3>2, <3>4 DEF ObjType
    <3>6. ASSUME NEW p \in Objs
          PROVE  /\ obj'[p].num = obj[p].num /\ obj'[p].kind = obj[p].kind
                 /\ obj'[p].client = obj[p].client /\ obj'[p].pinned = obj[p].pinned
                 /\ obj'[p].slot = obj[p].slot /\ obj'[p].rec = obj[p].rec
                 /\ obj'[p].fw = IF p = o THEN s ELSE obj[p].fw
      <4>1. CASE p = ctx
        BY <4>1, <3>5, <2>6
      <4>2. CASE p # ctx
        BY <4>2, <3>2, <2>6
      <4> QED  BY <4>1, <4>2
    <3>7. \A p \in Objs \ {o, ctx} : obj'[p] = obj[p]
      BY <3>2, <2>6
    <3> QED  BY <3>3, <3>6, <3>7
  <2>9. \A p \in Objs : Live(p)' <=> Live(p)
    BY <2>4, <2>8 DEF Live
  <2>10. \A p \in Objs : \/ obj'[p] = obj[p] \/ obj[p].rec = "in"
                         \/ p \in Named(call[t].kind, call[t].num)
    BY <2>1, <2>3, <2>8, <1>0 DEF n
  <2>11. UNCHANGED cmdVars /\ ~quarantined
    BY <1>3
  <2> QED  BY <1>0, <1>1, <2>8, <2>9, <2>10, <2>11, AnswerStep
<1>4. CASE UNCHANGED <<obj, cmdVars>>
  <2>1. obj' = obj /\ obj' \in [Objs -> ObjType] /\ \A o \in Objs : Live(o)' <=> Live(o)
    BY <1>4, Fields DEF Live
  <2> QED  BY <1>0, <1>1, <1>4, <2>1, AnswerStep
<1>5. CASE /\ i # 0 /\ obj[table["qp"][i]].state # "RTS"
           /\ \E o \in Named("qp", n) : obj[o].fw = obj[table["qp"][i]].state /\ TimesOut("modify", o)
           /\ UNCHANGED obj
  <2>1. PICK o \in Named("qp", n) : obj[o].fw = obj[table["qp"][i]].state /\ TimesOut("modify", o)
    BY <1>5
  <2>2. obj[o].fw \in {"RST", "INIT", "RTR"}
    BY <1>2, <1>5, <2>1 DEF QpStates
  <2>3. /\ quarantined' = TRUE
        /\ late' \in [op : {"modify", "destroy"}, obj : Named(call[t].kind, call[t].num)]
        /\ late'.op = "modify" => obj[late'.obj].fw \in {"RST", "INIT", "RTR"}
    BY <2>1, <2>2, <1>0 DEF TimesOut, GivesUp
  <2>4. obj' = obj /\ obj' \in [Objs -> ObjType] /\ \A p \in Objs : Live(p)' <=> Live(p)
    BY <1>5, Fields DEF Live
  <2> QED  BY <1>0, <1>1, <2>3, <2>4, AnswerStep
<1> QED  BY <1>3, <1>4, <1>5 DEF ModifyCommand

\* The firmware carries out the command that timed out.
LEMMA LateStep ==
  ASSUME IInv, FirmwareAnswersLate
  PROVE  IInv'
<1> USE DEF IInv
<1>0. /\ late # NoCommand /\ late' = NoCommand
      /\ UNCHANGED <<world, roce, client, made, table, fDbBitmap, owned, fActiveCq, quarantined, pc, call>>
  BY DEF FirmwareAnswersLate, lifeVars, ownVars
<1>1. /\ late.op \in {"create", "modify", "destroy"} /\ late.obj \in Objs /\ quarantined
  <2>1. late \in [op : {"none", "create", "modify", "destroy"}, obj : 0 .. MaxObjs]
    BY DEF StateOK
  <2>2. late.op # "none"
    <3> SUFFICES ASSUME late.op = "none"  PROVE FALSE
      OBVIOUS
    <3>1. late.obj = 0
      BY DEF LateInv
    <3> QED  BY <3>1, <2>1, <1>0 DEF NoCommand
  <2> QED  BY <2>1, <2>2 DEF LateInv
<1>2. PICK x \in Objs : x = late.obj
  BY <1>1
<1>3. /\ obj \in [Objs -> ObjType] /\ obj[x] \in ObjType
  BY Fields
<1>4. PICK s \in {"live", "gone"} \cup QpStates :
        /\ obj' = [obj EXCEPT ![x] = [obj[x] EXCEPT !.fw = s]]
        /\ s \in {"live"} \cup QpStates /\ ~Live(x) =>
             obj[x].num = 0 /\ obj[x].kind \in Kinds /\ obj[x].rec = "no"
  <2>1. CASE late.op = "create"
    <3>1. FirstState(obj[x].kind) \in {"live", "gone"} \cup QpStates
      BY DEF FirstState, QpStates
    <3>2. obj' = [obj EXCEPT ![x] = [obj[x] EXCEPT !.fw = FirstState(obj[x].kind)]]
      BY <2>1, <1>2, <1>3 DEF FirmwareAnswersLate
    <3>3. obj[x].num = 0 /\ obj[x].kind \in Kinds /\ obj[x].rec = "no"
      BY <2>1, <1>2 DEF LateInv
    <3> QED  BY <3>1, <3>2, <3>3
  <2>2. CASE late.op = "modify"
    <3>1. obj[x].fw \in {"RST", "INIT", "RTR"}
      BY <2>2, <1>2 DEF LateInv
    <3>2. NextState(obj[x].fw) \in {"live", "gone"} \cup QpStates /\ Live(x)
      BY <3>1, NextStateIs DEF QpStates, Live
    <3>3. obj' = [obj EXCEPT ![x] = [obj[x] EXCEPT !.fw = NextState(obj[x].fw)]]
      BY <2>2, <1>2, <1>3 DEF FirmwareAnswersLate
    <3> QED  BY <3>2, <3>3
  <2>3. CASE late.op = "destroy"
    <3>1. obj' = [obj EXCEPT ![x] = [obj[x] EXCEPT !.fw = "gone"]]
      BY <2>3, <1>2, <1>3 DEF FirmwareAnswersLate
    <3>2. Live(x)
      BY <2>3, <1>2 DEF LateInv
    <3> QED  BY <3>1, <3>2
  <2> QED  BY <1>1, <2>1, <2>2, <2>3
<1> DEFINE y == [obj[x] EXCEPT !.fw = s]
<1>5. /\ y \in ObjType /\ y.fw = s /\ y.num = obj[x].num /\ y.kind = obj[x].kind
      /\ y.client = obj[x].client /\ y.pinned = obj[x].pinned /\ y.slot = obj[x].slot
      /\ y.rec = obj[x].rec
  BY <1>3 DEF ObjType
<1> HIDE DEF y
<1>6. /\ obj' \in [Objs -> ObjType] /\ obj'[x] = y
      /\ \A o \in Objs \ {x} : obj'[o] = obj[o]
  BY <1>3, <1>4, <1>5 DEF y
<1>7. \A o \in Objs : /\ obj'[o].num = obj[o].num /\ obj'[o].kind = obj[o].kind
                      /\ obj'[o].client = obj[o].client /\ obj'[o].pinned = obj[o].pinned
                      /\ obj'[o].slot = obj[o].slot /\ obj'[o].rec = obj[o].rec
  BY <1>5, <1>6
<1>8. \A o \in Objs : Live(o)' /\ ~Live(o) =>
        o = x /\ obj[o].num = 0 /\ obj[o].kind \in Kinds /\ obj[o].rec = "no"
  <2>1. obj'[x].fw = s
    BY <1>5, <1>6
  <2> QED  BY <1>4, <1>6, <2>1 DEF Live
<1>9. StateOK'
  <2>1. /\ world' \in WorldType /\ made' \in 0 .. MaxObjs /\ table' \in [Kinds -> Seq(Objs)]
        /\ fActiveCq' \in [Clients -> 0 .. MaxObjs] /\ fDbBitmap' \subseteq Slots
        /\ quarantined' \in BOOLEAN
        /\ pc' \in [Threads -> Points] /\ call' \in [Threads -> CallType]
    BY <1>0 DEF StateOK, Points, CallType
  <2>2. late' \in [op : {"none", "create", "modify", "destroy"}, obj : 0 .. MaxObjs]
    BY <1>0, VerbsAssumption DEF NoCommand
  <2> QED  BY <1>0, <1>6, <2>1, <2>2, ObjType1
<1>10. JobInv'
  BY <1>0 DEF JobInv, JobOK, Claims
<1>11. ClientInv'
  BY <1>0 DEF ClientInv, Me
<1>12. CreateInv'
  <2>1. made' \in Nat /\ made =< made'
    BY <1>0, VerbsAssumption DEF StateOK
  <2>2. ASSUME NEW u \in Threads, Creating(u)'
        PROVE  /\ Creating(u) /\ pc'[u] = pc[u] /\ call'[u] = call[u]
               /\ obj'[call[u].obj] = obj[call[u].obj]
               /\ late'.obj # call[u].obj
    <3>1. Creating(u) /\ pc'[u] = pc[u] /\ call'[u] = call[u]
      BY <2>2, <1>0 DEF Creating
    <3>2. call[u].obj \in Objs /\ late.obj # call[u].obj
      BY <3>1, CreatingIs DEF CreateOK
    <3>3. late'.obj # call[u].obj
      BY <3>2, <1>0, VerbsAssumption DEF NoCommand, Objs
    <3> QED  BY <3>1, <3>2, <3>3, <1>2, <1>6
  <2> QED  BY <2>1, <2>2, CreateFrame
<1>13. NumInv'
  <2>1. \A o \in Objs : made' < o => obj'[o] = Nothing
    <3> SUFFICES ASSUME NEW o \in Objs, made < o  PROVE obj'[o] = Nothing
      BY <1>0
    <3>1. late.obj \in 0 .. made
      BY LateMade
    <3>2. o # x
      BY <3>1, <1>2, VerbsAssumption DEF StateOK, Objs
    <3> QED  BY <3>2, <1>6 DEF NumInv
  <2>2. \A o \in Objs : Live(o)' => obj'[o].kind \in Kinds
    BY <1>7, <1>8 DEF NumInv
  <2> QED  BY <1>0, <1>7, <1>8, <2>1, <2>2, NumFrame
<1>14. TableInv'
  BY <1>0, <1>7, <1>8, TableFrame
<1>15. SlotInv'
  <2>1. {} \in SUBSET Objs
    OBVIOUS
  <2> QED  BY <1>0, <1>7, <2>1, SlotFrame
<1>16. HoldInv'
  <2>1. OneHolder'
    BY <1>0 DEF HoldInv, OneHolder, Claims, Claim
  <2>2. HeldIsLive'
    BY <1>0, <1>1 DEF HeldIsLive
  <2>3. \A u \in Threads : Me(u)' = Me(u) /\ \A k, n : Claim(u, k, n)' <=> Claim(u, k, n)
    BY <1>0, MeIs DEF Claim, Claims
  <2>4. HeldIsOwn'
    <3>1. ASSUME NEW o \in Objs, Live(o)', obj'[o].num # 0
          PROVE  /\ Live(o) /\ obj[o].num # 0
                 /\ \A u \in Threads : Claim(u, obj[o].kind, obj[o].num)' <=> Claim(u, obj[o].kind, obj[o].num)
      <4>1. Live(o) /\ obj[o].num # 0
        BY <3>1, <1>7, <1>8
      <4>2. \A u \in Threads : Claim(u, obj[o].kind, obj[o].num)' <=> Claim(u, obj[o].kind, obj[o].num)
        BY <1>0, <1>7 DEF Claim, Claims
      <4> QED  BY <4>1, <4>2
    <3> QED  BY <3>1, <2>3, <1>0, <1>7 DEF HoldInv, HeldIsOwn
  <2> QED  BY <2>1, <2>2, <2>4 DEF HoldInv
<1>17. LateInv'
  BY <1>0 DEF LateInv, NoCommand
<1> QED  BY <1>9, <1>10, <1>11, <1>12, <1>13, <1>14, <1>15, <1>16, <1>17

\* A context leaves its table.
LEMMA RemoveTable ==
  ASSUME StateOK, TableInv, NEW k \in Kinds, NEW i \in 1 .. Len(table[k]),
         NEW x \in Objs, x = table[k][i],
         \A l \in Kinds \ {k} : table'[l] = table[l],
         Len(table'[k]) = Len(table[k]) - 1,
         \A j \in 1 .. Len(table[k]) - 1 :
           table'[k][j] = IF j < i THEN table[k][j] ELSE table[k][j + 1],
         \A o \in Objs : obj'[o].rec = "in" => obj[o].rec = "in" /\ o # x,
         \A o \in Objs : obj[o].rec = "in" /\ o # x =>
           /\ obj'[o].kind = obj[o].kind /\ obj'[o].num = obj[o].num
           /\ obj'[o].rec = "in" /\ obj'[o].pinned = obj[o].pinned
           /\ Live(o)' => Live(o)
  PROVE  TableInv'
<1>0. /\ \A l \in Kinds : Len(table[l]) \in Nat
      /\ \A l \in Kinds : \A j \in 1 .. Len(table[l]) :
           /\ table[l][j] \in Objs /\ obj[table[l][j]].kind = l /\ obj[table[l][j]].num # 0
           /\ obj[table[l][j]].rec = "in" /\ obj[table[l][j]].pinned
  BY Fields DEF TableInv
<1> DEFINE From(l, j) == IF l = k /\ i =< j THEN j + 1 ELSE j
<1>1. ASSUME NEW l \in Kinds, NEW j \in 1 .. Len(table'[l])
      PROVE  /\ From(l, j) \in 1 .. Len(table[l]) /\ table'[l][j] = table[l][From(l, j)]
             /\ l = k => From(l, j) # i
  <2>1. CASE l = k
    <3>1. j \in 1 .. Len(table[k]) - 1 /\ Len(table[k]) \in Nat
      BY <2>1, <1>0
    <3>2. From(l, j) \in 1 .. Len(table[k]) /\ From(l, j) # i
      BY <3>1, <2>1
    <3>3. table'[k][j] = IF j < i THEN table[k][j] ELSE table[k][j + 1]
      BY <3>1
    <3>4. From(l, j) = IF j < i THEN j ELSE j + 1
      BY <3>1, <2>1
    <3> QED  BY <2>1, <3>2, <3>3, <3>4
  <2>2. CASE l # k
    <3>1. table'[l] = table[l]
      BY <2>2
    <3> QED  BY <3>1, <2>2
  <2> QED  BY <2>1, <2>2
<1>2. ASSUME NEW l \in Kinds, NEW j \in 1 .. Len(table'[l])
      PROVE  table'[l][j] # x
  <2>1. CASE l = k
    <3>1. From(l, j) \in 1 .. Len(table[k]) /\ From(l, j) # i /\ table'[l][j] = table[k][From(l, j)]
      BY <2>1, <1>1
    <3> HIDE DEF From
    <3>2. table[k][From(l, j)] # table[k][i]
      <4>1. From(l, j) < i \/ i < From(l, j)
        BY <3>1, <1>0
      <4> QED  BY <3>1, <4>1 DEF TableInv
    <3> QED  BY <3>1, <3>2
  <2>2. CASE l # k
    <3>1. table'[l] = table[l]
      BY <2>2
    <3>2. obj[table[l][j]].kind = l /\ obj[x].kind = k
      BY <3>1, <1>0
    <3> QED  BY <3>1, <3>2, <2>2
  <2> QED  BY <2>1, <2>2
<1>3. ASSUME NEW o \in Objs, obj'[o].rec = "in"
      PROVE  /\ obj'[o].kind \in Kinds
             /\ \E j \in 1 .. Len(table'[obj'[o].kind]) : table'[obj'[o].kind][j] = o
  <2>1. obj[o].rec = "in" /\ o # x /\ obj'[o].kind = obj[o].kind /\ obj[o].kind \in Kinds
    BY <1>3 DEF TableInv
  <2>2. PICK j \in 1 .. Len(table[obj[o].kind]) : table[obj[o].kind][j] = o
    BY <2>1 DEF TableInv
  <2>3. CASE obj[o].kind = k
    <3>1. j # i /\ j \in 1 .. Len(table[k]) /\ table[k][j] = o /\ Len(table[k]) \in Nat
      BY <2>1, <2>2, <2>3, <1>0
    <3>2. CASE j < i
      <4>1. j \in 1 .. Len(table[k]) - 1
        BY <3>1, <3>2
      <4>2. table'[k][j] = o
        BY <4>1, <3>1, <3>2
      <4> QED  BY <4>1, <4>2, <2>1, <2>3
    <3>3. CASE i < j
      <4>1. j - 1 \in 1 .. Len(table[k]) - 1 /\ ~(j - 1 < i) /\ (j - 1) + 1 = j
        BY <3>1, <3>3
      <4>2. table'[k][j - 1] = table[k][(j - 1) + 1]
        BY <4>1
      <4>3. table'[k][j - 1] = o
        BY <4>1, <4>2, <3>1
      <4> QED  BY <4>1, <4>3, <2>1, <2>3
    <3> QED  BY <3>1, <3>2, <3>3
  <2>4. CASE obj[o].kind # k
    <3>1. table'[obj[o].kind] = table[obj[o].kind]
      BY <2>1, <2>4
    <3> QED  BY <3>1, <2>1, <2>2
  <2> QED  BY <2>3, <2>4
<1>4. ASSUME NEW l \in Kinds, NEW j \in 1 .. Len(table'[l])
      PROVE  LET o == table'[l][j] IN
             obj'[o].kind = l /\ obj'[o].num # 0 /\ obj'[o].rec = "in" /\ obj'[o].pinned
  <2>0. From(l, j) \in 1 .. Len(table[l]) /\ table'[l][j] = table[l][From(l, j)] /\ table'[l][j] # x
    BY <1>1, <1>2
  <2> HIDE DEF From
  <2>1. PICK o \in Objs : /\ o = table'[l][j] /\ o # x /\ obj[o].kind = l /\ obj[o].num # 0
                          /\ obj[o].rec = "in" /\ obj[o].pinned
    BY <1>0, <2>0
  <2> QED  BY <2>1
<1>5. ASSUME NEW l \in Kinds, NEW m \in 1 .. Len(table'[l]), NEW j \in 1 .. Len(table'[l]), m < j
      PROVE  /\ table'[l][m] # table'[l][j]
             /\ obj'[table'[l][m]].num = obj'[table'[l][j]].num => ~Live(table[l][m])'
  <2>0. Live(table[l][m])' <=> obj'[table'[l][m]].fw \in {"live"} \cup QpStates
    BY DEF Live
  <2>1. /\ From(l, m) \in 1 .. Len(table[l]) /\ table'[l][m] = table[l][From(l, m)]
        /\ From(l, j) \in 1 .. Len(table[l]) /\ table'[l][j] = table[l][From(l, j)]
    BY <1>1
  <2>2. From(l, m) < From(l, j)
    <3>1. m \in Int /\ j \in Int /\ i \in Int /\ m < j
      BY <1>5, <2>1, <1>0
    <3> QED  BY <3>1
  <2> HIDE DEF From
  <2>3. PICK a \in Objs : a = table'[l][m] /\ a = table[l][From(l, m)] /\ obj[a].rec = "in" /\ a # x
    BY <1>0, <1>2, <2>1, SMTT(30)
  <2>4. PICK b \in Objs : b = table'[l][j] /\ b = table[l][From(l, j)] /\ obj[b].rec = "in" /\ b # x
    BY <1>0, <1>2, <2>1, SMTT(30)
  <2>5. a # b /\ (obj[a].num = obj[b].num => ~Live(a))
    BY <2>1, <2>2, <2>3, <2>4 DEF TableInv
  <2>6. obj'[a].num = obj'[b].num => ~(obj'[a].fw \in {"live"} \cup QpStates)
    BY <2>3, <2>4, <2>5 DEF Live
  <2> QED  BY <2>0, <2>3, <2>4, <2>5, <2>6
<1> HIDE DEF From
<1> QED  BY <1>3, <1>4, <1>5 DEF TableInv

\* A context leaves its table with the memory and the slots of its object; so
\* does a QP that has no context.
LEMMA DropIs ==
  ASSUME IInv, NEW t \in Threads, Drop(t)
  PROVE  /\ pc[t] = "drop" /\ Done(t) /\ call[t].kind \in Kinds /\ call[t].num \in Objs
         /\ UNCHANGED <<world, roce, client, made, owned, late, quarantined>>
         /\ \E O \in SUBSET Objs :
              /\ O = (IF call[t].job = "create" THEN {call[t].obj} ELSE {}) \cup
                     (IF FirstMatch(call[t].kind, call[t].num) = 0 THEN {}
                      ELSE {table[call[t].kind][FirstMatch(call[t].kind, call[t].num)]})
              /\ fDbBitmap' = fDbBitmap \ UNION {Pair(obj[o].slot) : o \in O}
              /\ obj' \in [Objs -> ObjType]
              /\ \A o \in Objs \ O : obj'[o] = obj[o]
              /\ \A o \in O : Live(o) =>
                   /\ obj'[o].kind = obj[o].kind /\ obj'[o].num = obj[o].num
                   /\ obj'[o].client = obj[o].client /\ obj'[o].fw = obj[o].fw
                   /\ ~obj'[o].pinned /\ obj'[o].rec = "out"
              /\ \A o \in O : ~Live(o) => obj'[o] = Nothing
              /\ \A o \in O : obj[o].pinned
<1> USE DEF IInv
<1> DEFINE i == FirstMatch(call[t].kind, call[t].num)
           O == (IF call[t].job = "create" THEN {call[t].obj} ELSE {}) \cup
                (IF i = 0 THEN {} ELSE {table[call[t].kind][i]})
<1>1. /\ pc[t] = "drop" /\ Done(t)
      /\ UNCHANGED <<world, roce, client, made, owned, late, quarantined>>
      /\ fDbBitmap' = fDbBitmap \ UNION {Pair(obj[o].slot) : o \in O}
      /\ obj' = [o \in Objs |->
                  CASE o \notin O -> obj[o]
                    [] o \in O /\ Live(o) -> [obj[o] EXCEPT !.pinned = FALSE, !.rec = "out"]
                    [] OTHER -> Nothing]
  BY DEF Drop, lifeVars, cmdVars
<1>2. /\ call[t].kind \in Kinds /\ call[t].num \in Objs
  BY <1>1 DEF JobInv, JobOK
<1>3. call[t].job = "create" => call[t].obj \in Objs /\ obj[call[t].obj].pinned
  <2> SUFFICES ASSUME call[t].job = "create"
               PROVE  call[t].obj \in Objs /\ obj[call[t].obj].pinned
    OBVIOUS
  <2>1. Creating(t)
    BY <1>1 DEF Creating
  <2>2. CreateOK(t) /\ call[t].obj \in Objs
    BY <2>1, CreatingIs
  <2> QED  BY <2>2 DEF CreateOK
<1>4. i # 0 => table[call[t].kind][i] \in Objs /\ obj[table[call[t].kind][i]].pinned
  <2> SUFFICES ASSUME i # 0
               PROVE  table[call[t].kind][i] \in Objs /\ obj[table[call[t].kind][i]].pinned
    OBVIOUS
  <2>1. i \in 1 .. Len(table[call[t].kind])
    BY <1>2, FirstMatchIs
  <2> HIDE DEF i
  <2> QED  BY <2>1, <1>2, Fields DEF TableInv
<1>5. O \in SUBSET Objs /\ \A o \in O : obj[o].pinned
  <2> HIDE DEF i
  <2> QED  BY <1>3, <1>4
<1> HIDE DEF O, i
<1>6. \A o \in Objs : obj[o] \in ObjType
  BY Fields
<1>7. Nothing \in ObjType
  BY VerbsAssumption DEF Nothing, ObjType, QpStates
<1>8. \A o \in Objs : /\ o \notin O => obj'[o] = obj[o]
                      /\ o \in O /\ Live(o) => obj'[o] = [obj[o] EXCEPT !.pinned = FALSE, !.rec = "out"]
                      /\ o \in O /\ ~Live(o) => obj'[o] = Nothing
  BY <1>1
<1>9. ASSUME NEW o \in Objs
      PROVE  /\ [obj[o] EXCEPT !.pinned = FALSE, !.rec = "out"] \in ObjType
             /\ o \in O /\ Live(o) =>
                  /\ obj'[o].kind = obj[o].kind /\ obj'[o].num = obj[o].num
                  /\ obj'[o].client = obj[o].client /\ obj'[o].fw = obj[o].fw
                  /\ ~obj'[o].pinned /\ obj'[o].rec = "out"
  <2>1. obj[o] \in ObjType
    BY <1>6
  <2> QED  BY <2>1, <1>8 DEF ObjType
<1>10. obj' \in [Objs -> ObjType]
  <2>1. DOMAIN obj' = Objs /\ obj' = [o \in Objs |-> obj'[o]]
    BY <1>1
  <2>2. \A o \in Objs : obj'[o] \in ObjType
    BY <1>6, <1>7, <1>8, <1>9
  <2> QED  BY <2>1, <2>2
<1>11. /\ \A o \in O : Live(o) =>
            /\ obj'[o].kind = obj[o].kind /\ obj'[o].num = obj[o].num
            /\ obj'[o].client = obj[o].client /\ obj'[o].fw = obj[o].fw
            /\ ~obj'[o].pinned /\ obj'[o].rec = "out"
       /\ \A o \in O : ~Live(o) => obj'[o] = Nothing
       /\ \A o \in Objs \ O : obj'[o] = obj[o]
  BY <1>5, <1>8, <1>9
<1> QED  BY <1>1, <1>2, <1>5, <1>10, <1>11 DEF O, i

\* The table of a drop.
LEMMA DropTable ==
  ASSUME IInv, NEW t \in Threads, Drop(t), NEW k \in Kinds, k = call[t].kind
  PROVE  /\ table' \in [Kinds -> Seq(Objs)]
         /\ FirstMatch(k, call[t].num) = 0 => table' = table
         /\ FirstMatch(k, call[t].num) # 0 =>
              \E i \in 1 .. Len(table[k]) : \E x \in Objs :
                /\ i = FirstMatch(k, call[t].num)
                /\ x = table[k][i] /\ obj[x].rec = "in" /\ obj[x].kind = k /\ obj[x].num = call[t].num
                /\ \A l \in Kinds \ {k} : table'[l] = table[l]
                /\ Len(table'[k]) = Len(table[k]) - 1
                /\ \A j \in 1 .. Len(table[k]) - 1 :
                     table'[k][j] = IF j < i THEN table[k][j] ELSE table[k][j + 1]
                /\ \A j \in 1 .. Len(table[k]) : obj[table[k][j]].num = call[t].num => i =< j
<1>0. StateOK /\ TableInv /\ table \in [Kinds -> Seq(Objs)]
  BY DEF IInv, StateOK
<1>2. PICK i : i = FirstMatch(k, call[t].num)
  OBVIOUS
<1>3. table' = IF i = 0 THEN table ELSE [table EXCEPT ![k] = Without(table[k], i)]
  BY <1>2 DEF Drop
<1>4. CASE i = 0
  BY <1>0, <1>2, <1>3, <1>4
<1>5. CASE i # 0
  <2>1. /\ i \in 1 .. Len(table[k]) /\ obj[table[k][i]].num = call[t].num
        /\ \A j \in 1 .. Len(table[k]) : obj[table[k][j]].num = call[t].num => i =< j
    BY <1>0, <1>2, <1>5, FirstMatchIs
  <2>2. PICK x \in Objs : x = table[k][i] /\ obj[x].rec = "in" /\ obj[x].kind = k /\ obj[x].num = call[t].num
    BY <1>0, <2>1, Fields DEF TableInv
  <2>3. table[k] \in Seq(Objs)
    BY <1>0
  <2>4. /\ Without(table[k], i) \in Seq(Objs)
        /\ Len(Without(table[k], i)) = Len(table[k]) - 1
        /\ \A j \in 1 .. Len(table[k]) - 1 :
             Without(table[k], i)[j] = IF j < i THEN table[k][j] ELSE table[k][j + 1]
    BY <2>1, <2>3, WithoutIs
  <2>5. /\ table' \in [Kinds -> Seq(Objs)] /\ table'[k] = Without(table[k], i)
        /\ \A l \in Kinds \ {k} : table'[l] = table[l]
    BY <1>0, <1>3, <1>5, <2>4
  <2>6. /\ Len(table'[k]) = Len(table[k]) - 1
        /\ \A j \in 1 .. Len(table[k]) - 1 :
             table'[k][j] = IF j < i THEN table[k][j] ELSE table[k][j + 1]
    BY <2>4, <2>5
  <2>7. \E j \in 1 .. Len(table[k]) : \E z \in Objs :
          /\ j = FirstMatch(k, call[t].num)
          /\ z = table[k][j] /\ obj[z].rec = "in" /\ obj[z].kind = k /\ obj[z].num = call[t].num
          /\ \A l \in Kinds \ {k} : table'[l] = table[l]
          /\ Len(table'[k]) = Len(table[k]) - 1
          /\ \A m \in 1 .. Len(table[k]) - 1 :
               table'[k][m] = IF m < j THEN table[k][m] ELSE table[k][m + 1]
          /\ \A m \in 1 .. Len(table[k]) : obj[table[k][m]].num = call[t].num => j =< m
    <3> i \in 1 .. Len(table[k])
      BY <2>1
    <3> WITNESS i \in 1 .. Len(table[k])
    <3> WITNESS x \in Objs
    <3> QED  BY <1>2, <2>1, <2>2, <2>5, <2>6
  <2> QED  BY <1>2, <1>5, <2>5, <2>7
<1> QED  BY <1>4, <1>5

\* The context of the call's number leaves the table.
LEMMA DropStep ==
  ASSUME IInv, NEW t \in Threads, Drop(t)
  PROVE  IInv'
<1> USE DEF IInv
<1>0. /\ pc[t] = "drop" /\ Done(t) /\ call[t].kind \in Kinds /\ call[t].num \in Objs
      /\ UNCHANGED <<world, roce, client, made, owned, late, quarantined>>
  BY DropIs
<1>1. PICK O \in SUBSET Objs :
              /\ O = (IF call[t].job = "create" THEN {call[t].obj} ELSE {}) \cup
                     (IF FirstMatch(call[t].kind, call[t].num) = 0 THEN {}
                      ELSE {table[call[t].kind][FirstMatch(call[t].kind, call[t].num)]})
              /\ fDbBitmap' = fDbBitmap \ UNION {Pair(obj[o].slot) : o \in O}
              /\ obj' \in [Objs -> ObjType]
              /\ \A o \in Objs \ O : obj'[o] = obj[o]
              /\ \A o \in O : Live(o) =>
                   /\ obj'[o].kind = obj[o].kind /\ obj'[o].num = obj[o].num
                   /\ obj'[o].client = obj[o].client /\ obj'[o].fw = obj[o].fw
                   /\ ~obj'[o].pinned /\ obj'[o].rec = "out"
              /\ \A o \in O : ~Live(o) => obj'[o] = Nothing
              /\ \A o \in O : obj[o].pinned
  BY DropIs
<1>2. /\ pc' \in [Threads -> Points] /\ call' \in [Threads -> CallType]
      /\ \A u \in Threads \ {t} : pc'[u] = pc[u] /\ call'[u] = call[u]
      /\ call[t].job = "close" => pc'[t] = "close" /\ call'[t] = call[t]
      /\ call[t].job # "close" => pc'[t] = "idle" /\ call'[t] = NoCall
  BY <1>0, DoneIs
<1>3. table' \in [Kinds -> Seq(Objs)]
  BY <1>0, DropTable
<1>4. \A o \in O : obj[o].rec = "in" \/ (call[t].job = "create" /\ o = call[t].obj)
  <2>1. FirstMatch(call[t].kind, call[t].num) # 0 =>
          obj[table[call[t].kind][FirstMatch(call[t].kind, call[t].num)]].rec = "in"
    BY <1>0, DropTable
  <2> QED  BY <1>1, <2>1
<1>5. ~Claims(t) /\ ~Claims(t)' /\ ~Creating(t)'
  BY <1>0, <1>2 DEF Claims, Creating
<1>6. Me(t) \in Clients /\ client[Me(t)] # "closed" /\ pc[t] # "idle"
  BY <1>0, MeIs, NotClosed
<1>7. \A u \in Threads : Creating(u) /\ u # t => call[u].obj \in Objs \ O
  <2> SUFFICES ASSUME NEW u \in Threads, Creating(u), u # t  PROVE call[u].obj \in Objs \ O
    OBVIOUS
  <2>1. CreateOK(u) /\ call[u].obj \in Objs
    BY CreatingIs
  <2>2. call[t].job = "create" => call[u].obj # call[t].obj
    BY <1>0 DEF Creating, CreateInv
  <2>3. obj[call[u].obj].rec = "no"
    BY <2>1 DEF CreateOK
  <2> QED  BY <2>1, <2>2, <2>3, <1>4
<1>8. call[t].job = "create" => /\ call[t].obj \in O /\ obj[call[t].obj].rec = "no"
                                /\ ~Live(call[t].obj) /\ late.obj # call[t].obj
  <2> SUFFICES ASSUME call[t].job = "create"
               PROVE  /\ call[t].obj \in O /\ obj[call[t].obj].rec = "no"
                      /\ ~Live(call[t].obj) /\ late.obj # call[t].obj
    OBVIOUS
  <2>1. CreateOK(t)
    BY <1>0 DEF Creating, CreateInv
  <2> QED  BY <2>1, <1>0, <1>1 DEF CreateOK, Live, QpStates
<1>9. \A o \in Objs : /\ Live(o)' <=> Live(o)
                      /\ Live(o) => /\ obj'[o].kind = obj[o].kind /\ obj'[o].num = obj[o].num
                                    /\ obj'[o].client = obj[o].client /\ obj'[o].fw = obj[o].fw
                                    /\ obj[o].rec # "no" => obj'[o].rec # "no"
  <2> SUFFICES ASSUME NEW o \in Objs
               PROVE  /\ Live(o)' <=> Live(o)
                      /\ Live(o) => /\ obj'[o].kind = obj[o].kind /\ obj'[o].num = obj[o].num
                                    /\ obj'[o].client = obj[o].client /\ obj'[o].fw = obj[o].fw
                                    /\ obj[o].rec # "no" => obj'[o].rec # "no"
    OBVIOUS
  <2>1. CASE o \notin O
    BY <2>1, <1>1 DEF Live
  <2>2. CASE o \in O /\ Live(o)
    BY <2>2, <1>1 DEF Live
  <2>3. CASE o \in O /\ ~Live(o)
    <3>1. obj'[o] = Nothing
      BY <2>3, <1>1
    <3> QED  BY <3>1, <2>3 DEF Live, Nothing, QpStates
  <2> QED  BY <2>1, <2>2, <2>3
<1>10. StateOK'
  <2>1. /\ world' \in WorldType /\ made' \in 0 .. MaxObjs /\ quarantined' \in BOOLEAN
        /\ late' \in [op : {"none", "create", "modify", "destroy"}, obj : 0 .. MaxObjs]
    BY <1>0 DEF StateOK
  <2>2. fDbBitmap' \subseteq Slots
    BY <1>1 DEF StateOK
  <2>3. fActiveCq' \in [Clients -> 0 .. MaxObjs]
    <3>1. fActiveCq' = fActiveCq \/ fActiveCq' = [fActiveCq EXCEPT ![Me(t)] = 0]
      BY DEF Drop
    <3>2. fActiveCq \in [Clients -> 0 .. MaxObjs] /\ 0 \in 0 .. MaxObjs
      BY VerbsAssumption DEF StateOK
    <3> QED  BY <3>1, <3>2
  <2> QED  BY <1>0, <1>1, <1>2, <1>3, <2>1, <2>2, <2>3, ObjType1
<1>11. JobInv'
  <2>1. JobOK(t)'
    BY <1>2 DEF JobOK, Claims
  <2> QED  BY <2>1, <1>2, JobFrame
<1>12. ClientInv'
  <2>1. call'[t].job = "close" => call[t].job = "close"
    BY <1>2 DEF NoCall
  <2> QED  BY <1>0, <1>2, <1>6, <2>1, ClientFrame
<1>13. CreateInv'
  <2>1. made' \in Nat /\ made =< made'
    BY <1>0, VerbsAssumption DEF StateOK
  <2>2. \A u \in Threads \ {t} : Creating(u) =>
          obj'[call[u].obj] = obj[call[u].obj] /\ late'.obj # call[u].obj
    BY <1>0, <1>1, <1>7 DEF CreateInv, CreateOK
  <2> QED  BY <1>2, <1>5, <2>1, <2>2, CreateMove
<1>14. NumInv'
  <2>1. \A o \in Objs : made' < o => obj'[o] = Nothing
    <3> SUFFICES ASSUME NEW o \in Objs, made < o  PROVE obj'[o] = Nothing
      BY <1>0
    <3>1. obj[o] = Nothing
      BY DEF NumInv
    <3>2. ~obj[o].pinned
      BY <3>1 DEF Nothing
    <3> QED  BY <3>1, <3>2, <1>1
  <2>2. \A o \in Objs : Live(o)' => obj'[o].kind \in Kinds
    BY <1>9 DEF NumInv
  <2>3. \A o \in Objs : \/ obj'[o].num = 0
                        \/ /\ obj'[o].kind = obj[o].kind /\ obj'[o].num = obj[o].num
                           /\ Live(o)' => Live(o)
    <3>1. Nothing.num = 0
      BY DEF Nothing
    <3> QED  BY <3>1, <1>1, <1>9
  <2> QED  BY <1>0, <2>1, <2>2, <2>3, NumFrame
<1>15. \A o \in Objs : /\ obj'[o].rec = "in" => obj[o].rec = "in" /\ o \notin O
                       /\ obj[o].rec = "in" /\ o \notin O => obj'[o] = obj[o]
  <2>1. Nothing.rec = "no"
    BY DEF Nothing
  <2> QED  BY <2>1, <1>1
<1>16. TableInv'
  <2>1. CASE FirstMatch(call[t].kind, call[t].num) = 0
    <3>1. table' = table
      BY <2>1, <1>0, DropTable
    <3>2. \A o \in Objs : obj[o].rec = "in" => o \notin O
      BY <2>1, <1>1, <1>8
    <3> QED  BY <3>1, <3>2, <1>9, <1>15, TableFrame
  <2>2. CASE FirstMatch(call[t].kind, call[t].num) # 0
    <3>0. PICK k \in Kinds : k = call[t].kind
      BY <1>0
    <3>5. FirstMatch(k, call[t].num) # 0
      BY <2>2, <3>0
    <3>1. \E i \in 1 .. Len(table[k]) : \E x \in Objs :
                /\ i = FirstMatch(k, call[t].num)
                /\ x = table[k][i] /\ obj[x].rec = "in" /\ obj[x].kind = k /\ obj[x].num = call[t].num
                /\ \A l \in Kinds \ {k} : table'[l] = table[l]
                /\ Len(table'[k]) = Len(table[k]) - 1
                /\ \A j \in 1 .. Len(table[k]) - 1 :
                     table'[k][j] = IF j < i THEN table[k][j] ELSE table[k][j + 1]
                /\ \A j \in 1 .. Len(table[k]) : obj[table[k][j]].num = call[t].num => i =< j
      BY <3>0, <3>5, DropTable, ZenonT(60)
    <3>4. PICK i \in 1 .. Len(table[k]), x \in Objs :
                /\ i = FirstMatch(k, call[t].num) /\ x = table[k][i] /\ obj[x].rec = "in"
                /\ \A l \in Kinds \ {k} : table'[l] = table[l]
                /\ Len(table'[k]) = Len(table[k]) - 1
                /\ \A j \in 1 .. Len(table[k]) - 1 :
                     table'[k][j] = IF j < i THEN table[k][j] ELSE table[k][j + 1]
      BY <3>1, Zenon
    <3>2. x \in O /\ \A o \in Objs : obj[o].rec = "in" /\ o # x => o \notin O
      BY <2>2, <3>0, <3>4, <1>1, <1>8
    <3>3. \A o \in Objs : /\ obj'[o].rec = "in" => obj[o].rec = "in" /\ o # x
                          /\ obj[o].rec = "in" /\ o # x => obj'[o] = obj[o]
      BY <3>2, <1>15
    <3> QED  BY <3>4, <3>3, <1>9, RemoveTable, SMTT(30)
  <2> QED  BY <2>1, <2>2
<1>17. SlotInv'
  <2>1. \A o \in O : obj[o].pinned /\ ~obj'[o].pinned
    BY <1>1 DEF Nothing
  <2>2. \A s \in fDbBitmap : s \in fDbBitmap' \/ \E o \in O : s \in Pair(obj[o].slot)
    BY <1>1
  <2>3. \A o \in Objs : obj'[o].pinned => obj'[o] = obj[o]
    BY <1>1, <2>1
  <2> QED  BY <2>1, <2>2, <2>3, SlotFrame
<1>18. HoldInv'
  <2>1. \A k, n : Named(k, n) # {} => Named(k, n)' # {}
    BY <1>9 DEF Named
  <2>2. pc[t] \notin Early
    BY <1>0 DEF Early
  <2> QED  BY <1>0, <1>2, <1>5, <1>9, <2>1, <2>2, HoldMove
<1>19. LateInv'
  <2>1. late.op \in {"modify", "destroy"} => late.obj \in Objs /\ Live(late.obj)
    BY DEF LateInv, Live, QpStates
  <2>2. late.op = "create" => obj'[late.obj] = obj[late.obj]
    BY <1>1, <1>4, <1>8 DEF LateInv
  <2>3. late.op \in {"none", "create", "modify", "destroy"}
    BY DEF StateOK
  <2>4. late.op # "none" => obj'[late.obj].fw = obj[late.obj].fw
    BY <2>1, <2>2, <2>3, <1>9
  <2> QED  BY <1>0, <2>2, <2>4, LateFrame
<1> QED  BY <1>10, <1>11, <1>12, <1>13, <1>14, <1>16, <1>17, <1>18, <1>19

\* The first table that is not empty.
LEMMA FreeOrderIs ==
  ASSUME StateOK, \E k \in Kinds : table[k] # <<>>
  PROVE  LET kind == FreeOrder[CHOOSE i \in 1 .. 3 :
                                 /\ table[FreeOrder[i]] # <<>>
                                 /\ \A j \in 1 .. i - 1 : table[FreeOrder[j]] = <<>>]
         IN  kind \in Kinds /\ table[kind] # <<>>
<1> DEFINE P(i) == /\ table[FreeOrder[i]] # <<>>
                   /\ \A j \in 1 .. i - 1 : table[FreeOrder[j]] = <<>>
<1>1. FreeOrder[1] = "qp" /\ FreeOrder[2] = "cq" /\ FreeOrder[3] = "mr"
  BY DEF FreeOrder
<1>2. \E i \in 1 .. 3 : P(i)
  <2>1. CASE table["qp"] # <<>>
    <3>1. P(1)
      BY <2>1, <1>1
    <3> QED  BY <3>1
  <2>2. CASE table["qp"] = <<>> /\ table["cq"] # <<>>
    <3>1. P(2)
      BY <2>2, <1>1
    <3> QED  BY <3>1
  <2>3. CASE table["qp"] = <<>> /\ table["cq"] = <<>> /\ table["mr"] # <<>>
    <3>1. P(3)
      <4>1. \A j \in 1 .. 3 - 1 : j = 1 \/ j = 2
        OBVIOUS
      <4> QED  BY <4>1, <2>3, <1>1
    <3> QED  BY <3>1
  <2> QED  BY <2>1, <2>2, <2>3 DEF Kinds
<1> DEFINE c == CHOOSE i \in 1 .. 3 : P(i)
<1>3. c \in 1 .. 3 /\ P(c)
  <2> HIDE DEF P
  <2> QED  BY <1>2
<1>4. FreeOrder[c] \in Kinds
  <2>1. c = 1 \/ c = 2 \/ c = 3
    BY <1>3
  <2> HIDE DEF c
  <2> QED  BY <2>1, <1>1 DEF Kinds
<1> QED  BY <1>3, <1>4

\* The first entry leaves a table.
LEMMA TailOf ==
  ASSUME StateOK, NEW k \in Kinds, table[k] # <<>>, table' = [table EXCEPT ![k] = Tail(@)]
  PROVE  /\ table' \in [Kinds -> Seq(Objs)] /\ 1 \in 1 .. Len(table[k])
         /\ \A l \in Kinds \ {k} : table'[l] = table[l]
         /\ Len(table'[k]) = Len(table[k]) - 1
         /\ \A j \in 1 .. Len(table[k]) - 1 : table'[k][j] = table[k][j + 1]
<1>1. table \in [Kinds -> Seq(Objs)] /\ table[k] \in Seq(Objs)
  BY DEF StateOK
<1>2. /\ Tail(table[k]) \in Seq(Objs) /\ Len(Tail(table[k])) = Len(table[k]) - 1
      /\ \A j \in 1 .. Len(Tail(table[k])) : Tail(table[k])[j] = table[k][j + 1]
  BY <1>1, HeadTailProperties
<1>3. Len(table[k]) \in Nat /\ Len(table[k]) # 0
  BY <1>1, EmptySeq
<1>4. table' = [table EXCEPT ![k] = Tail(table[k])]
  OBVIOUS
<1>5. table'[k] = Tail(table[k]) /\ table' \in [Kinds -> Seq(Objs)] /\ \A l \in Kinds \ {k} : table'[l] = table[l]
  BY <1>1, <1>2, <1>4
<1> QED  BY <1>2, <1>3, <1>5

\* free of MlxQP, MlxCQ and MlxMR: one object of a table, when all clients are closed.
LEMMA FreeNextStep ==
  ASSUME IInv, FreeNext
  PROVE  IInv'
<1> USE DEF IInv
<1>0. /\ UNCHANGED <<world, roce, client, made, owned, fActiveCq, pc, call>>
      /\ \A c \in Clients : client[c] = "closed"
      /\ \E k \in Kinds : table[k] # <<>>
  BY DEF FreeNext, lifeVars, ownVars
<1>1. PICK k \in Kinds : /\ table[k] # <<>>
                         /\ table' = [table EXCEPT ![k] = Tail(@)]
                         /\ DestroyedInFree(table[k][1]) \/ NotDestroyedInFree(k, table[k][1])
  BY <1>0, FreeOrderIs DEF FreeNext
<1>2. /\ table' \in [Kinds -> Seq(Objs)] /\ 1 \in 1 .. Len(table[k])
      /\ \A l \in Kinds \ {k} : table'[l] = table[l]
      /\ Len(table'[k]) = Len(table[k]) - 1
      /\ \A j \in 1 .. Len(table[k]) - 1 : table'[k][j] = table[k][j + 1]
  BY <1>1, TailOf
<1>3. PICK x \in Objs : /\ x = table[k][1] /\ obj[x].rec = "in" /\ obj[x].kind = k
                        /\ obj[x].pinned
  BY <1>2, Fields DEF TableInv
<1>4. obj \in [Objs -> ObjType] /\ obj[x] \in ObjType
  BY Fields
<1>5. \E y \in ObjType :
         /\ obj' = [obj EXCEPT ![x] = y] /\ y.rec # "in"
         /\ y.fw \in {"live"} \cup QpStates => /\ y.fw = obj[x].fw /\ y.num = obj[x].num /\ y.kind = obj[x].kind
                                               /\ y.client = obj[x].client
         /\ y.num = 0 \/ (y.num = obj[x].num /\ y.kind = obj[x].kind)
         /\ y.pinned => y.slot = obj[x].slot /\ y.kind = obj[x].kind
         /\ fDbBitmap' = IF y.pinned THEN fDbBitmap ELSE fDbBitmap \ Pair(obj[x].slot)
         /\ \/ UNCHANGED cmdVars /\ (~quarantined \/ y.fw = obj[x].fw)
            \/ /\ quarantined' = TRUE /\ late' = [op |-> "destroy", obj |-> x]
               /\ y.fw \in {"live"} \cup QpStates
  <2>1. CASE DestroyedInFree(x)
    <3>1. /\ obj' = [obj EXCEPT ![x] = Nothing] /\ fDbBitmap' = fDbBitmap \ Pair(obj[x].slot)
          /\ UNCHANGED cmdVars /\ ~quarantined
      BY <2>1 DEF DestroyedInFree, FreeDbSlots
    <3>2. /\ Nothing \in ObjType /\ Nothing.rec # "in" /\ ~Nothing.pinned /\ Nothing.num = 0
          /\ Nothing.fw \notin {"live"} \cup QpStates
      BY VerbsAssumption DEF Nothing, ObjType, QpStates
    <3> QED  BY <3>1, <3>2
  <2>2. CASE NotDestroyedInFree(k, x)
    <3>1. PICK b \in BOOLEAN : b = (k # "cq")
      OBVIOUS
    <3> DEFINE y == [obj[x] EXCEPT !.rec = "out", !.pinned = b]
    <3>2. obj' = [obj EXCEPT ![x] = y]
      BY <2>2, <3>1, <1>4 DEF NotDestroyedInFree, ObjType
    <3>3. /\ y \in ObjType /\ y.rec = "out" /\ y.pinned = b /\ y.fw = obj[x].fw /\ y.num = obj[x].num
          /\ y.kind = obj[x].kind /\ y.client = obj[x].client /\ y.slot = obj[x].slot
      BY <1>4 DEF ObjType
    <3>4. fDbBitmap' = IF b THEN fDbBitmap ELSE fDbBitmap \ Pair(obj[x].slot)
      BY <2>2, <3>1 DEF NotDestroyedInFree, FreeDbSlots
    <3>5. \/ UNCHANGED cmdVars
          \/ /\ quarantined' = TRUE /\ late' = [op |-> "destroy", obj |-> x]
             /\ obj[x].fw \in {"live"} \cup QpStates
      BY <2>2 DEF NotDestroyedInFree, TimesOut, GivesUp, Live
    <3> HIDE DEF y
    <3> QED  BY <3>2, <3>3, <3>4, <3>5
  <2> QED  BY <1>1, <1>3, <2>1, <2>2
<1>6. PICK y \in ObjType :
         /\ obj' = [obj EXCEPT ![x] = y] /\ y.rec # "in"
         /\ y.fw \in {"live"} \cup QpStates => /\ y.fw = obj[x].fw /\ y.num = obj[x].num /\ y.kind = obj[x].kind
                                               /\ y.client = obj[x].client
         /\ y.num = 0 \/ (y.num = obj[x].num /\ y.kind = obj[x].kind)
         /\ y.pinned => y.slot = obj[x].slot /\ y.kind = obj[x].kind
         /\ fDbBitmap' = IF y.pinned THEN fDbBitmap ELSE fDbBitmap \ Pair(obj[x].slot)
         /\ \/ UNCHANGED cmdVars /\ (~quarantined \/ y.fw = obj[x].fw)
            \/ /\ quarantined' = TRUE /\ late' = [op |-> "destroy", obj |-> x]
               /\ y.fw \in {"live"} \cup QpStates
  BY <1>5
<1>7. /\ obj' \in [Objs -> ObjType] /\ obj'[x] = y
      /\ \A o \in Objs \ {x} : obj'[o] = obj[o]
  BY <1>4, <1>6
<1>8. \A o \in Objs : Live(o)' => /\ Live(o) /\ obj'[o].fw = obj[o].fw /\ obj'[o].num = obj[o].num
                                  /\ obj'[o].kind = obj[o].kind
  BY <1>6, <1>7 DEF Live
<1>9. /\ \A u \in Threads : pc[u] = "idle" /\ ~Claims(u)' /\ ~Creating(u)'
      /\ \A c \in Clients, l \in Kinds : owned'[c][l] = {}
  <2>1. \A u \in Threads : pc[u] = "idle"
    BY <1>0, MeIs DEF ClientInv
  <2>2. \A c \in Clients, l \in Kinds : owned'[c][l] = {}
    BY <1>0 DEF ClientInv
  <2> QED  BY <2>1, <2>2, <1>0 DEF Claims, Creating
<1>10. StateOK'
  <2>1. /\ world' \in WorldType /\ made' \in 0 .. MaxObjs /\ fActiveCq' \in [Clients -> 0 .. MaxObjs]
        /\ pc' \in [Threads -> Points] /\ call' \in [Threads -> CallType]
    BY <1>0 DEF StateOK, Points, CallType
  <2>2. fDbBitmap' \subseteq Slots
    BY <1>6 DEF StateOK
  <2>3. /\ late' \in [op : {"none", "create", "modify", "destroy"}, obj : 0 .. MaxObjs]
        /\ quarantined' \in BOOLEAN
    <3>1. x \in 0 .. MaxObjs
      BY VerbsAssumption DEF Objs
    <3>2. CASE UNCHANGED cmdVars
      BY <3>2 DEF StateOK, cmdVars
    <3>3. CASE quarantined' = TRUE /\ late' = [op |-> "destroy", obj |-> x]
      BY <3>1, <3>3
    <3> QED  BY <1>6, <3>2, <3>3
  <2> QED  BY <1>0, <1>2, <1>7, <2>1, <2>2, <2>3, ObjType1
<1>11. JobInv'
  BY <1>0 DEF JobInv, JobOK, Claims
<1>12. ClientInv'
  BY <1>0 DEF ClientInv, Me
<1>13. CreateInv'
  BY <1>9 DEF CreateInv
<1>14. NumInv'
  <2>1. \A o \in Objs : made' < o => obj'[o] = Nothing
    <3> SUFFICES ASSUME NEW o \in Objs, made < o  PROVE obj'[o] = Nothing
      BY <1>0
    <3>1. obj[o] = Nothing
      BY DEF NumInv
    <3>2. Nothing.rec = "no"
      BY DEF Nothing
    <3>3. o # x
      BY <3>1, <3>2, <1>3
    <3> QED  BY <3>1, <3>3, <1>7
  <2>2. \A o \in Objs : Live(o)' => obj'[o].kind \in Kinds
    BY <1>8 DEF NumInv
  <2>3. \A o \in Objs : \/ obj'[o].num = 0
                        \/ /\ obj'[o].kind = obj[o].kind /\ obj'[o].num = obj[o].num
                           /\ Live(o)' => Live(o)
    BY <1>6, <1>7, <1>8
  <2> QED  BY <1>0, <2>1, <2>2, <2>3, NumFrame
<1>15. TableInv'
  <2>1. \A j \in 1 .. Len(table[k]) - 1 :
          table'[k][j] = IF j < 1 THEN table[k][j] ELSE table[k][j + 1]
    BY <1>2
  <2>2. \A o \in Objs : /\ obj'[o].rec = "in" => obj[o].rec = "in" /\ o # x
                        /\ obj[o].rec = "in" /\ o # x => obj'[o] = obj[o]
    BY <1>6, <1>7
  <2> QED  BY <1>2, <1>3, <1>8, <2>1, <2>2, RemoveTable
<1>16. SlotInv'
  <2> DEFINE F == IF y.pinned THEN {} ELSE {x}
  <2>1. F \in SUBSET Objs /\ \A o \in F : obj[o].pinned /\ ~obj'[o].pinned
    BY <1>3, <1>7
  <2>2. \A s \in fDbBitmap : s \in fDbBitmap' \/ \E o \in F : s \in Pair(obj[o].slot)
    BY <1>6
  <2>3. \A o \in Objs : obj'[o].pinned =>
          obj[o].pinned /\ obj'[o].slot = obj[o].slot /\ obj'[o].kind = obj[o].kind
    BY <1>3, <1>6, <1>7
  <2> HIDE DEF F
  <2> QED  BY <2>1, <2>2, <2>3, SlotFrame
<1>17. HoldInv'
  <2>1. OneHolder'
    BY <1>9 DEF OneHolder
  <2>2. HeldIsLive'
    BY <1>9 DEF HeldIsLive
  <2>3. HeldIsOwn'
    <3>1. \A o \in Objs : Live(o)' => obj'[o].kind \in Kinds
      BY <1>8 DEF NumInv
    <3>2. \A u \in Threads, o \in Objs : ~Claim(u, obj[o].kind, obj[o].num)'
      BY <1>9 DEF Claim
    <3> QED  BY <3>1, <3>2, <1>9 DEF HeldIsOwn
  <2> QED  BY <2>1, <2>2, <2>3 DEF HoldInv
<1>18. LateInv'
  <2>1. CASE UNCHANGED cmdVars /\ (~quarantined \/ y.fw = obj[x].fw)
    <3>1. late' = late /\ quarantined' = quarantined
      BY <2>1 DEF cmdVars
    <3>2. late.op # "none" => obj'[late.obj].fw = obj[late.obj].fw
      BY <2>1, <1>7 DEF LateInv
    <3>3. late.op = "create" => obj'[late.obj] = obj[late.obj]
      BY <1>3, <1>7 DEF LateInv
    <3> QED  BY <3>1, <3>2, <3>3, LateFrame
  <2>2. CASE /\ quarantined' = TRUE /\ late' = [op |-> "destroy", obj |-> x]
             /\ y.fw \in {"live"} \cup QpStates
    <3>1. late'.op = "destroy" /\ late'.obj = x /\ obj'[late'.obj].fw \in {"live"} \cup QpStates
      BY <2>2, <1>7
    <3> QED  BY <3>1, <2>2 DEF LateInv, Live
  <2> QED  BY <1>6, <2>1, <2>2
<1> QED  BY <1>10, <1>11, <1>12, <1>13, <1>14, <1>15, <1>16, <1>17, <1>18

\* The initial states satisfy the invariant.
LEMMA InitIInv ==
  ASSUME Init
  PROVE  IInv
<1> USE DEF Init
<1>1. StateOK
  <2>1. world \in WorldType /\ made \in 0 .. MaxObjs /\ fDbBitmap \subseteq Slots
    BY VerbsAssumption
  <2>2. Nothing \in ObjType /\ NoCall \in CallType
    BY VerbsAssumption DEF Nothing, ObjType, QpStates, NoCall, CallType
  <2>3. obj \in [Objs -> ObjType] /\ call \in [Threads -> CallType] /\ pc \in [Threads -> Points]
    BY <2>2 DEF Points
  <2>4. table \in [Kinds -> Seq(Objs)]
    OBVIOUS
  <2>5. owned \in [Clients -> [Kinds -> SUBSET Objs]]
    OBVIOUS
  <2>6. fActiveCq \in [Clients -> 0 .. MaxObjs]
    BY VerbsAssumption
  <2>7. late \in [op : {"none", "create", "modify", "destroy"}, obj : 0 .. MaxObjs]
    BY VerbsAssumption DEF NoCommand
  <2> QED  BY <2>1, <2>3, <2>4, <2>5, <2>6, <2>7 DEF StateOK, ObjType, CallType, Points
<1>2. /\ \A o \in Objs : obj[o].fw = "none" /\ obj[o].rec = "no" /\ obj[o].num = 0 /\ ~obj[o].pinned /\ ~Live(o)
      /\ \A t \in Threads : pc[t] = "idle" /\ call[t] = NoCall /\ ~Claims(t) /\ ~Creating(t) /\ call[t].job = "none"
      /\ \A k \in Kinds : Len(table[k]) = 0
  BY DEF Nothing, Live, QpStates, Claims, Creating, NoCall
<1>3. JobInv
  BY <1>2 DEF JobInv, JobOK
<1>4. ClientInv
  BY <1>2, MeIs DEF ClientInv
<1>5. CreateInv
  BY <1>2 DEF CreateInv
<1>6. NumInv
  BY <1>2 DEF NumInv
<1>7. TableInv
  BY <1>2 DEF TableInv
<1>8. SlotInv
  BY <1>2 DEF SlotInv
<1>9. HoldInv
  <2>1. OneHolder
    BY <1>2 DEF OneHolder
  <2>2. HeldIsLive
    BY <1>2 DEF HeldIsLive
  <2>3. HeldIsOwn
    BY <1>2 DEF HeldIsOwn
  <2> QED  BY <2>1, <2>2, <2>3 DEF HoldInv
<1>10. LateInv
  BY DEF LateInv, NoCommand
<1> QED  BY <1>1, <1>3, <1>4, <1>5, <1>6, <1>7, <1>8, <1>9, <1>10 DEF IInv

\* Every step keeps the invariant.
LEMMA NextIInv ==
  ASSUME IInv, [Next]_vars
  PROVE  IInv'
<1>1. CASE UNCHANGED vars
  <2>1. UNCHANGED <<world, client, made, memVars, ownVars, cmdVars, pc, call>> /\ roce' = roce
    BY <1>1 DEF vars, lifeVars
  <2>2. roce \in {"new", "up", "failed", "stopped"}
    BY DEF IInv, StateOK
  <2> QED  BY <2>1, <2>2, RoceStep
<1>2. ASSUME NEW ok \in BOOLEAN, RoceStart(ok)  PROVE IInv'
  BY <1>2, RoceStep DEF RoceStart
<1>3. ASSUME RoceStop  PROVE IInv'
  BY <1>3, RoceStep DEF RoceStop
<1>4. ASSUME NEW t \in Threads, CreateQP(t)  PROVE IInv'
  <2>1. "qp" \in Kinds /\ FreePairs # {} /\ Create(t, "qp")
    BY <1>4 DEF CreateQP, Kinds
  <2> QED  BY <2>1, CreateStep
<1>5. ASSUME NEW t \in Threads, CreateCQ(t)  PROVE IInv'
  <2>1. "cq" \in Kinds /\ FreePairs # {} /\ Create(t, "cq")
    BY <1>5 DEF CreateCQ, Kinds
  <2> QED  BY <2>1, CreateStep
<1>6. ASSUME NEW t \in Threads, RegMR(t)  PROVE IInv'
  <2>1. "mr" \in Kinds /\ Create(t, "mr")
    BY <1>6 DEF RegMR, Kinds
  <2> QED  BY <2>1, CreateStep
<1>7. ASSUME NEW t \in Threads, NEW n \in Objs, ModifyQP(t, n)  PROVE IInv'
  BY <1>7, ModifyQPStep
<1>8. ASSUME NEW t \in Threads, NEW n \in Objs, DestroyQP(t, n)  PROVE IInv'
  <2>1. "qp" \in Kinds /\ "destroy" \in {"destroy", "back"} /\ Destroy(t, "qp", n, "destroy")
    BY <1>8 DEF DestroyQP, Kinds
  <2> QED  BY <2>1, DestroyStep
<1>9. ASSUME NEW t \in Threads, NEW n \in Objs, DestroyCQ(t, n)  PROVE IInv'
  <2>1. "cq" \in Kinds
    BY DEF Kinds
  <2>2. PICK next \in {"destroy", "back"} : Destroy(t, "cq", n, next)
    BY <1>9 DEF DestroyCQ
  <2> QED  BY <2>1, <2>2, DestroyStep
<1>10. ASSUME NEW t \in Threads, NEW n \in Objs, DeregMR(t, n)  PROVE IInv'
  <2>1. "mr" \in Kinds /\ "destroy" \in {"destroy", "back"} /\ Destroy(t, "mr", n, "destroy")
    BY <1>10 DEF DeregMR, Kinds
  <2> QED  BY <2>1, DestroyStep
<1>11. ASSUME NEW t \in Threads,
              Ask(t) \/ Record(t) \/ Unrecord(t) \/ Own(t) \/ Activate(t)
       PROVE  IInv'
  BY <1>11, AskStep, RecordStep, UnrecordStep, OwnStep, ActivateStep
<1>12. ASSUME NEW t \in Threads,
              DestroyCommand(t) \/ Drop(t) \/ Back(t) \/ ModifyCommand(t)
       PROVE  IInv'
  BY <1>12, DestroyCommandStep, DropStep, BackStep, ModifyCommandStep
<1>13. ASSUME NEW t \in Threads, Close(t) \/ TakeNext(t) \/ Closed(t)
       PROVE  IInv'
  BY <1>13, CloseStep, TakeNextStep, ClosedStep
<1>14. ASSUME FreeNext \/ FirmwareAnswersLate  PROVE IInv'
  BY <1>14, FreeNextStep, LateStep
<1> QED  BY <1>1, <1>2, <1>3, <1>4, <1>5, <1>6, <1>7, <1>8, <1>9, <1>10, <1>11, <1>12, <1>13, <1>14
           DEF Next

\* The invariant gives one pair of hands.
LEMMA HoldersFew ==
  ASSUME IInv
  PROVE  SoleHolder
<1> USE DEF IInv
<1> SUFFICES ASSUME NEW o \in Objs, Live(o)
             PROVE  /\ Cardinality(Holders(o)) =< 1
                    /\ Holders(o) \subseteq {obj[o].client} \cup {t \in Threads : Me(t) = obj[o].client}
  BY DEF SoleHolder
<1> DEFINE C == {c \in Clients : obj[o].num \in owned[c][obj[o].kind]}
           T == {t \in Threads : /\ pc[t] \in {"own", "destroy", "modify", "back"}
                                 /\ call[t].kind = obj[o].kind /\ call[t].num = obj[o].num}
<1>1. Holders(o) = C \cup T
  BY DEF Holders
<1>2. obj[o].kind \in Kinds
  BY DEF NumInv
<1>3. \A t \in T : t \in Threads /\ Claims(t) /\ Claim(t, obj[o].kind, obj[o].num) /\ obj[o].num \in Objs
  BY DEF Claims, Claim, JobInv, JobOK
<1>4. \A c \in C : c \in Clients /\ obj[o].num \in Objs
  BY <1>2 DEF StateOK
<1>5. 0 \notin Objs
  BY VerbsAssumption DEF Objs
<1>6. /\ \A t \in T : Me(t) = obj[o].client
      /\ \A c \in C : c = obj[o].client
  BY <1>2, <1>3, <1>4, <1>5 DEF HoldInv, HeldIsOwn
<1>7. \A t, u \in T : t = u
  BY <1>3 DEF HoldInv, OneHolder, Claim
<1>8. \A t \in T : C = {}
  BY <1>2, <1>3, <1>4 DEF HoldInv, OneHolder, Claim
<1>9. C \cup T = {} \/ \E h : C \cup T = {h}
  <2> HIDE DEF C, T
  <2>1. CASE T # {}
    <3>1. PICK t \in T : TRUE
      BY <2>1
    <3>2. C \cup T = {t}
      BY <3>1, <1>7, <1>8
    <3> QED  BY <3>2
  <2>2. CASE T = {}
    <3>1. C = {} \/ C = {obj[o].client}
      BY <1>6
    <3> QED  BY <3>1, <2>2
  <2> QED  BY <2>1, <2>2
<1>10. Cardinality(C \cup T) =< 1
  <2> HIDE DEF C, T
  <2>1. Cardinality({}) = 0
    BY FS_EmptySet
  <2>2. \A h : Cardinality({h}) = 1
    BY FS_Singleton
  <2>3. CASE C \cup T = {}
    BY <2>3, <2>1
  <2>4. CASE \E h : C \cup T = {h}
    <3>1. PICK h : C \cup T = {h}
      BY <2>4
    <3>2. Cardinality(C \cup T) = 1
      BY <3>1, <2>2
    <3> QED  BY <3>2
  <2> QED  BY <1>9, <2>3, <2>4
<1>11. C \cup T \subseteq {obj[o].client} \cup {t \in Threads : Me(t) = obj[o].client}
  BY <1>3, <1>6
<1> QED  BY <1>1, <1>10, <1>11

\* Only a call that drops a context touches the history variable, and only to set it.
LEMMA BlindStep ==
  ASSUME [Next]_vars
  PROVE  UNCHANGED blind \/ \E b \in BOOLEAN : blind' = (blind \/ b)
<1>1. ASSUME NEW t \in Threads, CreateQP(t) \/ CreateCQ(t) \/ RegMR(t)  PROVE UNCHANGED blind
  BY <1>1 DEF CreateQP, CreateCQ, RegMR, Create
<1>2. ASSUME NEW t \in Threads, Ask(t) \/ Record(t) \/ Unrecord(t) \/ Own(t) \/ Activate(t)
      PROVE  UNCHANGED blind
  BY <1>2 DEF Ask, Record, Unrecord, Own, Activate
<1>3. ASSUME NEW t \in Threads, DestroyCommand(t) \/ Back(t) \/ ModifyCommand(t)
      PROVE  UNCHANGED blind
  BY <1>3 DEF DestroyCommand, Back, ModifyCommand
<1>4. ASSUME NEW t \in Threads, Close(t) \/ TakeNext(t) \/ Closed(t)  PROVE UNCHANGED blind
  BY <1>4 DEF Close, TakeNext, Closed
<1>5. ASSUME NEW t \in Threads, NEW n \in Objs,
             ModifyQP(t, n) \/ DestroyQP(t, n) \/ DestroyCQ(t, n) \/ DeregMR(t, n)
      PROVE  UNCHANGED blind
  BY <1>5 DEF ModifyQP, DestroyQP, DestroyCQ, DeregMR, Destroy
<1>6. ASSUME NEW t \in Threads, Drop(t)  PROVE \E b \in BOOLEAN : blind' = (blind \/ b)
  BY <1>6, Zenon DEF Drop
<1>7. ASSUME \/ \E ok \in BOOLEAN : RoceStart(ok)
             \/ FreeNext \/ RoceStop \/ FirmwareAnswersLate \/ UNCHANGED vars
      PROVE  UNCHANGED blind
  BY <1>7 DEF RoceStart, FreeNext, RoceStop, FirmwareAnswersLate, vars
<1> QED  BY <1>1, <1>2, <1>3, <1>4, <1>5, <1>6, <1>7 DEF Next

\* Every reachable state of the objects, tables, lists and calls is well typed.
THEOREM TypeCorrect == Spec => []TypeOK
<1>1. Init => IInv /\ blind \in BOOLEAN
  <2>1. Init => blind \in BOOLEAN
    BY DEF Init
  <2> QED  BY <2>1, InitIInv
<1>2. IInv /\ blind \in BOOLEAN /\ [Next]_vars => IInv' /\ (blind \in BOOLEAN)'
  <2>1. IInv /\ [Next]_vars => IInv'
    BY NextIInv
  <2>2. ASSUME blind \in BOOLEAN, [Next]_vars  PROVE blind' \in BOOLEAN
    BY <2>2, BlindStep
  <2> QED  BY <2>1, <2>2
<1>3. IInv /\ blind \in BOOLEAN => TypeOK
  BY DEF IInv, TypeOK
<1> QED  BY <1>1, <1>2, <1>3, PTL DEF Spec

\* A live object is in one pair of hands at most, and in those of the client it was
\* created for, whatever calls overlap and whichever numbers the firmware uses again.
THEOREM SoleHolderHolds == Spec => []SoleHolder
<1>1. Init => IInv
  BY InitIInv
<1>2. IInv /\ [Next]_vars => IInv'
  BY NextIInv
<1>3. IInv => SoleHolder
  BY HoldersFew
<1> QED  BY <1>1, <1>2, <1>3, PTL DEF Spec

(***************************************************************************)
(* Memory and doorbell slots.                                              *)
(***************************************************************************)

\* Steps that drop no context and destroy no object that has one.
LEMMA ContextFrame ==
  ASSUME DInv,
         \A u \in Threads : pc'[u] = "drop" => \/ pc[u] = "drop" /\ call'[u] = call[u]
                                               \/ call'[u].job = "create",
         \A o \in Objs : \/ obj[o].rec = "no" /\ obj'[o].rec # "out" /\ (Bare(o)' => obj'[o].pinned)
                         \/ /\ obj'[o].rec = obj[o].rec /\ obj'[o].pinned = obj[o].pinned
                            /\ obj'[o].kind = obj[o].kind /\ obj'[o].num = obj[o].num
                            /\ Live(o)' => Live(o),
         \A c \in Clients : client[c] = "closed" => client'[c] = "closed"
  PROVE  DInv'
<1> USE DEF DInv
<1>1. RecInv'
  BY DEF RecInv
<1>2. BareInv'
  BY DEF BareInv, Bare
<1>3. PICK f \in [Threads -> Objs \cup {0}] :
        \A t \in Threads : Dropping(t) =>
          /\ f[t] \in Objs
          /\ obj[f[t]].rec = "in" /\ ~Live(f[t])
          /\ obj[f[t]].kind = call[t].kind /\ obj[f[t]].num = call[t].num
          /\ \A u \in Threads : Dropping(u) /\ f[u] = f[t] => u = t
  BY DEF DropInv
<1>4. \A t \in Threads : Dropping(t)' => Dropping(t) /\ call'[t] = call[t]
  BY DEF Dropping
<1>5. \A o \in Objs : obj[o].rec = "in" /\ ~Live(o) =>
        /\ obj'[o].rec = "in" /\ obj'[o].kind = obj[o].kind /\ obj'[o].num = obj[o].num
        /\ ~Live(o)'
  OBVIOUS
<1>6. \A t \in Threads : Dropping(t)' =>
          /\ f[t] \in Objs
          /\ obj'[f[t]].rec = "in" /\ ~Live(f[t])'
          /\ obj'[f[t]].kind = call'[t].kind /\ obj'[f[t]].num = call'[t].num
          /\ \A u \in Threads : Dropping(u)' /\ f[u] = f[t] => u = t
  BY <1>3, <1>4, <1>5
<1> QED  BY <1>1, <1>2, <1>6 DEF DropInv

\* The same, for a step of one call that changes one object without a context.
LEMMA NewContext ==
  ASSUME StateOK, DInv, NEW t \in Threads, pc'[t] # "drop" \/ call'[t].job = "create",
         \A u \in Threads \ {t} : pc'[u] = pc[u] /\ call'[u] = call[u],
         NEW x \in Objs, obj[x].rec = "no", obj'[x].rec # "out", Bare(x)' => obj'[x].pinned,
         \A o \in Objs \ {x} : obj'[o] = obj[o],
         client' = client
  PROVE  DInv'
<1>1. \A u \in Threads : pc'[u] = "drop" => \/ pc[u] = "drop" /\ call'[u] = call[u]
                                            \/ call'[u].job = "create"
  OBVIOUS
<1>2. \A o \in Objs : \/ obj[o].rec = "no" /\ obj'[o].rec # "out" /\ (Bare(o)' => obj'[o].pinned)
                      \/ /\ obj'[o].rec = obj[o].rec /\ obj'[o].pinned = obj[o].pinned
                         /\ obj'[o].kind = obj[o].kind /\ obj'[o].num = obj[o].num
                         /\ Live(o)' => Live(o)
  BY DEF Live
<1> QED  BY <1>1, <1>2, ContextFrame

\* And for a step that leaves the objects alone.
LEMMA SameContexts ==
  ASSUME DInv, NEW t \in Threads, pc'[t] # "drop",
         \A u \in Threads \ {t} : pc'[u] = pc[u] /\ call'[u] = call[u],
         obj' = obj,
         \A c \in Clients : client[c] = "closed" => client'[c] = "closed"
  PROVE  DInv'
<1>1. \A o \in Objs : \/ obj[o].rec = "no" /\ obj'[o].rec # "out" /\ (Bare(o)' => obj'[o].pinned)
                      \/ /\ obj'[o].rec = obj[o].rec /\ obj'[o].pinned = obj[o].pinned
                         /\ obj'[o].kind = obj[o].kind /\ obj'[o].num = obj[o].num
                         /\ Live(o)' => Live(o)
  BY DEF Live
<1> QED  BY <1>1, ContextFrame

\* The calls' steps on lists and points.
LEMMA ListContexts ==
  ASSUME IInv, DInv, NEW t \in Threads,
         \/ Own(t) \/ Activate(t) \/ Back(t) \/ Close(t) \/ TakeNext(t) \/ Closed(t)
         \/ \E n \in Objs : ModifyQP(t, n) \/ DestroyQP(t, n) \/ DestroyCQ(t, n) \/ DeregMR(t, n)
  PROVE  DInv'
<1> USE DEF IInv
<1>1. pc \in [Threads -> Points] /\ call \in [Threads -> CallType]
  BY DEF StateOK, Points, CallType
<1>2. CASE Own(t)
  <2>1. obj' = obj /\ client' = client
    BY <1>2 DEF Own, memVars, lifeVars
  <2>2. CASE OutOfMemory /\ pc' = [pc EXCEPT ![t] = "destroy"] /\ call' = [call EXCEPT ![t].job = "undo", ![t].obj = 0]
    <3>1. pc'[t] # "drop" /\ \A u \in Threads \ {t} : pc'[u] = pc[u] /\ call'[u] = call[u]
      BY <1>1, <2>2
    <3> QED  BY <2>1, <3>1, SameContexts
  <2>3. CASE Done(t)
    BY <2>1, <2>3, DoneIs, SameContexts
  <2>4. CASE Goto(t, "activate")
    <3>1. "activate" \in Points
      BY DEF Points
    <3>2. pc'[t] # "drop" /\ \A u \in Threads \ {t} : pc'[u] = pc[u] /\ call'[u] = call[u]
      BY <2>4, <3>1, GotoIs
    <3> QED  BY <2>1, <3>2, SameContexts
  <2> QED  BY <1>2, <2>2, <2>3, <2>4 DEF Own
<1>3. CASE Activate(t)
  <2>1. obj' = obj /\ client' = client /\ Done(t)
    BY <1>3 DEF Activate, memVars, lifeVars
  <2> QED  BY <2>1, DoneIs, SameContexts
<1>4. CASE Back(t)
  <2>1. obj' = obj /\ client' = client /\ Done(t)
    BY <1>4 DEF Back, memVars, lifeVars
  <2> QED  BY <2>1, DoneIs, SameContexts
<1>5. CASE Close(t)
  <2>1. obj' = obj /\ client[Me(t)] = "open" /\ client' = [client EXCEPT ![Me(t)] = "closing"]
    BY <1>5 DEF Close, memVars
  <2>2. pc' = [pc EXCEPT ![t] = "close"] /\ call' = [call EXCEPT ![t].job = "close"]
    BY <1>5 DEF Close
  <2>3. pc'[t] # "drop" /\ \A u \in Threads \ {t} : pc'[u] = pc[u] /\ call'[u] = call[u]
    BY <1>1, <2>2
  <2>4. client \in [Clients -> {"open", "closing", "closed"}]
    BY DEF StateOK
  <2>5. \A c \in Clients : client[c] = "closed" => client'[c] = "closed"
    BY <2>1, <2>4
  <2> QED  BY <2>1, <2>3, <2>5, SameContexts
<1>6. CASE TakeNext(t)
  <2>1. obj' = obj /\ client' = client /\ pc' = [pc EXCEPT ![t] = "destroy"]
    BY <1>6 DEF TakeNext, memVars, lifeVars
  <2> DEFINE k == IF owned[Me(t)]["qp"] # {} THEN "qp"
                  ELSE IF owned[Me(t)]["mr"] # {} THEN "mr" ELSE "cq"
  <2>2. \E n : call' = [call EXCEPT ![t].kind = k, ![t].num = n]
    BY <1>6 DEF TakeNext
  <2> HIDE DEF k
  <2>3. pc'[t] # "drop" /\ \A u \in Threads \ {t} : pc'[u] = pc[u]
    BY <1>1, <2>1
  <2>4. \A u \in Threads \ {t} : call'[u] = call[u]
    BY <1>1, <2>2
  <2> QED  BY <2>1, <2>3, <2>4, SameContexts
<1>7. CASE Closed(t)
  <2>1. obj' = obj /\ client' = [client EXCEPT ![Me(t)] = "closed"]
    BY <1>7 DEF Closed, memVars
  <2>2. pc' = [pc EXCEPT ![t] = "idle"] /\ call' = [call EXCEPT ![t] = NoCall]
    BY <1>7 DEF Closed
  <2>3. pc'[t] # "drop" /\ \A u \in Threads \ {t} : pc'[u] = pc[u] /\ call'[u] = call[u]
    BY <1>1, <2>2
  <2>4. client \in [Clients -> {"open", "closing", "closed"}]
    BY DEF StateOK
  <2>5. \A c \in Clients : client[c] = "closed" => client'[c] = "closed"
    BY <2>1, <2>4
  <2> QED  BY <2>1, <2>3, <2>5, SameContexts
<1>8. ASSUME NEW n \in Objs, ModifyQP(t, n) \/ DestroyQP(t, n) \/ DestroyCQ(t, n) \/ DeregMR(t, n)
      PROVE  DInv'
  <2>1. obj' = obj /\ client' = client
    BY <1>8 DEF ModifyQP, DestroyQP, DestroyCQ, DeregMR, Destroy, memVars, lifeVars
  <2>2. \E p \in {"modify", "destroy", "back"} : \E c : pc' = [pc EXCEPT ![t] = p] /\ call' = [call EXCEPT ![t] = c]
    BY <1>8 DEF ModifyQP, DestroyQP, DestroyCQ, DeregMR, Destroy
  <2>3. pc'[t] # "drop" /\ \A u \in Threads \ {t} : pc'[u] = pc[u] /\ call'[u] = call[u]
    BY <1>1, <2>2
  <2> QED  BY <2>1, <2>3, SameContexts
<1> QED  BY <1>2, <1>3, <1>4, <1>5, <1>6, <1>7, <1>8

\* A create up to the table: the new object has no context yet.
LEMMA NewContexts ==
  ASSUME IInv, DInv, NEW t \in Threads,
         \/ CreateQP(t) \/ CreateCQ(t) \/ RegMR(t)
         \/ Ask(t) \/ Record(t) \/ Unrecord(t)
  PROVE  DInv'
<1> USE DEF IInv
<1>1. pc \in [Threads -> Points] /\ call \in [Threads -> CallType] /\ obj \in [Objs -> ObjType]
  BY Fields DEF StateOK, Points
<1>2. ASSUME NEW k \in Kinds, Create(t, k)  PROVE DInv'
  <2>1. /\ made < world.objs /\ made' = made + 1 /\ client' = client
        /\ pc' = [pc EXCEPT ![t] = "ask"] /\ \E c : call' = [call EXCEPT ![t] = c]
    BY <1>2 DEF Create, lifeVars
  <2>2. PICK x \in Objs : x = made'
    <3>1. made \in Nat /\ world.objs \in 0 .. MaxObjs
      BY VerbsAssumption DEF StateOK, WorldType
    <3> QED  BY <2>1, <3>1, VerbsAssumption DEF Objs
  <2>3. obj' = [obj EXCEPT ![x] = NewObject(t, k)]
    BY <1>2, <2>2 DEF Create
  <2>4. NewObject(t, k).rec = "no" /\ Nothing.rec = "no"
    BY DEF NewObject, Nothing
  <2>5. obj[x] = Nothing
    BY <2>1, <2>2 DEF NumInv, StateOK
  <2>6. /\ pc'[t] # "drop" /\ \A u \in Threads \ {t} : pc'[u] = pc[u] /\ call'[u] = call[u]
        /\ obj'[x].rec = "no" /\ \A o \in Objs \ {x} : obj'[o] = obj[o]
    BY <1>1, <2>1, <2>3, <2>4
  <2>7. ~Bare(x)'
    BY <1>1, <2>3 DEF Bare, Live, NewObject, Nothing, QpStates
  <2> QED  BY <2>1, <2>4, <2>5, <2>6, <2>7, NewContext
<1>3. ASSUME pc[t] \in {"ask", "record", "unrecord"}
      PROVE  \E x \in Objs : /\ x = call[t].obj /\ obj[x].rec = "no" /\ call[t].job = "create"
                             /\ obj[x] \in ObjType /\ obj[x].pinned /\ obj[x].kind = call[t].kind
                             /\ pc[t] = "ask" => obj[x].num = 0
  <2>1. Creating(t)
    BY <1>3 DEF Creating
  <2>2. CreateOK(t) /\ call[t].obj \in Objs /\ call[t].job = "create"
    BY <2>1, CreatingIs
  <2> QED  BY <2>2, <1>1 DEF CreateOK
<1>4. Nothing.rec = "no" /\ Nothing.num = 0 /\ Nothing.fw = "none"
  BY DEF Nothing
<1>5. ASSUME Ask(t)  PROVE DInv'
  <2>1. PICK x \in Objs : /\ x = call[t].obj /\ obj[x].rec = "no" /\ call[t].job = "create"
                          /\ obj[x] \in ObjType /\ obj[x].pinned /\ obj[x].kind = call[t].kind
                          /\ pc[t] = "ask" => obj[x].num = 0
    BY <1>3, <1>5 DEF Ask
  <2>2. client' = client /\ pc[t] = "ask"
    BY <1>5 DEF Ask, lifeVars
  <2>3. /\ obj'[x].rec = "no" /\ (obj'[x].num = 0 \/ obj'[x].pinned)
        /\ \A o \in Objs \ {x} : obj'[o] = obj[o]
    <3>1. CASE obj' = [obj EXCEPT ![x].num = NewNumber(x), ![x].fw = FirstState(obj[x].kind)]
      BY <3>1, <1>1, <2>1 DEF ObjType
    <3>2. CASE Release(x)
      BY <3>2, <1>1, <2>1, <2>2, <1>4 DEF Release, Unpin, ObjType
    <3>3. CASE obj' = Unpin(x)
      BY <3>3, <1>1, <2>1, <2>2 DEF Unpin, ObjType
    <3> QED  BY <1>5, <2>1, <3>1, <3>2, <3>3 DEF Ask
  <2>4. pc'[t] # "drop" /\ \A u \in Threads \ {t} : pc'[u] = pc[u] /\ call'[u] = call[u]
    <3>1. CASE pc' = [pc EXCEPT ![t] = "record"] /\ call' = [call EXCEPT ![t].num = NewNumber(x)]
      BY <3>1, <1>1
    <3>2. CASE Done(t)
      BY <3>2, DoneIs
    <3> QED  BY <1>5, <2>1, <3>1, <3>2 DEF Ask
  <2>5. Bare(x)' => obj'[x].pinned
    BY <2>3 DEF Bare
  <2> QED  BY <2>1, <2>2, <2>3, <2>4, <2>5, NewContext
<1>6. ASSUME Record(t)  PROVE DInv'
  <2>1. PICK x \in Objs : /\ x = call[t].obj /\ obj[x].rec = "no" /\ call[t].job = "create"
                          /\ obj[x] \in ObjType /\ obj[x].pinned /\ obj[x].kind = call[t].kind
                          /\ pc[t] = "ask" => obj[x].num = 0
    BY <1>3, <1>6 DEF Record
  <2>2. client' = client
    BY <1>6 DEF Record, lifeVars
  <2>3. obj'[x].rec # "out" /\ obj'[x].pinned /\ \A o \in Objs \ {x} : obj'[o] = obj[o]
    <3>1. CASE obj' = [obj EXCEPT ![x].rec = "in"]
      BY <3>1, <1>1, <2>1 DEF ObjType
    <3>2. CASE obj' = obj
      BY <3>2, <2>1
    <3> QED  BY <1>6, <2>1, <3>1, <3>2 DEF Record
  <2>4. PICK p \in {"own", "unrecord"} : Goto(t, p)
    BY <1>6 DEF Record
  <2>5. pc'[t] # "drop" /\ \A u \in Threads \ {t} : pc'[u] = pc[u] /\ call'[u] = call[u]
    <3>1. p \in Points
      BY DEF Points
    <3> QED  BY <3>1, <2>4, GotoIs
  <2>6. Bare(x)' => obj'[x].pinned
    BY <2>3
  <2> QED  BY <2>1, <2>2, <2>3, <2>5, <2>6, NewContext
<1>7. ASSUME Unrecord(t)  PROVE DInv'
  <2>1. PICK x \in Objs : /\ x = call[t].obj /\ obj[x].rec = "no" /\ call[t].job = "create"
                          /\ obj[x] \in ObjType /\ obj[x].pinned /\ obj[x].kind = call[t].kind
                          /\ pc[t] = "ask" => obj[x].num = 0
    BY <1>3, <1>7 DEF Unrecord
  <2>2. client' = client /\ pc[t] = "unrecord"
    BY <1>7 DEF Unrecord, lifeVars
  <2>3. /\ obj'[x].rec = "no" /\ (Bare(x)' => obj'[x].pinned)
        /\ \A o \in Objs \ {x} : obj'[o] = obj[o]
    <3>1. CASE obj' = [obj EXCEPT ![x].fw = "gone", ![x].pinned = call[t].kind = "qp"]
      <4>1. PICK b : b = (call[t].kind = "qp")
        OBVIOUS
      <4>2. /\ obj'[x].rec = "no" /\ obj'[x].fw = "gone"
            /\ \A o \in Objs \ {x} : obj'[o] = obj[o]
        BY <3>1, <4>1, <1>1, <2>1 DEF ObjType
      <4> QED  BY <4>2 DEF Bare, Live, QpStates
    <3>2. CASE Release(x) /\ call[t].kind = "cq"
      <4>1. \/ obj' = [obj EXCEPT ![x] = Nothing]
            \/ obj' = [obj EXCEPT ![x].pinned = FALSE]
        BY <3>2 DEF Release, Unpin
      <4>2. /\ obj'[x].rec = "no" /\ (obj'[x].kind = "cq" \/ obj'[x].num = 0)
            /\ \A o \in Objs \ {x} : obj'[o] = obj[o]
        BY <3>2, <4>1, <1>1, <2>1, <1>4 DEF ObjType
      <4> QED  BY <4>2 DEF Bare
    <3>3. CASE obj' = obj
      BY <3>3, <2>1
    <3> QED  BY <1>7, <2>1, <3>1, <3>2, <3>3 DEF Unrecord
  <2>4. /\ pc'[t] # "drop" \/ call'[t].job = "create"
        /\ \A u \in Threads \ {t} : pc'[u] = pc[u] /\ call'[u] = call[u]
    <3>1. CASE Done(t)
      BY <3>1, DoneIs
    <3>2. CASE call[t].kind = "qp" /\ Goto(t, "drop")
      <4>1. "drop" \in Points
        BY DEF Points
      <4> QED  BY <3>2, <4>1, <2>1, GotoIs
    <3> QED  BY <1>7, <3>1, <3>2 DEF Unrecord
  <2> QED  BY <2>1, <2>2, <2>3, <2>4, NewContext
<1>8. "qp" \in Kinds /\ "cq" \in Kinds /\ "mr" \in Kinds
  BY DEF Kinds
<1> QED  BY <1>2, <1>5, <1>6, <1>7, <1>8 DEF CreateQP, CreateCQ, RegMR

\* MODIFY_QP, a DESTROY that fails and a late answer: the contexts stay.
LEMMA SameContextsOfCommand ==
  ASSUME IInv, DInv,
         \/ \E t \in Threads : ModifyCommand(t)
         \/ FirmwareAnswersLate
  PROVE  DInv'
<1> USE DEF IInv
<1>1. obj \in [Objs -> ObjType]
  BY Fields
<1>2. ASSUME NEW t \in Threads, ModifyCommand(t)  PROVE DInv'
  <2>1. Goto(t, "back") /\ "back" \in Points /\ client' = client
    BY <1>2 DEF ModifyCommand, Points, lifeVars
  <2>2. \A u \in Threads : pc'[u] = "drop" => \/ pc[u] = "drop" /\ call'[u] = call[u]
                                              \/ call'[u].job = "create"
    BY <2>1, GotoIs
  <2>3. \A o \in Objs : /\ obj'[o].rec = obj[o].rec /\ obj'[o].pinned = obj[o].pinned
                        /\ obj'[o].kind = obj[o].kind /\ obj'[o].num = obj[o].num
                        /\ Live(o)' => Live(o)
    <3>1. CASE obj' = obj
      BY <3>1 DEF Live
    <3>2. CASE obj' # obj
      <4> DEFINE c == table["qp"][FirstMatch("qp", call[t].num)]
                 n == NextState(obj[c].state)
      <4>0. \E o \in Named("qp", call[t].num) :
              obj' = [[obj EXCEPT ![o].fw = n] EXCEPT ![c].state = n]
        BY <1>2, <3>2 DEF ModifyCommand
      <4>a. PICK y : y = c
        OBVIOUS
      <4>b. PICK s : s = n
        OBVIOUS
      <4> HIDE DEF c, n
      <4>1. PICK x \in Objs : /\ Live(x)
                              /\ obj' = [[obj EXCEPT ![x].fw = s] EXCEPT ![y].state = s]
        BY <4>0, <4>a, <4>b DEF Named
      <4>2. \A o \in Objs : obj[o] \in ObjType
        BY <1>1
      <4>3. PICK ob : ob = [obj EXCEPT ![x].fw = s]
        OBVIOUS
      <4>4. \A o \in Objs : /\ ob[o].rec = obj[o].rec /\ ob[o].pinned = obj[o].pinned
                            /\ ob[o].kind = obj[o].kind /\ ob[o].num = obj[o].num
                            /\ (o # x => ob[o].fw = obj[o].fw)
                            /\ DOMAIN ob[o] = DOMAIN obj[o]
        BY <4>2, <4>3, <1>1 DEF ObjType
      <4>5. \A o \in Objs : /\ obj'[o].rec = ob[o].rec /\ obj'[o].pinned = ob[o].pinned
                            /\ obj'[o].kind = ob[o].kind /\ obj'[o].num = ob[o].num
                            /\ obj'[o].fw = ob[o].fw
        <5>1. obj' = [ob EXCEPT ![y].state = s] /\ DOMAIN ob = Objs
          BY <4>1, <4>3, <1>1
        <5>2. \A o \in Objs : ob[o] = [kind |-> ob[o].kind, client |-> ob[o].client, num |-> ob[o].num,
                                       slot |-> ob[o].slot, pinned |-> ob[o].pinned, fw |-> ob[o].fw,
                                       state |-> ob[o].state, rec |-> ob[o].rec]
          BY <4>2, <4>3, <1>1 DEF ObjType
        <5> QED  BY <5>1, <5>2
      <4>6. \A o \in Objs : o # x => obj'[o].fw = obj[o].fw
        BY <4>4, <4>5
      <4>7. \A o \in Objs : Live(o)' => Live(o)
        BY <4>1, <4>6 DEF Live
      <4> QED  BY <4>4, <4>5, <4>7
    <3> QED  BY <3>1, <3>2
  <2> QED  BY <2>1, <2>2, <2>3, ContextFrame
<1>3. ASSUME FirmwareAnswersLate  PROVE DInv'
  <2>1. UNCHANGED <<world, client, pc, call>> /\ late # NoCommand
    BY <1>3 DEF FirmwareAnswersLate, lifeVars
  <2>2. late.op \in {"create", "modify", "destroy"}
    <3>1. late \in [op : {"none", "create", "modify", "destroy"}, obj : 0 .. MaxObjs]
      BY DEF StateOK
    <3>2. late.op = "none" => late = NoCommand
      BY <3>1 DEF LateInv, NoCommand
    <3> QED  BY <2>1, <3>1, <3>2
  <2>3. PICK x \in Objs : x = late.obj
    BY <2>2 DEF LateInv
  <2>4. PICK s : /\ obj' = [obj EXCEPT ![x].fw = s]
                 /\ late.op = "destroy" => s = "gone"
    BY <1>3, <2>2, <2>3 DEF FirmwareAnswersLate
  <2>5. \A o \in Objs : \/ obj[o].rec = "no" /\ obj'[o].rec # "out" /\ (Bare(o)' => obj'[o].pinned)
                        \/ /\ obj'[o].rec = obj[o].rec /\ obj'[o].pinned = obj[o].pinned
                           /\ obj'[o].kind = obj[o].kind /\ obj'[o].num = obj[o].num
                           /\ Live(o)' => Live(o)
    <3>1. \A o \in Objs : /\ obj'[o].rec = obj[o].rec /\ obj'[o].pinned = obj[o].pinned
                          /\ obj'[o].kind = obj[o].kind /\ obj'[o].num = obj[o].num
                          /\ (o # x => obj'[o].fw = obj[o].fw)
      BY <1>1, <2>4 DEF ObjType
    <3>2. late.op # "create" => Live(x)
      BY <2>2, <2>3 DEF LateInv, Live, QpStates
    <3>3. late.op = "create" => obj[x].rec = "no" /\ ~Bare(x)'
      BY <2>3, <3>1 DEF LateInv, Bare
    <3> QED  BY <3>1, <3>2, <3>3 DEF Live
  <2> QED  BY <2>1, <2>5, ContextFrame
<1> QED  BY <1>2, <1>3

\* The DESTROY command: the object it destroys has its context in the table, and
\* the call will find one.
LEMMA DestroyContext ==
  ASSUME IInv, DInv, NEW t \in Threads, DestroyCommand(t)
  PROVE  DInv'
<1> USE DEF IInv
<1>0. obj \in [Objs -> ObjType] /\ "drop" \in Points /\ "back" \in Points
  BY Fields DEF Points
<1>1. pc[t] = "destroy" /\ UNCHANGED <<world, client>>
  BY DEF DestroyCommand, lifeVars
<1>2. CASE obj' = obj /\ (Goto(t, "back") \/ Done(t))
  <2>1. pc'[t] # "drop" /\ \A u \in Threads \ {t} : pc'[u] = pc[u] /\ call'[u] = call[u]
    BY <1>0, <1>2, GotoIs, DoneIs
  <2> QED  BY <1>1, <1>2, <2>1, SameContexts
<1>3. CASE /\ \E o \in Named(call[t].kind, call[t].num) : obj' = [obj EXCEPT ![o].fw = "gone"]
           /\ Goto(t, "drop")
  <2>1. PICK x \in Named(call[t].kind, call[t].num) : obj' = [obj EXCEPT ![x].fw = "gone"]
    BY <1>3
  <2>2. x \in Objs /\ Live(x) /\ obj[x].kind = call[t].kind /\ obj[x].num = call[t].num
    BY DEF Named
  <2>3. /\ \A u \in Threads \ {t} : pc'[u] = pc[u] /\ call'[u] = call[u]
        /\ pc'[t] = "drop" /\ call'[t] = call[t]
    BY <1>0, <1>3, GotoIs
  <2>4. call[t].job # "create" /\ call[t].num # 0
    BY <1>1, VerbsAssumption DEF JobInv, JobOK, Claims, Objs
  <2>5. obj[x].rec = "in"
    <3>1. obj[x].rec # "no"
      BY <1>1, <2>2, <2>4 DEF HoldInv, HeldIsOwn, Claim, Claims
    <3>2. client[Me(t)] # "closed" /\ Me(t) \in Clients
      BY <1>1, NotClosed, MeIs
    <3>3. obj[x].rec # "out"
      BY <2>2, <3>2 DEF DInv, RecInv
    <3> QED  BY <2>2, <3>1, <3>3, Fields
  <2>6. \A o \in Objs : /\ obj'[o].rec = obj[o].rec /\ obj'[o].pinned = obj[o].pinned
                        /\ obj'[o].kind = obj[o].kind /\ obj'[o].num = obj[o].num
                        /\ Live(o)' <=> Live(o) /\ o # x
    BY <1>0, <2>1, <2>2 DEF ObjType, Live, QpStates
  <2>7. RecInv'
    BY <1>1, <2>6 DEF DInv, RecInv
  <2>8. PICK f \in [Threads -> Objs \cup {0}] :
          \A u \in Threads : Dropping(u) =>
            /\ f[u] \in Objs
            /\ obj[f[u]].rec = "in" /\ ~Live(f[u])
            /\ obj[f[u]].kind = call[u].kind /\ obj[f[u]].num = call[u].num
            /\ \A v \in Threads : Dropping(v) /\ f[v] = f[u] => v = u
    BY DEF DInv, DropInv
  <2> DEFINE g == [f EXCEPT ![t] = x]
  <2>9. g \in [Threads -> Objs \cup {0}] /\ g[t] = x /\ \A u \in Threads \ {t} : g[u] = f[u]
    BY <2>2
  <2> HIDE DEF g
  <2>10. \A u \in Threads \ {t} : Dropping(u)' => Dropping(u) /\ call'[u] = call[u]
    BY <2>3 DEF Dropping
  <2>11. \A u \in Threads : Dropping(u)' =>
            /\ g[u] \in Objs
            /\ obj'[g[u]].rec = "in" /\ ~Live(g[u])'
            /\ obj'[g[u]].kind = call'[u].kind /\ obj'[g[u]].num = call'[u].num
    <3>1. /\ g[t] \in Objs
          /\ obj'[g[t]].rec = "in" /\ ~Live(g[t])'
          /\ obj'[g[t]].kind = call'[t].kind /\ obj'[g[t]].num = call'[t].num
      BY <2>2, <2>3, <2>5, <2>6, <2>9
    <3>2. ASSUME NEW u \in Threads \ {t}, Dropping(u)'
          PROVE  /\ g[u] \in Objs
                 /\ obj'[g[u]].rec = "in" /\ ~Live(g[u])'
                 /\ obj'[g[u]].kind = call'[u].kind /\ obj'[g[u]].num = call'[u].num
      BY <3>2, <2>6, <2>8, <2>9, <2>10
    <3> QED  BY <3>1, <3>2
  <2>12. \A u, v \in Threads : Dropping(u)' /\ Dropping(v)' /\ g[v] = g[u] => v = u
    <3>1. \A u \in Threads \ {t} : Dropping(u)' => g[u] # x
      BY <2>2, <2>8, <2>9, <2>10
    <3>2. \A u, v \in Threads \ {t} : Dropping(u)' /\ Dropping(v)' /\ g[v] = g[u] => v = u
      BY <2>8, <2>9, <2>10
    <3> QED  BY <3>1, <3>2, <2>9
  <2>13. BareInv'
    BY <2>6 DEF DInv, BareInv, Bare
  <2>14. DropInv'
    BY <2>9, <2>11, <2>12 DEF DropInv
  <2> QED  BY <2>7, <2>13, <2>14 DEF DInv
<1> QED  BY <1>2, <1>3 DEF DestroyCommand

\* A context is dropped: the first with the number, which is dead, since the call
\* has one of its own to drop that comes no earlier in the table.
LEMMA DropContext ==
  ASSUME IInv, DInv, NEW t \in Threads, Drop(t), ~blind'
  PROVE  DInv'
<1> USE DEF IInv
<1>1. /\ pc[t] = "drop" /\ Done(t) /\ call[t].kind \in Kinds /\ call[t].num \in Objs
      /\ UNCHANGED <<world, client>>
  BY DropIs
<1>2. pc'[t] # "drop" /\ \A u \in Threads \ {t} : pc'[u] = pc[u] /\ call'[u] = call[u]
  BY <1>1, DoneIs
<1>3. PICK k \in Kinds : k = call[t].kind
  BY <1>1
<1>4. PICK n \in Objs : n = call[t].num
  BY <1>1
<1>5. PICK i \in 0 .. Len(table[k]) : i = FirstMatch(k, n)
  BY FirstMatchIs
<1>6. PICK O \in SUBSET Objs :
        /\ O = (IF call[t].job = "create" THEN {call[t].obj} ELSE {}) \cup
               (IF i = 0 THEN {} ELSE {table[k][i]})
        /\ \A o \in Objs \ O : obj'[o] = obj[o]
        /\ \A o \in O : ~Live(o) => obj'[o] = Nothing
  <2>1. PICK P \in SUBSET Objs :
          /\ P = (IF call[t].job = "create" THEN {call[t].obj} ELSE {}) \cup
                 (IF FirstMatch(call[t].kind, call[t].num) = 0 THEN {}
                  ELSE {table[call[t].kind][FirstMatch(call[t].kind, call[t].num)]})
          /\ fDbBitmap' = fDbBitmap \ UNION {Pair(obj[o].slot) : o \in P}
          /\ obj' \in [Objs -> ObjType]
          /\ \A o \in Objs \ P : obj'[o] = obj[o]
          /\ \A o \in P : Live(o) =>
               /\ obj'[o].kind = obj[o].kind /\ obj'[o].num = obj[o].num
               /\ obj'[o].client = obj[o].client /\ obj'[o].fw = obj[o].fw
               /\ ~obj'[o].pinned /\ obj'[o].rec = "out"
          /\ \A o \in P : ~Live(o) => obj'[o] = Nothing
          /\ \A o \in P : obj[o].pinned
    BY DropIs, Zenon
  <2>2. P = (IF call[t].job = "create" THEN {call[t].obj} ELSE {}) \cup
            (IF i = 0 THEN {} ELSE {table[k][i]})
    BY <2>1, <1>3, <1>4, <1>5
  <2> QED  BY <2>1, <2>2
<1>7. /\ i = 0 => \A j \in 1 .. Len(table[k]) : obj[table[k][j]].num # n
      /\ i # 0 => /\ i \in 1 .. Len(table[k]) /\ table[k][i] \in Objs
                  /\ obj[table[k][i]].num = n
                  /\ \A j \in 1 .. Len(table[k]) : obj[table[k][j]].num = n => i =< j
  BY <1>5, FirstMatchIs, Fields
<1>8. i # 0 => obj[table[k][i]].rec = "in" /\ obj[table[k][i]].kind = k
  BY <1>7 DEF TableInv
<1>9. /\ Nothing.rec = "no" /\ Nothing.fw \notin {"live"} \cup QpStates
      /\ 0 \notin Objs
  BY VerbsAssumption DEF Nothing, QpStates, Objs
<1>10. CASE call[t].job = "create"
  <2>1. i = 0
    BY <1>3, <1>4, <1>5, <1>10 DEF Drop
  <2>2. Creating(t)
    BY <1>1, <1>10 DEF Creating
  <2>3. CreateOK(t) /\ call[t].obj \in Objs
    BY <2>2, CreatingIs
  <2>4. PICK x \in Objs : /\ x = call[t].obj /\ obj[x].rec = "no" /\ obj[x].fw = "gone"
    BY <1>1, <1>4, <2>3 DEF CreateOK
  <2>5. O = {x} /\ ~Live(x)
    BY <1>6, <1>10, <2>1, <2>4 DEF Live, QpStates
  <2>6. obj'[x].rec # "out" /\ ~Bare(x)' /\ \A o \in Objs \ {x} : obj'[o] = obj[o]
    BY <1>6, <1>9, <2>5 DEF Bare, Live
  <2> QED  BY <1>1, <1>2, <2>4, <2>6, NewContext
<1>11. CASE call[t].job # "create"
  <2>1. PICK f \in [Threads -> Objs \cup {0}] :
          \A u \in Threads : Dropping(u) =>
            /\ f[u] \in Objs
            /\ obj[f[u]].rec = "in" /\ ~Live(f[u])
            /\ obj[f[u]].kind = call[u].kind /\ obj[f[u]].num = call[u].num
            /\ \A v \in Threads : Dropping(v) /\ f[v] = f[u] => v = u
    BY DEF DInv, DropInv
  <2>2. Dropping(t)
    BY <1>1, <1>11 DEF Dropping
  <2>3. PICK y \in Objs : /\ y = f[t] /\ obj[y].rec = "in" /\ ~Live(y) /\ obj[y].kind = k
                          /\ obj[y].num = n
    BY <2>1, <2>2, <1>3, <1>4
  <2>4. PICK j \in 1 .. Len(table[k]) : table[k][j] = y
    BY <2>3 DEF TableInv
  <2>5. i # 0 /\ i \in 1 .. Len(table[k]) /\ i =< j
    BY <1>7, <2>3, <2>4
  <2>6. PICK x \in Objs : /\ x = table[k][i] /\ obj[x].num = n /\ obj[x].rec = "in" /\ obj[x].kind = k
    BY <1>7, <1>8, <2>5
  <2>7. ~Live(x)
    <3>1. CASE i = j
      BY <3>1, <2>3, <2>4, <2>6
    <3>2. CASE i < j
      <4>1. obj[table[k][i]].num = obj[table[k][j]].num => ~Live(table[k][i])
        BY <3>2, <2>5 DEF TableInv
      <4> QED  BY <4>1, <2>3, <2>4, <2>6
    <3>3. i \in Nat /\ j \in Nat
      BY <2>5
    <3> QED  BY <3>1, <3>2, <3>3, <2>5
  <2>8. obj'[x] = Nothing /\ \A o \in Objs \ {x} : obj'[o] = obj[o]
    <3>1. O = {x}
      BY <1>6, <1>11, <2>5, <2>6
    <3> QED  BY <3>1, <1>6, <2>7
  <2>9. \A o \in Objs : Live(o)' => o # x /\ Live(o) /\ obj'[o] = obj[o]
    BY <1>9, <2>8 DEF Live
  <2>10. RecInv' /\ BareInv'
    BY <1>1, <2>9 DEF DInv, RecInv, BareInv, Bare
  <2> DEFINE g == [u \in Threads |-> IF f[u] = x THEN y ELSE f[u]]
  <2>11. /\ g \in [Threads -> Objs \cup {0}]
         /\ \A u \in Threads : g[u] = IF f[u] = x THEN y ELSE f[u]
    OBVIOUS
  <2> HIDE DEF g
  <2>12. \A u \in Threads : Dropping(u)' => u # t /\ Dropping(u) /\ call'[u] = call[u]
    BY <1>2 DEF Dropping
  <2>13. \A u \in Threads : Dropping(u)' =>
           /\ g[u] \in Objs
           /\ obj'[g[u]].rec = "in" /\ ~Live(g[u])'
           /\ obj'[g[u]].kind = call'[u].kind /\ obj'[g[u]].num = call'[u].num
    <3> SUFFICES ASSUME NEW u \in Threads, Dropping(u)'
                 PROVE  /\ g[u] \in Objs
                        /\ obj'[g[u]].rec = "in" /\ ~Live(g[u])'
                        /\ obj'[g[u]].kind = call'[u].kind /\ obj'[g[u]].num = call'[u].num
      OBVIOUS
    <3>1. /\ u # t /\ Dropping(u) /\ call'[u] = call[u] /\ f[u] \in Objs
          /\ obj[f[u]].rec = "in" /\ ~Live(f[u])
          /\ obj[f[u]].kind = call[u].kind /\ obj[f[u]].num = call[u].num
      BY <2>1, <2>12
    <3>2. f[u] # y
      BY <2>1, <2>2, <2>3, <3>1
    <3>3. PICK z \in Objs : z = g[u] /\ z # x /\ obj[z].rec = "in" /\ ~Live(z)
                            /\ obj[z].kind = call[u].kind /\ obj[z].num = call[u].num
      BY <2>3, <2>6, <2>11, <3>1, <3>2
    <3>4. obj'[z] = obj[z] /\ ~Live(z)'
      BY <2>8, <3>3 DEF Live
    <3> QED  BY <3>1, <3>3, <3>4
  <2>14. \A u, v \in Threads : Dropping(u)' /\ Dropping(v)' /\ g[v] = g[u] => v = u
    <3>1. \A u \in Threads : Dropping(u)' => f[u] # y
      BY <2>1, <2>2, <2>3, <2>12
    <3> QED  BY <3>1, <2>1, <2>11, <2>12
  <2>15. DropInv'
    BY <2>11, <2>13, <2>14 DEF DropInv
  <2> QED  BY <2>10, <2>15 DEF DInv
<1> QED  BY <1>10, <1>11

\* free of MlxQP, MlxCQ and MlxMR: no call runs, and what is not destroyed keeps its
\* memory unless it is a CQ.
LEMMA FreeContext ==
  ASSUME IInv, DInv, FreeNext
  PROVE  DInv'
<1> USE DEF IInv
<1>0. /\ UNCHANGED <<world, client, pc, call>>
      /\ \A c \in Clients : client[c] = "closed"
      /\ \E k \in Kinds : table[k] # <<>>
  BY DEF FreeNext, lifeVars
<1>1. PICK k \in Kinds : /\ table[k] # <<>>
                         /\ table' = [table EXCEPT ![k] = Tail(@)]
                         /\ DestroyedInFree(table[k][1]) \/ NotDestroyedInFree(k, table[k][1])
  BY <1>0, FreeOrderIs DEF FreeNext
<1>2. PICK x \in Objs : /\ x = table[k][1] /\ obj[x].kind = k
  <2>1. 1 \in 1 .. Len(table[k])
    BY <1>1, TailOf
  <2> QED  BY <2>1, Fields DEF TableInv
<1>3. obj \in [Objs -> ObjType] /\ obj[x] \in ObjType
  BY Fields
<1>4. /\ \A o \in Objs \ {x} : obj'[o] = obj[o]
      /\ obj'[x].fw \notin {"live"} \cup QpStates \/ obj'[x].kind = "cq" \/ obj'[x].pinned
  <2>1. CASE DestroyedInFree(x)
    <3>1. obj' = [obj EXCEPT ![x] = Nothing]
      BY <2>1 DEF DestroyedInFree
    <3>2. Nothing.fw \notin {"live"} \cup QpStates
      BY DEF Nothing, QpStates
    <3> QED  BY <3>1, <3>2, <1>3
  <2>2. CASE NotDestroyedInFree(k, x)
    <3>1. PICK b \in BOOLEAN : b = (k # "cq")
      OBVIOUS
    <3>2. obj' = [obj EXCEPT ![x].rec = "out", ![x].pinned = b]
      BY <2>2, <3>1 DEF NotDestroyedInFree
    <3>3. obj'[x].pinned = b /\ obj'[x].kind = k /\ \A o \in Objs \ {x} : obj'[o] = obj[o]
      BY <1>2, <1>3, <3>2 DEF ObjType
    <3> QED  BY <3>1, <3>3
  <2> QED  BY <1>1, <1>2, <2>1, <2>2
<1>5. RecInv'
  BY <1>0, <1>4 DEF DInv, RecInv, Live
<1>6. \A u \in Threads : pc'[u] # "drop"
  BY <1>0, MeIs DEF ClientInv
<1>7. BareInv'
  BY <1>4 DEF DInv, BareInv, Bare, Live
<1>8. DropInv'
  <2>1. \E f : f \in [Threads -> Objs \cup {0}]
    BY DEF DInv, DropInv
  <2>2. \A u \in Threads : ~Dropping(u)'
    BY <1>6 DEF Dropping
  <2> QED  BY <2>1, <2>2 DEF DropInv
<1> QED  BY <1>5, <1>7, <1>8 DEF DInv

\* The initial states.
LEMMA InitDInv ==
  ASSUME Init
  PROVE  DInv
<1> USE DEF Init
<1>1. \A o \in Objs : obj[o].rec = "no" /\ obj[o].num = 0
  BY DEF Nothing
<1>2. \A t \in Threads : pc[t] = "idle"
  OBVIOUS
<1>3. [t \in Threads |-> 0] \in [Threads -> Objs \cup {0}]
  OBVIOUS
<1>4. RecInv /\ BareInv
  BY <1>1 DEF RecInv, BareInv, Bare
<1>5. DropInv
  <2>1. \E f : f \in [Threads -> Objs \cup {0}]
    BY <1>3
  <2>2. \A t \in Threads : ~Dropping(t)
    BY <1>2 DEF Dropping
  <2> QED  BY <2>1, <2>2 DEF DropInv
<1> QED  BY <1>4, <1>5 DEF DInv

\* Every step keeps the contexts in order, unless createQP's clean-up drops one that
\* is not its own.
LEMMA NextDInv ==
  ASSUME IInv, DInv, ~blind', [Next]_vars
  PROVE  DInv'
<1>1. ASSUME UNCHANGED <<world, client, memVars, pc, call>>  PROVE DInv'
  <2>1. UNCHANGED <<world, client, obj, pc, call>>
    BY <1>1 DEF memVars
  <2>2. \A o \in Objs : \/ obj[o].rec = "no" /\ obj'[o].rec # "out" /\ (Bare(o)' => obj'[o].pinned)
                        \/ /\ obj'[o].rec = obj[o].rec /\ obj'[o].pinned = obj[o].pinned
                           /\ obj'[o].kind = obj[o].kind /\ obj'[o].num = obj[o].num
                           /\ Live(o)' => Live(o)
    BY <2>1 DEF Live
  <2> QED  BY <2>1, <2>2, ContextFrame
<1>2. CASE UNCHANGED vars
  BY <1>1, <1>2 DEF vars, lifeVars
<1>3. ASSUME NEW ok \in BOOLEAN, RoceStart(ok)  PROVE DInv'
  BY <1>1, <1>3 DEF RoceStart
<1>4. ASSUME RoceStop  PROVE DInv'
  BY <1>1, <1>4 DEF RoceStop
<1>5. ASSUME NEW t \in Threads,
             \/ CreateQP(t) \/ CreateCQ(t) \/ RegMR(t)
             \/ Ask(t) \/ Record(t) \/ Unrecord(t)
      PROVE  DInv'
  BY <1>5, NewContexts
<1>6. ASSUME NEW t \in Threads,
             \/ Own(t) \/ Activate(t) \/ Back(t) \/ Close(t) \/ TakeNext(t) \/ Closed(t)
             \/ \E n \in Objs : ModifyQP(t, n) \/ DestroyQP(t, n) \/ DestroyCQ(t, n) \/ DeregMR(t, n)
      PROVE  DInv'
  BY <1>6, ListContexts
<1>7. ASSUME NEW t \in Threads, DestroyCommand(t) \/ Drop(t)  PROVE DInv'
  BY <1>7, DestroyContext, DropContext
<1>8. ASSUME (\E t \in Threads : ModifyCommand(t)) \/ FirmwareAnswersLate  PROVE DInv'
  BY <1>8, SameContextsOfCommand
<1>9. ASSUME FreeNext  PROVE DInv'
  BY <1>9, FreeContext
<1> QED  BY <1>2, <1>3, <1>4, <1>5, <1>6, <1>7, <1>8, <1>9 DEF Next

\* Until then the memory of a live object that is not abandoned is pinned.
LEMMA LivePinned ==
  ASSUME IInv, DInv, NEW o \in Objs, Live(o), ~Abandoned(o)
  PROVE  obj[o].pinned
<1> USE DEF IInv
<1>1. CASE obj[o].rec = "in"
  <2>1. PICK k \in Kinds : k = obj[o].kind
    BY <1>1 DEF TableInv
  <2>2. PICK i \in 1 .. Len(table[k]) : table[k][i] = o
    BY <1>1, <2>1 DEF TableInv
  <2> QED  BY <2>1, <2>2 DEF TableInv
<1>2. CASE obj[o].rec = "out"
  BY <1>2 DEF DInv, RecInv, Abandoned
<1>3. CASE obj[o].rec = "no" /\ obj[o].kind = "cq"
  <2>1. PICK t \in Threads : pc[t] \in {"record", "unrecord"} /\ call[t].obj = o
    BY <1>3 DEF Abandoned, BeingMade
  <2>2. CreateOK(t)
    BY <2>1 DEF CreateInv, Creating
  <2> QED  BY <2>1, <2>2 DEF CreateOK
<1>4. CASE obj[o].rec = "no" /\ obj[o].kind # "cq"
  BY <1>4 DEF DInv, BareInv, Bare, Abandoned
<1> QED  BY <1>1, <1>2, <1>3, <1>4, Fields

\* The invariant of the two theorems below.
LEMMA ContextsAlways == Spec => [](IInv /\ (blind \/ DInv))
<1>1. Init => IInv /\ (blind \/ DInv)
  BY InitIInv, InitDInv
<1>2. IInv /\ (blind \/ DInv) /\ [Next]_vars => (IInv /\ (blind \/ DInv))'
  <2> SUFFICES ASSUME IInv, blind \/ DInv, [Next]_vars  PROVE IInv' /\ (blind' \/ DInv')
    OBVIOUS
  <2>1. IInv'
    BY NextIInv
  <2>2. blind => blind'
    BY BlindStep
  <2>3. DInv /\ ~blind' => DInv'
    BY NextDInv
  <2> QED  BY <2>1, <2>2, <2>3
<1> QED  BY <1>1, <1>2, PTL DEF Spec

\* A live object keeps its memory and its doorbell slots, whichever commands fail or
\* time out and whichever calls overlap, until createQP's clean-up drops a context
\* that is not its own; except for those the code abandons by a decision of its own.
THEOREM KeptUnlessAbandonedHolds == Spec => []KeptUnlessAbandoned
<1>1. IInv /\ (blind \/ DInv) => KeptUnlessAbandoned
  BY LivePinned DEF KeptUnlessAbandoned, Kept, IInv, SlotInv
<1> QED  BY <1>1, ContextsAlways, PTL

\* Until then two live objects that are not abandoned never share a doorbell record,
\* nor does one with the Ethernet interface.
THEOREM ApartUnlessAbandonedHolds == Spec => []ApartUnlessAbandoned
<1>1. IInv /\ (blind \/ DInv) => ApartUnlessAbandoned
  <2> SUFFICES ASSUME IInv, DInv, NEW o \in Objs, Live(o), ~Abandoned(o)
               PROVE  /\ Pair(obj[o].slot) \cap EthSlots = {}
                      /\ \A p \in Objs \ {o} : Live(p) /\ ~Abandoned(p) => ~SharesSlot(o, p)
    BY DEF ApartUnlessAbandoned
  <2>1. obj[o].pinned /\ \A p \in Objs : Live(p) /\ ~Abandoned(p) => obj[p].pinned
    BY LivePinned
  <2> QED  BY <2>1 DEF IInv, SlotInv, SharesSlot
<1> QED  BY <1>1, ContextsAlways, PTL
=============================================================================
