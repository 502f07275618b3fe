-------------------------- MODULE MlxEthernetProofs --------------------------
(***************************************************************************)
(* Proofs about the Ethernet interface: for any sizes of rings and ranges  *)
(* of counters, any packets and any threads, nothing is destroyed or freed *)
(* that a firmware object or the completion handler uses, receives are     *)
(* handed up in order, and the send path is the queue of TxQueue.          *)
(***************************************************************************)
EXTENDS MlxEthernet, RingLemmas

(***************************************************************************)
(* The inductive invariant, control: enable, disable, stop and the objects.*)
(***************************************************************************)

\* The place of a step in enable's chain, the steps before it, and the memory
\* they allocate.
Pos(s)       == CHOOSE k \in 1 .. Len(UpOrder) : UpOrder[k] = s
Before(s)    == {r \in UpSteps : Pos(r) < Pos(s)}
MemBefore(s) == UNION {Allocates(r) : r \in Before(s)}
Held         == Rings \cup {"core"}

\* Points between the entry of enable or disable and its last section.
Busy         == {"up", "enabled", "unregister", "sync", "undo", "finish"}
ReleaseSteps == {"release", "releaseSync", "releaseFree"}

CtlType ==
  /\ life \in {"new", "up", "failed", "stopping", "stopped", "freeing", "freed", "retained"}
  /\ {fNic, fEnabled, fEnabling, fDisabling, fNotifierRegistered,
      registered, quarantined} \subseteq BOOLEAN
  /\ has \subseteq Objects
  /\ mem \subseteq Memory
  /\ pc \in [Threads -> Points]
  /\ at \in [Threads -> UpSteps]
  /\ part \in [Threads -> Parts]
  /\ job \in [Threads -> {"none", "enable", "own", "disable", "stop"}]
  /\ failed \in [Threads -> SUBSET Parts]

\* fEnabling and fDisabling let one thread at a time change the objects.
ThreadInv ==
  /\ \A t, u \in Threads : pc[t] \in Busy /\ pc[u] \in Busy => t = u
  /\ \A t \in Threads :
       /\ pc[t] \in Busy => IF job[t] \in {"enable", "own"} THEN fEnabling ELSE fDisabling
       /\ pc[t] \in {"up", "enabled"} => job[t] = "enable" /\ fNic
       /\ job[t] = "own" => pc[t] \in {"undo", "finish"}
       /\ t # Term => job[t] # "stop" /\ pc[t] \notin ReleaseSteps
       /\ t = Term => pc[t] \notin {"up", "enabled", "report"}
       /\ pc[t] # "idle" => life # "new"
  /\ fEnabling => ~fEnabled /\ ~fDisabling
  /\ fDisabling => ~fEnabled

\* The interface is attached while the rings and the core are held.
LifeInv ==
  /\ life = "new" => has = {} /\ mem = {}
  /\ life \in {"new", "stopped"} => ~fNic
  /\ fNic => Held \subseteq mem
  /\ fEnabled => fNic
  /\ pc[Term] \in ReleaseSteps => ~fEnabled

\* From the registration to the synchronization there is all the handler uses.
NoteInv ==
  /\ registered \/ hpc # "idle" => fNotifierRegistered
  /\ fNotifierRegistered =>
       /\ Before("NOTIFY") \cap Objects \subseteq has
       /\ MemBefore("NOTIFY") \cup Held \subseteq mem
  /\ fEnabled => fNotifierRegistered
  /\ \A t \in Threads :
       /\ pc[t] = "enabled" => fNotifierRegistered
       /\ pc[t] = "sync" => ~registered
       /\ pc[t] = "undo" /\ ~(job[t] = "own" /\ part[t] = "flow") => ~fNotifierRegistered
  /\ pc[Term] = "releaseSync" => ~registered
  /\ pc[Term] = "releaseFree" => ~fNotifierRegistered

\* At a step of enable there is exactly what the steps before it have made.
UpInv ==
  \A t \in Threads : pc[t] = "up" =>
    /\ has = Before(at[t]) \cap Objects
    /\ mem = MemBefore(at[t]) \cup Held
    /\ fNotifierRegistered <=> "NOTIFY" \in Before(at[t])
    /\ registered <=> "NOTIFY" \in Before(at[t])

\* Handles are closed under what was made before and is destroyed after.
GlobalObjs == {"PD", "TD", "MKEY"}
TxObjs     == {"TIS", "TXCQ", "SQ"}
RxObjs     == {"RXCQ", "RQ", "TIR"}
FlowObjs   == {"FT", "FG", "FTE", "ROOT"}

HasOK(h) ==
  /\ "TD" \in h => "PD" \in h
  /\ "MKEY" \in h => "TD" \in h
  /\ h \cap (TxObjs \cup RxObjs \cup FlowObjs) # {} => "MKEY" \in h
  /\ "TXCQ" \in h => "TIS" \in h
  /\ "SQ" \in h => "TXCQ" \in h
  /\ "RQ" \in h => "RXCQ" \in h
  /\ "TIR" \in h => "RQ" \in h
  /\ "FT" \in h => "TIR" \in h
  /\ "FG" \in h => "FT" \in h
  /\ "FTE" \in h => "FG" \in h
  /\ "ROOT" \in h => "FTE" \in h

\* A part is undone when the parts that use it are gone.
StageInv ==
  \A t \in Threads : pc[t] = "undo" =>
    /\ part[t] = "rx" => has \cap FlowObjs = {}
    /\ part[t] = "tx" /\ failed[t] = {} => has \cap (FlowObjs \cup RxObjs) = {}
    /\ part[t] = "global" => has \cap (FlowObjs \cup RxObjs \cup TxObjs) = {}

\* The memory of an object is there as long as its handle.
MemOK(h, m) ==
  /\ "SQ" \in h => {"txpool", "txdb"} \subseteq m
  /\ "TXCQ" \in h => {"txcqbuf", "txcqdb"} \subseteq m
  /\ "RQ" \in h => {"rxpool", "rxdb"} \subseteq m
  /\ "RXCQ" \in h => {"rxcqbuf", "rxcqdb"} \subseteq m
  /\ h \cap {"SQ", "RQ", "TXCQ", "RXCQ", "TIR", "ROOT"} # {} => Held \subseteq m

\* And no longer, unless enable or its own undoing is at work on it.
Settled(p) ==
  \A t \in Threads :
    pc[t] # "up" /\ ~(pc[t] = "undo" /\ job[t] = "own" /\ part[t] = p)

TxJust(h, m) ==
  /\ m \cap {"txpool", "txdb", "bfreg"} # {} => "SQ" \in h
  /\ m \cap {"txcqbuf", "txcqdb"} # {} => "TXCQ" \in h
RxJust(h, m) ==
  /\ m \cap {"rxpool", "rxdb"} # {} => "RQ" \in h
  /\ m \cap {"rxcqbuf", "rxcqdb"} # {} => "RXCQ" \in h

JustInv ==
  /\ Settled("tx") => TxJust(has, mem)
  /\ Settled("rx") => RxJust(has, mem)

\* Until a command times out the firmware has what the handles say; what it has,
\* or comes to have by a late creation, is supported, and a late destruction hits
\* an object nobody uses.
Ready == {"SQRDY", "RQRDY"}
FwMay == fw \cup (IF late.kind = "create" THEN {late.obj} ELSE {})

FwInv ==
  /\ fw \subseteq Objects \cup Ready
  /\ late \in [kind : {"none", "create", "destroy"}, obj : Objects \cup Ready]
  /\ ~quarantined => late.kind = "none" /\ fw \ Ready = has
  /\ \A o \in FwMay : Uses(o) \cap Objects \subseteq fw
  /\ "SQ" \in FwMay => "TXCQ" \in has
  /\ "RQ" \in FwMay => "RXCQ" \in has
  /\ "SQRDY" \in FwMay => "SQ" \in has
  /\ "RQRDY" \in FwMay => "RQ" \in has
  /\ late.kind = "destroy" => /\ late.obj \in Objects
                              /\ \A o \in Destroyed(fw, late.obj) : late.obj \notin Uses(o)

ObjInv == HasOK(has) /\ MemOK(has, mem) /\ FwInv

CtlInv == CtlType /\ ThreadInv /\ LifeInv /\ NoteInv /\ UpInv /\ StageInv /\ JustInv /\ ObjInv

(***************************************************************************)
(* enable's chain.                                                         *)
(***************************************************************************)

\* The chain, spelled out.
LEMMA UpStepsAre ==
  UpSteps = {"PD", "TD", "MKEY", "TXPOOL", "TIS", "TXCQ", "SQ", "BFREG", "SQRDY",
             "RXPOOL", "RXCQ", "RQ", "TIR", "RQRDY", "NOTIFY", "FT", "FG", "FTE", "ROOT"}
<1>1. Len(UpOrder) = 19
  BY DEF UpOrder
<1> QED  BY <1>1 DEF UpSteps, UpOrder

\* The places of the chain are 1 to 19, each step at its own.
LEMMA Positions ==
  /\ Len(UpOrder) = 19
  /\ \A k \in 1 .. 19 : UpOrder[k] \in UpSteps /\ Pos(UpOrder[k]) = k
<1>1. Len(UpOrder) = 19
  BY DEF UpOrder
<1>2. \A j, k \in 1 .. 19 : UpOrder[j] = UpOrder[k] => j = k
  BY DEF UpOrder
<1>3. ASSUME NEW k \in 1 .. 19 PROVE UpOrder[k] \in UpSteps /\ Pos(UpOrder[k]) = k
  BY <1>1, <1>2 DEF UpSteps, Pos
<1> QED  BY <1>1, <1>3

\* The place of each step.
LEMMA PosIs ==
  /\ Pos("PD") = 1 /\ Pos("TD") = 2 /\ Pos("MKEY") = 3
  /\ Pos("TXPOOL") = 4 /\ Pos("TIS") = 5 /\ Pos("TXCQ") = 6 /\ Pos("SQ") = 7
  /\ Pos("BFREG") = 8 /\ Pos("SQRDY") = 9
  /\ Pos("RXPOOL") = 10 /\ Pos("RXCQ") = 11 /\ Pos("RQ") = 12 /\ Pos("TIR") = 13
  /\ Pos("RQRDY") = 14 /\ Pos("NOTIFY") = 15
  /\ Pos("FT") = 16 /\ Pos("FG") = 17 /\ Pos("FTE") = 18 /\ Pos("ROOT") = 19
<1>1. /\ UpOrder[1] = "PD" /\ UpOrder[2] = "TD" /\ UpOrder[3] = "MKEY"
      /\ UpOrder[4] = "TXPOOL" /\ UpOrder[5] = "TIS" /\ UpOrder[6] = "TXCQ"
      /\ UpOrder[7] = "SQ" /\ UpOrder[8] = "BFREG" /\ UpOrder[9] = "SQRDY"
      /\ UpOrder[10] = "RXPOOL" /\ UpOrder[11] = "RXCQ" /\ UpOrder[12] = "RQ"
      /\ UpOrder[13] = "TIR" /\ UpOrder[14] = "RQRDY" /\ UpOrder[15] = "NOTIFY"
      /\ UpOrder[16] = "FT" /\ UpOrder[17] = "FG" /\ UpOrder[18] = "FTE"
      /\ UpOrder[19] = "ROOT"
  BY DEF UpOrder
<1>2. \A k \in 1 .. 19 : Pos(UpOrder[k]) = k
  BY Positions
<1> QED  BY <1>1, <1>2

\* What the firmware objects of the chain are, and the memory of a step.
LEMMA ObjectsAre ==
  Objects = {"PD", "TD", "MKEY", "TIS", "TXCQ", "SQ", "RXCQ", "RQ", "TIR", "FT", "FG", "FTE", "ROOT"}
BY UpStepsAre DEF Objects, LocalSteps

\* What is made when the first k steps of the chain are done.
Upto(k)    == {r \in UpSteps : Pos(r) =< k}
MemUpto(k) == UNION {Allocates(r) : r \in Upto(k)}

\* The memory steps allocate, piece by piece, and the step it comes from.
Pieces == {"txpool", "txcqbuf", "txcqdb", "txdb", "bfreg", "rxpool", "rxcqbuf", "rxcqdb", "rxdb"}

\* The memory of each step that allocates some.
LEMMA AllocatesIs ==
  /\ Allocates("TXPOOL") = {"txpool"} /\ Allocates("TXCQ") = {"txcqbuf", "txcqdb"}
  /\ Allocates("SQ") = {"txdb"} /\ Allocates("BFREG") = {"bfreg"}
  /\ Allocates("RXPOOL") = {"rxpool"} /\ Allocates("RXCQ") = {"rxcqbuf", "rxcqdb"}
  /\ Allocates("RQ") = {"rxdb"}
  /\ \A r \in UpSteps : r \notin {"TXPOOL", "TXCQ", "SQ", "BFREG", "RXPOOL", "RXCQ", "RQ"}
                         => Allocates(r) = {}
BY DEF Allocates

\* From which step on each piece of memory is there.
LEMMA MemUptoIs ==
  ASSUME NEW k \in 0 .. 19
  PROVE  /\ MemUpto(k) \subseteq Pieces
         /\ "txpool" \in MemUpto(k) <=> k >= 4
         /\ "txcqbuf" \in MemUpto(k) <=> k >= 6
         /\ "txcqdb" \in MemUpto(k) <=> k >= 6
         /\ "txdb" \in MemUpto(k) <=> k >= 7
         /\ "bfreg" \in MemUpto(k) <=> k >= 8
         /\ "rxpool" \in MemUpto(k) <=> k >= 10
         /\ "rxcqbuf" \in MemUpto(k) <=> k >= 11
         /\ "rxcqdb" \in MemUpto(k) <=> k >= 11
         /\ "rxdb" \in MemUpto(k) <=> k >= 12
<1>1. \A x : x \in MemUpto(k) <=> \E r \in UpSteps : Pos(r) =< k /\ x \in Allocates(r)
  BY DEF MemUpto, Upto
<1>2. \A r \in UpSteps : Allocates(r) \subseteq Pieces
  BY AllocatesIs DEF Pieces
<1>3. \A r \in UpSteps :
        /\ "txpool" \in Allocates(r) <=> r = "TXPOOL"
        /\ "txcqbuf" \in Allocates(r) <=> r = "TXCQ"
        /\ "txcqdb" \in Allocates(r) <=> r = "TXCQ"
        /\ "txdb" \in Allocates(r) <=> r = "SQ"
        /\ "bfreg" \in Allocates(r) <=> r = "BFREG"
        /\ "rxpool" \in Allocates(r) <=> r = "RXPOOL"
        /\ "rxcqbuf" \in Allocates(r) <=> r = "RXCQ"
        /\ "rxcqdb" \in Allocates(r) <=> r = "RXCQ"
        /\ "rxdb" \in Allocates(r) <=> r = "RQ"
  BY DEF Allocates
<1>4. {"TXPOOL", "TXCQ", "SQ", "BFREG", "RXPOOL", "RXCQ", "RQ"} \subseteq UpSteps
  BY UpStepsAre
<1>5. MemUpto(k) \subseteq Pieces
  BY <1>1, <1>2
<1>6. /\ "txpool" \in MemUpto(k) <=> Pos("TXPOOL") =< k
      /\ "txcqbuf" \in MemUpto(k) <=> Pos("TXCQ") =< k
      /\ "txcqdb" \in MemUpto(k) <=> Pos("TXCQ") =< k
      /\ "txdb" \in MemUpto(k) <=> Pos("SQ") =< k
      /\ "bfreg" \in MemUpto(k) <=> Pos("BFREG") =< k
      /\ "rxpool" \in MemUpto(k) <=> Pos("RXPOOL") =< k
      /\ "rxcqbuf" \in MemUpto(k) <=> Pos("RXCQ") =< k
      /\ "rxcqdb" \in MemUpto(k) <=> Pos("RXCQ") =< k
      /\ "rxdb" \in MemUpto(k) <=> Pos("RQ") =< k
  BY <1>1, <1>3, <1>4
<1> QED  BY <1>5, <1>6, PosIs

\* The steps before a step; one step more.
LEMMA BeforeIs ==
  ASSUME NEW s \in UpSteps
  PROVE  /\ Pos(s) \in 1 .. 19
         /\ Before(s) = Upto(Pos(s) - 1)
         /\ MemBefore(s) = MemUpto(Pos(s) - 1)
         /\ Upto(Pos(s)) = Before(s) \cup {s}
         /\ MemUpto(Pos(s)) = MemBefore(s) \cup Allocates(s)
<1>1. \A r \in UpSteps : Pos(r) \in 1 .. 19 /\ r = UpOrder[Pos(r)]
  BY Positions DEF UpSteps
<1>2. Before(s) = Upto(Pos(s) - 1)
  BY <1>1 DEF Before, Upto
<1>3. Upto(Pos(s)) = Before(s) \cup {s}
  BY <1>1 DEF Before, Upto
<1>4. MemUpto(Pos(s)) = MemBefore(s) \cup Allocates(s)
  BY <1>3 DEF MemUpto, MemBefore
<1> QED  BY <1>1, <1>2, <1>3, <1>4 DEF MemBefore, MemUpto

\* The handles and the memory of a prefix of the chain are in order.
LEMMA PrefixOK ==
  ASSUME NEW k \in 0 .. 19
  PROVE  /\ HasOK(Upto(k) \cap Objects)
         /\ MemOK(Upto(k) \cap Objects, MemUpto(k) \cup Held)
<1>1. \A o : o \in Upto(k) \cap Objects <=> o \in Objects /\ Pos(o) =< k
  BY UpStepsAre, ObjectsAre DEF Upto
<1>2. HasOK(Upto(k) \cap Objects)
  BY <1>1, PosIs, ObjectsAre DEF HasOK, TxObjs, RxObjs, FlowObjs
<1>3. MemOK(Upto(k) \cap Objects, MemUpto(k) \cup Held)
  <2> DEFINE h == Upto(k) \cap Objects
             m == MemUpto(k) \cup Held
  <2>1. ("SQ" \in h => k >= 7) /\ ("TXCQ" \in h => k >= 6)
        /\ ("RQ" \in h => k >= 12) /\ ("RXCQ" \in h => k >= 11)
    BY <1>1, PosIs
  <2>2. /\ k >= 7 => {"txpool", "txdb"} \subseteq m
        /\ k >= 6 => {"txcqbuf", "txcqdb"} \subseteq m
        /\ k >= 12 => {"rxpool", "rxdb"} \subseteq m
        /\ k >= 11 => {"rxcqbuf", "rxcqdb"} \subseteq m
    BY MemUptoIs
  <2>3. Held \subseteq m
    OBVIOUS
  <2> HIDE DEF h, m
  <2>4. MemOK(h, m)
    BY <2>1, <2>2, <2>3 DEF MemOK
  <2> QED  BY <2>4 DEF h, m
<1> QED  BY <1>2, <1>3

\* A step of enable that succeeds leads to the next one, the last one to the end.
LEMMA UpToIs ==
  ASSUME NEW t \in Threads, at[t] \in UpSteps, UpTo(t)
  PROVE  \/ at[t] = "ROOT" /\ Pos(at[t]) = 19 /\ Goto(t, "enabled")
         \/ \E n \in UpSteps : /\ Pos(n) = Pos(at[t]) + 1
                               /\ at' = [at EXCEPT ![t] = n]
                               /\ UNCHANGED <<pc, part, job, failed>>
<1> DEFINE i == CHOOSE k \in 1 .. Len(UpOrder) : UpOrder[k] = at[t]
<1>1. i = Pos(at[t])
  BY DEF Pos
<1>2. i \in 1 .. 19 /\ Len(UpOrder) = 19
  BY <1>1, BeforeIs, Positions
<1>3. at[t] = UpOrder[i]
  BY <1>1, Positions DEF UpSteps
<1> HIDE DEF i
<1>4. CASE i < 19
  <2>1. UpOrder[i + 1] \in UpSteps /\ Pos(UpOrder[i + 1]) = i + 1
    BY <1>2, <1>4, Positions
  <2>2. at' = [at EXCEPT ![t] = UpOrder[i + 1]] /\ UNCHANGED <<pc, part, job, failed>>
    BY <1>2, <1>4 DEF UpTo, i
  <2> QED  BY <2>1, <2>2, <1>1
<1>5. CASE i = 19
  <2>1. at[t] = "ROOT"
    BY <1>3, <1>5 DEF UpOrder
  <2>2. ~(i < Len(UpOrder))
    BY <1>2, <1>5
  <2>3. Goto(t, "enabled")
    BY <2>2, Zenon DEF UpTo, i
  <2> QED  BY <1>1, <1>5, <2>1, <2>3
<1> QED  BY <1>2, <1>4, <1>5

\* The steps that are done, step by step.
LEMMA UptoIs ==
  ASSUME NEW k \in 0 .. 19
  PROVE  /\ Upto(k) \subseteq UpSteps
         /\ "PD" \in Upto(k) <=> k >= 1
         /\ "TD" \in Upto(k) <=> k >= 2
         /\ "MKEY" \in Upto(k) <=> k >= 3
         /\ "TXPOOL" \in Upto(k) <=> k >= 4
         /\ "TIS" \in Upto(k) <=> k >= 5
         /\ "TXCQ" \in Upto(k) <=> k >= 6
         /\ "SQ" \in Upto(k) <=> k >= 7
         /\ "BFREG" \in Upto(k) <=> k >= 8
         /\ "SQRDY" \in Upto(k) <=> k >= 9
         /\ "RXPOOL" \in Upto(k) <=> k >= 10
         /\ "RXCQ" \in Upto(k) <=> k >= 11
         /\ "RQ" \in Upto(k) <=> k >= 12
         /\ "TIR" \in Upto(k) <=> k >= 13
         /\ "RQRDY" \in Upto(k) <=> k >= 14
         /\ "NOTIFY" \in Upto(k) <=> k >= 15
         /\ "FT" \in Upto(k) <=> k >= 16
         /\ "FG" \in Upto(k) <=> k >= 17
         /\ "FTE" \in Upto(k) <=> k >= 18
         /\ "ROOT" \in Upto(k) <=> k >= 19
BY PosIs, UpStepsAre DEF Upto

\* All memory is a piece some step allocates, a ring or the core.
LEMMA MemoryIs == Memory = Pieces \cup Held
<1>1. UNION {Allocates(r) : r \in UpSteps} = MemUpto(19)
  <2>1. Upto(19) = UpSteps
    BY BeforeIs DEF Upto
  <2> QED  BY <2>1 DEF MemUpto
<1>2. MemUpto(19) = Pieces
  BY MemUptoIs DEF Pieces
<1>3. Memory = (UNION {Allocates(r) : r \in UpSteps}) \cup Rings \cup {"core"}
  BY DEF Memory
<1> HIDE DEF Memory
<1>4. Memory = Pieces \cup Rings \cup {"core"}
  BY <1>1, <1>2, <1>3, Zenon
<1> QED  BY <1>4 DEF Held

(***************************************************************************)
(* The control invariant holds initially and every step keeps it.          *)
(***************************************************************************)

\* The invariant holds of a new object.
LEMMA CtlInit == Init => CtlInv
<1> SUFFICES ASSUME Init PROVE CtlInv
  OBVIOUS
<1> USE DEF Init
<1>1. CtlType
  BY UpStepsAre DEF CtlType, Points, Parts
<1>2. ThreadInv
  BY DEF ThreadInv, Busy, ReleaseSteps
<1>3. LifeInv
  BY DEF LifeInv, ReleaseSteps
<1>4. NoteInv
  BY DEF NoteInv, RingsInit, Threads
<1>5. UpInv /\ StageInv
  BY DEF UpInv, StageInv
<1>6. JustInv
  BY DEF JustInv, TxJust, RxJust
<1>7. HasOK(has) /\ MemOK(has, mem)
  BY DEF HasOK, MemOK
<1>8. FwInv
  BY ObjectsAre DEF FwInv, FwMay, NoCommand, Ready
<1> QED  BY <1>1, <1>2, <1>3, <1>4, <1>5, <1>6, <1>7, <1>8 DEF CtlInv, ObjInv

\* Handles, memory and firmware stay in order when nothing touches them.
LEMMA ObjKept ==
  ASSUME ObjInv, UNCHANGED objVars
  PROVE  ObjInv'
BY DEF ObjInv, HasOK, MemOK, FwInv, FwMay, Destroyed, objVars

\* start retains the core and the rings, or nothing.
LEMMA StartStep ==
  ASSUME CtlInv, NEW ok \in BOOLEAN, Start(ok)
  PROVE  CtlInv'
<1> USE DEF CtlInv
<1>1. CtlType'
  BY MemoryIs DEF CtlType, Points, Parts, Start, Held, flagVars, noteVars, callVars
<1>2. ThreadInv'
  BY DEF CtlType, ThreadInv, Busy, ReleaseSteps, Start, flagVars, noteVars, callVars, ringVars, Threads
<1>3. LifeInv'
  BY DEF CtlType, ThreadInv, LifeInv, ReleaseSteps, Start, Held, flagVars, noteVars, callVars
<1>4. NoteInv'
  <2>1. fNotifierRegistered => FALSE
    BY BeforeIs, UptoIs, UpStepsAre, ObjectsAre, PosIs DEF NoteInv, LifeInv, Start
  <2> QED  BY <2>1 DEF CtlType, NoteInv, Start, flagVars, noteVars, callVars, ringVars, Threads, ThreadInv, ReleaseSteps, LifeInv
<1>5. UpInv'
  BY DEF CtlType, UpInv, ThreadInv, Start, callVars
<1>6. StageInv'
  BY DEF CtlType, StageInv, Start, flagVars, noteVars, callVars, ringVars, Threads
<1>7. JustInv'
  BY DEF JustInv, Settled, TxJust, RxJust, Start, callVars, Rings
<1>8. ObjInv'
  BY DEF LifeInv, ObjInv, HasOK, MemOK, FwInv, FwMay, Destroyed, Start
<1> QED  BY <1>1, <1>2, <1>3, <1>4, <1>5, <1>6, <1>7, <1>8

\* disable begins when no enable and no disable is in progress.
LEMMA DisableStep ==
  ASSUME CtlInv, NEW t \in NetThreads, Disable(t)
  PROVE  CtlInv'
<1> USE DEF CtlInv
<1>1. CtlType'
  BY DEF CtlType, Points, Parts, Disable, DisableEntry, noteVars, objVars, ringVars, Threads
<1>2. ThreadInv'
  BY TermAssumption DEF LifeInv, CtlType, ThreadInv, Busy, ReleaseSteps, Disable, DisableEntry, noteVars, objVars, ringVars, Threads
<1>3. LifeInv'
  BY DEF CtlType, ThreadInv, LifeInv, ReleaseSteps, Disable, DisableEntry, noteVars, objVars, ringVars, Threads
<1>4. NoteInv'
  BY DEF CtlType, ThreadInv, NoteInv, Busy, ReleaseSteps, Disable, DisableEntry, noteVars, objVars, ringVars, Threads
<1>5. UpInv'
  BY DEF CtlType, ThreadInv, UpInv, Busy, Disable, DisableEntry, noteVars, objVars, ringVars, Threads
<1>6. StageInv'
  BY DEF CtlType, StageInv, Disable, DisableEntry, noteVars, objVars, ringVars, Threads
<1>7. JustInv'
  BY DEF CtlType, JustInv, Settled, Disable, DisableEntry, noteVars, objVars, ringVars, Threads
<1>8. ObjInv'
  BY ObjKept DEF Disable, DisableEntry, noteVars, objVars, ringVars, Threads, objVars
<1> QED  BY <1>1, <1>2, <1>3, <1>4, <1>5, <1>6, <1>7, <1>8

\* unregisterNotifier takes the interface out of the table of the EQ.
LEMMA UnregisterStep ==
  ASSUME CtlInv, NEW t \in Threads, Unregister(t)
  PROVE  CtlInv'
<1> USE DEF CtlInv
<1>1. CtlType'
  BY UpStepsAre, ZenonT(30) DEF CtlType, Points, Parts, Unregister, Goto, Undo, flagVars, objVars, ringVars, Threads
<1>2. ThreadInv'
  BY DEF CtlType, ThreadInv, Busy, ReleaseSteps, Unregister, Goto, Undo, flagVars, objVars, ringVars, Threads
<1>3. LifeInv'
  BY DEF CtlType, ThreadInv, LifeInv, ReleaseSteps, Unregister, Goto, Undo, flagVars, objVars, ringVars, Threads
<1>4. NoteInv'
  BY DEF CtlType, ThreadInv, NoteInv, Busy, ReleaseSteps, Unregister, Goto, Undo, flagVars, objVars, ringVars, Threads
<1>5. UpInv'
  BY DEF CtlType, ThreadInv, UpInv, Busy, Unregister, Goto, Undo, flagVars, objVars, ringVars, Threads
<1>6. StageInv'
  BY DEF CtlType, StageInv, Unregister, Goto, Undo, flagVars, objVars, ringVars, Threads
<1>7. JustInv'
  BY DEF CtlType, JustInv, Settled, Unregister, Goto, Undo, flagVars, objVars, ringVars, Threads
<1>8. ObjInv'
  BY ObjKept DEF Unregister, Goto, Undo, flagVars, objVars, ringVars, Threads, objVars
<1> QED  BY <1>1, <1>2, <1>3, <1>4, <1>5, <1>6, <1>7, <1>8

\* synchronizeCallbacks returns when no callback runs.
LEMMA SyncStep ==
  ASSUME CtlInv, NEW t \in Threads, Sync(t)
  PROVE  CtlInv'
<1> USE DEF CtlInv
<1>1. CtlType'
  BY UpStepsAre DEF CtlType, Points, Parts, Sync, Undo, flagVars, objVars, ringVars, Threads
<1>2. ThreadInv'
  BY DEF CtlType, ThreadInv, Busy, ReleaseSteps, Sync, Undo, flagVars, objVars, ringVars, Threads
<1>3. LifeInv'
  BY DEF CtlType, ThreadInv, LifeInv, ReleaseSteps, Sync, Undo, flagVars, objVars, ringVars, Threads
<1>4. NoteInv'
  BY DEF CtlType, ThreadInv, NoteInv, Busy, ReleaseSteps, Sync, Undo, flagVars, objVars, ringVars, Threads
<1>5. UpInv'
  BY DEF CtlType, ThreadInv, UpInv, Busy, Sync, Undo, flagVars, objVars, ringVars, Threads
<1>6. StageInv'
  BY DEF CtlType, StageInv, Sync, Undo, flagVars, objVars, ringVars, Threads
<1>7. JustInv'
  BY DEF CtlType, JustInv, Settled, Sync, Undo, flagVars, objVars, ringVars, Threads
<1>8. ObjInv'
  BY ObjKept DEF Sync, Undo, flagVars, objVars, ringVars, Threads, objVars
<1> QED  BY <1>1, <1>2, <1>3, <1>4, <1>5, <1>6, <1>7, <1>8

\* The last section of a successful enable.
LEMMA EnabledStep ==
  ASSUME CtlInv, ~Releasing, NEW t \in Threads, Enabled(t)
  PROVE  CtlInv'
<1> USE DEF CtlInv
<1>1. CtlType'
  BY DEF CtlType, Points, Parts, Enabled, Goto, noteVars, objVars, ringVars, Threads
<1>2. ThreadInv'
  BY DEF CtlType, ThreadInv, Busy, ReleaseSteps, Enabled, Goto, noteVars, objVars, ringVars, Threads
<1>3. LifeInv'
  BY DEF CtlType, ThreadInv, LifeInv, ReleaseSteps, Enabled, Goto, noteVars, objVars, ringVars, Threads, Releasing
<1>4. NoteInv'
  BY DEF CtlType, ThreadInv, NoteInv, Busy, ReleaseSteps, Enabled, Goto, noteVars, objVars, ringVars, Threads
<1>5. UpInv'
  BY DEF CtlType, ThreadInv, UpInv, Busy, Enabled, Goto, noteVars, objVars, ringVars, Threads
<1>6. StageInv'
  BY DEF CtlType, StageInv, Enabled, Goto, noteVars, objVars, ringVars, Threads
<1>7. JustInv'
  BY DEF CtlType, JustInv, Settled, Enabled, Goto, noteVars, objVars, ringVars, Threads
<1>8. ObjInv'
  BY ObjKept DEF Enabled, Goto, noteVars, objVars, ringVars, Threads, objVars
<1> QED  BY <1>1, <1>2, <1>3, <1>4, <1>5, <1>6, <1>7, <1>8

\* enable returns.
LEMMA ReportStep ==
  ASSUME CtlInv, NEW t \in Threads, Report(t)
  PROVE  CtlInv'
<1> USE DEF CtlInv
<1>1. CtlType'
  BY UpStepsAre DEF CtlType, Points, Parts, Report, Return, flagVars, noteVars, objVars, ringVars, Threads
<1>2. ThreadInv'
  BY DEF CtlType, ThreadInv, Busy, ReleaseSteps, Report, Return, flagVars, noteVars, objVars, ringVars, Threads
<1>3. LifeInv'
  BY DEF CtlType, ThreadInv, LifeInv, ReleaseSteps, Report, Return, flagVars, noteVars, objVars, ringVars, Threads
<1>4. NoteInv'
  BY DEF CtlType, ThreadInv, NoteInv, Busy, ReleaseSteps, Report, Return, flagVars, noteVars, objVars, ringVars, Threads
<1>5. UpInv'
  BY DEF CtlType, ThreadInv, UpInv, Busy, Report, Return, flagVars, noteVars, objVars, ringVars, Threads
<1>6. StageInv'
  BY DEF CtlType, StageInv, Report, Return, flagVars, noteVars, objVars, ringVars, Threads
<1>7. JustInv'
  BY DEF CtlType, JustInv, Settled, Report, Return, flagVars, noteVars, objVars, ringVars, Threads
<1>8. ObjInv'
  BY ObjKept DEF Report, Return, flagVars, noteVars, objVars, ringVars, Threads, objVars
<1> QED  BY <1>1, <1>2, <1>3, <1>4, <1>5, <1>6, <1>7, <1>8

\* The last section of disable, or of an enable that failed.
LEMMA FinishStep ==
  ASSUME CtlInv, NEW t \in Threads, Finish(t)
  PROVE  CtlInv'
<1> USE DEF CtlInv
<1>1. CtlType'
  BY UpStepsAre DEF CtlType, Points, Parts, Finish, Return, noteVars, objVars, ringVars, Threads
<1>2. ThreadInv'
  BY DEF CtlType, ThreadInv, Busy, ReleaseSteps, Finish, Return, noteVars, objVars, ringVars, Threads
<1>3. LifeInv'
  BY DEF CtlType, ThreadInv, LifeInv, ReleaseSteps, Finish, Return, noteVars, objVars, ringVars, Threads, Busy
<1>4. NoteInv'
  BY DEF CtlType, ThreadInv, NoteInv, Busy, ReleaseSteps, Finish, Return, noteVars, objVars, ringVars, Threads
<1>5. UpInv'
  BY DEF CtlType, ThreadInv, UpInv, Busy, Finish, Return, noteVars, objVars, ringVars, Threads
<1>6. StageInv'
  BY DEF CtlType, StageInv, Finish, Return, noteVars, objVars, ringVars, Threads
<1>7. JustInv'
  BY DEF CtlType, JustInv, Settled, Finish, Return, noteVars, objVars, ringVars, Threads
<1>8. ObjInv'
  BY ObjKept DEF Finish, Return, noteVars, objVars, ringVars, Threads, objVars
<1> QED  BY <1>1, <1>2, <1>3, <1>4, <1>5, <1>6, <1>7, <1>8

\* stop disables, or goes on to releaseResources when it cannot.
LEMMA StopStep ==
  ASSUME CtlInv, Stop
  PROVE  CtlInv'
<1> USE DEF CtlInv
<1>1. CtlType'
  BY DEF CtlType, Points, Parts, Stop, DisableEntry, flagVars, noteVars, objVars, ringVars, Threads
<1>2. ThreadInv'
  BY DEF CtlType, ThreadInv, Busy, ReleaseSteps, Stop, DisableEntry, flagVars, noteVars, objVars, ringVars, Threads
<1>3. LifeInv'
  BY DEF CtlType, ThreadInv, LifeInv, ReleaseSteps, Stop, DisableEntry, flagVars, noteVars, objVars, ringVars, Threads
<1>4. NoteInv'
  BY DEF CtlType, ThreadInv, NoteInv, Busy, ReleaseSteps, Stop, DisableEntry, flagVars, noteVars, objVars, ringVars, Threads
<1>5. UpInv'
  BY DEF CtlType, ThreadInv, UpInv, Busy, Stop, DisableEntry, flagVars, noteVars, objVars, ringVars, Threads
<1>6. StageInv'
  BY DEF CtlType, StageInv, Stop, DisableEntry, flagVars, noteVars, objVars, ringVars, Threads
<1>7. JustInv'
  BY DEF CtlType, JustInv, Settled, Stop, DisableEntry, flagVars, noteVars, objVars, ringVars, Threads
<1>8. ObjInv'
  BY ObjKept DEF Stop, DisableEntry, flagVars, noteVars, objVars, ringVars, Threads, objVars
<1> QED  BY <1>1, <1>2, <1>3, <1>4, <1>5, <1>6, <1>7, <1>8

\* free runs releaseResources again.
LEMMA FreeStep ==
  ASSUME CtlInv, Free
  PROVE  CtlInv'
<1> USE DEF CtlInv
<1>1. CtlType'
  BY DEF CtlType, Points, Parts, Free, flagVars, noteVars, objVars, ringVars, Threads
<1>2. ThreadInv'
  BY DEF CtlType, ThreadInv, Busy, ReleaseSteps, Free, flagVars, noteVars, objVars, ringVars, Threads
<1>3. LifeInv'
  BY DEF CtlType, ThreadInv, LifeInv, ReleaseSteps, Free, flagVars, noteVars, objVars, ringVars, Threads
<1>4. NoteInv'
  BY DEF CtlType, ThreadInv, NoteInv, Busy, ReleaseSteps, Free, flagVars, noteVars, objVars, ringVars, Threads
<1>5. UpInv'
  BY DEF CtlType, ThreadInv, UpInv, Busy, Free, flagVars, noteVars, objVars, ringVars, Threads
<1>6. StageInv'
  BY DEF CtlType, StageInv, Free, flagVars, noteVars, objVars, ringVars, Threads
<1>7. JustInv'
  BY DEF CtlType, JustInv, Settled, Free, flagVars, noteVars, objVars, ringVars, Threads
<1>8. ObjInv'
  BY ObjKept DEF Free, flagVars, noteVars, objVars, ringVars, Threads, objVars
<1> QED  BY <1>1, <1>2, <1>3, <1>4, <1>5, <1>6, <1>7, <1>8

\* releaseResources unregisters a notifier that is left.
LEMMA ReleaseUnregisterStep ==
  ASSUME CtlInv, ~Overran, ReleaseUnregister
  PROVE  CtlInv'
<1> USE DEF CtlInv
<1>0. \A u \in Threads : u # Term => pc[u] = "idle"
  BY DEF Overran, Releasing, Threads, ReleaseUnregister
<1>1. CtlType'
  BY <1>0, ZenonT(30) DEF CtlType, Points, Parts, ReleaseUnregister, Goto, flagVars, objVars, ringVars, Threads
<1>2. ThreadInv'
  BY <1>0 DEF CtlType, ThreadInv, Busy, ReleaseSteps, ReleaseUnregister, Goto, flagVars, objVars, ringVars, Threads
<1>3. LifeInv'
  BY <1>0 DEF CtlType, ThreadInv, LifeInv, ReleaseSteps, ReleaseUnregister, Goto, flagVars, objVars, ringVars, Threads
<1>4. NoteInv'
  BY <1>0 DEF CtlType, ThreadInv, NoteInv, Busy, ReleaseSteps, ReleaseUnregister, Goto, flagVars, objVars, ringVars, Threads, Held
<1>5. UpInv'
  BY <1>0 DEF CtlType, ThreadInv, UpInv, Busy, ReleaseUnregister, Goto, flagVars, objVars, ringVars, Threads
<1>6. StageInv'
  BY <1>0 DEF CtlType, StageInv, ReleaseUnregister, Goto, flagVars, objVars, ringVars, Threads
<1>7. JustInv'
  BY <1>0 DEF CtlType, JustInv, Settled, ReleaseUnregister, Goto, flagVars, objVars, ringVars, Threads
<1>8. ObjInv'
  BY ObjKept DEF ReleaseUnregister, Goto, flagVars, objVars, ringVars, Threads, objVars
<1> QED  BY <1>1, <1>2, <1>3, <1>4, <1>5, <1>6, <1>7, <1>8

\* releaseResources waits for the callbacks.
LEMMA ReleaseSyncStep ==
  ASSUME CtlInv, ~Overran, ReleaseSync
  PROVE  CtlInv'
<1> USE DEF CtlInv
<1>0. \A u \in Threads : u # Term => pc[u] = "idle"
  BY DEF Overran, Releasing, Threads, ReleaseSync
<1>1. CtlType'
  BY <1>0 DEF CtlType, Points, Parts, ReleaseSync, Goto, flagVars, objVars, ringVars, Threads
<1>2. ThreadInv'
  BY <1>0 DEF CtlType, ThreadInv, Busy, ReleaseSteps, ReleaseSync, Goto, flagVars, objVars, ringVars, Threads
<1>3. LifeInv'
  BY <1>0 DEF CtlType, ThreadInv, LifeInv, ReleaseSteps, ReleaseSync, Goto, flagVars, objVars, ringVars, Threads
<1>4. NoteInv'
  BY <1>0 DEF CtlType, ThreadInv, NoteInv, Busy, ReleaseSteps, ReleaseSync, Goto, flagVars, objVars, ringVars, Threads, LifeInv
<1>5. UpInv'
  BY <1>0 DEF CtlType, ThreadInv, UpInv, Busy, ReleaseSync, Goto, flagVars, objVars, ringVars, Threads
<1>6. StageInv'
  BY <1>0 DEF CtlType, StageInv, ReleaseSync, Goto, flagVars, objVars, ringVars, Threads
<1>7. JustInv'
  BY <1>0 DEF CtlType, JustInv, Settled, ReleaseSync, Goto, flagVars, objVars, ringVars, Threads
<1>8. ObjInv'
  BY ObjKept DEF ReleaseSync, Goto, flagVars, objVars, ringVars, Threads, objVars
<1> QED  BY <1>1, <1>2, <1>3, <1>4, <1>5, <1>6, <1>7, <1>8

\* releaseResources detaches the interface and releases what no object uses.
LEMMA ReleaseFreeStep ==
  ASSUME CtlInv, ~Overran, ReleaseFree
  PROVE  CtlInv'
<1> USE DEF CtlInv
<1>0. \A u \in Threads : u # Term => pc[u] = "idle"
  BY DEF Overran, Releasing, Threads, ReleaseFree
<1>1. CtlType'
  BY <1>0 DEF CtlType, Points, Parts, ReleaseFree, flagVars, noteVars, ringVars, Threads
<1>2. ThreadInv'
  BY <1>0 DEF CtlType, ThreadInv, Busy, ReleaseSteps, ReleaseFree, flagVars, noteVars, ringVars, Threads
<1>3. LifeInv'
  BY DEF CtlType, LifeInv, ReleaseSteps, ReleaseFree, flagVars, Threads
<1>4. NoteInv'
  BY <1>0 DEF CtlType, ThreadInv, NoteInv, Busy, ReleaseSteps, ReleaseFree, flagVars, noteVars, ringVars, Threads
<1>5. UpInv'
  BY <1>0 DEF CtlType, ThreadInv, UpInv, Busy, ReleaseFree, flagVars, noteVars, ringVars, Threads
<1>6. StageInv'
  BY <1>0 DEF CtlType, StageInv, ReleaseFree, flagVars, noteVars, ringVars, Threads
<1>7. JustInv'
  BY DEF CtlType, JustInv, Settled, ReleaseFree, flagVars, noteVars, ringVars, Threads, TxJust, RxJust
<1>8. ObjInv'
  BY DEF ObjInv, HasOK, MemOK, FwInv, FwMay, Destroyed, ReleaseFree, MustRetain, Held
<1> QED  BY <1>1, <1>2, <1>3, <1>4, <1>5, <1>6, <1>7, <1>8

\* enable begins with nothing left of an earlier one, though it looks at seven of
\* the handles only.
LEMMA EnableStep ==
  ASSUME CtlInv, NEW t \in NetThreads, Enable(t)
  PROVE  CtlInv'
<1> USE DEF CtlInv
<1>a. t \in Threads /\ Term \in Threads /\ t # Term
  BY TermAssumption DEF Threads
<1>b. has = {}
  BY ObjectsAre DEF CtlType, ObjInv, HasOK, TxObjs, RxObjs, FlowObjs, Enable, MayEnable
<1>c. \A u \in Threads : pc[u] \notin Busy
  BY DEF ThreadInv, Enable, MayEnable
<1>d. TxJust(has, mem) /\ RxJust(has, mem)
  BY <1>c DEF JustInv, Settled, Busy
<1>e. mem = Held
  BY <1>b, <1>d, MemoryIs DEF TxJust, RxJust, CtlType, LifeInv, Enable, Pieces
<1>f. Upto(0) \cap Objects = {} /\ MemUpto(0) = {} /\ "NOTIFY" \notin Upto(0)
  BY UptoIs, MemUptoIs, UpStepsAre DEF Pieces
<1>g. "PD" \in UpSteps /\ Before("PD") = Upto(0) /\ MemBefore("PD") = MemUpto(0)
  BY UpStepsAre, BeforeIs, PosIs
<1>h. "PD" \in Before("NOTIFY") \cap Objects
  BY UpStepsAre, ObjectsAre, PosIs DEF Before
<1>i. ~fNotifierRegistered /\ ~registered
  BY <1>b, <1>h DEF NoteInv
<1>1. CtlType'
  BY <1>a, <1>g DEF CtlType, Points, Enable, noteVars, objVars
<1>2. ThreadInv'
  BY <1>a, <1>c DEF CtlType, ThreadInv, LifeInv, Busy, ReleaseSteps, Enable, MayEnable, noteVars, objVars
<1>3. LifeInv'
  BY <1>a DEF CtlType, LifeInv, ReleaseSteps, Enable, noteVars, objVars
<1>4. NoteInv'
  BY <1>a, <1>c DEF CtlType, NoteInv, Busy, Enable, noteVars, objVars, ringVars
<1>5. UpInv'
  <2>1. SUFFICES ASSUME NEW u \in Threads, pc'[u] = "up"
                 PROVE  /\ has' = Before(at'[u]) \cap Objects
                        /\ mem' = MemBefore(at'[u]) \cup Held
                        /\ fNotifierRegistered' <=> "NOTIFY" \in Before(at'[u])
                        /\ registered' <=> "NOTIFY" \in Before(at'[u])
    BY DEF UpInv
  <2>2. u = t /\ at'[u] = "PD"
    BY <1>a, <1>c, <2>1 DEF CtlType, Busy, Enable
  <2> QED  BY <2>2, <1>b, <1>e, <1>f, <1>g, <1>i DEF Enable, noteVars, objVars
<1>6. StageInv'
  BY <1>a, <1>c DEF CtlType, StageInv, Busy, Enable, objVars
<1>7. JustInv'
  BY <1>d DEF JustInv, TxJust, RxJust, Enable, objVars
<1>8. ObjInv'
  BY ObjKept DEF Enable, objVars
<1> QED  BY <1>1, <1>2, <1>3, <1>4, <1>5, <1>6, <1>7, <1>8

\* An object uses what was made before it, only.
LEMMA UsesBefore ==
  ASSUME NEW s \in Objects \cup Ready
  PROVE  s \in UpSteps /\ Uses(s) \cap Objects \subseteq Before(s) \cap Objects
<1>1. s \in UpSteps
  BY UpStepsAre DEF Objects, Ready
<1>2. \A o \in Objects : o \in UpSteps
  BY DEF Objects
<1>3. \A o \in Uses(s) \cap Objects : Pos(o) < Pos(s)
  BY PosIs, ObjectsAre DEF Uses, Ready
<1> QED  BY <1>1, <1>2, <1>3 DEF Before

\* A step of enable succeeds and the chain is one step longer.
LEMMA ChainStep ==
  ASSUME CtlInv, ~Releasing, NEW t \in Threads, pc[t] = "up", UpTo(t),
         UNCHANGED <<life, fNic, flagVars, hpc>>,
         has' = (Before(at[t]) \cup {at[t]}) \cap Objects,
         mem' = (MemBefore(at[t]) \cup Allocates(at[t])) \cup Held,
         fNotifierRegistered' = (fNotifierRegistered \/ at[t] = "NOTIFY"),
         registered' = (registered \/ at[t] = "NOTIFY"),
         quarantined' \in BOOLEAN,
         FwInv'
  PROVE  CtlInv'
<1> USE DEF CtlInv
<1> DEFINE k == Pos(at[t])
<1>a. /\ at[t] \in UpSteps /\ k \in 1 .. 19
      /\ Upto(k) = Before(at[t]) \cup {at[t]}
      /\ MemUpto(k) = MemBefore(at[t]) \cup Allocates(at[t])
  BY BeforeIs DEF CtlType
<1>b. has' = Upto(k) \cap Objects /\ mem' = MemUpto(k) \cup Held
  BY <1>a
<1>c. /\ fNotifierRegistered' <=> "NOTIFY" \in Upto(k)
      /\ registered' <=> "NOTIFY" \in Upto(k)
  BY <1>a DEF UpInv
<1>d. \A u \in Threads : pc[u] \in Busy => u = t
  BY DEF ThreadInv, Busy
<1>e. t # Term /\ Term \in Threads /\ ~fEnabled
  BY DEF Threads, ThreadInv, Busy
<1>f. HasOK(has') /\ MemOK(has', mem')
  <2>0. k \in 0 .. 19
    BY <1>a
  <2> HIDE DEF k
  <2>1. HasOK(Upto(k) \cap Objects) /\ MemOK(Upto(k) \cap Objects, MemUpto(k) \cup Held)
    BY <2>0, PrefixOK, Zenon
  <2> QED  BY <1>b, <2>1, Zenon
<1>g. /\ hpc # "idle" => "NOTIFY" \in Before(at[t])
      /\ hpc' = hpc
  BY DEF NoteInv, UpInv
<1>h. \/ /\ k = 19
         /\ pc' = [pc EXCEPT ![t] = "enabled"]
         /\ UNCHANGED <<at, part, job, failed>>
      \/ \E n \in UpSteps : /\ Pos(n) = k + 1 /\ Before(n) = Upto(k) /\ MemBefore(n) = MemUpto(k)
                            /\ at' = [at EXCEPT ![t] = n]
                            /\ UNCHANGED <<pc, part, job, failed>>
  BY <1>a, UpToIs, BeforeIs DEF Goto
<1>i. /\ \A u \in Threads : u # t => pc'[u] = pc[u]
      /\ pc'[t] \in {"up", "enabled"} /\ (pc'[t] = "enabled" => k = 19)
      /\ UNCHANGED <<part, job, failed>>
  BY <1>h DEF CtlType
<1>j. UNCHANGED <<life, fNic, fEnabled, fEnabling, fDisabling>>
  BY DEF flagVars
<1> HIDE DEF k
<1>1. CtlType'
  <2>1. has' \subseteq Objects /\ mem' \subseteq Memory
    BY <1>a, <1>b, MemUptoIs, MemoryIs
  <2>2. at' \in [Threads -> UpSteps] /\ pc' \in [Threads -> Points]
    BY <1>h DEF CtlType, Points
  <2>3. fNotifierRegistered' \in BOOLEAN /\ registered' \in BOOLEAN
    OBVIOUS
  <2> QED  BY <1>i, <1>j, <2>1, <2>2, <2>3 DEF CtlType
<1>2. ThreadInv'
  BY <1>d, <1>e, <1>i, <1>j DEF ThreadInv, Busy, ReleaseSteps
<1>3. LifeInv'
  BY <1>b, <1>e, <1>i, <1>j DEF ThreadInv, LifeInv, ReleaseSteps, Busy
<1>4. NoteInv'
  <2>1. "NOTIFY" \in UpSteps /\ Before("NOTIFY") = Upto(14) /\ MemBefore("NOTIFY") = MemUpto(14)
    BY UpStepsAre, PosIs, BeforeIs
  <2>2. k >= 15 => Upto(14) \cap Objects \subseteq has' /\ MemUpto(14) \subseteq mem'
    <3>1. k >= 15 => Upto(14) \subseteq Upto(k)
      BY <1>a, BeforeIs DEF Upto
    <3> QED  BY <1>b, <3>1 DEF MemUpto
  <2>3. "NOTIFY" \in Upto(k) <=> k >= 15
    BY <1>a, UptoIs
  <2>4. fNotifierRegistered' => /\ Before("NOTIFY") \cap Objects \subseteq has'
                                /\ MemBefore("NOTIFY") \cup Held \subseteq mem'
    BY <1>b, <1>c, <2>1, <2>2, <2>3
  <2>5. registered' \/ hpc' # "idle" => fNotifierRegistered'
    BY <1>a, <1>c, <1>g
  <2> QED  BY <1>a, <1>c, <1>d, <1>e, <1>i, <1>j, <2>3, <2>4, <2>5
          DEF NoteInv, Releasing, ThreadInv, Busy, ReleaseSteps
<1>5. UpInv'
  <2>1. SUFFICES ASSUME pc'[t] = "up"
                 PROVE  /\ has' = Before(at'[t]) \cap Objects
                        /\ mem' = MemBefore(at'[t]) \cup Held
                        /\ fNotifierRegistered' <=> "NOTIFY" \in Before(at'[t])
                        /\ registered' <=> "NOTIFY" \in Before(at'[t])
    BY <1>d, <1>i DEF UpInv, Busy
  <2>2. Before(at'[t]) = Upto(k) /\ MemBefore(at'[t]) = MemUpto(k)
    BY <1>h, <2>1 DEF CtlType
  <2> QED  BY <1>b, <1>c, <2>2
<1>6. StageInv'
  BY <1>d, <1>i DEF StageInv, Busy
<1>7. JustInv'
  <2>1. CASE pc'[t] = "up"
    BY <2>1 DEF JustInv, Settled
  <2>2. CASE k = 19
    <3>1. {"SQ", "TXCQ", "RQ", "RXCQ"} \subseteq has'
      BY <1>b, <2>2, UptoIs, ObjectsAre
    <3> QED  BY <3>1 DEF JustInv, TxJust, RxJust
  <2> QED  BY <1>i, <2>1, <2>2
<1> QED  BY <1>1, <1>2, <1>3, <1>4, <1>5, <1>6, <1>7, <1>f DEF ObjInv

\* A step of enable fails, and the part it belongs to will be undone.
LEMMA ChainFails ==
  ASSUME CtlInv, NEW t \in Threads, pc[t] = "up", UpFails(t),
         UNCHANGED <<life, fNic, flagVars, noteVars, has, mem, hpc>>,
         quarantined' \in BOOLEAN,
         FwInv'
  PROVE  CtlInv'
<1> USE DEF CtlInv
<1> DEFINE s == at[t]
           k == Pos(s)
<1>a. /\ s \in UpSteps /\ k \in 1 .. 19
      /\ Before(s) = Upto(k - 1) /\ MemBefore(s) = MemUpto(k - 1)
  BY BeforeIs DEF CtlType
<1>b. /\ has = Upto(k - 1) \cap Objects /\ mem = MemUpto(k - 1) \cup Held
      /\ fNotifierRegistered <=> "NOTIFY" \in Upto(k - 1)
      /\ registered <=> "NOTIFY" \in Upto(k - 1)
  BY <1>a DEF UpInv
<1>c. /\ PartOf(s) \in Parts
      /\ PartOf(s) = "global" => k =< 3
      /\ PartOf(s) = "tx" => k >= 4 /\ k =< 9
      /\ PartOf(s) = "rx" => k >= 10 /\ k =< 14
      /\ PartOf(s) = "flow" => k >= 15
  BY <1>a, UpStepsAre, PosIs DEF PartOf, Parts
<1>d. \A u \in Threads : pc[u] \in Busy => u = t
  BY DEF ThreadInv, Busy
<1>e. t # Term /\ Term \in Threads /\ ~fEnabled
  BY DEF Threads, ThreadInv, Busy
<1>f. /\ pc' = [pc EXCEPT ![t] = "undo"]
      /\ part' = [part EXCEPT ![t] = PartOf(s)]
      /\ at' = [at EXCEPT ![t] = "PD"]
      /\ failed' = [failed EXCEPT ![t] = {}]
      /\ job' = [job EXCEPT ![t] = "own"]
  BY DEF UpFails, Undo
<1>g. /\ \A u \in Threads : u # t => /\ pc'[u] = pc[u] /\ part'[u] = part[u]
                                     /\ failed'[u] = failed[u] /\ job'[u] = job[u]
      /\ pc'[t] = "undo" /\ part'[t] = PartOf(s) /\ failed'[t] = {} /\ job'[t] = "own"
  BY <1>f DEF CtlType
<1>h. UNCHANGED <<life, fNic, fEnabled, fEnabling, fDisabling, fNotifierRegistered, registered>>
  BY DEF flagVars, noteVars
<1>i. k - 1 \in 0 .. 19
  BY <1>a
<1> HIDE DEF s, k
<1>1. CtlType'
  <2>1. "PD" \in UpSteps
    BY UpStepsAre
  <2> QED  BY <1>c, <1>f, <1>h, <2>1 DEF CtlType, Points
<1>2. ThreadInv'
  BY <1>d, <1>e, <1>g, <1>h DEF ThreadInv, Busy, ReleaseSteps
<1>3. LifeInv'
  BY <1>e, <1>g, <1>h DEF ThreadInv, LifeInv, ReleaseSteps, Busy
<1>4. NoteInv'
  <2>1. fNotifierRegistered => k - 1 >= 15
    BY <1>b, <1>i, UptoIs
  <2> QED  BY <1>a, <1>c, <1>d, <1>e, <1>g, <1>h, <2>1 DEF NoteInv, Parts, Busy, ReleaseSteps
<1>5. UpInv'
  BY <1>d, <1>g DEF UpInv, Busy
<1>6. StageInv'
  <2>1. /\ PartOf(s) = "rx" => has \cap FlowObjs = {}
        /\ PartOf(s) = "tx" => has \cap (FlowObjs \cup RxObjs) = {}
        /\ PartOf(s) = "global" => has \cap (FlowObjs \cup RxObjs \cup TxObjs) = {}
    BY <1>a, <1>b, <1>c, <1>i, UptoIs DEF FlowObjs, RxObjs, TxObjs
  <2> QED  BY <1>d, <1>g, <2>1 DEF StageInv, Busy
<1>7. JustInv'
  <2>1. PartOf(s) # "tx" => TxJust(has, mem)
    <3>1. CASE k =< 3
      BY <1>a, <1>b, <1>i, <3>1, MemUptoIs DEF TxJust, Held, Rings
    <3>2. CASE k >= 10
      BY <1>a, <1>b, <1>i, <3>2, UptoIs, ObjectsAre DEF TxJust
    <3> QED  BY <1>a, <1>c, <3>1, <3>2 DEF Parts
  <2>2. PartOf(s) # "rx" => RxJust(has, mem)
    <3>1. CASE k =< 9
      BY <1>a, <1>b, <1>i, <3>1, MemUptoIs DEF RxJust, Held, Rings
    <3>2. CASE k >= 15
      BY <1>a, <1>b, <1>i, <3>2, UptoIs, ObjectsAre DEF RxJust
    <3> QED  BY <1>a, <1>c, <3>1, <3>2 DEF Parts
  <2>3. /\ PartOf(s) = "tx" => ~Settled("tx")'
        /\ PartOf(s) = "rx" => ~Settled("rx")'
    BY <1>g DEF Settled
  <2> QED  BY <2>1, <2>2, <2>3 DEF JustInv, TxJust, RxJust
<1>8. ObjInv'
  BY DEF ObjInv, HasOK, MemOK
<1> QED  BY <1>1, <1>2, <1>3, <1>4, <1>5, <1>6, <1>7, <1>8

\* What a step of enable finds before it.
LEMMA AtStep ==
  ASSUME CtlInv, NEW t \in Threads, pc[t] = "up"
  PROVE  /\ at[t] \in UpSteps
         /\ has = Before(at[t]) \cap Objects
         /\ mem = MemBefore(at[t]) \cup Held
         /\ at[t] \notin Before(at[t])
         /\ quarantined \in BOOLEAN
         /\ fNotifierRegistered \in BOOLEAN /\ registered \in BOOLEAN
         /\ fNotifierRegistered <=> "NOTIFY" \in Before(at[t])
         /\ registered <=> "NOTIFY" \in Before(at[t])
<1>1. at[t] \in UpSteps
  BY DEF CtlInv, CtlType
<1>2. Pos(at[t]) \in 1 .. 19
  BY <1>1, BeforeIs
<1>3. at[t] \notin Before(at[t])
  BY <1>2 DEF Before
<1> QED  BY <1>1, <1>3 DEF CtlInv, CtlType, UpInv

\* createTxResources, createRxResources up to the pool, and allocBfreg.
LEMMA UpLocalStep ==
  ASSUME CtlInv, ~Releasing, NEW t \in Threads, pc[t] = "up", UpLocal(t),
         UNCHANGED <<life, fNic, flagVars>>
  PROVE  CtlInv'
<1>1. hpc' = hpc
  BY DEF UpLocal, RingsOf, ResetRing, NewCq, ringVars, LocalSteps
<1>2. at[t] \notin Objects /\ at[t] # "NOTIFY"
  BY DEF UpLocal, Objects, LocalSteps
<1>3. UNCHANGED <<noteVars, has, fw, late, quarantined>>
  BY DEF UpLocal
<1>4. FwInv'
  BY <1>3 DEF CtlInv, ObjInv, FwInv, FwMay, Destroyed
<1>5. CASE mem' = mem \cup Allocates(at[t]) /\ UpTo(t)
  <2>1. has' = (Before(at[t]) \cup {at[t]}) \cap Objects
    BY <1>2, <1>3, AtStep
  <2>2. mem' = (MemBefore(at[t]) \cup Allocates(at[t])) \cup Held
    BY <1>5, AtStep
  <2> QED  BY <1>1, <1>2, <1>3, <1>4, <1>5, <2>1, <2>2, AtStep, ChainStep DEF noteVars
<1>6. CASE mem' = mem /\ UpFails(t)
  BY <1>1, <1>3, <1>4, <1>6, AtStep, ChainFails
<1> QED  BY <1>5, <1>6 DEF UpLocal

\* The notifier is registered when all it polls is there.
LEMMA UpNotifyStep ==
  ASSUME CtlInv, ~Releasing, NEW t \in Threads, pc[t] = "up", UpNotify(t),
         UNCHANGED <<life, fNic, flagVars>>
  PROVE  CtlInv'
<1>1. at[t] = "NOTIFY" /\ UpTo(t) /\ hpc' = hpc /\ UNCHANGED <<has, mem, fw, late, quarantined>>
      /\ fNotifierRegistered' = TRUE /\ registered' = TRUE
  BY DEF UpNotify, objVars
<1>2. at[t] \notin Objects /\ Allocates(at[t]) = {}
  BY <1>1 DEF Objects, LocalSteps, Allocates
<1>3. FwInv'
  BY <1>1 DEF CtlInv, ObjInv, FwInv, FwMay, Destroyed
<1>4. has' = (Before(at[t]) \cup {at[t]}) \cap Objects
  BY <1>1, <1>2, AtStep
<1>5. mem' = (MemBefore(at[t]) \cup Allocates(at[t])) \cup Held
  BY <1>1, <1>2, AtStep
<1> QED  BY <1>1, <1>3, <1>4, <1>5, AtStep, ChainStep

\* The firmware is in order when a command of enable creates what it is asked for.
LEMMA CreatesOK ==
  ASSUME CtlInv, NEW t \in Threads, pc[t] = "up", at[t] \in Objects \cup Ready,
         ~quarantined, fw' = Created(fw, at[t]), UNCHANGED <<late, quarantined>>,
         has' = (Before(at[t]) \cup {at[t]}) \cap Objects
  PROVE  FwInv'
<1> DEFINE s == at[t]
<1>1. late' = late /\ late.kind = "none" /\ fw \ Ready = has /\ FwMay = fw /\ FwMay' = fw \cup {s}
  BY DEF CtlInv, ObjInv, FwInv, FwMay, Created
<1>2. s \in UpSteps /\ has = Before(s) \cap Objects /\ has' = (has \cup {s}) \cap Objects
  BY AtStep
<1>3. Uses(s) \cap Objects \subseteq has
  BY <1>2, UsesBefore
<1>4. \A o \in fw \cup {s} : Uses(o) \cap Objects \subseteq fw'
  BY <1>1, <1>3 DEF CtlInv, ObjInv, FwInv, Created
<1>5. fw' \ Ready = has'
  BY <1>1, <1>2, ObjectsAre DEF Created, Ready
<1>6. fw' \subseteq Objects \cup Ready
  BY DEF CtlInv, ObjInv, FwInv, Created
<1>7. /\ Uses("SQ") = {"PD", "TIS", "TXCQ", "txring", "txdb"}
      /\ Uses("RQ") = {"PD", "RXCQ", "rxring", "rxdb"}
      /\ Uses("SQRDY") = {"SQ", "MKEY", "txpool"}
      /\ Uses("RQRDY") = {"RQ", "MKEY", "rxpool"}
  BY DEF Uses
<1> HIDE DEF s
<1>8. /\ "SQ" \in fw \cup {s} => "TXCQ" \in has'
      /\ "RQ" \in fw \cup {s} => "RXCQ" \in has'
      /\ "SQRDY" \in fw \cup {s} => "SQ" \in has'
      /\ "RQRDY" \in fw \cup {s} => "RQ" \in has'
  BY <1>4, <1>5, <1>7, ObjectsAre DEF Ready
<1> QED  BY <1>1, <1>4, <1>5, <1>6, <1>8 DEF CtlInv, ObjInv, FwInv

\* And when it does not, or may do so later.
LEMMA CreateFailsOK ==
  ASSUME CtlInv, NEW t \in Threads, pc[t] = "up", at[t] \in Objects \cup Ready,
         NotCarriedOut \/ TimesOut("create", at[t]), UNCHANGED <<has, fw>>
  PROVE  FwInv' /\ quarantined' \in BOOLEAN
<1>1. CASE NotCarriedOut
  BY <1>1, AtStep DEF CtlInv, ObjInv, FwInv, FwMay, Destroyed, NotCarriedOut
<1>2. CASE TimesOut("create", at[t])
  <2> DEFINE s == at[t]
  <2>1. /\ late'.kind = "create" /\ late'.obj = s /\ quarantined' = TRUE
        /\ late' \in [kind : {"none", "create", "destroy"}, obj : Objects \cup Ready]
        /\ fw \ Ready = has /\ FwMay = fw /\ FwMay' = fw \cup {s}
    BY <1>2 DEF CtlInv, ObjInv, FwInv, FwMay, TimesOut
  <2>2. Uses(s) \cap Objects \subseteq has
    BY AtStep, UsesBefore
  <2>3. \A o \in fw \cup {s} : Uses(o) \cap Objects \subseteq fw
    BY <2>1, <2>2 DEF CtlInv, ObjInv, FwInv
  <2>4. /\ Uses("SQ") = {"PD", "TIS", "TXCQ", "txring", "txdb"}
        /\ Uses("RQ") = {"PD", "RXCQ", "rxring", "rxdb"}
        /\ Uses("SQRDY") = {"SQ", "MKEY", "txpool"}
        /\ Uses("RQRDY") = {"RQ", "MKEY", "rxpool"}
    BY DEF Uses
  <2> HIDE DEF s
  <2>5. /\ "SQ" \in fw \cup {s} => "TXCQ" \in has
        /\ "RQ" \in fw \cup {s} => "RXCQ" \in has
        /\ "SQRDY" \in fw \cup {s} => "SQ" \in has
        /\ "RQRDY" \in fw \cup {s} => "RQ" \in has
    BY <2>1, <2>3, <2>4, ObjectsAre DEF Ready
  <2> QED  BY <2>1, <2>3, <2>5 DEF CtlInv, ObjInv, FwInv
<1> QED  BY <1>1, <1>2

\* A command that creates an object.
LEMMA UpCreateStep ==
  ASSUME CtlInv, ~Releasing, NEW t \in Threads, pc[t] = "up", UpCreate(t),
         UNCHANGED <<life, fNic, flagVars>>
  PROVE  CtlInv'
<1>1. hpc' = hpc
  BY DEF UpCreate, RingsOf, ResetRing, NewCq, ringVars
<1>2. at[t] \in Objects /\ at[t] # "NOTIFY" /\ UNCHANGED noteVars
  BY DEF UpCreate, Objects, LocalSteps
<1>3. CASE /\ ~quarantined
           /\ has' = has \cup {at[t]}
           /\ mem' = mem \cup Allocates(at[t])
           /\ fw' = Created(fw, at[t])
           /\ UpTo(t)
           /\ UNCHANGED <<late, quarantined>>
  <2>1. has' = (Before(at[t]) \cup {at[t]}) \cap Objects
    BY <1>2, <1>3, AtStep
  <2>2. mem' = (MemBefore(at[t]) \cup Allocates(at[t])) \cup Held
    BY <1>3, AtStep
  <2>3. FwInv'
    BY <1>2, <1>3, <2>1, CreatesOK
  <2> QED  BY <1>1, <1>2, <1>3, <2>1, <2>2, <2>3, AtStep, ChainStep DEF noteVars
<1>4. CASE /\ NotCarriedOut \/ TimesOut("create", at[t])
           /\ UpFails(t)
           /\ UNCHANGED <<has, mem, fw>>
  BY <1>1, <1>2, <1>4, CreateFailsOK, ChainFails
<1> QED  BY <1>3, <1>4 DEF UpCreate

\* MODIFY_SQ and MODIFY_RQ.
LEMMA UpReadyStep ==
  ASSUME CtlInv, ~Releasing, NEW t \in Threads, pc[t] = "up", UpReady(t),
         UNCHANGED <<life, fNic, flagVars>>
  PROVE  CtlInv'
<1>1. hpc' = hpc
  BY DEF UpReady, PostAllRx, ringVars
<1>2. /\ at[t] \in Ready /\ at[t] \notin Objects /\ at[t] # "NOTIFY"
      /\ Allocates(at[t]) = {} /\ UNCHANGED <<has, mem, noteVars>>
  BY DEF UpReady, Ready, Objects, Allocates
<1>3. has' = (Before(at[t]) \cup {at[t]}) \cap Objects
  BY <1>2, AtStep
<1>4. CASE /\ ~quarantined
           /\ fw' = Created(fw, at[t])
           /\ UpTo(t)
           /\ UNCHANGED <<late, quarantined>>
  <2>1. mem' = (MemBefore(at[t]) \cup Allocates(at[t])) \cup Held
    BY <1>2, AtStep
  <2>2. FwInv'
    BY <1>2, <1>3, <1>4, CreatesOK
  <2> QED  BY <1>1, <1>2, <1>3, <1>4, <2>1, <2>2, AtStep, ChainStep DEF noteVars
<1>5. CASE /\ NotCarriedOut \/ TimesOut("create", at[t])
           /\ UpFails(t)
           /\ UNCHANGED fw
  BY <1>1, <1>2, <1>5, CreateFailsOK, ChainFails
<1> QED  BY <1>4, <1>5 DEF UpReady

\* The undoing of a part: Gone(p, n) are its first n objects.
Gone(p, n) == {UndoOrder(p)[i] : i \in 1 .. n}

\* The objects of the parts, the memory freed with them and the object that
\* fails, as far as the undoing has come.
LEMMA UndoFlow ==
  ASSUME NEW n \in 0 .. Len(UndoOrder("flow"))
  PROVE  /\ n \in 0 .. 4 /\ Len(UndoOrder("flow")) = 4
         /\ Gone("flow", n) \subseteq FlowObjs /\ FreedWith("flow", n) = {}
         /\ "ROOT" \in Gone("flow", n) <=> n >= 1
         /\ "FTE" \in Gone("flow", n) <=> n >= 2
         /\ "FG" \in Gone("flow", n) <=> n >= 3
         /\ "FT" \in Gone("flow", n) <=> n >= 4
         /\ n = 0 => UndoOrder("flow")[n + 1] = "ROOT"
         /\ n = 1 => UndoOrder("flow")[n + 1] = "FTE"
         /\ n = 2 => UndoOrder("flow")[n + 1] = "FG"
         /\ n = 3 => UndoOrder("flow")[n + 1] = "FT"
<1>1. UndoOrder("flow") = <<"ROOT", "FTE", "FG", "FT">>
  BY DEF UndoOrder
<1>2. n \in 0 .. 4 /\ Len(UndoOrder("flow")) = 4
  BY <1>1
<1>3. \A o : o \in Gone("flow", n) <=> \E i \in 1 .. n : o = UndoOrder("flow")[i]
  BY DEF Gone
<1>4. \A i \in 1 .. n : UndoOrder("flow")[i] \in FlowObjs
  BY <1>1, <1>2 DEF FlowObjs
<1>5. FreedWith("flow", n) = {}
  BY <1>4 DEF FreedWith, Frees, FlowObjs
<1>6. /\ "ROOT" \in Gone("flow", n) <=> n >= 1
      /\ "FTE" \in Gone("flow", n) <=> n >= 2
      /\ "FG" \in Gone("flow", n) <=> n >= 3
      /\ "FT" \in Gone("flow", n) <=> n >= 4
  BY <1>1, <1>2, <1>3
<1> QED  BY <1>1, <1>2, <1>3, <1>4, <1>5, <1>6

\* destroyRxResources: which objects are gone, and what is freed, after n of them.
LEMMA UndoRx ==
  ASSUME NEW n \in 0 .. Len(UndoOrder("rx"))
  PROVE  /\ n \in 0 .. 3 /\ Len(UndoOrder("rx")) = 3
         /\ Gone("rx", n) \subseteq RxObjs
         /\ FreedWith("rx", n) \subseteq {"rxpool", "rxdb", "rxcqbuf", "rxcqdb"}
         /\ "TIR" \in Gone("rx", n) <=> n >= 1
         /\ "RQ" \in Gone("rx", n) <=> n >= 2
         /\ "RXCQ" \in Gone("rx", n) <=> n >= 3
         /\ "rxpool" \in FreedWith("rx", n) <=> n >= 2
         /\ "rxdb" \in FreedWith("rx", n) <=> n >= 2
         /\ "rxcqbuf" \in FreedWith("rx", n) <=> n >= 3
         /\ "rxcqdb" \in FreedWith("rx", n) <=> n >= 3
         /\ n = 0 => UndoOrder("rx")[n + 1] = "TIR"
         /\ n = 1 => UndoOrder("rx")[n + 1] = "RQ"
         /\ n = 2 => UndoOrder("rx")[n + 1] = "RXCQ"
<1>1. UndoOrder("rx") = <<"TIR", "RQ", "RXCQ">>
  BY DEF UndoOrder
<1>2. n \in 0 .. 3 /\ Len(UndoOrder("rx")) = 3
  BY <1>1
<1>3. \A o : o \in Gone("rx", n) <=> \E i \in 1 .. n : o = UndoOrder("rx")[i]
  BY DEF Gone
<1>4. \A i \in 1 .. n : UndoOrder("rx")[i] \in RxObjs
  BY <1>1, <1>2 DEF RxObjs
<1>5. \A x : x \in FreedWith("rx", n) <=> \E i \in 1 .. n : x \in Frees(UndoOrder("rx")[i])
  BY DEF FreedWith
<1>6. /\ "TIR" \in Gone("rx", n) <=> n >= 1
      /\ "RQ" \in Gone("rx", n) <=> n >= 2
      /\ "RXCQ" \in Gone("rx", n) <=> n >= 3
  BY <1>1, <1>2, <1>3
<1>7. /\ Frees("TIR") = {} /\ Frees("RQ") = {"rxpool", "rxdb"}
      /\ Frees("RXCQ") = {"rxcqbuf", "rxcqdb"}
  BY DEF Frees
<1>8. FreedWith("rx", n) \subseteq {"rxpool", "rxdb", "rxcqbuf", "rxcqdb"}
  BY <1>4, <1>5, <1>7 DEF RxObjs
<1>9. /\ "rxpool" \in FreedWith("rx", n) <=> n >= 2
      /\ "rxdb" \in FreedWith("rx", n) <=> n >= 2
      /\ "rxcqbuf" \in FreedWith("rx", n) <=> n >= 3
      /\ "rxcqdb" \in FreedWith("rx", n) <=> n >= 3
  BY <1>1, <1>2, <1>5, <1>7
<1> QED  BY <1>1, <1>2, <1>3, <1>4, <1>6, <1>8, <1>9

\* destroyTxResources likewise.
LEMMA UndoTx ==
  ASSUME NEW n \in 0 .. Len(UndoOrder("tx"))
  PROVE  /\ n \in 0 .. 3 /\ Len(UndoOrder("tx")) = 3
         /\ Gone("tx", n) \subseteq TxObjs
         /\ FreedWith("tx", n) \subseteq {"txpool", "txdb", "bfreg", "txcqbuf", "txcqdb"}
         /\ "SQ" \in Gone("tx", n) <=> n >= 1
         /\ "TXCQ" \in Gone("tx", n) <=> n >= 2
         /\ "TIS" \in Gone("tx", n) <=> n >= 3
         /\ "txpool" \in FreedWith("tx", n) <=> n >= 1
         /\ "txdb" \in FreedWith("tx", n) <=> n >= 1
         /\ "bfreg" \in FreedWith("tx", n) <=> n >= 1
         /\ "txcqbuf" \in FreedWith("tx", n) <=> n >= 2
         /\ "txcqdb" \in FreedWith("tx", n) <=> n >= 2
         /\ n = 0 => UndoOrder("tx")[n + 1] = "SQ"
         /\ n = 1 => UndoOrder("tx")[n + 1] = "TXCQ"
         /\ n = 2 => UndoOrder("tx")[n + 1] = "TIS"
<1>1. UndoOrder("tx") = <<"SQ", "TXCQ", "TIS">>
  BY DEF UndoOrder
<1>2. n \in 0 .. 3 /\ Len(UndoOrder("tx")) = 3
  BY <1>1
<1>3. \A o : o \in Gone("tx", n) <=> \E i \in 1 .. n : o = UndoOrder("tx")[i]
  BY DEF Gone
<1>4. \A i \in 1 .. n : UndoOrder("tx")[i] \in TxObjs
  BY <1>1, <1>2 DEF TxObjs
<1>5. \A x : x \in FreedWith("tx", n) <=> \E i \in 1 .. n : x \in Frees(UndoOrder("tx")[i])
  BY DEF FreedWith
<1>6. /\ "SQ" \in Gone("tx", n) <=> n >= 1
      /\ "TXCQ" \in Gone("tx", n) <=> n >= 2
      /\ "TIS" \in Gone("tx", n) <=> n >= 3
  BY <1>1, <1>2, <1>3
<1>7. /\ Frees("SQ") = {"txpool", "txdb", "bfreg"} /\ Frees("TIS") = {}
      /\ Frees("TXCQ") = {"txcqbuf", "txcqdb"}
  BY DEF Frees
<1>8. FreedWith("tx", n) \subseteq {"txpool", "txdb", "bfreg", "txcqbuf", "txcqdb"}
  BY <1>4, <1>5, <1>7 DEF TxObjs
<1>9. /\ "txpool" \in FreedWith("tx", n) <=> n >= 1
      /\ "txdb" \in FreedWith("tx", n) <=> n >= 1
      /\ "bfreg" \in FreedWith("tx", n) <=> n >= 1
      /\ "txcqbuf" \in FreedWith("tx", n) <=> n >= 2
      /\ "txcqdb" \in FreedWith("tx", n) <=> n >= 2
  BY <1>1, <1>2, <1>5, <1>7
<1> QED  BY <1>1, <1>2, <1>3, <1>4, <1>6, <1>8, <1>9

\* deallocGlobalResources likewise.
LEMMA UndoGlobal ==
  ASSUME NEW n \in 0 .. Len(UndoOrder("global"))
  PROVE  /\ n \in 0 .. 3 /\ Len(UndoOrder("global")) = 3
         /\ Gone("global", n) \subseteq GlobalObjs /\ FreedWith("global", n) = {}
         /\ "MKEY" \in Gone("global", n) <=> n >= 1
         /\ "TD" \in Gone("global", n) <=> n >= 2
         /\ "PD" \in Gone("global", n) <=> n >= 3
         /\ n = 0 => UndoOrder("global")[n + 1] = "MKEY"
         /\ n = 1 => UndoOrder("global")[n + 1] = "TD"
         /\ n = 2 => UndoOrder("global")[n + 1] = "PD"
<1>1. UndoOrder("global") = <<"MKEY", "TD", "PD">>
  BY DEF UndoOrder
<1>2. n \in 0 .. 3 /\ Len(UndoOrder("global")) = 3
  BY <1>1
<1>3. \A o : o \in Gone("global", n) <=> \E i \in 1 .. n : o = UndoOrder("global")[i]
  BY DEF Gone
<1>4. \A i \in 1 .. n : UndoOrder("global")[i] \in GlobalObjs
  BY <1>1, <1>2 DEF GlobalObjs
<1>5. FreedWith("global", n) = {}
  BY <1>4 DEF FreedWith, Frees, GlobalObjs
<1>6. /\ "MKEY" \in Gone("global", n) <=> n >= 1
      /\ "TD" \in Gone("global", n) <=> n >= 2
      /\ "PD" \in Gone("global", n) <=> n >= 3
  BY <1>1, <1>2, <1>3
<1> QED  BY <1>1, <1>2, <1>3, <1>4, <1>5, <1>6

\* The handles and the memory that are left are in order, nothing that is left
\* uses what fails, and the part is gone or its memory is just what it needs.
LEMMA UndoKeeps ==
  ASSUME NEW h \in SUBSET Objects, NEW m, NEW p \in Parts, NEW n \in 0 .. Len(UndoOrder(p)),
         HasOK(h), MemOK(h, m),
         p = "rx" => h \cap FlowObjs = {},
         p = "global" => h \cap (FlowObjs \cup RxObjs \cup TxObjs) = {},
         n < Len(UndoOrder(p)) => UndoOrder(p)[n + 1] \in h
  PROVE  LET left == h \ Gone(p, n)
             kept == m \ FreedWith(p, n)
         IN  /\ HasOK(left) /\ MemOK(left, kept)
             /\ (p = "tx" \/ TxJust(h, m)) => TxJust(left, kept)
             /\ (p = "rx" \/ RxJust(h, m)) => RxJust(left, kept)
<1> DEFINE left == h \ Gone(p, n)
           kept == m \ FreedWith(p, n)
<1>1. CASE p = "flow"
  <2>1. HasOK(left)
    BY <1>1, UndoFlow DEF HasOK, FlowObjs, RxObjs, TxObjs
  <2>2. kept = m /\ MemOK(left, kept)
    BY <1>1, UndoFlow DEF MemOK
  <2>3. "SQ" \in left <=> "SQ" \in h
    BY <1>1, UndoFlow DEF FlowObjs
  <2>4. "TXCQ" \in left <=> "TXCQ" \in h
    BY <1>1, UndoFlow DEF FlowObjs
  <2>5. "RQ" \in left <=> "RQ" \in h
    BY <1>1, UndoFlow DEF FlowObjs
  <2>6. "RXCQ" \in left <=> "RXCQ" \in h
    BY <1>1, UndoFlow DEF FlowObjs
  <2> QED  BY <1>1, <2>1, <2>2, <2>3, <2>4, <2>5, <2>6 DEF TxJust, RxJust
<1>2. CASE p = "rx"
  <2>1. HasOK(left)
    BY <1>2, UndoRx DEF HasOK, FlowObjs, RxObjs, TxObjs
  <2>2. MemOK(left, kept)
    BY <1>2, UndoRx DEF MemOK, HasOK, Held, Rings, RxObjs
  <2>3. TxJust(h, m) => TxJust(left, kept)
    BY <1>2, UndoRx DEF TxJust, RxObjs
  <2>4. RxJust(left, kept)
    BY <1>2, UndoRx DEF RxJust, HasOK
  <2> QED  BY <1>2, <2>1, <2>2, <2>3, <2>4
<1>3. CASE p = "tx"
  <2>1. HasOK(left)
    BY <1>3, UndoTx DEF HasOK, FlowObjs, RxObjs, TxObjs
  <2>2. MemOK(left, kept)
    BY <1>3, UndoTx DEF MemOK, HasOK, Held, Rings, TxObjs
  <2>3. RxJust(h, m) => RxJust(left, kept)
    BY <1>3, UndoTx DEF RxJust, TxObjs
  <2>4. TxJust(left, kept)
    BY <1>3, UndoTx DEF TxJust, HasOK
  <2> QED  BY <1>3, <2>1, <2>2, <2>3, <2>4
<1>4. CASE p = "global"
  <2>1. HasOK(left)
    BY <1>4, UndoGlobal DEF HasOK, FlowObjs, RxObjs, TxObjs
  <2>2. kept = m /\ MemOK(left, kept)
    BY <1>4, UndoGlobal DEF MemOK
  <2>3. TxJust(h, m) => TxJust(left, kept)
    BY <1>4, <2>2, UndoGlobal DEF TxJust, GlobalObjs
  <2>4. RxJust(h, m) => RxJust(left, kept)
    BY <1>4, <2>2, UndoGlobal DEF RxJust, GlobalObjs
  <2> QED  BY <1>4, <2>1, <2>2, <2>3, <2>4
<1> QED  BY <1>1, <1>2, <1>3, <1>4 DEF Parts

\* Handles in order have all that their objects use.
LEMMA UsesClosed ==
  ASSUME NEW h \in SUBSET Objects, HasOK(h)
  PROVE  /\ \A o \in h : Uses(o) \cap Objects \subseteq h
         /\ "SQ" \in h => Uses("SQRDY") \cap Objects \subseteq h
         /\ "RQ" \in h => Uses("RQRDY") \cap Objects \subseteq h
<1>1. \A o \in h : Uses(o) \cap Objects \subseteq h
  BY ObjectsAre DEF Uses, HasOK, TxObjs, RxObjs, FlowObjs
<1>2. /\ "SQ" \in h => Uses("SQRDY") \cap Objects \subseteq h
      /\ "RQ" \in h => Uses("RQRDY") \cap Objects \subseteq h
  BY ObjectsAre DEF Uses, HasOK, TxObjs, RxObjs, FlowObjs
<1> QED  BY <1>1, <1>2

\* No object that is left uses the one whose destruction comes next.
LEMMA NextUnused ==
  ASSUME NEW h \in SUBSET Objects, NEW p \in Parts, NEW n \in 0 .. Len(UndoOrder(p)),
         HasOK(h),
         p = "rx" => h \cap FlowObjs = {},
         p = "global" => h \cap (FlowObjs \cup RxObjs \cup TxObjs) = {},
         n < Len(UndoOrder(p))
  PROVE  /\ \A o \in h \ Gone(p, n) : UndoOrder(p)[n + 1] \notin Uses(o)
         /\ "SQ" \in h => UndoOrder(p)[n + 1] \notin Uses("SQRDY") \ {"SQ"}
         /\ "RQ" \in h => UndoOrder(p)[n + 1] \notin Uses("RQRDY") \ {"RQ"}
<1> DEFINE x == UndoOrder(p)[n + 1]
<1>0. /\ Uses("SQRDY") = {"SQ", "MKEY", "txpool"}
      /\ Uses("RQRDY") = {"RQ", "MKEY", "rxpool"}
      /\ \A o \in Objects : /\ "ROOT" \notin Uses(o) /\ "FTE" \notin Uses(o)
                            /\ "FG" \in Uses(o) => o = "FTE"
                            /\ "FT" \in Uses(o) => o \in {"FG", "ROOT"}
                            /\ "TIR" \in Uses(o) => o = "FTE"
                            /\ "RQ" \in Uses(o) => o = "TIR"
                            /\ "RXCQ" \in Uses(o) => o = "RQ"
                            /\ "SQ" \notin Uses(o)
                            /\ "TXCQ" \in Uses(o) => o = "SQ"
                            /\ "TIS" \in Uses(o) => o = "SQ"
                            /\ "MKEY" \notin Uses(o)
                            /\ "TD" \in Uses(o) => o \in {"TIS", "TIR"}
                            /\ "PD" \in Uses(o) => o \in {"MKEY", "TIS", "SQ", "RQ"}
  BY ObjectsAre DEF Uses
<1>1. CASE p = "flow"
  BY <1>0, <1>1, UndoFlow
<1>2. CASE p = "rx"
  BY <1>0, <1>2, UndoRx DEF FlowObjs
<1>3. CASE p = "tx"
  BY <1>0, <1>3, UndoTx
<1>4. CASE p = "global"
  BY <1>0, <1>4, UndoGlobal DEF FlowObjs, RxObjs, TxObjs
<1> QED  BY <1>1, <1>2, <1>3, <1>4 DEF Parts

\* Only objects are undone.
LEMMA GoneObjects ==
  ASSUME NEW p \in Parts, NEW n \in 0 .. Len(UndoOrder(p))
  PROVE  Gone(p, n) \subseteq Objects
<1>1. CASE p = "flow"
  BY <1>1, UndoFlow, ObjectsAre DEF FlowObjs
<1>2. CASE p = "rx"
  BY <1>2, UndoRx, ObjectsAre DEF RxObjs
<1>3. CASE p = "tx"
  BY <1>3, UndoTx, ObjectsAre DEF TxObjs
<1>4. CASE p = "global"
  BY <1>4, UndoGlobal, ObjectsAre DEF GlobalObjs
<1> QED  BY <1>1, <1>2, <1>3, <1>4 DEF Parts

\* What the undoing of a part leaves in the firmware.
LEMMA UndoFw ==
  ASSUME CtlInv, NEW t \in Threads, pc[t] = "undo",
         NEW n \in 0 .. Len(UndoOrder(part[t])), UndoPart(t, n)
  PROVE  FwInv' /\ quarantined' \in BOOLEAN
<1> DEFINE p == part[t]
           D == Gone(p, n)
<1>0. /\ has \in SUBSET Objects /\ p \in Parts /\ HasOK(has)
      /\ p = "rx" => has \cap FlowObjs = {}
      /\ p = "global" => has \cap (FlowObjs \cup RxObjs \cup TxObjs) = {}
      /\ quarantined \in BOOLEAN
  BY DEF CtlInv, CtlType, ObjInv, StageInv
<1>1. /\ D \cap has # {} => ~quarantined
      /\ has' = has \ D
      /\ fw' = {o \in fw : \A d \in D \cap has : o \in Destroyed(fw, d)}
      /\ \/ UNCHANGED <<late, quarantined>>
         \/ /\ n < Len(UndoOrder(p))
            /\ UndoOrder(p)[n + 1] \in has
            /\ TimesOut("destroy", UndoOrder(p)[n + 1])
      /\ n < Len(UndoOrder(p)) => UndoOrder(p)[n + 1] \in has
  BY DEF UndoPart, Gone, NotCarriedOut
<1> HIDE DEF p, D
<1>2. CASE quarantined
  <2>1. D \cap has = {} /\ has' = has /\ fw' = fw /\ UNCHANGED <<late, quarantined>>
    BY <1>1, <1>2 DEF TimesOut
  <2> QED  BY <1>0, <2>1 DEF CtlInv, ObjInv, FwInv, FwMay, Destroyed
<1>3. CASE ~quarantined
  <2>1. /\ late.kind = "none" /\ fw \ Ready = has /\ fw \subseteq Objects \cup Ready
        /\ FwMay = fw
        /\ late \in [kind : {"none", "create", "destroy"}, obj : Objects \cup Ready]
        /\ "SQRDY" \in fw => "SQ" \in has
        /\ "RQRDY" \in fw => "RQ" \in has
    BY <1>3 DEF CtlInv, ObjInv, FwInv, FwMay
  <2>2. D \subseteq Objects
    BY <1>0, GoneObjects DEF D, p
  <2>3. Ready \cap Objects = {}
    BY ObjectsAre DEF Ready
  <2>4. fw' \ Ready = has' /\ fw' \subseteq fw
    BY <1>1, <2>1, <2>2, <2>3 DEF Destroyed, Ready
  <2>5. /\ "SQRDY" \in fw' => "SQ" \in has'
        /\ "RQRDY" \in fw' => "RQ" \in has'
    BY <1>1, <2>1 DEF Destroyed
  <2>6. HasOK(has') /\ has' \in SUBSET Objects
    <3>1. HasOK(has \ D)
      BY <1>0, <1>1, UndoKeeps DEF CtlInv, ObjInv, D, p
    <3> QED  BY <1>0, <1>1, <3>1
  <2>7. \A o \in fw' : Uses(o) \cap Objects \subseteq has'
    BY <2>4, <2>5, <2>6, UsesClosed DEF Ready
  <2>8. /\ "SQ" \in fw' => "TXCQ" \in has'
        /\ "RQ" \in fw' => "RXCQ" \in has'
    BY <2>4, <2>6 DEF HasOK, Ready
  <2>9. has' \subseteq fw'
    BY <2>4
  <2>10. CASE UNCHANGED <<late, quarantined>>
    <3>1. late' = late /\ late'.kind = "none" /\ quarantined' = quarantined /\ FwMay' = fw'
      BY <2>1, <2>10 DEF FwMay
    <3> QED  BY <1>0, <1>3, <2>1, <2>4, <2>5, <2>7, <2>8, <2>9, <3>1 DEF FwInv
  <2>11. CASE /\ n < Len(UndoOrder(p))
              /\ UndoOrder(p)[n + 1] \in has
              /\ TimesOut("destroy", UndoOrder(p)[n + 1])
    <3> DEFINE x == UndoOrder(p)[n + 1]
    <3>1. /\ late' = [kind |-> "destroy", obj |-> x] /\ quarantined' = TRUE
          /\ late'.kind = "destroy" /\ late'.obj = x
      BY <2>11 DEF TimesOut
    <3>2. late' \in [kind : {"none", "create", "destroy"}, obj : Objects \cup Ready]
      BY <1>0, <2>11, <3>1
    <3>3. FwMay' = fw'
      BY <3>1 DEF FwMay
    <3>4. n \in 0 .. Len(UndoOrder(p))
      BY DEF p
    <3>5. /\ \A o \in has' : x \notin Uses(o)
          /\ "SQ" \in has => x \notin Uses("SQRDY") \ {"SQ"}
          /\ "RQ" \in has => x \notin Uses("RQRDY") \ {"RQ"}
      BY <1>0, <1>1, <2>11, <3>4, NextUnused DEF D
    <3>6. /\ "SQRDY" \in Destroyed(fw', x) => x # "SQ"
          /\ "RQRDY" \in Destroyed(fw', x) => x # "RQ"
          /\ Destroyed(fw', x) \subseteq fw'
      BY DEF Destroyed
    <3> HIDE DEF x
    <3>7. \A o \in Destroyed(fw', x) : x \notin Uses(o)
      BY <2>1, <2>4, <3>5, <3>6 DEF Ready
    <3> QED  BY <1>0, <2>1, <2>4, <2>5, <2>7, <2>8, <2>9, <2>11, <3>1, <3>2, <3>3, <3>7 DEF FwInv, x
  <2> QED  BY <1>1, <2>10, <2>11
<1> QED  BY <1>0, <1>2, <1>3

\* What follows a part: the next part, the end, or the undoing of everything.
LEMMA AfterPartIs ==
  ASSUME NEW t, NEW f, part[t] \in Parts, AfterPart(t, f)
  PROVE  \/ /\ pc' = [pc EXCEPT ![t] = "finish"]
            /\ UNCHANGED <<at, part, job, failed>>
         \/ /\ job[t] = "own"
            /\ pc' = [pc EXCEPT ![t] = "unregister"]
            /\ job' = [job EXCEPT ![t] = "enable"]
            /\ UNCHANGED <<at, part, failed>>
         \/ /\ job[t] # "own"
            /\ pc' = [pc EXCEPT ![t] = "undo"]
            /\ at' = [at EXCEPT ![t] = "PD"]
            /\ failed' = [failed EXCEPT ![t] = f]
            /\ UNCHANGED job
            /\ \/ part[t] = "flow" /\ f = {} /\ part' = [part EXCEPT ![t] = "rx"]
               \/ part[t] = "flow" /\ f # {} /\ part' = [part EXCEPT ![t] = "tx"]
               \/ part[t] = "rx" /\ part' = [part EXCEPT ![t] = "tx"]
               \/ part[t] = "tx" /\ f = {} /\ part' = [part EXCEPT ![t] = "global"]
<1>1. CASE job[t] = "own"
  BY <1>1 DEF AfterPart, Goto
<1>2. CASE job[t] # "own" /\ part[t] = "flow"
  BY <1>2 DEF AfterPart, Undo
<1>3. CASE job[t] # "own" /\ part[t] = "rx"
  BY <1>3 DEF AfterPart, Undo
<1>4. CASE job[t] # "own" /\ part[t] = "tx"
  BY <1>4 DEF AfterPart, Undo, Goto
<1>5. CASE job[t] # "own" /\ part[t] = "global"
  BY <1>5 DEF AfterPart, Goto
<1> QED  BY <1>1, <1>2, <1>3, <1>4, <1>5 DEF Parts

\* A part that is undone completely is gone.
LEMMA UndoAll ==
  ASSUME NEW p \in Parts, NEW n \in 0 .. Len(UndoOrder(p)), n = Len(UndoOrder(p)), NEW h
  PROVE  /\ p = "flow" => (h \ Gone(p, n)) \cap FlowObjs = {}
         /\ p = "rx" => (h \ Gone(p, n)) \cap RxObjs = {}
         /\ p = "tx" => (h \ Gone(p, n)) \cap TxObjs = {}
<1>1. CASE p = "flow"
  BY <1>1, UndoFlow DEF FlowObjs
<1>2. CASE p = "rx"
  BY <1>2, UndoRx DEF RxObjs
<1>3. CASE p = "tx"
  BY <1>3, UndoTx DEF TxObjs
<1> QED  BY <1>1, <1>2, <1>3

\* The undoing of a part, for a failed enable, disable or stop.
LEMMA UndoStepKeeps ==
  ASSUME CtlInv, ~Releasing, NEW t \in Threads, UndoStep(t)
  PROVE  CtlInv'
<1> USE DEF CtlInv
<1>a. pc[t] = "undo" /\ UNCHANGED <<life, fNic, traffic, flagVars, noteVars>>
  BY DEF UndoStep
<1> PICK n \in 0 .. Len(UndoOrder(part[t])) : UndoPart(t, n)
  BY DEF UndoStep
<1> DEFINE p == part[t]
           D == Gone(p, n)
           F == FreedWith(p, n)
           all == n = Len(UndoOrder(p))
<1>b. /\ has \in SUBSET Objects /\ p \in Parts /\ HasOK(has) /\ MemOK(has, mem)
      /\ p = "rx" => has \cap FlowObjs = {}
      /\ p = "tx" /\ failed[t] = {} => has \cap (FlowObjs \cup RxObjs) = {}
      /\ p = "global" => has \cap (FlowObjs \cup RxObjs \cup TxObjs) = {}
      /\ job[t] \in {"none", "enable", "own", "disable", "stop"} /\ failed[t] \in SUBSET Parts
  BY <1>a DEF CtlType, ObjInv, StageInv
<1>c. has' = has \ D /\ mem' = mem \ F
  BY DEF UndoPart, Gone
<1>d. ~all => UndoOrder(p)[n + 1] \in has
  BY DEF UndoPart
<1>e. FwInv' /\ quarantined' \in BOOLEAN
  BY <1>a, UndoFw
<1>f. hpc' = hpc
  BY DEF UndoPart, Dismantle, ringVars
<1>g. UNCHANGED <<life, fNic, fEnabled, fEnabling, fDisabling, fNotifierRegistered, registered>>
  BY <1>a DEF flagVars, noteVars
<1>h. \E f \in SUBSET Parts : AfterPart(t, f) /\ (f = {} => all /\ failed[t] = {})
  <2>1. CASE all
    BY <1>b, <2>1 DEF UndoPart
  <2>2. CASE ~all
    <3>1. AfterPart(t, failed[t] \cup {p})
      BY <2>2 DEF UndoPart
    <3>2. failed[t] \cup {p} \in SUBSET Parts /\ failed[t] \cup {p} # {}
      BY <1>b
    <3> QED  BY <3>1, <3>2
  <2> QED  BY <2>1, <2>2
<1> PICK f \in SUBSET Parts : AfterPart(t, f) /\ (f = {} => all /\ failed[t] = {})
  BY <1>h
<1>i. \/ /\ pc' = [pc EXCEPT ![t] = "finish"]
         /\ UNCHANGED <<at, part, job, failed>>
      \/ /\ job[t] = "own"
         /\ pc' = [pc EXCEPT ![t] = "unregister"]
         /\ job' = [job EXCEPT ![t] = "enable"]
         /\ UNCHANGED <<at, part, failed>>
      \/ /\ job[t] # "own"
         /\ pc' = [pc EXCEPT ![t] = "undo"]
         /\ at' = [at EXCEPT ![t] = "PD"]
         /\ failed' = [failed EXCEPT ![t] = f]
         /\ UNCHANGED job
         /\ \/ p = "flow" /\ f = {} /\ part' = [part EXCEPT ![t] = "rx"]
            \/ p = "flow" /\ f # {} /\ part' = [part EXCEPT ![t] = "tx"]
            \/ p = "rx" /\ part' = [part EXCEPT ![t] = "tx"]
            \/ p = "tx" /\ f = {} /\ part' = [part EXCEPT ![t] = "global"]
  BY <1>b, AfterPartIs
<1>j. \A u \in Threads : pc[u] \in Busy => u = t
  BY <1>a DEF ThreadInv, Busy
<1>k. /\ \A u \in Threads : u # t => /\ pc'[u] = pc[u] /\ part'[u] = part[u] /\ at'[u] = at[u]
                                     /\ failed'[u] = failed[u] /\ job'[u] = job[u]
      /\ pc'[t] \in {"finish", "unregister", "undo"}
      /\ pc'[t] = "finish" => job'[t] = job[t]
      /\ pc'[t] = "unregister" => job[t] = "own" /\ job'[t] = "enable"
      /\ pc'[t] = "undo" =>
           /\ job[t] # "own" /\ job'[t] = job[t] /\ failed'[t] = f
           /\ \/ p = "flow" /\ f = {} /\ part'[t] = "rx"
              \/ p = "flow" /\ f # {} /\ part'[t] = "tx"
              \/ p = "rx" /\ part'[t] = "tx"
              \/ p = "tx" /\ f = {} /\ part'[t] = "global"
  BY <1>i DEF CtlType
<1>l. /\ HasOK(has') /\ MemOK(has', mem')
      /\ (p = "tx" \/ TxJust(has, mem)) => TxJust(has', mem')
      /\ (p = "rx" \/ RxJust(has, mem)) => RxJust(has', mem')
  <2>1. n < Len(UndoOrder(p)) => UndoOrder(p)[n + 1] \in has
    BY <1>d
  <2>2. /\ HasOK(has \ D) /\ MemOK(has \ D, mem \ F)
        /\ (p = "tx" \/ TxJust(has, mem)) => TxJust(has \ D, mem \ F)
        /\ (p = "rx" \/ RxJust(has, mem)) => RxJust(has \ D, mem \ F)
    BY <1>b, <2>1, UndoKeeps
  <2> HIDE DEF D, F, p
  <2> QED  BY <1>c, <2>2, Zenon
<1>m. all => /\ p = "flow" => has' \cap FlowObjs = {}
             /\ p = "rx" => has' \cap RxObjs = {}
             /\ p = "tx" => has' \cap TxObjs = {}
  BY <1>b, <1>c, UndoAll
<1>n. D \subseteq Objects /\ (p = "flow" => D \subseteq FlowObjs /\ F = {})
  BY <1>b, GoneObjects, UndoFlow
<1>o. Term \in Threads
  BY DEF Threads
<1> HIDE DEF p, D, F, all
<1>1. CtlType'
  <2>1. "PD" \in UpSteps
    BY UpStepsAre
  <2>2. /\ pc' \in [Threads -> Points] /\ at' \in [Threads -> UpSteps]
        /\ part' \in [Threads -> Parts]
        /\ job' \in [Threads -> {"none", "enable", "own", "disable", "stop"}]
        /\ failed' \in [Threads -> SUBSET Parts]
    <3>1. {"rx", "tx", "global"} \subseteq Parts
      BY DEF Parts
    <3>2. {"finish", "unregister", "undo"} \subseteq Points
      BY DEF Points
    <3> QED  BY <1>i, <2>1, <3>1, <3>2 DEF CtlType
  <2>3. has' \subseteq Objects /\ mem' \subseteq Memory
    BY <1>c DEF CtlType
  <2> QED  BY <1>e, <1>g, <2>2, <2>3 DEF CtlType
<1>2. ThreadInv'
  BY <1>a, <1>g, <1>j, <1>k DEF ThreadInv, Busy, ReleaseSteps
<1>3. LifeInv'
  <2>1. fNic => Held \subseteq mem'
    <3>1. F \cap Held = {}
      <4>1. F \subseteq Pieces
        <5>1. CASE p = "rx"
          BY <5>1, UndoRx DEF F, p, Pieces
        <5>2. CASE p = "tx"
          BY <5>2, UndoTx DEF F, p, Pieces
        <5>3. CASE p \in {"flow", "global"}
          BY <5>3, UndoFlow, UndoGlobal DEF F, p
        <5> QED  BY <1>b, <5>1, <5>2, <5>3 DEF Parts
      <4> QED  BY <4>1 DEF Pieces, Held, Rings
    <3> QED  BY <1>c, <3>1 DEF LifeInv
  <2> QED  BY <1>a, <1>c, <1>g, <1>k, <1>o, <2>1 DEF LifeInv, ThreadInv, Busy, ReleaseSteps, Releasing
<1>4. NoteInv'
  <2>1. fNotifierRegistered => job[t] = "own" /\ p = "flow"
    BY <1>a DEF NoteInv, p
  <2>2. "NOTIFY" \in UpSteps /\ Before("NOTIFY") = Upto(14)
    BY UpStepsAre, PosIs, BeforeIs
  <2>3. Before("NOTIFY") \cap FlowObjs = {}
    BY <2>2, UptoIs, SMTT(30) DEF FlowObjs
  <2>4. fNotifierRegistered => /\ Before("NOTIFY") \cap Objects \subseteq has'
                               /\ MemBefore("NOTIFY") \cup Held \subseteq mem'
    BY <1>c, <1>n, <2>1, <2>3 DEF NoteInv
  <2> QED  BY <1>a, <1>f, <1>g, <1>j, <1>k, <1>o, <2>1, <2>4 DEF NoteInv, Busy, ReleaseSteps, Releasing
<1>5. UpInv'
  BY <1>j, <1>k DEF UpInv, Busy
<1>6. StageInv'
  <2>1. SUFFICES ASSUME pc'[t] = "undo"
                 PROVE  /\ part'[t] = "rx" => has' \cap FlowObjs = {}
                        /\ part'[t] = "tx" /\ failed'[t] = {} => has' \cap (FlowObjs \cup RxObjs) = {}
                        /\ part'[t] = "global" => has' \cap (FlowObjs \cup RxObjs \cup TxObjs) = {}
    BY <1>j, <1>k DEF StageInv, Busy
  <2>2. has' \subseteq has
    BY <1>c
  <2> QED  BY <1>b, <1>k, <1>m, <2>1, <2>2
<1>7. JustInv'
  <2>1. Settled("tx")' => p = "tx" \/ Settled("tx")
    BY <1>a, <1>j, <1>k DEF Settled, Busy, p
  <2>2. Settled("rx")' => p = "rx" \/ Settled("rx")
    BY <1>a, <1>j, <1>k DEF Settled, Busy, p
  <2> QED  BY <1>l, <2>1, <2>2 DEF JustInv
<1> QED  BY <1>1, <1>2, <1>3, <1>4, <1>5, <1>6, <1>7, <1>e, <1>l DEF ObjInv

\* The firmware carries out a command the driver has given up.
LEMMA LateStep ==
  ASSUME CtlInv, FirmwareAnswersLate
  PROVE  CtlInv'
<1> USE DEF CtlInv
<1>1. UNCHANGED <<life, fNic, fEnabled, fEnabling, fDisabling, fNotifierRegistered, registered,
                  has, mem, quarantined, pc, at, part, job, failed, hpc>>
  BY DEF FirmwareAnswersLate, flagVars, noteVars, callVars, ringVars
<1>2. CtlType'
  BY <1>1 DEF CtlType
<1>3. ThreadInv' /\ LifeInv' /\ StageInv'
  BY <1>1 DEF ThreadInv, LifeInv, StageInv
<1>4. NoteInv' /\ UpInv' /\ JustInv'
  BY <1>1 DEF NoteInv, UpInv, JustInv, Settled
<1>5. FwInv'
  <2>1. /\ late.kind # "none" /\ late' = NoCommand /\ quarantined /\ quarantined'
        /\ late.obj \in Objects \cup Ready /\ late.kind \in {"create", "destroy"}
    BY <1>1 DEF FirmwareAnswersLate, ObjInv, FwInv, CtlType
  <2>2. late'.kind = "none" /\ FwMay' = fw'
    BY <2>1 DEF NoCommand, FwMay
  <2>3. late' \in [kind : {"none", "create", "destroy"}, obj : Objects \cup Ready]
    BY <2>1, ObjectsAre DEF NoCommand
  <2>4. CASE late.kind = "destroy"
    <3>1. fw' = Destroyed(fw, late.obj) /\ FwMay = fw
      <4>1. late.obj \notin {"SQRDY", "RQRDY"}
        BY <2>4, ObjectsAre DEF ObjInv, FwInv
      <4> QED  BY <2>4, <4>1 DEF FirmwareAnswersLate, FwMay
    <3>2. fw' \subseteq fw /\ \A o \in fw : o \notin fw' => o \in {late.obj, "SQRDY", "RQRDY"}
      BY <3>1 DEF Destroyed
    <3>3. \A o \in fw' : late.obj \notin Uses(o) /\ Uses(o) \cap Objects \subseteq fw
      BY <2>4, <3>1, <3>2 DEF ObjInv, FwInv
    <3>4. \A o \in fw' : Uses(o) \cap Objects \subseteq fw'
      BY <3>2, <3>3, ObjectsAre
    <3> QED  BY <1>1, <2>1, <2>2, <2>3, <3>1, <3>2, <3>4 DEF ObjInv, FwInv
  <2>5. CASE late.kind = "create"
    <3>1. fw \subseteq fw' /\ fw' \subseteq FwMay
      BY <2>5 DEF FirmwareAnswersLate, FwMay, Created
    <3>2. \A o \in fw' : Uses(o) \cap Objects \subseteq fw'
      BY <3>1 DEF ObjInv, FwInv
    <3>3. fw' \subseteq Objects \cup Ready
      BY <2>1, <2>5, <3>1 DEF ObjInv, FwInv, FwMay
    <3> QED  BY <1>1, <2>1, <2>2, <2>3, <3>1, <3>2, <3>3 DEF ObjInv, FwInv
  <2> QED  BY <2>1, <2>4, <2>5
<1> QED  BY <1>1, <1>2, <1>3, <1>4, <1>5 DEF ObjInv, HasOK, MemOK

\* The data path: handleEvent begins only for a registered notifier, and none of
\* its steps, nor a packet or the device, touches the objects.
LEMMA DataStep ==
  ASSUME CtlInv, UNCHANGED ctlVars, hpc' = hpc \/ hpc' = "idle" \/ hpc # "idle" \/ registered
  PROVE  CtlInv'
<1> USE DEF CtlInv
<1>1. UNCHANGED <<life, fNic, fEnabled, fEnabling, fDisabling, fNotifierRegistered, registered,
                  has, mem, fw, late, quarantined, pc, at, part, job, failed>>
  BY DEF ctlVars, flagVars, noteVars, objVars, callVars
<1>2. CtlType'
  BY <1>1 DEF CtlType
<1>3. ThreadInv' /\ LifeInv' /\ StageInv'
  BY <1>1 DEF ThreadInv, LifeInv, StageInv
<1>4. UpInv' /\ JustInv'
  BY <1>1 DEF UpInv, JustInv, Settled
<1>5. NoteInv'
  BY <1>1 DEF NoteInv
<1>6. ObjInv'
  BY <1>1, ObjKept DEF objVars
<1> QED  BY <1>2, <1>3, <1>4, <1>5, <1>6

\* outputPacket, the device, port events and the handler change no control state.
LEMMA OutputCtl ==
  ASSUME CtlInv, Output  PROVE CtlInv'
BY DataStep DEF Output, Xmit

\* The device.
LEMMA DeviceCtl ==
  ASSUME CtlInv, NEW q \in Queues, DeviceWorks(q)  PROVE CtlInv'
BY DataStep DEF DeviceWorks, DeviceCompletes

\* A port event.
LEMMA PortEventCtl ==
  ASSUME CtlInv, TakePortEvent  PROVE CtlInv'
BY DataStep DEF TakePortEvent

\* The handler's steps.
LEMMA HandlerCtl ==
  ASSUME CtlInv, Handler  PROVE CtlInv'
<1>1. CASE (PollTx \/ PollRx \/ PostRx) /\ UNCHANGED ctlVars
  BY <1>1, DataStep DEF PollTx, PollRx, PostRx
<1>2. ASSUME NEW q \in Queues, (PollEnds(q) \/ ArmAfterPoll(q)) /\ UNCHANGED ctlVars  PROVE CtlInv'
  BY <1>2, DataStep DEF PollEnds, ArmAfterPoll, Queues
<1>3. ASSUME NEW q \in Queues, TakeEvent(q)  PROVE CtlInv'
  BY <1>3, DataStep DEF TakeEvent
<1>4. CASE ReportPort
  BY <1>4, DataStep DEF ReportPort
<1> QED  BY <1>1, <1>2, <1>3, <1>4 DEF Handler

\* Every step keeps the control invariant.
LEMMA CtlNext == CtlInv /\ [Next]_vars => CtlInv'
<1> SUFFICES ASSUME CtlInv, [Next]_vars PROVE CtlInv'
  OBVIOUS
<1>1. CASE UNCHANGED vars
  BY <1>1, DataStep DEF vars, ringVars
<1>2. ASSUME NEW ok \in BOOLEAN, Start(ok) PROVE CtlInv'
  BY <1>2, StartStep
<1>3. ASSUME ~Releasing, NEW t \in Threads, Enable(t) \/ Disable(t) \/ Body(t) PROVE CtlInv'
  <2>1. CASE Enable(t)
    BY <2>1, EnableStep DEF Enable
  <2>2. CASE Disable(t)
    BY <2>2, DisableStep DEF Disable
  <2>3. CASE Up(t)
    <3>1. pc[t] = "up" /\ UNCHANGED <<life, fNic, flagVars>>
      BY <2>3 DEF Up
    <3>2. UpLocal(t) \/ UpNotify(t) \/ UpCreate(t) \/ UpReady(t)
      BY <2>3 DEF Up
    <3> QED  BY <1>3, <3>1, <3>2, UpLocalStep, UpNotifyStep, UpCreateStep, UpReadyStep
  <2>4. CASE UndoStep(t)
    BY <1>3, <2>4, UndoStepKeeps
  <2>5. CASE Unregister(t) \/ Sync(t)
    BY <2>5, UnregisterStep, SyncStep
  <2>6. CASE Finish(t) \/ Enabled(t) \/ Report(t)
    BY <1>3, <2>6, FinishStep, EnabledStep, ReportStep
  <2> QED  BY <1>3, <2>1, <2>2, <2>3, <2>4, <2>5, <2>6 DEF Body
<1>4. CASE Stop \/ Free
  BY <1>4, StopStep, FreeStep
<1>5. CASE ~Overran /\ Release
  BY <1>5, ReleaseUnregisterStep, ReleaseSyncStep, ReleaseFreeStep DEF Release
<1>6. CASE Output \/ TakePortEvent \/ Handler \/ FirmwareAnswersLate
  BY <1>6, OutputCtl, PortEventCtl, HandlerCtl, LateStep
<1>7. ASSUME NEW q \in Queues, DeviceWorks(q) PROVE CtlInv'
  BY <1>7, DeviceCtl
<1> QED  BY <1>1, <1>2, <1>3, <1>4, <1>5, <1>6, <1>7 DEF Next

\* The control invariant holds in every reachable state.
LEMMA CtlAlways == Spec => []CtlInv
BY CtlInit, CtlNext, PTL DEF Spec

\* What has a handle has its memory.
LEMMA HandlesHaveMemory ==
  ASSUME HasOK(has), MemOK(has, mem)
  PROVE  /\ "TXCQ" \in has => {"txcqbuf", "txcqdb", "txring"} \subseteq mem
         /\ "SQ" \in has => {"txdb", "txring", "txpool"} \subseteq mem
         /\ "RXCQ" \in has => {"rxcqbuf", "rxcqdb", "rxring"} \subseteq mem
         /\ "RQ" \in has => {"rxdb", "rxring", "rxpool"} \subseteq mem
BY DEF MemOK, Held, Rings

(***************************************************************************)
(* Whatever command of enable, disable or stop fails or times out, and     *)
(* whatever the firmware does afterwards, destroyTxResources and its like  *)
(* neither destroy nor free what an object in the firmware uses, except    *)
(* for what a timed-out CREATE that is carried out late was to have: that  *)
(* cmdCreateCq, cmdCreateSq and cmdCreateRq free.                          *)
(***************************************************************************)
THEOREM ObjectsSupported == Spec => []OnlyLateCreatesLose
<1>1. CtlInv => OnlyLateCreatesLose
  <2> SUFFICES ASSUME CtlInv, NEW obj \in fw  PROVE Uses(obj) \ Lost(obj) \subseteq fw \cup mem
    BY DEF OnlyLateCreatesLose
  <2>1. obj \in Objects \cup Ready /\ Uses(obj) \cap Objects \subseteq fw
    BY DEF CtlInv, ObjInv, FwInv, FwMay
  <2>2. /\ obj = "SQ" => "TXCQ" \in has
        /\ obj = "RQ" => "RXCQ" \in has
        /\ obj = "SQRDY" => "SQ" \in has
        /\ obj = "RQRDY" => "RQ" \in has
    BY DEF CtlInv, ObjInv, FwInv, FwMay
  <2>3. /\ obj \in {"TXCQ", "SQ"} => Uses(obj) \ Lost(obj) \subseteq Objects \cup mem
        /\ obj \in {"RXCQ", "RQ"} => Uses(obj) \ Lost(obj) \subseteq Objects \cup mem
        /\ obj = "SQRDY" => Uses(obj) \subseteq Objects \cup mem
        /\ obj = "RQRDY" => Uses(obj) \subseteq Objects \cup mem
    BY <2>2, HandlesHaveMemory, ObjectsAre DEF CtlInv, ObjInv, Uses, Lost, Allocates
  <2>4. obj \notin {"TXCQ", "SQ", "RXCQ", "RQ"} \cup Ready => Uses(obj) \subseteq Objects
    BY ObjectsAre DEF Uses, Ready
  <2> QED  BY <2>1, <2>3, <2>4 DEF Ready
<1> QED  BY <1>1, CtlAlways, PTL

\* What a step of the chain allocates, no step before it has.
LEMMA AllocatesFresh ==
  ASSUME NEW s \in UpSteps  PROVE MemBefore(s) \cap Allocates(s) = {}
<1>1. MemBefore(s) = MemUpto(Pos(s) - 1) /\ Pos(s) - 1 \in 0 .. 19
  BY BeforeIs
<1> DEFINE k == Pos(s) - 1
<1>2. /\ "txpool" \in MemUpto(k) <=> k >= 4
      /\ "txcqbuf" \in MemUpto(k) <=> k >= 6
      /\ "txcqdb" \in MemUpto(k) <=> k >= 6
      /\ "txdb" \in MemUpto(k) <=> k >= 7
      /\ "bfreg" \in MemUpto(k) <=> k >= 8
      /\ "rxpool" \in MemUpto(k) <=> k >= 10
      /\ "rxcqbuf" \in MemUpto(k) <=> k >= 11
      /\ "rxcqdb" \in MemUpto(k) <=> k >= 11
      /\ "rxdb" \in MemUpto(k) <=> k >= 12
  BY <1>1, MemUptoIs
<1>3. MemUpto(k) \cap Allocates(s) = {}
  BY <1>2, AllocatesIs, PosIs
<1> QED  BY <1>1, <1>3

(***************************************************************************)
(* enable looks for seven of the handles a failed teardown may have left,  *)
(* and still no step of it overwrites a handle or a buffer.                *)
(***************************************************************************)
THEOREM EnableIsFresh == Spec => []NothingOverwritten
<1>1. CtlInv => NothingOverwritten
  <2> SUFFICES ASSUME CtlInv, NEW t \in Threads, pc[t] = "up"
               PROVE  (has \cap {at[t]}) \cup (mem \cap Allocates(at[t])) = {}
    BY DEF NothingOverwritten
  <2>1. /\ at[t] \in UpSteps /\ at[t] \notin has
        /\ mem = MemBefore(at[t]) \cup Held
    BY AtStep
  <2>2. MemBefore(at[t]) \cap Allocates(at[t]) = {}
    BY <2>1, AllocatesFresh
  <2>3. Held \cap Allocates(at[t]) = {}
    BY DEF Held, Rings, Allocates
  <2> QED  BY <2>1, <2>2, <2>3
<1> QED  BY <1>1, CtlAlways, PTL

(***************************************************************************)
(* handleEvent takes no lock that disable or stop respects, and yet what   *)
(* it works on is there until it returns: unregisterNotifier and           *)
(* synchronizeCallbacks come before every destruction.                     *)
(***************************************************************************)
THEOREM HandlerMemoryKept == Spec => []HandlerSafe
<1>1. CtlInv => HandlerSafe
  <2> SUFFICES ASSUME CtlInv, hpc # "idle"
               PROVE  Pieces \cup Held \subseteq mem
    BY DEF HandlerSafe, Pieces, Held, Rings
  <2>1. MemBefore("NOTIFY") \cup Held \subseteq mem
    BY DEF CtlInv, NoteInv
  <2>2. "NOTIFY" \in UpSteps /\ MemBefore("NOTIFY") = MemUpto(14)
    BY UpStepsAre, PosIs, BeforeIs
  <2>3. Pieces \subseteq MemUpto(14)
    BY MemUptoIs DEF Pieces
  <2> QED  BY <2>1, <2>2, <2>3
<1> QED  BY <1>1, CtlAlways, PTL

\* The inductive invariant, data: the rings.  First the arithmetic of counters.

\* Counters go at least twice around the ring before they wrap.
LEMMA Ranges ==
  ASSUME NEW q \in Queues
  PROVE  /\ RingSize[q] \in Nat \ {0} /\ Wrap[q] \in Nat \ {0}
         /\ Wrap[q] % (2 * RingSize[q]) = 0
         /\ Wrap[q] >= 2 * RingSize[q]
BY RingsAssumption, WrapIsLarge

\* Forward by n, and the distance forward.
LEMMA PlusIs ==
  ASSUME NEW q \in Queues, NEW c \in Counters(q), NEW n \in 0 .. Wrap[q]
  PROVE  /\ Plus(q, c, n) = IF c + n < Wrap[q] THEN c + n ELSE (c + n) - Wrap[q]
         /\ Plus(q, c, n) \in Counters(q)
<1>1. Wrap[q] \in Nat \ {0} /\ c + n \in 0 .. 2 * Wrap[q] - 1
  BY Ranges DEF Counters
<1> DEFINE W == Wrap[q]
           a == c + n
<1>2. W \in Nat \ {0} /\ a \in 0 .. 2 * W - 1
  BY <1>1
<1> HIDE DEF W, a
<1>3. a % W = IF a < W THEN a ELSE a - W
  BY <1>2
<1>4. a % W \in 0 .. W - 1
  BY <1>2
<1> QED  BY <1>3, <1>4 DEF Plus, Counters, W, a

\* The distance, without the modulus.
LEMMA DistIs ==
  ASSUME NEW q \in Queues, NEW b \in Counters(q), NEW a \in Counters(q)
  PROVE  Dist(q, b, a) = IF b >= a THEN b - a ELSE (b - a) + Wrap[q]
<1>1. Wrap[q] \in Nat \ {0}
  BY Ranges
<1> DEFINE W == Wrap[q]
<1>2. b \in 0 .. W - 1 /\ a \in 0 .. W - 1
  BY DEF Counters
<1>3. W \in Nat \ {0}
  BY <1>1
<1> HIDE DEF W
<1>4. (b - a) % W = IF b >= a THEN b - a ELSE (b - a) + W
  BY <1>2, <1>3
<1> QED  BY <1>4 DEF Dist, W

\* They are each other's inverse.
LEMMA PlusDist ==
  ASSUME NEW q \in Queues, NEW a \in Counters(q)
  PROVE  /\ \A b \in Counters(q) : Dist(q, b, a) \in 0 .. Wrap[q] - 1 /\ b = Plus(q, a, Dist(q, b, a))
         /\ \A d \in 0 .. Wrap[q] - 1 : Dist(q, Plus(q, a, d), a) = d
         /\ Plus(q, a, 0) = a
<1>1. Wrap[q] \in Nat \ {0}
  BY Ranges
<1>2. ASSUME NEW b \in Counters(q)
      PROVE  Dist(q, b, a) \in 0 .. Wrap[q] - 1 /\ b = Plus(q, a, Dist(q, b, a))
  <2>1. Dist(q, b, a) \in 0 .. Wrap[q] - 1
    BY <1>1, DistIs DEF Counters
  <2>2. b = Plus(q, a, Dist(q, b, a))
    <3> DEFINE d == Dist(q, b, a)
    <3>1. d = IF b >= a THEN b - a ELSE (b - a) + Wrap[q]
      BY DistIs
    <3>2. d \in 0 .. Wrap[q]
      BY <1>1, <2>1
    <3> HIDE DEF d
    <3>3. Plus(q, a, d) = IF a + d < Wrap[q] THEN a + d ELSE (a + d) - Wrap[q]
      BY <3>2, PlusIs
    <3>4. Plus(q, a, d) = b
      BY <1>1, <3>1, <3>2, <3>3 DEF Counters
    <3> QED  BY <3>4 DEF d
  <2> QED  BY <2>1, <2>2
<1>3. ASSUME NEW d \in 0 .. Wrap[q] - 1  PROVE Dist(q, Plus(q, a, d), a) = d
  <2>1. /\ Plus(q, a, d) = IF a + d < Wrap[q] THEN a + d ELSE (a + d) - Wrap[q]
        /\ Plus(q, a, d) \in Counters(q)
    BY <1>1, PlusIs
  <2> QED  BY <1>1, <2>1, DistIs DEF Counters
<1>4. Plus(q, a, 0) = a
  BY <1>1, PlusIs DEF Counters
<1> QED  BY <1>2, <1>3, <1>4

\* Forward by m and by n is forward by their sum.
LEMMA PlusPlus ==
  ASSUME NEW q \in Queues, NEW c \in Counters(q), NEW m \in Nat, NEW n \in Nat, m + n =< Wrap[q]
  PROVE  Plus(q, Plus(q, c, m), n) = Plus(q, c, m + n)
<1>1. Wrap[q] \in Nat \ {0} /\ m \in 0 .. Wrap[q] /\ n \in 0 .. Wrap[q] /\ m + n \in 0 .. Wrap[q]
  BY Ranges
<1>2. /\ Plus(q, c, m) = IF c + m < Wrap[q] THEN c + m ELSE (c + m) - Wrap[q]
      /\ Plus(q, c, m) \in Counters(q)
  BY <1>1, PlusIs
<1>3. Plus(q, c, m + n) = IF c + (m + n) < Wrap[q] THEN c + (m + n) ELSE (c + (m + n)) - Wrap[q]
  BY <1>1, PlusIs
<1>4. Plus(q, Plus(q, c, m), n) = IF Plus(q, c, m) + n < Wrap[q] THEN Plus(q, c, m) + n
                                  ELSE (Plus(q, c, m) + n) - Wrap[q]
  BY <1>1, <1>2, PlusIs
<1> QED  BY <1>1, <1>2, <1>3, <1>4 DEF Counters

\* The slot of a counter and the owner bit of its lap do not see the wrap.
LEMMA SlotOfPlus ==
  ASSUME NEW q \in Queues, NEW c \in Counters(q), NEW n \in Nat
  PROVE  /\ Slot(q, Plus(q, c, n)) = (c + n) % RingSize[q]
         /\ Owner(q, Plus(q, c, n)) = ((c + n) \div RingSize[q]) % 2
         /\ Slot(q, Plus(q, c, n)) \in Slots(q)
<1>1. c + n \in Nat /\ RingSize[q] \in Nat \ {0} /\ Wrap[q] \in Nat \ {0}
      /\ Wrap[q] % (2 * RingSize[q]) = 0
  BY Ranges DEF Counters
<1>2. /\ ((c + n) % Wrap[q]) % RingSize[q] = (c + n) % RingSize[q]
      /\ (((c + n) % Wrap[q]) \div RingSize[q]) % 2 = ((c + n) \div RingSize[q]) % 2
  BY <1>1, LapOfWrapped
<1> QED  BY <1>1, <1>2, ModRange DEF Slot, Owner, Plus, Slots

\* Within a lap slots differ; a lap on, the slot is the same and the owner is not.
LEMMA SlotsDiffer ==
  ASSUME NEW q \in Queues, NEW c \in Counters(q)
  PROVE  /\ \A i, j \in 0 .. RingSize[q] - 1 :
              Slot(q, Plus(q, c, i)) = Slot(q, Plus(q, c, j)) => i = j
         /\ Slot(q, Plus(q, c, RingSize[q])) = Slot(q, c)
         /\ Owner(q, Plus(q, c, RingSize[q])) # Owner(q, c)
<1>1. c \in Nat /\ RingSize[q] \in Nat \ {0}
  BY Ranges DEF Counters
<1>2. ASSUME NEW i \in 0 .. RingSize[q] - 1, NEW j \in 0 .. RingSize[q] - 1, i < j
      PROVE  Slot(q, Plus(q, c, i)) # Slot(q, Plus(q, c, j))
  <2>1. /\ i \in Nat /\ j \in Nat /\ c + i \in Nat /\ c + j \in Nat
        /\ c + i < c + j /\ c + j < (c + i) + RingSize[q]
    BY <1>1, <1>2
  <2>2. (c + i) % RingSize[q] # (c + j) % RingSize[q]
    BY <1>1, <2>1, DistinctSlots
  <2> QED  BY <2>1, <2>2, SlotOfPlus
<1>3. /\ (c + RingSize[q]) % RingSize[q] = c % RingSize[q]
      /\ (c + RingSize[q]) \div RingSize[q] = (c \div RingSize[q]) + 1
  BY <1>1, NextLap
<1>4. Slot(q, Plus(q, c, RingSize[q])) = Slot(q, c)
  BY <1>1, <1>3, SlotOfPlus DEF Slot
<1>5. Owner(q, Plus(q, c, RingSize[q])) # Owner(q, c)
  <2>1. c \div RingSize[q] \in Nat
    BY <1>1, DivRange
  <2>2. Owner(q, Plus(q, c, RingSize[q])) = ((c \div RingSize[q]) + 1) % 2
    BY <1>1, <1>3, SlotOfPlus
  <2>3. Owner(q, c) = (c \div RingSize[q]) % 2
    BY DEF Owner
  <2> DEFINE x == c \div RingSize[q]
  <2> HIDE DEF x
  <2>4. x \in Nat => (x + 1) % 2 # x % 2
    OBVIOUS
  <2> QED  BY <2>1, <2>2, <2>3, <2>4 DEF x
<1>6. \A i, j \in 0 .. RingSize[q] - 1 : i < j => Slot(q, Plus(q, c, i)) # Slot(q, Plus(q, c, j))
  BY <1>2
<1> QED  BY <1>1, <1>4, <1>5, <1>6

\* The CQE d places behind counter cq of queue q, in the entries es.
EntryAt(q, es, cq, i) == es[Slot(q, Plus(q, cq, i))]

\* From the consumer counter cq on, d entries are written, each with the owner
\* bit of its lap and the counter of its work, from cc on; the others are not new.
Entries(q, es, cc, cq, d) ==
  \A i \in 0 .. RingSize[q] - 1 :
    IF i < d
    THEN EntryAt(q, es, cq, i) = [own |-> Owner(q, Plus(q, cq, i)), ctr |-> Plus(q, cc, i)]
    ELSE \/ EntryAt(q, es, cq, i) = None
         \/ EntryAt(q, es, cq, i).own # Owner(q, Plus(q, cq, i))

\* In a new CQ no entry is new.
LEMMA EntriesNew ==
  ASSUME NEW q \in Queues, NEW cc, NEW cq \in Counters(q)
  PROVE  Entries(q, [s \in Slots(q) |-> None], cc, cq, 0)
<1> SUFFICES ASSUME NEW i \in 0 .. RingSize[q] - 1
             PROVE  EntryAt(q, [s \in Slots(q) |-> None], cq, i) = None
  BY Ranges DEF Entries
<1>1. Slot(q, Plus(q, cq, i)) \in Slots(q)
  BY Ranges, SlotOfPlus
<1> QED  BY <1>1 DEF EntryAt

\* The device writes the next one.
LEMMA EntriesWritten ==
  ASSUME NEW q \in Queues, NEW es, NEW S, es \in [Slots(q) -> S],
         NEW cc \in Counters(q), NEW cq \in Counters(q),
         NEW d \in 0 .. RingSize[q] - 1, Entries(q, es, cc, cq, d)
  PROVE  Entries(q, [es EXCEPT ![Slot(q, Plus(q, cq, d))]
                       = [own |-> Owner(q, Plus(q, cq, d)), ctr |-> Plus(q, cc, d)]],
                 cc, cq, d + 1)
<1> DEFINE e == [own |-> Owner(q, Plus(q, cq, d)), ctr |-> Plus(q, cc, d)]
           fs == [es EXCEPT ![Slot(q, Plus(q, cq, d))] = e]
<1>0. RingSize[q] \in Nat \ {0}
  BY Ranges
<1>1. ASSUME NEW i \in 0 .. RingSize[q] - 1, i # d
      PROVE  EntryAt(q, fs, cq, i) = EntryAt(q, es, cq, i)
  <2>1. /\ Slot(q, Plus(q, cq, i)) # Slot(q, Plus(q, cq, d))
        /\ Slot(q, Plus(q, cq, i)) \in Slots(q)
    BY <1>0, <1>1, SlotsDiffer, SlotOfPlus
  <2> QED  BY <2>1 DEF EntryAt
<1>2. EntryAt(q, fs, cq, d) = e
  <2>1. Slot(q, Plus(q, cq, d)) \in Slots(q)
    BY <1>0, SlotOfPlus
  <2> QED  BY <2>1 DEF EntryAt
<1> HIDE DEF fs
<1> SUFFICES ASSUME NEW i \in 0 .. RingSize[q] - 1
             PROVE  IF i < d + 1
                    THEN EntryAt(q, fs, cq, i) = [own |-> Owner(q, Plus(q, cq, i)), ctr |-> Plus(q, cc, i)]
                    ELSE \/ EntryAt(q, fs, cq, i) = None
                         \/ EntryAt(q, fs, cq, i).own # Owner(q, Plus(q, cq, i))
  BY DEF Entries, fs
<1>3. CASE i = d
  BY <1>2, <1>3
<1>4. CASE i # d
  BY <1>0, <1>1, <1>4 DEF Entries
<1> QED  BY <1>3, <1>4

\* The driver consumes the first one.
LEMMA EntriesConsumed ==
  ASSUME NEW q \in Queues, NEW es, NEW cc \in Counters(q), NEW cq \in Counters(q),
         NEW d \in 1 .. RingSize[q], Entries(q, es, cc, cq, d)
  PROVE  Entries(q, es, Plus(q, cc, 1), Plus(q, cq, 1), d - 1)
<1> DEFINE R == RingSize[q]
<1>0. R \in Nat \ {0} /\ Wrap[q] \in Nat /\ Wrap[q] >= 2 * R
  BY Ranges
<1>1. ASSUME NEW i \in 0 .. R - 1
      PROVE  /\ Plus(q, Plus(q, cc, 1), i) = Plus(q, cc, i + 1)
             /\ Plus(q, Plus(q, cq, 1), i) = Plus(q, cq, i + 1)
  <2>1. 1 \in Nat /\ i \in Nat /\ 1 + i =< Wrap[q] /\ 1 + i = i + 1
    BY <1>0
  <2>2. /\ Plus(q, Plus(q, cc, 1), i) = Plus(q, cc, 1 + i)
        /\ Plus(q, Plus(q, cq, 1), i) = Plus(q, cq, 1 + i)
    BY <2>1, PlusPlus
  <2> QED  BY <2>1, <2>2
<1>2. ASSUME NEW i \in 0 .. R - 1
      PROVE  IF i < d - 1
             THEN EntryAt(q, es, Plus(q, cq, 1), i)
                    = [own |-> Owner(q, Plus(q, Plus(q, cq, 1), i)),
                       ctr |-> Plus(q, Plus(q, cc, 1), i)]
             ELSE \/ EntryAt(q, es, Plus(q, cq, 1), i) = None
                  \/ EntryAt(q, es, Plus(q, cq, 1), i).own # Owner(q, Plus(q, Plus(q, cq, 1), i))
  <2>1. EntryAt(q, es, Plus(q, cq, 1), i) = EntryAt(q, es, cq, i + 1)
    BY <1>1 DEF EntryAt
  <2>2. CASE i < R - 1
    <3>1. i + 1 \in 0 .. R - 1 /\ (i < d - 1 <=> i + 1 < d)
      BY <1>0, <2>2
    <3>2. IF i + 1 < d
          THEN EntryAt(q, es, cq, i + 1) = [own |-> Owner(q, Plus(q, cq, i + 1)), ctr |-> Plus(q, cc, i + 1)]
          ELSE \/ EntryAt(q, es, cq, i + 1) = None
               \/ EntryAt(q, es, cq, i + 1).own # Owner(q, Plus(q, cq, i + 1))
      BY <3>1 DEF Entries
    <3> QED  BY <1>1, <2>1, <3>1, <3>2
  <2>3. CASE i = R - 1
    <3>1. i + 1 = R /\ ~(i < d - 1)
      BY <1>0, <2>3
    <3>2. 0 \in 0 .. R - 1 /\ 0 < d
      BY <1>0
    <3>3. EntryAt(q, es, cq, 0) = [own |-> Owner(q, Plus(q, cq, 0)), ctr |-> Plus(q, cc, 0)]
      BY <3>2 DEF Entries
    <3>4. Plus(q, cq, 0) = cq
      BY PlusDist
    <3>5. /\ Slot(q, Plus(q, cq, R)) = Slot(q, cq)
          /\ Owner(q, Plus(q, cq, R)) # Owner(q, cq)
      BY SlotsDiffer
    <3>6. EntryAt(q, es, cq, R) = EntryAt(q, es, cq, 0)
      BY <3>4, <3>5 DEF EntryAt
    <3>7. EntryAt(q, es, cq, R).own = Owner(q, cq)
      BY <3>3, <3>4, <3>6
    <3> QED  BY <1>1, <2>1, <3>1, <3>5, <3>7
  <2> QED  BY <1>0, <2>2, <2>3
<1> QED  BY <1>2 DEF Entries

\* What the loop condition of the polling functions tells.
LEMMA EntriesReady ==
  ASSUME NEW q \in Queues, NEW es, NEW cc \in Counters(q), NEW cq \in Counters(q),
         NEW d \in Nat, Entries(q, es, cc, cq, d)
  PROVE  /\ d > 0 => es[Slot(q, cq)] = [own |-> Owner(q, cq), ctr |-> cc]
         /\ es[Slot(q, cq)] # None /\ es[Slot(q, cq)].own = Owner(q, cq) => d > 0
<1>1. 0 \in 0 .. RingSize[q] - 1
  BY Ranges
<1>2. Plus(q, cq, 0) = cq /\ Plus(q, cc, 0) = cc
  BY PlusDist
<1>3. EntryAt(q, es, cq, 0) = es[Slot(q, cq)]
  BY <1>2 DEF EntryAt
<1> QED  BY <1>1, <1>2, <1>3 DEF Entries

\* The types of the rings, as functions.
Cqes(q) == [own : 0 .. 1, ctr : Counters(q)] \cup {None}

DataType ==
  /\ fPc \in [Queues -> Nat] /\ fCc \in [Queues -> Nat] /\ fCqCc \in [Queues -> Nat]
  /\ db \in [Queues -> Nat] /\ hw \in [Queues -> Nat] /\ cqHw \in [Queues -> Nat]
  /\ \A q \in Queues :
       /\ fPc[q] \in Counters(q) /\ fCc[q] \in Counters(q) /\ fCqCc[q] \in Counters(q)
       /\ db[q] \in Counters(q) /\ hw[q] \in Counters(q) /\ cqHw[q] \in Counters(q)
       /\ cqe[q] \in [Slots(q) -> Cqes(q)]
  /\ cqe \in [Queues -> [Slots("tx") -> Cqes("tx")] \cup [Slots("rx") -> Cqes("rx")]]
  /\ fWqeMbuf \in [Slots("tx") -> Pkts \cup {None}]
  /\ stack \in SUBSET Pkts
  /\ rxBuf \in [Slots("rx") -> Counters("rx") \cup {None}]

WorkQueue(q) == IF q = "tx" THEN "SQ" ELSE "RQ"

\* A direction on which the device has not worked.
Untouched(q) ==
  /\ hw[q] = 0 /\ cqHw[q] = 0 /\ fCqCc[q] = 0
  /\ cqe[q] = [s \in Slots(q) |-> None]

\* The rings when k steps of enable are done, before the notifier is registered.
NewAt(k) ==
  /\ k >= 4 => Untouched("tx") /\ fCc["tx"] = 0 /\ fPc["tx"] = 0 /\ db["tx"] = 0
  /\ k >= 10 => Untouched("rx") /\ fCc["rx"] = 0
  /\ k >= 10 /\ k < 14 => fPc["rx"] = 0 /\ db["rx"] = 0
  /\ k >= 14 => fPc["rx"] = RingSize["rx"] /\ db["rx"] = RingSize["rx"]

NewInv ==
  /\ \A q \in Queues : WorkQueue(q) \notin has => Untouched(q) /\ db[q] = 0
  /\ \A t \in Threads : pc[t] = "up" /\ Pos(at[t]) =< 15 => NewAt(Pos(at[t]) - 1)

\* The work done and not consumed, and the work given to the device.
Done(q)  == Dist(q, hw[q], fCc[q])
Given(q) == Dist(q, db[q], fCc[q])

RingInv(q) ==
  /\ fPc[q] = db[q]
  /\ Done(q) =< Given(q) /\ Given(q) =< RingSize[q]
  /\ cqHw[q] = Plus(q, fCqCc[q], Done(q))
  /\ Entries(q, cqe[q], fCc[q], fCqCc[q], Done(q))

\* An mbuf is with the stack or in one slot.
MbufInv ==
  /\ \A s \in Slots("tx") : fWqeMbuf[s] \notin stack
  /\ \A r, s \in Slots("tx") : fWqeMbuf[r] = fWqeMbuf[s] /\ fWqeMbuf[r] # None => r = s

\* A buffer filled and not consumed holds its own receive.
RxInv ==
  /\ fNotifierRegistered =>
       \A i \in 0 .. RingSize["rx"] - 1 : i < Done("rx") =>
         rxBuf[Slot("rx", Plus("rx", fCc["rx"], i))] = Plus("rx", fCc["rx"], i)
  /\ hpc = "rxpost" => Done("rx") > 0 /\ got = fCc["rx"]

DataInv ==
  /\ DataType
  /\ NewInv
  /\ fNotifierRegistered => \A q \in Queues : RingInv(q)
  /\ MbufInv
  /\ RxInv

IInv == CtlInv /\ DataInv

\* The rings of a new object.
LEMMA DataInit == Init => DataInv
<1> SUFFICES ASSUME Init PROVE DataInv
  OBVIOUS
<1>1. ASSUME NEW q \in Queues  PROVE 0 \in Counters(q)
  <2>1. Wrap[q] \in Nat \ {0}
    BY Ranges
  <2> QED  BY <2>1 DEF Counters
<1> USE DEF Init, RingsInit
<1>2. DataType
  BY <1>1, Ranges DEF DataType, Cqes, Queues
<1>3. NewInv
  BY DEF NewInv, Untouched, Queues
<1>4. MbufInv
  BY RingsAssumption DEF MbufInv
<1>5. RxInv
  BY DEF RxInv
<1> QED  BY <1>2, <1>3, <1>4, <1>5 DEF DataInv

rings == <<fPc, fCc, fCqCc, db, fWqeMbuf, stack, hw, cqHw, cqe, rxBuf>>

\* A queue none of whose counters and entries change.
LEMMA RingSame ==
  ASSUME NEW q \in Queues, RingInv(q), fPc'[q] = fPc[q], fCc'[q] = fCc[q], fCqCc'[q] = fCqCc[q],
         db'[q] = db[q], hw'[q] = hw[q], cqHw'[q] = cqHw[q], cqe'[q] = cqe[q]
  PROVE  RingInv(q)' /\ Done(q)' = Done(q) /\ Given(q)' = Given(q)
<1>1. Done(q)' = Done(q) /\ Given(q)' = Given(q)
  BY DEF Done, Given
<1> QED  BY <1>1 DEF RingInv

\* Steps that leave the rings alone, register nothing and lead to no new step of
\* enable but the first.
LEMMA RingsQuiet ==
  ASSUME DataInv, UNCHANGED rings,
         hpc' = "rxpost" => hpc = "rxpost" /\ got' = got,
         fNotifierRegistered' => fNotifierRegistered,
         \A q \in Queues : WorkQueue(q) \notin has' => WorkQueue(q) \notin has,
         \A t \in Threads : pc'[t] = "up" =>
            at'[t] = "PD" \/ (pc[t] = "up" /\ at'[t] = at[t])
  PROVE  DataInv'
<1> USE DEF rings
<1>1. DataType'
  BY DEF DataInv, DataType
<1>2. NewInv'
  <2>1. ASSUME NEW k  PROVE NewAt(k) => NewAt(k)'
    BY DEF NewAt, Untouched
  <2>2. NewAt(0)'
    BY DEF NewAt
  <2>3. \A t \in Threads : pc'[t] = "up" /\ Pos(at'[t]) =< 15 => NewAt(Pos(at[t]) - 1)'
    <3> SUFFICES ASSUME NEW t \in Threads, pc'[t] = "up", Pos(at'[t]) =< 15
                 PROVE  NewAt(Pos(at[t]) - 1)'
      OBVIOUS
    <3>1. CASE at'[t] = "PD"
      BY <2>2, <3>1, PosIs DEF NewAt
    <3>2. CASE pc[t] = "up" /\ at'[t] = at[t]
      BY <3>2 DEF DataInv, NewInv, NewAt, Untouched
    <3> QED  BY <3>1, <3>2
  <2> QED  BY <2>3 DEF DataInv, NewInv, Untouched, WorkQueue
<1>3. fNotifierRegistered' => \A q \in Queues : RingInv(q)'
  BY RingSame DEF DataInv
<1>4. MbufInv'
  BY DEF DataInv, MbufInv
<1>5. RxInv'
  <2>1. Done("rx")' = Done("rx")
    BY DEF Done
  <2> QED  BY <2>1 DEF DataInv, RxInv
<1> QED  BY <1>1, <1>2, <1>3, <1>4, <1>5 DEF DataInv

\* enable, disable, stop, the late firmware and most of the handler leave the
\* rings alone.
LEMMA QuietData ==
  ASSUME IInv, NEW t \in Threads,
         \/ \E ok \in BOOLEAN : Start(ok)
         \/ Enable(t) \/ Disable(t) \/ Unregister(t) \/ Sync(t)
         \/ Finish(t) \/ Enabled(t) \/ Report(t)
         \/ Stop \/ Free \/ Release \/ FirmwareAnswersLate \/ TakePortEvent \/ ReportPort
         \/ \E q \in Queues : TakeEvent(q) \/ (UNCHANGED ctlVars /\ (PollEnds(q) \/ ArmAfterPoll(q)))
  PROVE  DataInv'
<1> USE DEF ringVars, txVars, devVars, rings
<1>0. CtlType /\ DataInv
  BY DEF IInv, CtlInv
<1>1. CASE \E ok \in BOOLEAN : Start(ok)
  BY <1>0, <1>1, RingsQuiet DEF Start, noteVars, callVars
<1>2. CASE Enable(t)
  BY <1>0, <1>2, RingsQuiet DEF Enable, CtlType, noteVars, objVars
<1>3. CASE Disable(t)
  BY <1>0, <1>3, RingsQuiet DEF Disable, DisableEntry, CtlType, noteVars, objVars
<1>4. CASE Unregister(t)
  BY <1>0, <1>4, RingsQuiet DEF Unregister, Goto, Undo, CtlType, objVars
<1>5. CASE Sync(t)
  BY <1>0, <1>5, RingsQuiet DEF Sync, Undo, CtlType, objVars
<1>6. CASE Finish(t)
  BY <1>0, <1>6, RingsQuiet DEF Finish, Return, CtlType, noteVars, objVars
<1>7. CASE Enabled(t)
  BY <1>0, <1>7, RingsQuiet DEF Enabled, Goto, CtlType, noteVars, objVars
<1>8. CASE Report(t)
  BY <1>0, <1>8, RingsQuiet DEF Report, Return, CtlType, noteVars, objVars
<1>9. CASE Stop
  BY <1>0, <1>9, RingsQuiet DEF Stop, DisableEntry, CtlType, Threads, noteVars, objVars
<1>10. CASE Free
  BY <1>0, <1>10, RingsQuiet DEF Free, CtlType, Threads, noteVars, objVars
<1>11. CASE Release
  BY <1>0, <1>11, RingsQuiet
     DEF Release, ReleaseUnregister, ReleaseSync, ReleaseFree, Goto, CtlType, Threads, noteVars, objVars
<1>12. CASE FirmwareAnswersLate
  BY <1>0, <1>12, RingsQuiet DEF FirmwareAnswersLate, noteVars, callVars
<1>13. CASE TakePortEvent \/ ReportPort
  BY <1>0, <1>13, RingsQuiet DEF TakePortEvent, ReportPort, ctlVars, noteVars, objVars, callVars
<1>14. ASSUME NEW q \in Queues, TakeEvent(q)  PROVE DataInv'
  BY <1>0, <1>14, RingsQuiet DEF TakeEvent, HandleCompletion, Queues, ctlVars, noteVars, objVars, callVars
<1>15. ASSUME NEW q \in Queues, UNCHANGED ctlVars, PollEnds(q) \/ ArmAfterPoll(q)  PROVE DataInv'
  BY <1>0, <1>15, RingsQuiet DEF PollEnds, ArmAfterPoll, ctlVars, noteVars, objVars, callVars
<1> QED  BY <1>1, <1>2, <1>3, <1>4, <1>5, <1>6, <1>7, <1>8, <1>9, <1>10, <1>11, <1>12, <1>13,
            <1>14, <1>15

\* Before the notifier is registered no handler runs and the queues are not there
\* before their steps.
LEMMA BeforeNotify ==
  ASSUME CtlInv, NEW t \in Threads, pc[t] = "up"
  PROVE  /\ Pos(at[t]) \in 1 .. 19
         /\ Pos(at[t]) =< 15 => ~fNotifierRegistered /\ hpc = "idle"
         /\ Pos(at[t]) =< 7 => "SQ" \notin has
         /\ Pos(at[t]) =< 12 => "RQ" \notin has
         /\ Pos(at[t]) > 12 => "RQ" \in has
         /\ \A u \in Threads : pc[u] = "up" => u = t
<1>1. at[t] \in UpSteps /\ Pos(at[t]) \in 1 .. 19
  BY AtStep, BeforeIs
<1>2. /\ has = Upto(Pos(at[t]) - 1) \cap Objects
      /\ fNotifierRegistered <=> "NOTIFY" \in Upto(Pos(at[t]) - 1)
  BY <1>1, AtStep, BeforeIs
<1>3. Pos(at[t]) - 1 \in 0 .. 19
  BY <1>1
<1>4. Pos(at[t]) =< 15 => ~fNotifierRegistered
  BY <1>1, <1>2, <1>3, UptoIs
<1>5. /\ Pos(at[t]) =< 7 => "SQ" \notin has
      /\ Pos(at[t]) =< 12 => "RQ" \notin has
      /\ Pos(at[t]) > 12 => "RQ" \in has
  BY <1>1, <1>2, <1>3, UptoIs, ObjectsAre
<1>6. \A u \in Threads : pc[u] = "up" => u = t
  BY DEF CtlInv, ThreadInv, Busy
<1>7. ~fNotifierRegistered => hpc = "idle"
  BY DEF CtlInv, NoteInv
<1> QED  BY <1>1, <1>4, <1>5, <1>6, <1>7

\* NewInv after a step of enable that succeeded, and after one that failed.
LEMMA NewAfter ==
  ASSUME CtlInv, NEW t \in Threads, pc[t] = "up",
         \A q \in Queues : WorkQueue(q) \notin has' => Untouched(q)' /\ db'[q] = 0,
         \/ UpTo(t) /\ \A k \in 1 .. 14 : k = Pos(at[t]) => NewAt(k)'
         \/ UpFails(t)
  PROVE  NewInv'
<1>1. \A u \in Threads : pc[u] = "up" => u = t
  BY BeforeNotify
<1>2. Pos(at[t]) \in 1 .. 19
  BY BeforeNotify
<1>3. SUFFICES ASSUME NEW u \in Threads, pc'[u] = "up", Pos(at'[u]) =< 15
               PROVE  NewAt(Pos(at[u]) - 1)'
  BY DEF NewInv
<1>4. CASE UpFails(t)
  BY <1>1, <1>3, <1>4 DEF UpFails, Undo, CtlInv, CtlType
<1>5. CASE UpTo(t) /\ \A k \in 1 .. 14 : k = Pos(at[t]) => NewAt(k)'
  <2>1. at[t] \in UpSteps
    BY AtStep
  <2>2. CASE Goto(t, "enabled")
    BY <1>1, <1>3, <2>2 DEF Goto, CtlInv, CtlType
  <2>3. ASSUME NEW n \in UpSteps, Pos(n) = Pos(at[t]) + 1, at' = [at EXCEPT ![t] = n],
               UNCHANGED <<pc, part, job, failed>>
        PROVE  NewAt(Pos(at[u]) - 1)'
    <3>1. u = t /\ at'[u] = n
      BY <1>1, <1>3, <2>3 DEF CtlInv, CtlType
    <3>2. Pos(at'[u]) - 1 = Pos(at[t]) /\ Pos(at[t]) =< 14
      BY <1>2, <1>3, <2>3, <3>1
    <3>3. PICK k \in 1 .. 14 : k = Pos(at[t])
      BY <1>2, <3>2
    <3>4. NewAt(k)' /\ Pos(at'[u]) - 1 = k
      BY <1>5, <3>2, <3>3
    <3> QED  BY <3>4 DEF NewAt, Untouched
  <2> QED  BY <1>5, <2>1, <2>2, <2>3, UpToIs
<1> QED  BY <1>4, <1>5

\* A step of enable that does not touch the rings.
LEMMA UpQuiet ==
  ASSUME IInv, NEW t \in Threads, pc[t] = "up", UNCHANGED <<rings, fNotifierRegistered, hpc, got>>,
         has \subseteq has',
         UpTo(t) \/ UpFails(t), at[t] \notin {"TXPOOL", "RXPOOL", "RQRDY", "NOTIFY"}
  PROVE  DataInv'
<1> USE DEF rings
<1>0. CtlInv /\ DataInv
  BY DEF IInv
<1>1. DataType'
  BY <1>0 DEF DataInv, DataType
<1>2. NewInv'
  <2>1. \A q \in Queues : WorkQueue(q) \notin has' => Untouched(q)' /\ db'[q] = 0
    BY <1>0 DEF DataInv, NewInv, Untouched
  <2>2. ASSUME NEW k \in 1 .. 14, k = Pos(at[t])  PROVE NewAt(k)'
    <3>1. k \notin {4, 10, 14}
      <4>1. at[t] \in UpSteps
        BY <1>0, AtStep
      <4> QED  BY <2>2, <4>1, UpStepsAre, PosIs
    <3>2. NewAt(k - 1)
      BY <1>0, <2>2 DEF DataInv, NewInv
    <3> QED  BY <3>1, <3>2 DEF NewAt, Untouched
  <2> QED  BY <1>0, <2>1, <2>2, NewAfter
<1>3. fNotifierRegistered' => \A q \in Queues : RingInv(q)'
  BY <1>0, RingSame DEF DataInv
<1>4. MbufInv'
  BY <1>0 DEF DataInv, MbufInv
<1>5. RxInv'
  <2>1. Done("rx")' = Done("rx")
    BY DEF Done
  <2> QED  BY <1>0, <2>1 DEF DataInv, RxInv
<1> QED  BY <1>1, <1>2, <1>3, <1>4, <1>5 DEF DataInv

\* While there is no notifier, the counters are free to be reset.
LEMMA NoNotifier ==
  ASSUME ~fNotifierRegistered', hpc' = "idle", DataType', NewInv', MbufInv'
  PROVE  DataInv'
BY DEF DataInv, RxInv

\* createTxResources and createRxResources reset the counters of their ring.
LEMMA ResetData ==
  ASSUME IInv, NEW t \in Threads, pc[t] = "up", NEW r \in Queues,
         at[t] = IF r = "tx" THEN "TXPOOL" ELSE "RXPOOL",
         ResetRing(r), UNCHANGED <<fNotifierRegistered, has>>, UpTo(t) \/ UpFails(t)
  PROVE  DataInv'
<1>0. CtlInv /\ DataInv
  BY DEF IInv
<1>1. Pos(at[t]) = IF r = "tx" THEN 4 ELSE 10
  BY PosIs
<1>2. ~fNotifierRegistered /\ hpc = "idle" /\ "RQ" \notin has /\ (r = "tx" => "SQ" \notin has)
  BY <1>0, <1>1, BeforeNotify
<1>3. Untouched(r) /\ db[r] = 0
  BY <1>0, <1>2 DEF DataInv, NewInv, WorkQueue, Queues
<1>4. 0 \in Counters(r)
  <2>1. Wrap[r] \in Nat \ {0}
    BY Ranges
  <2> QED  BY <2>1 DEF Counters
<1>5. DataType'
  <2>1. /\ fPc' \in [Queues -> Nat] /\ fCc' \in [Queues -> Nat] /\ fCqCc' \in [Queues -> Nat]
        /\ fPc'[r] = 0 /\ fCc'[r] = 0 /\ fCqCc'[r] = 0
        /\ \A q \in Queues : q # r => fPc'[q] = fPc[q] /\ fCc'[q] = fCc[q] /\ fCqCc'[q] = fCqCc[q]
    BY <1>0 DEF ResetRing, DataInv, DataType
  <2>2. fWqeMbuf' \in [Slots("tx") -> Pkts \cup {None}]
    BY <1>0 DEF ResetRing, DataInv, DataType
  <2>3. UNCHANGED <<db, hw, cqHw, cqe, stack, rxBuf>>
    BY DEF ResetRing, devVars
  <2> QED  BY <1>0, <1>4, <2>1, <2>2, <2>3 DEF DataInv, DataType
<1>6. /\ fPc'[r] = 0 /\ fCc'[r] = 0 /\ fCqCc'[r] = 0 /\ db' = db
      /\ UNCHANGED <<db, hw, cqHw, cqe>>
      /\ \A q \in Queues : q # r => fPc'[q] = fPc[q] /\ fCc'[q] = fCc[q] /\ fCqCc'[q] = fCqCc[q]
  BY <1>0 DEF ResetRing, DataInv, DataType, devVars
<1>7. \A q \in Queues : Untouched(q) => Untouched(q)'
  BY <1>6 DEF Untouched
<1>8. NewInv'
  <2>1. \A q \in Queues : WorkQueue(q) \notin has' => Untouched(q)' /\ db'[q] = 0
    BY <1>0, <1>6, <1>7 DEF DataInv, NewInv
  <2>2. ASSUME NEW k \in 1 .. 14, k = Pos(at[t])  PROVE NewAt(k)'
    <3>1. NewAt(k - 1)
      BY <1>0, <2>2 DEF DataInv, NewInv
    <3>2. CASE r = "tx"
      BY <1>1, <1>3, <1>6, <1>7, <2>2, <3>2 DEF NewAt
    <3>3. CASE r = "rx"
      <4>1. k = 10
        BY <1>1, <2>2, <3>3
      <4>2. Untouched("tx") /\ fCc["tx"] = 0 /\ fPc["tx"] = 0 /\ db["tx"] = 0
        BY <3>1, <4>1 DEF NewAt
      <4> QED  BY <1>3, <1>6, <1>7, <3>3, <4>1, <4>2 DEF NewAt, Queues
    <3> QED  BY <3>2, <3>3 DEF Queues
  <2> QED  BY <1>0, <2>1, <2>2, NewAfter
<1>9. MbufInv'
  <2>1. stack' = stack /\ (fWqeMbuf' = fWqeMbuf \/ fWqeMbuf' = [s \in Slots("tx") |-> None])
    BY DEF ResetRing
  <2>2. None \notin stack
    BY <1>0, RingsAssumption DEF DataInv, DataType
  <2> QED  BY <1>0, <2>1, <2>2 DEF DataInv, MbufInv
<1>10. hpc' = "idle"
  BY <1>2 DEF ResetRing
<1> QED  BY <1>2, <1>5, <1>8, <1>9, <1>10, NoNotifier

\* createTxResources, createRxResources up to the pool, allocBfreg.
LEMMA UpLocalData ==
  ASSUME IInv, NEW t \in Threads, pc[t] = "up", UpLocal(t)
  PROVE  DataInv'
<1>1. at[t] \in {"TXPOOL", "BFREG", "RXPOOL"} /\ UNCHANGED <<fNotifierRegistered, has>>
      /\ (UpTo(t) \/ UpFails(t)) /\ RingsOf(at[t])
  BY DEF UpLocal, LocalSteps, noteVars
<1>2. CASE at[t] = "TXPOOL"
  BY <1>1, <1>2, ResetData DEF RingsOf, Queues
<1>3. CASE at[t] = "RXPOOL"
  BY <1>1, <1>3, ResetData DEF RingsOf, Queues
<1>4. CASE at[t] = "BFREG"
  BY <1>1, <1>4, UpQuiet DEF RingsOf, rings, ringVars, txVars, devVars
<1> QED  BY <1>1, <1>2, <1>3, <1>4

\* A command that creates an object.
LEMMA UpCreateData ==
  ASSUME IInv, NEW t \in Threads, pc[t] = "up", UpCreate(t)
  PROVE  DataInv'
<1>1. at[t] \notin {"TXPOOL", "RXPOOL", "RQRDY", "NOTIFY"}
  BY ObjectsAre DEF UpCreate
<1>2. UNCHANGED <<rings, fNotifierRegistered, hpc, got>>
  BY <1>1 DEF UpCreate, RingsOf, NewCq, rings, ringVars, txVars, devVars, noteVars
<1>3. has \subseteq has' /\ (UpTo(t) \/ UpFails(t))
  BY DEF UpCreate
<1> QED  BY <1>1, <1>2, <1>3, UpQuiet

\* MODIFY_SQ; the receive ring is posted as a whole before MODIFY_RQ.
LEMMA UpReadyData ==
  ASSUME IInv, NEW t \in Threads, pc[t] = "up", UpReady(t)
  PROVE  DataInv'
<1>0. CtlInv /\ DataInv
  BY DEF IInv
<1>1. at[t] \in {"SQRDY", "RQRDY"} /\ UNCHANGED <<has, fNotifierRegistered>>
      /\ (UpTo(t) \/ UpFails(t))
  BY DEF UpReady, noteVars
<1>2. CASE at[t] = "SQRDY"
  <2>1. UNCHANGED <<rings, hpc, got>>
    BY <1>2 DEF UpReady, rings, ringVars, txVars, devVars
  <2> QED  BY <1>1, <1>2, <2>1, UpQuiet
<1>3. CASE at[t] = "RQRDY"
  <2>1. Pos(at[t]) = 14
    BY <1>3, PosIs
  <2>2. ~fNotifierRegistered /\ hpc = "idle" /\ "RQ" \in has
    BY <1>0, <2>1, BeforeNotify
  <2>3. /\ fPc' = [fPc EXCEPT !["rx"] = RingSize["rx"]]
        /\ db' = [db EXCEPT !["rx"] = RingSize["rx"]]
        /\ UNCHANGED <<fCc, fCqCc, fWqeMbuf, stack, hw, cqHw, cqe, rxBuf, hpc>>
    BY <1>3 DEF UpReady, PostAllRx, txVars, devVars
  <2>4. RingSize["rx"] \in Nat /\ RingSize["rx"] \in Counters("rx")
    <3>1. "rx" \in Queues
      BY DEF Queues
    <3>2. /\ RingSize["rx"] \in Nat \ {0} /\ Wrap["rx"] \in Nat \ {0}
          /\ Wrap["rx"] >= 2 * RingSize["rx"]
      BY <3>1, Ranges
    <3> QED  BY <3>2 DEF Counters
  <2>5. DataType'
    BY <1>0, <2>3, <2>4 DEF DataInv, DataType, Queues
  <2>6. /\ fPc'["rx"] = RingSize["rx"] /\ db'["rx"] = RingSize["rx"]
        /\ fPc'["tx"] = fPc["tx"] /\ db'["tx"] = db["tx"]
    BY <1>0, <2>3 DEF DataInv, DataType, Queues
  <2>7. NewInv'
    <3>1. \A q \in Queues : WorkQueue(q) \notin has' => Untouched(q)' /\ db'[q] = 0
      BY <1>0, <1>1, <2>2, <2>3, <2>6 DEF DataInv, NewInv, Untouched, Queues, WorkQueue
    <3>2. ASSUME NEW k \in 1 .. 14, k = Pos(at[t])  PROVE NewAt(k)'
      <4>1. NewAt(13)
        BY <1>0, <2>1 DEF DataInv, NewInv
      <4> QED  BY <2>1, <2>3, <2>6, <3>2, <4>1 DEF NewAt, Untouched
    <3> QED  BY <1>0, <1>1, <3>1, <3>2, NewAfter
  <2>8. MbufInv'
    BY <1>0, <2>3 DEF DataInv, MbufInv
  <2> QED  BY <1>1, <2>2, <2>3, <2>5, <2>7, <2>8, NoNotifier
<1> QED  BY <1>1, <1>2, <1>3

\* When the notifier is registered both rings are as the device expects them.
LEMMA UpNotifyData ==
  ASSUME IInv, NEW t \in Threads, pc[t] = "up", UpNotify(t)
  PROVE  DataInv'
<1>0. CtlInv /\ DataInv
  BY DEF IInv
<1>1. at[t] = "NOTIFY" /\ Pos(at[t]) = 15 /\ UNCHANGED <<rings, has, hpc>> /\ UpTo(t)
  BY PosIs DEF UpNotify, rings, objVars, txVars, devVars
<1> USE DEF rings
<1>2. hpc = "idle"
  BY <1>0, <1>1, BeforeNotify
<1>3. NewAt(14)
  BY <1>0, <1>1 DEF DataInv, NewInv
<1>4. ASSUME NEW q \in Queues
      PROVE  /\ Untouched(q) /\ fCc[q] = 0 /\ fPc[q] = db[q]
             /\ db[q] \in {0, RingSize[q]}
  BY <1>3 DEF NewAt, Queues
<1>5. ASSUME NEW q \in Queues  PROVE RingInv(q)' /\ Done(q)' = 0
  <2>1. 0 \in Counters(q) /\ RingSize[q] \in Counters(q) /\ RingSize[q] \in Nat
    BY Ranges DEF Counters
  <2>2. Dist(q, 0, 0) = 0 /\ Dist(q, db[q], 0) = db[q]
    BY <1>4, <2>1, DistIs
  <2>3. Plus(q, 0, 0) = 0
    BY <2>1, PlusDist
  <2>4. Entries(q, [s \in Slots(q) |-> None], 0, 0, 0)
    BY <2>1, EntriesNew
  <2>5. Done(q)' = 0 /\ Given(q)' = db[q]
    BY <1>1, <1>4, <2>2 DEF Done, Given, Untouched
  <2>6. RingInv(q)
    <3>1. Done(q) = 0 /\ Given(q) = db[q]
      BY <1>4, <2>2 DEF Done, Given, Untouched
    <3> QED  BY <1>4, <2>1, <2>3, <2>4, <3>1 DEF RingInv, Untouched
  <2> QED  BY <1>1, <2>5, <2>6, RingSame
<1>6. DataType'
  BY <1>0, <1>1 DEF DataInv, DataType
<1>7. NewInv'
  <2>1. \A q \in Queues : WorkQueue(q) \notin has' => Untouched(q)' /\ db'[q] = 0
    BY <1>0, <1>1 DEF DataInv, NewInv, Untouched
  <2> QED  BY <1>0, <1>1, <2>1, NewAfter
<1>8. MbufInv'
  BY <1>0, <1>1 DEF DataInv, MbufInv
<1>9. RxInv'
  <2>1. Done("rx")' = 0 /\ RingSize["rx"] \in Nat
    BY <1>5, Ranges DEF Queues
  <2> QED  BY <1>1, <1>2, <2>1 DEF RxInv
<1> QED  BY <1>5, <1>6, <1>7, <1>8, <1>9 DEF DataInv

\* destroyTxResources and destroyRxResources, as far as they come.
LEMMA UndoData ==
  ASSUME IInv, NEW t \in Threads, UndoStep(t)
  PROVE  DataInv'
<1>0. CtlInv /\ DataInv /\ CtlType
  BY DEF IInv, CtlInv
<1>a. pc[t] = "undo" /\ UNCHANGED fNotifierRegistered
  BY DEF UndoStep, noteVars
<1> PICK n \in 0 .. Len(UndoOrder(part[t])) : UndoPart(t, n)
  BY DEF UndoStep
<1> DEFINE p == part[t]
           D == Gone(p, n)
<1>b. /\ p \in Parts /\ has' = has \ D
      /\ n < Len(UndoOrder(p)) => UndoOrder(p)[n + 1] \in has
      /\ HasOK(has)
  BY <1>0 DEF CtlType, CtlInv, ObjInv, UndoPart, Gone
<1>c. \A u \in Threads : pc'[u] # "up"
  <2>1. \E f : AfterPart(t, f)
    BY DEF UndoPart
  <2>2. pc' = [pc EXCEPT ![t] = "finish"] \/ pc' = [pc EXCEPT ![t] = "unregister"]
        \/ pc' = [pc EXCEPT ![t] = "undo"]
    BY <1>b, <2>1, AfterPartIs
  <2>3. \A u \in Threads : pc[u] # "up"
    BY <1>0, <1>a DEF CtlInv, ThreadInv, Busy
  <2> QED  BY <1>0, <2>2, <2>3 DEF CtlType
<1>1. CASE p \in {"flow", "global"}
  <2>1. UNCHANGED <<rings, hpc, got>>
    BY <1>1 DEF UndoPart, ringVars, txVars, devVars, rings
  <2>2. D \cap {"SQ", "RQ"} = {}
    BY <1>1, UndoFlow, UndoGlobal DEF FlowObjs, GlobalObjs
  <2>3. \A q \in Queues : WorkQueue(q) \notin has' => WorkQueue(q) \notin has
    BY <1>b, <2>2 DEF WorkQueue, Queues
  <2> QED  BY <1>0, <1>a, <1>c, <2>1, <2>3, RingsQuiet
<1>2. ASSUME NEW r \in Queues, p = r  PROVE DataInv'
  <2> DEFINE gone == WorkQueue(r) \in D
             all == n = Len(UndoOrder(p))
  <2>1. Dismantle(r, gone, all)
    <3>1. CASE r = "tx"
      BY <1>2, <3>1 DEF UndoPart, WorkQueue, Gone
    <3>2. CASE r = "rx"
      BY <1>2, <3>2 DEF UndoPart, WorkQueue, Gone
    <3> QED  BY <3>1, <3>2 DEF Queues
  <2>2. ~fNotifierRegistered /\ hpc = "idle"
    BY <1>0, <1>2, <1>a DEF CtlInv, NoteInv, Queues
  <2>3. ~gone => WorkQueue(r) \in has'
    <3>1. CASE r = "tx"
      BY <1>2, <1>b, <3>1, UndoTx DEF WorkQueue
    <3>2. CASE r = "rx"
      BY <1>2, <1>b, <3>2, UndoRx DEF WorkQueue, HasOK
    <3> QED  BY <3>1, <3>2 DEF Queues
  <2>4. \A q \in Queues : q # r => WorkQueue(q) \notin D
    <3>1. CASE r = "tx"
      BY <1>2, <3>1, UndoTx DEF WorkQueue, Queues, TxObjs
    <3>2. CASE r = "rx"
      BY <1>2, <3>2, UndoRx DEF WorkQueue, Queues, RxObjs
    <3> QED  BY <3>1, <3>2 DEF Queues
  <2> HIDE DEF gone, all, p, D
  <2>5. 0 \in Counters(r)
    <3>1. Wrap[r] \in Nat \ {0}
      BY Ranges
    <3> QED  BY <3>1 DEF Counters
  <2>6. /\ hw' = (IF gone THEN [hw EXCEPT ![r] = 0] ELSE hw)
        /\ db' = (IF gone THEN [db EXCEPT ![r] = 0] ELSE db)
        /\ cqHw' = [cqHw EXCEPT ![r] = 0]
        /\ cqe' = [cqe EXCEPT ![r] = [s \in Slots(r) |-> None]]
        /\ fCqCc' = [fCqCc EXCEPT ![r] = 0]
        /\ fPc' = (IF all THEN [fPc EXCEPT ![r] = 0] ELSE fPc)
        /\ fCc' = (IF all THEN [fCc EXCEPT ![r] = 0] ELSE fCc)
        /\ hpc' = hpc
    BY <2>1 DEF Dismantle
  <2>7. /\ hw' \in [Queues -> Nat] /\ db' \in [Queues -> Nat] /\ cqHw' \in [Queues -> Nat]
        /\ fCqCc' \in [Queues -> Nat] /\ fPc' \in [Queues -> Nat] /\ fCc' \in [Queues -> Nat]
    BY <1>0, <2>6 DEF DataInv, DataType
  <2>8. /\ \A q \in Queues : q # r => /\ hw'[q] = hw[q] /\ db'[q] = db[q] /\ cqHw'[q] = cqHw[q]
                                      /\ fCqCc'[q] = fCqCc[q] /\ fPc'[q] = fPc[q]
                                      /\ fCc'[q] = fCc[q] /\ cqe'[q] = cqe[q]
        /\ hw'[r] \in {0, hw[r]} /\ db'[r] \in {0, db[r]} /\ cqHw'[r] = 0 /\ fCqCc'[r] = 0
        /\ fPc'[r] \in {0, fPc[r]} /\ fCc'[r] \in {0, fCc[r]}
        /\ cqe'[r] = [s \in Slots(r) |-> None]
        /\ gone => hw'[r] = 0 /\ db'[r] = 0
    BY <1>0, <2>6 DEF DataInv, DataType
  <2>9. cqe' \in [Queues -> [Slots("tx") -> Cqes("tx")] \cup [Slots("rx") -> Cqes("rx")]]
    <3>1. [s \in Slots(r) |-> None] \in [Slots("tx") -> Cqes("tx")] \cup [Slots("rx") -> Cqes("rx")]
      BY DEF Cqes, Queues
    <3> QED  BY <1>0, <2>6, <3>1 DEF DataInv, DataType
  <2>10. \A q \in Queues : cqe'[q] \in [Slots(q) -> Cqes(q)]
    <3>1. [s \in Slots(r) |-> None] \in [Slots(r) -> Cqes(r)]
      BY DEF Cqes
    <3> QED  BY <1>0, <2>8, <3>1 DEF DataInv, DataType
  <2>11. /\ fWqeMbuf' = fWqeMbuf \/ fWqeMbuf' = [s \in Slots("tx") |-> None]
         /\ \/ stack' = stack
            \/ /\ stack' = stack \cup ({fWqeMbuf[s] : s \in Slots("tx")} \ {None})
               /\ fWqeMbuf' = [s \in Slots("tx") |-> None]
         /\ rxBuf' = rxBuf \/ rxBuf' = [s \in Slots("rx") |-> None]
    BY <2>1 DEF Dismantle, txVars
  <2>12. /\ fWqeMbuf' \in [Slots("tx") -> Pkts \cup {None}]
         /\ stack' \in SUBSET Pkts
         /\ rxBuf' \in [Slots("rx") -> Counters("rx") \cup {None}]
    BY <1>0, <2>11 DEF DataInv, DataType
  <2>13. \A q \in Queues :
           /\ fPc'[q] \in Counters(q) /\ fCc'[q] \in Counters(q) /\ fCqCc'[q] \in Counters(q)
           /\ db'[q] \in Counters(q) /\ hw'[q] \in Counters(q) /\ cqHw'[q] \in Counters(q)
    BY <1>0, <2>5, <2>8 DEF DataInv, DataType
  <2>14. DataType'
    BY <2>7, <2>9, <2>10, <2>12, <2>13 DEF DataType
  <2>15. NewInv'
    <3>1. ASSUME NEW q \in Queues, WorkQueue(q) \notin has'  PROVE Untouched(q)' /\ db'[q] = 0
      <4>1. CASE q = r
        BY <2>3, <2>8, <3>1, <4>1 DEF Untouched
      <4>2. CASE q # r
        BY <1>0, <1>b, <2>4, <2>8, <3>1, <4>2 DEF DataInv, NewInv, Untouched
      <4> QED  BY <4>1, <4>2
    <3> QED  BY <1>c, <3>1 DEF NewInv
  <2>16. MbufInv'
    <3>1. None \notin stack'
      BY <2>12, RingsAssumption
    <3>2. CASE fWqeMbuf' = [s \in Slots("tx") |-> None]
      BY <3>1, <3>2 DEF MbufInv
    <3>3. CASE fWqeMbuf' = fWqeMbuf /\ stack' = stack
      BY <1>0, <3>3 DEF DataInv, MbufInv
    <3> QED  BY <2>11, <3>2, <3>3
  <2> QED  BY <1>a, <2>2, <2>6, <2>14, <2>15, <2>16, NoNotifier
<1> QED  BY <1>1, <1>2, <1>b DEF Parts, Queues

\* A queue after a step that gives the device more work, or completes or consumes
\* some: d done, g given, the counters and entries that belong to it.
LEMMA RingAfter ==
  ASSUME NEW q \in Queues, NEW cc \in Counters(q), NEW cq \in Counters(q), NEW d \in Nat, NEW g \in Nat,
         fCc'[q] = cc, fCqCc'[q] = cq, d =< g, g =< RingSize[q],
         hw'[q] = Plus(q, cc, d), db'[q] = Plus(q, cc, g), fPc'[q] = Plus(q, cc, g),
         cqHw'[q] = Plus(q, cq, d), Entries(q, cqe'[q], cc, cq, d)
  PROVE  RingInv(q)' /\ Done(q)' = d /\ Given(q)' = g
<1>1. d \in 0 .. Wrap[q] - 1 /\ g \in 0 .. Wrap[q] - 1
  BY Ranges
<1>2. Done(q)' = d /\ Given(q)' = g
  BY <1>1, PlusDist DEF Done, Given
<1> QED  BY <1>2 DEF RingInv

\* A queue before such a step.
LEMMA RingBefore ==
  ASSUME DataInv, fNotifierRegistered, NEW q \in Queues
  PROVE  /\ fCc[q] \in Counters(q) /\ fCqCc[q] \in Counters(q)
         /\ Done(q) \in Nat /\ Given(q) \in Nat /\ Done(q) =< Given(q) /\ Given(q) =< RingSize[q]
         /\ hw[q] = Plus(q, fCc[q], Done(q))
         /\ db[q] = Plus(q, fCc[q], Given(q)) /\ fPc[q] = db[q]
         /\ cqHw[q] = Plus(q, fCqCc[q], Done(q))
         /\ Entries(q, cqe[q], fCc[q], fCqCc[q], Done(q))
         /\ RingSize[q] \in Nat \ {0} /\ Wrap[q] \in Nat \ {0} /\ Wrap[q] >= 2 * RingSize[q]
<1>1. /\ fCc[q] \in Counters(q) /\ fCqCc[q] \in Counters(q)
      /\ hw[q] \in Counters(q) /\ db[q] \in Counters(q)
  BY DEF DataInv, DataType
<1>2. /\ Done(q) \in 0 .. Wrap[q] - 1 /\ hw[q] = Plus(q, fCc[q], Done(q))
      /\ Given(q) \in 0 .. Wrap[q] - 1 /\ db[q] = Plus(q, fCc[q], Given(q))
  BY <1>1, PlusDist DEF Done, Given
<1>3. RingInv(q)
  BY DEF DataInv
<1>4. Done(q) \in Nat /\ Given(q) \in Nat
  BY <1>2, Ranges
<1> QED  BY <1>1, <1>2, <1>3, <1>4, Ranges DEF RingInv

\* Steps of the data path leave the control as it is.
LEMMA CtlSame ==
  ASSUME UNCHANGED ctlVars
  PROVE  UNCHANGED <<fNotifierRegistered, has, pc, at, registered, fEnabled>>
BY DEF ctlVars, flagVars, noteVars, objVars, callVars

\* With the notifier registered, both queues are there and enable is past it.
LEMMA WithNotifier ==
  ASSUME IInv, fNotifierRegistered
  PROVE  /\ DataInv /\ {"SQ", "RQ"} \subseteq has
         /\ \A t \in Threads : pc[t] = "up" => Pos(at[t]) > 15
<1>1. CtlInv /\ DataInv
  BY DEF IInv
<1>2. {"SQ", "RQ"} \subseteq Before("NOTIFY") \cap Objects
  BY UpStepsAre, ObjectsAre, PosIs DEF Before
<1>3. {"SQ", "RQ"} \subseteq has
  BY <1>1, <1>2 DEF CtlInv, NoteInv
<1>4. ASSUME NEW t \in Threads, pc[t] = "up"  PROVE Pos(at[t]) > 15
  BY <1>1, <1>4, BeforeNotify
<1> QED  BY <1>1, <1>3, <1>4

\* Hence NewInv asks nothing of the rings.
LEMMA NewKept ==
  ASSUME IInv, fNotifierRegistered, UNCHANGED ctlVars
  PROVE  NewInv'
<1>1. UNCHANGED <<has, pc, at>>
  BY CtlSame
<1>2. \A t \in Threads : pc[t] = "up" => Pos(at[t]) \in 1 .. 19 /\ Pos(at[t]) > 15
  BY WithNotifier, BeforeNotify DEF IInv
<1>3. \A q \in Queues : WorkQueue(q) \in has
  BY WithNotifier DEF WorkQueue
<1> QED  BY <1>1, <1>2, <1>3 DEF NewInv

\* xmitPacket: one entry more is given to the device.
LEMMA OutputData ==
  ASSUME IInv, Output
  PROVE  DataInv'
<1> DEFINE p == CHOOSE x \in stack : TRUE
           s == Slot("tx", fPc["tx"])
<1>0. UNCHANGED ctlVars /\ fNotifierRegistered /\ "tx" \in Queues /\ "rx" \in Queues
  BY DEF Output, IInv, CtlInv, NoteInv, Queues
<1>1. /\ DataInv /\ UNCHANGED fNotifierRegistered
  BY <1>0, WithNotifier, CtlSame
<1>2. p \in stack
  BY DEF Output
<1>3. /\ HasRoom
      /\ fWqeMbuf' = [fWqeMbuf EXCEPT ![s] = p]
      /\ stack' = stack \ {p}
      /\ fPc' = [fPc EXCEPT !["tx"] = Plus("tx", fPc["tx"], 1)]
      /\ db' = [db EXCEPT !["tx"] = fPc'["tx"]]
      /\ UNCHANGED <<fCc, fCqCc, hw, cqHw, cqe, rxBuf, hpc, got>>
  BY DEF Output, Xmit, devVars
<1> HIDE DEF p
<1> DEFINE c == fCc["tx"]
           g == Given("tx")
           d == Done("tx")
<1>4. /\ c \in Counters("tx") /\ fCqCc["tx"] \in Counters("tx")
      /\ d \in Nat /\ g \in Nat /\ d =< g /\ g =< RingSize["tx"]
      /\ hw["tx"] = Plus("tx", c, d)
      /\ db["tx"] = Plus("tx", c, g) /\ fPc["tx"] = db["tx"]
      /\ cqHw["tx"] = Plus("tx", fCqCc["tx"], d)
      /\ Entries("tx", cqe["tx"], c, fCqCc["tx"], d)
      /\ RingSize["tx"] \in Nat \ {0} /\ Wrap["tx"] \in Nat \ {0} /\ Wrap["tx"] >= 2 * RingSize["tx"]
  BY <1>0, <1>1, RingBefore
<1>5. g < RingSize["tx"]
  BY <1>3, <1>4 DEF HasRoom, Given
<1> HIDE DEF c, g, d
<1>6. Plus("tx", Plus("tx", c, g), 1) = Plus("tx", c, g + 1) /\ Plus("tx", c, g + 1) \in Counters("tx")
  <2>1. g + 1 \in 0 .. Wrap["tx"] /\ g + 1 =< Wrap["tx"] /\ 1 \in Nat
    BY <1>4, <1>5
  <2>2. Plus("tx", Plus("tx", c, g), 1) = Plus("tx", c, g + 1)
    BY <1>0, <1>4, <2>1, PlusPlus
  <2>3. Plus("tx", c, g + 1) \in Counters("tx")
    BY <1>0, <1>4, <2>1, PlusIs
  <2> QED  BY <2>2, <2>3
<1>7. fPc'["tx"] = Plus("tx", c, g + 1) /\ db'["tx"] = Plus("tx", c, g + 1)
      /\ fPc'["rx"] = fPc["rx"] /\ db'["rx"] = db["rx"]
      /\ fPc' \in [Queues -> Nat] /\ db' \in [Queues -> Nat]
  <2>1. Plus("tx", c, g + 1) \in Nat
    BY <1>4, <1>6 DEF Counters
  <2>2. fPc' = [fPc EXCEPT !["tx"] = Plus("tx", c, g + 1)]
    BY <1>3, <1>4, <1>6
  <2>3. fPc'["tx"] = Plus("tx", c, g + 1)
    BY <1>0, <1>1, <2>2 DEF DataInv, DataType
  <2>4. db' = [db EXCEPT !["tx"] = Plus("tx", c, g + 1)]
    BY <1>3, <2>3
  <2> QED  BY <1>0, <1>1, <2>1, <2>2, <2>4 DEF DataInv, DataType
<1>8. RingInv("tx")' /\ RingInv("rx")' /\ Done("rx")' = Done("rx")
  <2>1. RingInv("tx")'
    BY <1>0, <1>3, <1>4, <1>5, <1>7, RingAfter DEF c
  <2>2. RingInv("rx")' /\ Done("rx")' = Done("rx")
    BY <1>0, <1>1, <1>3, <1>7, RingSame DEF DataInv
  <2> QED  BY <2>1, <2>2
<1>9. s \in Slots("tx")
  <2>1. fPc["tx"] \in Counters("tx") /\ Plus("tx", fPc["tx"], 0) = fPc["tx"]
    BY <1>0, <1>1, PlusDist DEF DataInv, DataType
  <2> QED  BY <1>0, <2>1, SlotOfPlus
<1> HIDE DEF s
<1>10. DataType'
  <2>1. fWqeMbuf' \in [Slots("tx") -> Pkts \cup {None}] /\ stack' \in SUBSET Pkts
    BY <1>1, <1>2, <1>3, <1>9 DEF DataInv, DataType
  <2> QED  BY <1>0, <1>1, <1>3, <1>6, <1>7, <2>1 DEF DataInv, DataType, Queues
<1>11. MbufInv'
  <2>1. fWqeMbuf'[s] = p /\ \A r \in Slots("tx") : r # s => fWqeMbuf'[r] = fWqeMbuf[r]
    BY <1>1, <1>3, <1>9 DEF DataInv, DataType
  <2> QED  BY <1>1, <1>2, <1>3, <1>9, <2>1 DEF DataInv, MbufInv
<1>12. RxInv'
  BY <1>1, <1>3, <1>8 DEF DataInv, RxInv
<1>13. NewInv'
  BY <1>0, NewKept
<1> QED  BY <1>8, <1>10, <1>11, <1>12, <1>13 DEF DataInv, Queues

\* The device completes the next entry it has been told of.
LEMMA DeviceData ==
  ASSUME IInv, NEW q \in Queues, DeviceWorks(q)
  PROVE  DataInv'
<1>0. UNCHANGED ctlVars /\ fNotifierRegistered
  BY DEF DeviceWorks, IInv, CtlInv, NoteInv
<1>1. /\ DataInv /\ UNCHANGED fNotifierRegistered
  BY <1>0, WithNotifier, CtlSame
<1> DEFINE c == fCc[q]
           g == Given(q)
           d == Done(q)
           e == [own |-> Owner(q, cqHw[q]), ctr |-> hw[q]]
<1>2. /\ hw[q] # db[q]
      /\ hw' = [hw EXCEPT ![q] = Plus(q, hw[q], 1)]
      /\ cqHw' = [cqHw EXCEPT ![q] = Plus(q, cqHw[q], 1)]
      /\ cqe' = [cqe EXCEPT ![q] = [cqe[q] EXCEPT ![Slot(q, cqHw[q])] = e]]
      /\ rxBuf' = (IF q = "rx" THEN [rxBuf EXCEPT ![Slot(q, hw[q])] = hw[q]] ELSE rxBuf)
      /\ UNCHANGED <<fPc, fCc, fCqCc, db, fWqeMbuf, stack, hpc, got>>
  BY DEF DeviceWorks, DeviceCompletes, txVars
<1>3. /\ c \in Counters(q) /\ fCqCc[q] \in Counters(q)
      /\ d \in Nat /\ g \in Nat /\ d =< g /\ g =< RingSize[q]
      /\ hw[q] = Plus(q, c, d)
      /\ db[q] = Plus(q, c, g) /\ fPc[q] = db[q]
      /\ cqHw[q] = Plus(q, fCqCc[q], d)
      /\ Entries(q, cqe[q], c, fCqCc[q], d)
      /\ RingSize[q] \in Nat \ {0} /\ Wrap[q] \in Nat \ {0} /\ Wrap[q] >= 2 * RingSize[q]
  BY <1>0, <1>1, RingBefore
<1>4. hw[q] \in Counters(q) /\ cqHw[q] \in Counters(q)
      /\ cqe[q] \in [Slots(q) -> Cqes(q)]
  BY <1>1 DEF DataInv, DataType
<1>5. d < g /\ d \in 0 .. RingSize[q] - 1
  BY <1>2, <1>3
<1> HIDE DEF c, g, d
<1>6. /\ Plus(q, hw[q], 1) = Plus(q, c, d + 1)
      /\ Plus(q, cqHw[q], 1) = Plus(q, fCqCc[q], d + 1)
      /\ Plus(q, hw[q], 1) \in Counters(q) /\ Plus(q, cqHw[q], 1) \in Counters(q)
  BY <1>3, <1>4, <1>5, PlusPlus, PlusIs
<1>7. Slot(q, cqHw[q]) \in Slots(q) /\ Slot(q, hw[q]) \in Slots(q)
  BY <1>3, SlotOfPlus
<1>8. e \in Cqes(q)
  <2>1. Owner(q, cqHw[q]) \in 0 .. 1
    <3>1. cqHw[q] \in Nat
      BY <1>3, <1>4 DEF Counters
    <3>2. cqHw[q] \div RingSize[q] \in Nat
      BY <1>3, <3>1, DivRange
    <3> QED  BY <3>2 DEF Owner
  <2> QED  BY <1>4, <2>1 DEF Cqes
<1>9. Entries(q, [cqe[q] EXCEPT ![Slot(q, cqHw[q])] = e], c, fCqCc[q], d + 1)
  <2>1. e = [own |-> Owner(q, Plus(q, fCqCc[q], d)), ctr |-> Plus(q, c, d)]
    BY <1>3
  <2>2. Entries(q, [cqe[q] EXCEPT ![Slot(q, Plus(q, fCqCc[q], d))]
                     = [own |-> Owner(q, Plus(q, fCqCc[q], d)), ctr |-> Plus(q, c, d)]],
                c, fCqCc[q], d + 1)
    BY <1>3, <1>4, <1>5, EntriesWritten
  <2> QED  BY <1>3, <2>1, <2>2
<1>10. [cqe[q] EXCEPT ![Slot(q, cqHw[q])] = e] \in [Slots(q) -> Cqes(q)]
  BY <1>4, <1>8
<1> DEFINE es == [cqe[q] EXCEPT ![Slot(q, cqHw[q])] = e]
<1> HIDE DEF e, es
<1>11. /\ hw' \in [Queues -> Nat] /\ cqHw' \in [Queues -> Nat]
       /\ hw'[q] = Plus(q, c, d + 1) /\ cqHw'[q] = Plus(q, fCqCc[q], d + 1) /\ cqe'[q] = es
       /\ \A r \in Queues : r # q => hw'[r] = hw[r] /\ cqHw'[r] = cqHw[r] /\ cqe'[r] = cqe[r]
       /\ cqe' \in [Queues -> [Slots("tx") -> Cqes("tx")] \cup [Slots("rx") -> Cqes("rx")]]
  <2>1. /\ hw' = [hw EXCEPT ![q] = Plus(q, c, d + 1)]
        /\ cqHw' = [cqHw EXCEPT ![q] = Plus(q, fCqCc[q], d + 1)]
        /\ cqe' = [cqe EXCEPT ![q] = es]
    BY <1>2, <1>6 DEF es
  <2>2. Plus(q, c, d + 1) \in Nat /\ Plus(q, fCqCc[q], d + 1) \in Nat
    BY <1>3, <1>6 DEF Counters
  <2>3. es \in [Slots("tx") -> Cqes("tx")] \cup [Slots("rx") -> Cqes("rx")]
    BY <1>10 DEF Queues, es
  <2> QED  BY <1>1, <2>1, <2>2, <2>3 DEF DataInv, DataType
<1>12. RingInv(q)' /\ Done(q)' = d + 1
  <2>1. d + 1 \in Nat /\ d + 1 =< g
    BY <1>3, <1>5
  <2>2. /\ fCc'[q] = c /\ fCqCc'[q] = fCqCc[q]
        /\ db'[q] = Plus(q, c, g) /\ fPc'[q] = Plus(q, c, g)
    BY <1>2, <1>3 DEF c
  <2>3. Entries(q, cqe'[q], c, fCqCc[q], d + 1)
    BY <1>9, <1>11 DEF es
  <2> QED  BY <1>3, <1>11, <2>1, <2>2, <2>3, RingAfter
<1>13. ASSUME NEW r \in Queues, r # q  PROVE RingInv(r)' /\ Done(r)' = Done(r)
  BY <1>0, <1>1, <1>2, <1>11, <1>13, RingSame DEF DataInv
<1>14. DataType'
  <2>1. rxBuf' \in [Slots("rx") -> Counters("rx") \cup {None}]
    BY <1>1, <1>2, <1>4, <1>7 DEF DataInv, DataType
  <2>2. \A r \in Queues : /\ hw'[r] \in Counters(r) /\ cqHw'[r] \in Counters(r)
                          /\ cqe'[r] \in [Slots(r) -> Cqes(r)]
    BY <1>1, <1>6, <1>10, <1>11 DEF DataInv, DataType, es
  <2> QED  BY <1>1, <1>2, <1>11, <2>1, <2>2 DEF DataInv, DataType
<1>15. MbufInv'
  BY <1>1, <1>2 DEF DataInv, MbufInv
<1>16. RxInv'
  <2>1. CASE q = "tx"
    <3>1. "rx" \in Queues /\ "rx" # q
      BY <2>1 DEF Queues
    <3>2. Done("rx")' = Done("rx")
      BY <1>13, <3>1
    <3> QED  BY <1>1, <1>2, <2>1, <3>2 DEF DataInv, RxInv
  <2>2. CASE q = "rx"
    <3>1. Done("rx")' = d + 1 /\ d = Done("rx") /\ c = fCc["rx"] /\ fCc'["rx"] = c
      BY <1>2, <1>12, <2>2 DEF c, d
    <3>2. rxBuf' = [rxBuf EXCEPT ![Slot("rx", Plus("rx", c, d))] = Plus("rx", c, d)]
      BY <1>2, <1>3, <2>2
    <3>3. ASSUME NEW i \in 0 .. RingSize["rx"] - 1, i < d + 1
          PROVE  rxBuf'[Slot("rx", Plus("rx", c, i))] = Plus("rx", c, i)
      <4>1. Slot("rx", Plus("rx", c, i)) \in Slots("rx") /\ Slot("rx", Plus("rx", c, d)) \in Slots("rx")
        BY <1>3, <1>5, <2>2, SlotOfPlus
      <4>2. CASE i = d
        BY <1>1, <3>2, <4>1, <4>2 DEF DataInv, DataType
      <4>3. CASE i # d
        <5>1. Slot("rx", Plus("rx", c, i)) # Slot("rx", Plus("rx", c, d))
          BY <1>3, <1>5, <2>2, <4>3, SlotsDiffer
        <5>2. i < d
          BY <1>3, <2>2, <3>3, <4>3
        <5>3. rxBuf[Slot("rx", Plus("rx", c, i))] = Plus("rx", c, i)
          BY <1>0, <1>1, <3>1, <5>2 DEF DataInv, RxInv
        <5> QED  BY <1>1, <3>2, <4>1, <5>1, <5>3 DEF DataInv, DataType
      <4> QED  BY <4>2, <4>3
    <3> QED  BY <1>1, <1>2, <1>3, <3>1, <3>3 DEF DataInv, RxInv
  <2> QED  BY <2>1, <2>2 DEF Queues
<1>17. NewInv'
  BY <1>0, NewKept
<1>18. \A r \in Queues : RingInv(r)'
  BY <1>12, <1>13
<1> QED  BY <1>14, <1>15, <1>16, <1>17, <1>18 DEF DataInv

\* When the loop of a polling function goes on, the entry is of the oldest work.
LEMMA ReadyEntry ==
  ASSUME DataInv, fNotifierRegistered, NEW q \in Queues
  PROVE  /\ CqeReady(q) => Done(q) > 0
         /\ Done(q) > 0 => cqe[q][Slot(q, fCqCc[q])] = [own |-> Owner(q, fCqCc[q]), ctr |-> fCc[q]]
<1> DEFINE es == cqe[q]
           k == fCqCc[q]
           c == fCc[q]
           d == Done(q)
<1>1. /\ c \in Counters(q) /\ k \in Counters(q) /\ d \in Nat /\ Entries(q, es, c, k, d)
  BY RingBefore
<1>2. CqeReady(q) <=> es[Slot(q, k)] # None /\ es[Slot(q, k)].own = Owner(q, k)
  BY DEF CqeReady
<1> HIDE DEF es, k, c, d
<1>3. /\ d > 0 => es[Slot(q, k)] = [own |-> Owner(q, k), ctr |-> c]
      /\ es[Slot(q, k)] # None /\ es[Slot(q, k)].own = Owner(q, k) => d > 0
  BY <1>1, EntriesReady
<1>4. /\ CqeReady(q) => d > 0
      /\ d > 0 => es[Slot(q, k)] = [own |-> Owner(q, k), ctr |-> c]
  BY <1>2, <1>3
<1> QED  BY <1>4 DEF es, k, c, d

\* pollTxCq: a completion is of the oldest entry, and one slot is released.
LEMMA PollTxIs ==
  ASSUME IInv, PollTx, UNCHANGED ctlVars
  PROVE  /\ fNotifierRegistered /\ Done("tx") > 0
         /\ Slot("tx", fCc["tx"]) \in Slots("tx")
         /\ stack' = stack \cup ({fWqeMbuf[Slot("tx", fCc["tx"])]} \ {None})
         /\ fWqeMbuf' = [s \in Slots("tx") |-> IF s = Slot("tx", fCc["tx"]) THEN None ELSE fWqeMbuf[s]]
         /\ fCc' = [fCc EXCEPT !["tx"] = Plus("tx", fCc["tx"], 1)]
         /\ fCqCc' = [fCqCc EXCEPT !["tx"] = Plus("tx", fCqCc["tx"], 1)]
         /\ UNCHANGED <<fPc, db, hw, cqHw, cqe, rxBuf, hpc, got>>
<1>0. fNotifierRegistered /\ "tx" \in Queues
  BY DEF PollTx, IInv, CtlInv, NoteInv, Queues
<1>1. DataInv
  BY DEF IInv
<1> DEFINE c == fCc["tx"]
           g == Given("tx")
           d == Done("tx")
           entry == cqe["tx"][Slot("tx", fCqCc["tx"])]
<1>2. /\ c \in Counters("tx") /\ fCqCc["tx"] \in Counters("tx")
      /\ d \in Nat /\ g \in Nat /\ d =< g /\ g =< RingSize["tx"]
      /\ fPc["tx"] = db["tx"] /\ db["tx"] = Plus("tx", c, g)
      /\ Entries("tx", cqe["tx"], c, fCqCc["tx"], d)
      /\ RingSize["tx"] \in Nat \ {0} /\ Wrap["tx"] \in Nat \ {0} /\ Wrap["tx"] >= 2 * RingSize["tx"]
  BY <1>0, <1>1, RingBefore
<1>3. CqeReady("tx")
  BY DEF PollTx
<1>4. d > 0 /\ entry.ctr = c
  <2>1. /\ Done("tx") > 0
        /\ cqe["tx"][Slot("tx", fCqCc["tx"])] = [own |-> Owner("tx", fCqCc["tx"]), ctr |-> fCc["tx"]]
    BY <1>0, <1>1, <1>3, ReadyEntry
  <2> QED  BY <2>1
<1>5. TxReleased(entry.ctr) = 1
  <2>1. Dist("tx", c, c) = 0
    BY <1>0, <1>2, DistIs DEF Counters
  <2>2. Dist("tx", fPc["tx"], c) = g
    BY <1>2 DEF Given
  <2>3. fPc["tx"] # c
    BY <1>2, <1>4, <2>1, <2>2
  <2> QED  BY <1>2, <1>4, <2>1, <2>2, <2>3 DEF TxReleased
<1>6. {Slot("tx", c + i) : i \in 0 .. TxReleased(entry.ctr) - 1} = {Slot("tx", c)}
  <2>1. c + 0 = c /\ 0 .. 1 - 1 = {0}
    BY <1>2 DEF Counters
  <2>2. {Slot("tx", c + i) : i \in {0}} = {Slot("tx", c)}
    BY <2>1
  <2> QED  BY <1>5, <2>1, <2>2
<1>7. Slot("tx", c) \in Slots("tx")
  <2>1. Plus("tx", c, 0) = c
    BY <1>0, <1>2, PlusDist
  <2> QED  BY <1>0, <1>2, <2>1, SlotOfPlus
<1> DEFINE released == {Slot("tx", c + i) : i \in 0 .. TxReleased(entry.ctr) - 1}
<1>8. /\ stack' = stack \cup ({fWqeMbuf[s] : s \in released} \ {None})
      /\ fWqeMbuf' = [s \in Slots("tx") |-> IF s \in released THEN None ELSE fWqeMbuf[s]]
      /\ fCc' = [fCc EXCEPT !["tx"] = Plus("tx", c, TxReleased(entry.ctr))]
      /\ fCqCc' = [fCqCc EXCEPT !["tx"] = Plus("tx", fCqCc["tx"], 1)]
      /\ UNCHANGED <<fPc, db, hw, cqHw, cqe, rxBuf, hpc, got>>
  BY DEF PollTx, devVars
<1>9. released = {Slot("tx", c)}
  BY <1>6
<1> HIDE DEF released, entry, d, g
<1>10. stack' = stack \cup ({fWqeMbuf[Slot("tx", c)]} \ {None})
  BY <1>8, <1>9
<1>11. fWqeMbuf' = [s \in Slots("tx") |-> IF s = Slot("tx", c) THEN None ELSE fWqeMbuf[s]]
  BY <1>8, <1>9
<1> QED  BY <1>0, <1>4, <1>5, <1>7, <1>8, <1>10, <1>11 DEF d

\* Releasing the oldest slot keeps the invariant of the rings.
LEMMA PollTxData ==
  ASSUME IInv, PollTx, UNCHANGED ctlVars
  PROVE  DataInv'
<1>0. UNCHANGED fNotifierRegistered /\ fNotifierRegistered /\ "tx" \in Queues /\ "rx" \in Queues
      /\ DataInv
  BY CtlSame, PollTxIs DEF Queues, IInv
<1> DEFINE c == fCc["tx"]
           g == Given("tx")
           d == Done("tx")
           z == Slot("tx", c)
<1>1. /\ d > 0 /\ z \in Slots("tx")
      /\ stack' = stack \cup ({fWqeMbuf[z]} \ {None})
      /\ fWqeMbuf' = [s \in Slots("tx") |-> IF s = z THEN None ELSE fWqeMbuf[s]]
      /\ fCc' = [fCc EXCEPT !["tx"] = Plus("tx", c, 1)]
      /\ fCqCc' = [fCqCc EXCEPT !["tx"] = Plus("tx", fCqCc["tx"], 1)]
      /\ UNCHANGED <<fPc, db, hw, cqHw, cqe, rxBuf, hpc, got>>
  BY PollTxIs
<1>2. /\ c \in Counters("tx") /\ fCqCc["tx"] \in Counters("tx")
      /\ d \in Nat /\ g \in Nat /\ d =< g /\ g =< RingSize["tx"]
      /\ hw["tx"] = Plus("tx", c, d)
      /\ db["tx"] = Plus("tx", c, g) /\ fPc["tx"] = db["tx"]
      /\ cqHw["tx"] = Plus("tx", fCqCc["tx"], d)
      /\ Entries("tx", cqe["tx"], c, fCqCc["tx"], d)
      /\ RingSize["tx"] \in Nat \ {0} /\ Wrap["tx"] \in Nat \ {0} /\ Wrap["tx"] >= 2 * RingSize["tx"]
  BY <1>0, RingBefore
<1> HIDE DEF c, g, d, z
<1> DEFINE c1 == Plus("tx", c, 1)
           k1 == Plus("tx", fCqCc["tx"], 1)
<1>3. /\ c1 \in Counters("tx") /\ k1 \in Counters("tx")
      /\ Plus("tx", c1, d - 1) = Plus("tx", c, d)
      /\ Plus("tx", c1, g - 1) = Plus("tx", c, g)
      /\ Plus("tx", k1, d - 1) = Plus("tx", fCqCc["tx"], d)
  <2>1. /\ 1 \in 0 .. Wrap["tx"] /\ 1 \in Nat /\ d - 1 \in Nat /\ g - 1 \in Nat
        /\ 1 + (d - 1) = d /\ 1 + (g - 1) = g /\ d =< Wrap["tx"] /\ g =< Wrap["tx"]
    BY <1>1, <1>2
  <2>2. c1 \in Counters("tx") /\ k1 \in Counters("tx")
    BY <1>0, <1>2, <2>1, PlusIs
  <2>3. Plus("tx", c1, d - 1) = Plus("tx", c, 1 + (d - 1))
    BY <1>0, <1>2, <2>1, PlusPlus
  <2>4. Plus("tx", c1, g - 1) = Plus("tx", c, 1 + (g - 1))
    BY <1>0, <1>2, <2>1, PlusPlus
  <2>5. Plus("tx", k1, d - 1) = Plus("tx", fCqCc["tx"], 1 + (d - 1))
    BY <1>0, <1>2, <2>1, PlusPlus
  <2> QED  BY <2>1, <2>2, <2>3, <2>4, <2>5
<1>4. Entries("tx", cqe["tx"], c1, k1, d - 1)
  <2>1. d \in 1 .. RingSize["tx"]
    BY <1>1, <1>2
  <2> QED  BY <1>0, <1>2, <2>1, EntriesConsumed
<1> HIDE DEF c1, k1
<1>5. /\ fCc'["tx"] = c1 /\ fCqCc'["tx"] = k1
      /\ fCc'["rx"] = fCc["rx"] /\ fCqCc'["rx"] = fCqCc["rx"]
      /\ fCc' \in [Queues -> Nat] /\ fCqCc' \in [Queues -> Nat]
  <2>1. c1 \in Nat /\ k1 \in Nat
    BY <1>2, <1>3 DEF Counters
  <2>2. fCc' = [fCc EXCEPT !["tx"] = c1] /\ fCqCc' = [fCqCc EXCEPT !["tx"] = k1]
    BY <1>1 DEF c1, k1
  <2> QED  BY <1>0, <2>1, <2>2 DEF DataInv, DataType
<1>6. RingInv("tx")'
  <2>1. d - 1 \in Nat /\ g - 1 \in Nat /\ d - 1 =< g - 1 /\ g - 1 =< RingSize["tx"]
    BY <1>1, <1>2
  <2>2. /\ hw'["tx"] = Plus("tx", c1, d - 1) /\ db'["tx"] = Plus("tx", c1, g - 1)
        /\ fPc'["tx"] = Plus("tx", c1, g - 1) /\ cqHw'["tx"] = Plus("tx", k1, d - 1)
        /\ cqe'["tx"] = cqe["tx"]
    BY <1>1, <1>2, <1>3
  <2> QED  BY <1>0, <1>3, <1>4, <1>5, <2>1, <2>2, RingAfter
<1>7. RingInv("rx")' /\ Done("rx")' = Done("rx")
  BY <1>0, <1>1, <1>5, RingSame DEF DataInv
<1>8. DataType'
  <2>1. /\ fWqeMbuf' \in [Slots("tx") -> Pkts \cup {None}] /\ stack' \in SUBSET Pkts
    BY <1>0, <1>1 DEF DataInv, DataType
  <2> QED  BY <1>0, <1>1, <1>3, <1>5, <2>1 DEF DataInv, DataType, Queues
<1>9. MbufInv'
  <2>1. /\ fWqeMbuf'[z] = None
        /\ \A s \in Slots("tx") : s # z => fWqeMbuf'[s] = fWqeMbuf[s]
    BY <1>1
  <2>2. None \notin stack'
    BY <1>8, RingsAssumption DEF DataType
  <2>3. \A s \in Slots("tx") : fWqeMbuf'[s] \notin stack'
    BY <1>0, <1>1, <2>1, <2>2 DEF DataInv, MbufInv
  <2> QED  BY <1>0, <1>1, <2>1, <2>3 DEF DataInv, MbufInv
<1>10. RxInv'
  BY <1>0, <1>1, <1>5, <1>7 DEF DataInv, RxInv
<1>11. NewInv'
  BY <1>0, NewKept
<1> QED  BY <1>6, <1>7, <1>8, <1>9, <1>10, <1>11 DEF DataInv, Queues

\* handleRxCqe copies the bytes of the oldest receive.
LEMMA PollRxData ==
  ASSUME IInv, PollRx, UNCHANGED ctlVars
  PROVE  DataInv'
<1>0. /\ UNCHANGED <<fNotifierRegistered, has, pc, at>> /\ fNotifierRegistered
      /\ "rx" \in Queues /\ DataInv
  BY CtlSame DEF PollRx, IInv, CtlInv, NoteInv, Queues
<1>1. UNCHANGED rings /\ hpc' = "rxpost"
  BY DEF PollRx, rings, txVars, devVars
<1> DEFINE c == fCc["rx"]
           d == Done("rx")
           entry == cqe["rx"][Slot("rx", fCqCc["rx"])]
<1>2. /\ c \in Counters("rx") /\ fCqCc["rx"] \in Counters("rx") /\ d \in Nat
      /\ Entries("rx", cqe["rx"], c, fCqCc["rx"], d)
      /\ RingSize["rx"] \in Nat \ {0}
  BY <1>0, RingBefore
<1>3. CqeReady("rx")
  BY DEF PollRx
<1>4. /\ d > 0
      /\ entry = [own |-> Owner("rx", fCqCc["rx"]), ctr |-> c]
  <2>1. /\ Done("rx") > 0
        /\ cqe["rx"][Slot("rx", fCqCc["rx"])] = [own |-> Owner("rx", fCqCc["rx"]), ctr |-> fCc["rx"]]
    BY <1>0, <1>3, ReadyEntry
  <2> QED  BY <2>1
<1>5. got' = c
  <2>1. 0 \in 0 .. RingSize["rx"] - 1 /\ 0 < d
    BY <1>2, <1>4
  <2>2. rxBuf[Slot("rx", Plus("rx", c, 0))] = Plus("rx", c, 0)
    BY <1>0, <2>1 DEF DataInv, RxInv
  <2>3. Plus("rx", c, 0) = c
    BY <1>0, <1>2, PlusDist
  <2> QED  BY <1>4, <2>2, <2>3 DEF PollRx
<1> USE DEF rings
<1>6. DataType' /\ MbufInv'
  BY <1>0, <1>1 DEF DataInv, DataType, MbufInv
<1>7. NewInv'
  BY <1>0, NewKept
<1>8. \A q \in Queues : RingInv(q)'
  BY <1>0, <1>1, RingSame DEF DataInv
<1>9. RxInv'
  <2>1. Done("rx")' = d /\ fCc'["rx"] = c
    BY <1>1 DEF Done
  <2> QED  BY <1>0, <1>1, <1>4, <1>5, <2>1 DEF DataInv, RxInv
<1> QED  BY <1>6, <1>7, <1>8, <1>9 DEF DataInv

\* The receive is handed up and its slot goes back to the device.
LEMMA PostRxData ==
  ASSUME IInv, PostRx, UNCHANGED ctlVars
  PROVE  DataInv'
<1>0. /\ UNCHANGED fNotifierRegistered /\ fNotifierRegistered
      /\ "rx" \in Queues /\ "tx" \in Queues /\ DataInv
  BY CtlSame DEF PostRx, IInv, CtlInv, NoteInv, Queues
<1> DEFINE c == fCc["rx"]
           g == Given("rx")
           d == Done("rx")
           k == fCqCc["rx"]
<1>1. /\ c \in Counters("rx") /\ k \in Counters("rx")
      /\ d \in Nat /\ g \in Nat /\ d =< g /\ g =< RingSize["rx"]
      /\ hw["rx"] = Plus("rx", c, d)
      /\ db["rx"] = Plus("rx", c, g) /\ fPc["rx"] = db["rx"]
      /\ cqHw["rx"] = Plus("rx", k, d)
      /\ Entries("rx", cqe["rx"], c, k, d)
      /\ RingSize["rx"] \in Nat \ {0} /\ Wrap["rx"] \in Nat \ {0} /\ Wrap["rx"] >= 2 * RingSize["rx"]
  BY <1>0, RingBefore
<1>2. d > 0
  BY <1>0 DEF PostRx, DataInv, RxInv
<1>3. cqe["rx"][Slot("rx", k)] = [own |-> Owner("rx", k), ctr |-> c]
  BY <1>0, <1>1, <1>2, EntriesReady
<1>4. /\ fPc' = [fPc EXCEPT !["rx"] = Plus("rx", fPc["rx"], 1)]
      /\ db' = [db EXCEPT !["rx"] = fPc'["rx"]]
      /\ fCc' = [fCc EXCEPT !["rx"] = Plus("rx", c, 1)]
      /\ fCqCc' = [fCqCc EXCEPT !["rx"] = Plus("rx", k, 1)]
      /\ hpc' = "rx"
      /\ UNCHANGED <<fWqeMbuf, stack, hw, cqHw, cqe, rxBuf>>
  BY <1>3 DEF PostRx, txVars, devVars
<1> HIDE DEF c, g, d, k
<1> DEFINE c1 == Plus("rx", c, 1)
           k1 == Plus("rx", k, 1)
<1>5. /\ c1 \in Counters("rx") /\ k1 \in Counters("rx")
      /\ Plus("rx", c1, d - 1) = Plus("rx", c, d)
      /\ Plus("rx", c1, g) = Plus("rx", Plus("rx", c, g), 1)
      /\ Plus("rx", k1, d - 1) = Plus("rx", k, d)
      /\ Plus("rx", c1, g) \in Counters("rx")
  <2>1. /\ 1 \in 0 .. Wrap["rx"] /\ 1 \in Nat /\ d - 1 \in Nat /\ g \in 0 .. Wrap["rx"]
        /\ 1 + (d - 1) = d /\ d =< Wrap["rx"] /\ 1 + g =< Wrap["rx"] /\ g + 1 =< Wrap["rx"]
        /\ g + 1 = 1 + g
    BY <1>1, <1>2
  <2>2. c1 \in Counters("rx") /\ k1 \in Counters("rx")
    BY <1>0, <1>1, <2>1, PlusIs
  <2>3. Plus("rx", c1, d - 1) = Plus("rx", c, 1 + (d - 1))
    BY <1>0, <1>1, <2>1, PlusPlus
  <2>4. Plus("rx", c1, g) = Plus("rx", c, 1 + g)
    BY <1>0, <1>1, <2>1, PlusPlus
  <2>5. Plus("rx", Plus("rx", c, g), 1) = Plus("rx", c, g + 1)
    BY <1>0, <1>1, <2>1, PlusPlus
  <2>6. Plus("rx", k1, d - 1) = Plus("rx", k, 1 + (d - 1))
    BY <1>0, <1>1, <2>1, PlusPlus
  <2>7. Plus("rx", c1, g) \in Counters("rx")
    BY <1>0, <2>1, <2>2, PlusIs
  <2> QED  BY <2>1, <2>2, <2>3, <2>4, <2>5, <2>6, <2>7
<1>6. Entries("rx", cqe["rx"], c1, k1, d - 1)
  <2>1. d \in 1 .. RingSize["rx"]
    BY <1>1, <1>2
  <2> QED  BY <1>0, <1>1, <2>1, EntriesConsumed
<1> HIDE DEF c1, k1
<1>7. /\ fCc'["rx"] = c1 /\ fCqCc'["rx"] = k1
      /\ fPc'["rx"] = Plus("rx", c1, g) /\ db'["rx"] = Plus("rx", c1, g)
      /\ fCc'["tx"] = fCc["tx"] /\ fCqCc'["tx"] = fCqCc["tx"]
      /\ fPc'["tx"] = fPc["tx"] /\ db'["tx"] = db["tx"]
      /\ fCc' \in [Queues -> Nat] /\ fCqCc' \in [Queues -> Nat]
      /\ fPc' \in [Queues -> Nat] /\ db' \in [Queues -> Nat]
  <2>1. c1 \in Nat /\ k1 \in Nat /\ Plus("rx", c1, g) \in Nat
    BY <1>1, <1>5 DEF Counters
  <2>2. fCc' = [fCc EXCEPT !["rx"] = c1] /\ fCqCc' = [fCqCc EXCEPT !["rx"] = k1]
        /\ fPc' = [fPc EXCEPT !["rx"] = Plus("rx", c1, g)]
    BY <1>1, <1>4, <1>5 DEF c1, k1
  <2>3. fPc'["rx"] = Plus("rx", c1, g)
    BY <1>0, <2>2 DEF DataInv, DataType
  <2>4. db' = [db EXCEPT !["rx"] = Plus("rx", c1, g)]
    BY <1>4, <2>3
  <2> QED  BY <1>0, <2>1, <2>2, <2>4 DEF DataInv, DataType
<1>8. RingInv("rx")' /\ Done("rx")' = d - 1
  <2>1. d - 1 \in Nat /\ d - 1 =< g
    BY <1>1, <1>2
  <2>2. /\ hw'["rx"] = Plus("rx", c1, d - 1) /\ cqHw'["rx"] = Plus("rx", k1, d - 1)
        /\ cqe'["rx"] = cqe["rx"]
    BY <1>1, <1>4, <1>5
  <2> QED  BY <1>0, <1>1, <1>5, <1>6, <1>7, <2>1, <2>2, RingAfter
<1>9. RingInv("tx")'
  BY <1>0, <1>4, <1>7, RingSame DEF DataInv
<1>10. DataType'
  BY <1>0, <1>4, <1>5, <1>7 DEF DataInv, DataType, Queues
<1>11. MbufInv'
  BY <1>0, <1>4 DEF DataInv, MbufInv
<1>12. RxInv'
  <2>1. ASSUME NEW i \in 0 .. RingSize["rx"] - 1, i < d - 1
        PROVE  rxBuf'[Slot("rx", Plus("rx", c1, i))] = Plus("rx", c1, i)
    <3>1. /\ i + 1 \in 0 .. RingSize["rx"] - 1 /\ i + 1 < d /\ i \in Nat /\ 1 \in Nat
          /\ 1 + i =< Wrap["rx"] /\ 1 + i = i + 1
      BY <1>1, <2>1
    <3>2. rxBuf[Slot("rx", Plus("rx", c, i + 1))] = Plus("rx", c, i + 1)
      BY <1>0, <3>1 DEF DataInv, RxInv, c, d
    <3>3. Plus("rx", c1, i) = Plus("rx", c, 1 + i)
      BY <1>0, <1>1, <3>1, PlusPlus DEF c1
    <3> QED  BY <1>4, <3>1, <3>2, <3>3
  <2> QED  BY <1>4, <1>7, <1>8, <2>1 DEF RxInv
<1>13. NewInv'
  BY <1>0, NewKept
<1> QED  BY <1>8, <1>9, <1>10, <1>11, <1>12, <1>13 DEF DataInv, Queues

\* Every step keeps the rings as the invariant says.
LEMMA DataNext == IInv /\ [Next]_vars => DataInv'
<1> SUFFICES ASSUME IInv, [Next]_vars PROVE DataInv'
  OBVIOUS
<1>0. Term \in Threads
  BY DEF Threads
<1>1. CASE UNCHANGED vars
  <2>1. UNCHANGED <<rings, hpc, got, fNotifierRegistered, has, pc, at>>
    BY <1>1, CtlSame DEF vars, ringVars, rings, txVars, devVars
  <2> QED  BY <2>1, RingsQuiet DEF IInv
<1>2. CASE \E ok \in BOOLEAN : Start(ok)
  BY <1>0, <1>2, QuietData
<1>3. ASSUME NEW t \in Threads, Enable(t) \/ Disable(t) \/ Body(t)  PROVE DataInv'
  <2>1. CASE Enable(t) \/ Disable(t) \/ Unregister(t) \/ Sync(t) \/ Finish(t) \/ Enabled(t) \/ Report(t)
    BY <2>1, QuietData
  <2>2. CASE Up(t)
    <3>1. pc[t] = "up" /\ (UpLocal(t) \/ UpNotify(t) \/ UpCreate(t) \/ UpReady(t))
      BY <2>2 DEF Up
    <3> QED  BY <3>1, UpLocalData, UpNotifyData, UpCreateData, UpReadyData
  <2>3. CASE UndoStep(t)
    BY <2>3, UndoData
  <2> QED  BY <1>3, <2>1, <2>2, <2>3 DEF Body
<1>4. CASE Stop \/ Free \/ Release \/ FirmwareAnswersLate \/ TakePortEvent \/ ReportPort
  BY <1>0, <1>4, QuietData
<1>5. CASE Output
  BY <1>5, OutputData
<1>6. ASSUME NEW q \in Queues, DeviceWorks(q)  PROVE DataInv'
  BY <1>6, DeviceData
<1>7. CASE (PollTx \/ PollRx \/ PostRx) /\ UNCHANGED ctlVars
  BY <1>7, PollTxData, PollRxData, PostRxData
<1>8. ASSUME NEW q \in Queues,
             TakeEvent(q) \/ (UNCHANGED ctlVars /\ (PollEnds(q) \/ ArmAfterPoll(q)))
      PROVE  DataInv'
  BY <1>0, <1>8, QuietData
<1>9. CASE Handler
  BY <1>4, <1>7, <1>8, <1>9 DEF Handler
<1> QED  BY <1>1, <1>2, <1>3, <1>4, <1>5, <1>6, <1>9 DEF Next

\* The whole invariant holds in every reachable state.
LEMMA IInvAlways == Spec => []IInv
<1>1. Init => IInv
  BY CtlInit, DataInit DEF IInv
<1>2. IInv /\ [Next]_vars => IInv'
  BY CtlNext, DataNext DEF IInv
<1> QED  BY <1>1, <1>2, PTL DEF Spec

(***************************************************************************)
(* handleRxCqe hands receives up in the order of arrival, each once, and   *)
(* the bytes it copies are of the receive its completion is about: however *)
(* the counters wrap and whatever laps the CQ has made, the device has not *)
(* been given the slot again before the copy.                              *)
(***************************************************************************)
THEOREM ReceivesInOrder == Spec => []RxInOrder
<1>1. IInv => RxInOrder
  <2> SUFFICES ASSUME IInv, hpc = "rxpost"
               PROVE  /\ cqe["rx"][Slot("rx", fCqCc["rx"])].ctr = fCc["rx"]
                      /\ got = fCc["rx"]
    BY DEF RxInOrder
  <2>1. DataInv /\ fNotifierRegistered /\ "rx" \in Queues
    BY DEF IInv, CtlInv, NoteInv, Queues
  <2>2. Done("rx") > 0 /\ got = fCc["rx"]
    BY <2>1 DEF DataInv, RxInv
  <2>3. cqe["rx"][Slot("rx", fCqCc["rx"])] = [own |-> Owner("rx", fCqCc["rx"]), ctr |-> fCc["rx"]]
    BY <2>1, <2>2, ReadyEntry
  <2> QED  BY <2>2, <2>3
<1> QED  BY <1>1, IInvAlways, PTL

(***************************************************************************)
(* Refinement: the send path is the queue of TxQueue.                      *)
(***************************************************************************)

\* The packets in n slots from counter c on, when slots hold m.
Flight(n, c, m) == [i \in 1 .. n |-> m[Slot("tx", Plus("tx", c, i - 1))]]

\* The refinement mapping reads slots of counters that have not been wrapped.
LEMMA FlightIs ==
  ASSUME NEW n \in Nat, NEW c \in Counters("tx"), NEW m
  PROVE  [i \in 1 .. n |-> m[Slot("tx", c + i - 1)]] = Flight(n, c, m)
<1>1. ASSUME NEW i \in 1 .. n  PROVE Slot("tx", c + i - 1) = Slot("tx", Plus("tx", c, i - 1))
  <2>1. i - 1 \in Nat /\ "tx" \in Queues
    BY DEF Queues
  <2>2. Slot("tx", Plus("tx", c, i - 1)) = (c + (i - 1)) % RingSize["tx"]
    BY <2>1, SlotOfPlus
  <2> QED  BY <2>2 DEF Slot
<1> QED  BY <1>1 DEF Flight

\* A queue of no slots is empty.
LEMMA FlightEmpty ==
  ASSUME NEW c, NEW m  PROVE Flight(0, c, m) = <<>>
<1>1. 1 .. 0 = {}
  OBVIOUS
<1> QED  BY <1>1 DEF Flight

\* It is a sequence of what the slots hold.
LEMMA FlightSeq ==
  ASSUME NEW n \in Nat, NEW c \in Counters("tx"), NEW S, NEW m \in [Slots("tx") -> S]
  PROVE  /\ Flight(n, c, m) \in [1 .. n -> S]
         /\ Flight(n, c, m) \in Seq(S) /\ Len(Flight(n, c, m)) = n
<1>1. ASSUME NEW i \in 1 .. n  PROVE m[Slot("tx", Plus("tx", c, i - 1))] \in S
  <2>1. i - 1 \in Nat /\ "tx" \in Queues
    BY DEF Queues
  <2>2. Slot("tx", Plus("tx", c, i - 1)) \in Slots("tx")
    BY <2>1, SlotOfPlus
  <2> QED  BY <2>2
<1>2. Flight(n, c, m) \in [1 .. n -> S]
  BY <1>1 DEF Flight
<1> DEFINE f == Flight(n, c, m)
<1> HIDE DEF f
<1>3. f \in [1 .. n -> S] => f \in Seq(S) /\ Len(f) = n
  OBVIOUS
<1> QED  BY <1>2, <1>3 DEF f

\* The oldest slot released, the others follow.
LEMMA FlightTail ==
  ASSUME NEW n \in 1 .. RingSize["tx"], NEW c \in Counters("tx"), NEW S,
         NEW m \in [Slots("tx") -> S], NEW w \in [Slots("tx") -> S],
         \A s \in Slots("tx") : s # Slot("tx", c) => w[s] = m[s]
  PROVE  Flight(n - 1, Plus("tx", c, 1), w) = SubSeq(Flight(n, c, m), 2, n)
<1> DEFINE c1 == Plus("tx", c, 1)
           f == Flight(n, c, m)
           g == Flight(n - 1, c1, w)
<1>0. /\ "tx" \in Queues /\ RingSize["tx"] \in Nat /\ Wrap["tx"] \in Nat \ {0}
      /\ Wrap["tx"] >= 2 * RingSize["tx"] /\ n \in Nat /\ n - 1 \in Nat
  BY Ranges DEF Queues
<1>1. c1 \in Counters("tx")
  <2>1. 1 \in 0 .. Wrap["tx"]
    BY <1>0
  <2> QED  BY <1>0, <2>1, PlusIs
<1>2. f \in Seq(S) /\ Len(f) = n
  BY <1>0, FlightSeq
<1> HIDE DEF c1
<1>3. g \in Seq(S) /\ Len(g) = n - 1
  BY <1>0, <1>1, FlightSeq
<1>4. ASSUME NEW i \in 1 .. n - 1  PROVE g[i] = f[i + 1]
  <2>1. /\ i \in Nat /\ i - 1 \in Nat /\ 1 \in Nat /\ 1 + (i - 1) = i /\ 1 + (i - 1) =< Wrap["tx"]
        /\ 0 \in 0 .. RingSize["tx"] - 1 /\ i \in 0 .. RingSize["tx"] - 1 /\ i # 0
        /\ (i + 1) - 1 = i /\ i + 1 \in 1 .. n
    BY <1>0
  <2>2. Plus("tx", c1, i - 1) = Plus("tx", c, i)
    <3>1. Plus("tx", Plus("tx", c, 1), i - 1) = Plus("tx", c, 1 + (i - 1))
      BY <1>0, <2>1, PlusPlus
    <3> QED  BY <2>1, <3>1 DEF c1
  <2>3. Plus("tx", c, 0) = c
    BY <1>0, PlusDist
  <2>4. Slot("tx", Plus("tx", c, i)) # Slot("tx", Plus("tx", c, 0))
    BY <1>0, <2>1, SlotsDiffer
  <2>5. Slot("tx", Plus("tx", c, i)) \in Slots("tx")
    BY <1>0, <2>1, SlotOfPlus
  <2>6. w[Slot("tx", Plus("tx", c, i))] = m[Slot("tx", Plus("tx", c, i))]
    BY <2>3, <2>4, <2>5
  <2>7. g[i] = w[Slot("tx", Plus("tx", c1, i - 1))]
    BY DEF Flight
  <2>8. f[i + 1] = m[Slot("tx", Plus("tx", c, (i + 1) - 1))]
    BY <2>1 DEF Flight
  <2> QED  BY <2>1, <2>2, <2>6, <2>7, <2>8
<1> HIDE DEF f, g
<1>5. g = SubSeq(f, 2, n)
  BY <1>0, <1>2, <1>3, <1>4
<1> QED  BY <1>5 DEF f, g, c1

\* With the notifier registered the queue holds the packets given to the device,
\* of which the completed ones are sent.
LEMMA TxView ==
  ASSUME IInv, fNotifierRegistered
  PROVE  /\ "SQ" \in has /\ DataInv
         /\ InFlight = Flight(Given("tx"), fCc["tx"], fWqeMbuf)
         /\ InFlight \in Seq(Pkts \cup {None}) /\ Len(InFlight) = Given("tx")
<1>1. "SQ" \in has /\ DataInv /\ "tx" \in Queues
  BY WithNotifier DEF Queues
<1>2. /\ fCc["tx"] \in Counters("tx") /\ Given("tx") \in Nat /\ fPc["tx"] = db["tx"]
      /\ fWqeMbuf \in [Slots("tx") -> Pkts \cup {None}]
  BY <1>1, RingBefore DEF DataInv, DataType
<1>3. InFlight = [i \in 1 .. Given("tx") |-> fWqeMbuf[Slot("tx", fCc["tx"] + i - 1)]]
  BY <1>1, <1>2 DEF InFlight, Given
<1>4. InFlight = Flight(Given("tx"), fCc["tx"], fWqeMbuf)
  BY <1>2, <1>3, FlightIs
<1> QED  BY <1>1, <1>2, <1>4, FlightSeq

\* The same behind a step of the data path, by the counters it leaves.
LEMMA TxViewAfter ==
  ASSUME "SQ" \in has', NEW c \in Counters("tx"), NEW g \in 0 .. Wrap["tx"] - 1,
         fCc'["tx"] = c, fPc'["tx"] = Plus("tx", c, g)
  PROVE  InFlight' = Flight(g, c, fWqeMbuf')
<1>1. Dist("tx", fPc'["tx"], fCc'["tx"]) = g
  BY PlusDist DEF Queues
<1>2. g \in Nat
  <2>1. Wrap["tx"] \in Nat
    BY Ranges DEF Queues
  <2> QED  BY <2>1
<1>3. InFlight' = [i \in 1 .. g |-> fWqeMbuf'[Slot("tx", c + i - 1)]]
  BY <1>1 DEF InFlight
<1> QED  BY <1>2, <1>3, FlightIs

\* outputPacket accepts a packet that is not in the queue.
LEMMA OutputTx ==
  ASSUME IInv, Output
  PROVE  TxQ!Next
<1> DEFINE p == CHOOSE x \in stack : TRUE
           c == fCc["tx"]
           g == Given("tx")
           S == Pkts \cup {None}
<1>0. UNCHANGED ctlVars /\ fNotifierRegistered /\ "tx" \in Queues
  BY DEF Output, IInv, CtlInv, NoteInv, Queues
<1>1. /\ "SQ" \in has /\ "SQ" \in has' /\ DataInv
      /\ InFlight = Flight(g, c, fWqeMbuf) /\ Len(InFlight) = g
  BY <1>0, TxView, CtlSame
<1>2. p \in stack
  BY DEF Output
<1>3. /\ HasRoom
      /\ fWqeMbuf' = [fWqeMbuf EXCEPT ![Slot("tx", fPc["tx"])] = p]
      /\ fPc' = [fPc EXCEPT !["tx"] = Plus("tx", fPc["tx"], 1)]
      /\ UNCHANGED <<fCc, hw>>
  BY DEF Output, Xmit, devVars
<1> HIDE DEF p
<1>4. /\ c \in Counters("tx") /\ g \in Nat /\ g =< RingSize["tx"]
      /\ db["tx"] = Plus("tx", c, g) /\ fPc["tx"] = db["tx"]
      /\ RingSize["tx"] \in Nat \ {0} /\ Wrap["tx"] \in Nat \ {0} /\ Wrap["tx"] >= 2 * RingSize["tx"]
  BY <1>0, <1>1, RingBefore
<1>5. g < RingSize["tx"]
  BY <1>3, <1>4 DEF HasRoom, Given
<1>6. p \in Pkts /\ p \in S /\ fWqeMbuf \in [Slots("tx") -> S]
  BY <1>1, <1>2 DEF DataInv, DataType
<1> HIDE DEF c, g, S
<1>7. fPc'["tx"] = Plus("tx", c, g + 1) /\ g + 1 \in 0 .. Wrap["tx"] - 1 /\ fCc'["tx"] = c
  <2>1. g + 1 \in 0 .. Wrap["tx"] - 1 /\ g + 1 =< Wrap["tx"] /\ 1 \in Nat
    BY <1>4, <1>5
  <2>2. Plus("tx", Plus("tx", c, g), 1) = Plus("tx", c, g + 1)
    BY <1>0, <1>4, <2>1, PlusPlus
  <2>3. fPc'["tx"] = Plus("tx", fPc["tx"], 1)
    BY <1>0, <1>1, <1>3 DEF DataInv, DataType
  <2> QED  BY <1>3, <1>4, <2>1, <2>2, <2>3 DEF c
<1>8. InFlight' = Flight(g + 1, c, fWqeMbuf')
  BY <1>1, <1>4, <1>7, TxViewAfter
<1>9. InFlight' = Append(InFlight, p)
  <2>1. fWqeMbuf' = [fWqeMbuf EXCEPT ![Slot("tx", Plus("tx", c, g))] = p]
    BY <1>3, <1>4
  <2>2. Slot("tx", Plus("tx", c, g)) \in Slots("tx")
    BY <1>0, <1>4, SlotOfPlus
  <2>3. /\ fWqeMbuf' \in [Slots("tx") -> S] /\ fWqeMbuf'[Slot("tx", Plus("tx", c, g))] = p
        /\ \A s \in Slots("tx") : s # Slot("tx", Plus("tx", c, g)) => fWqeMbuf'[s] = fWqeMbuf[s]
    BY <1>6, <2>1, <2>2
  <2> DEFINE a == Flight(g, c, fWqeMbuf)
             b == Flight(g + 1, c, fWqeMbuf')
  <2>4. /\ a \in Seq(S) /\ Len(a) = g
        /\ b \in Seq(S) /\ Len(b) = g + 1
        /\ \A i \in 1 .. g : b[i] = a[i]
        /\ b[g + 1] = fWqeMbuf'[Slot("tx", Plus("tx", c, g))]
    <3>1. g \in 0 .. RingSize["tx"] - 1 /\ c \in Counters("tx") /\ g \in Nat /\ g + 1 \in Nat
      BY <1>4, <1>5
    <3>2. a \in Seq(S) /\ Len(a) = g
      BY <1>6, <3>1, FlightSeq
    <3>3. b \in Seq(S) /\ Len(b) = g + 1
      BY <2>3, <3>1, FlightSeq
    <3>4. \A s \in Slots("tx") : s # Slot("tx", Plus("tx", c, g)) => fWqeMbuf'[s] = fWqeMbuf[s]
      BY <2>3
    <3>6. b[g + 1] = fWqeMbuf'[Slot("tx", Plus("tx", c, g))]
      <4>1. (g + 1) - 1 = g /\ g + 1 \in 1 .. g + 1
        BY <3>1
      <4> QED  BY <4>1 DEF Flight
    <3>7. ASSUME NEW i \in 1 .. g  PROVE b[i] = a[i]
      <4> DEFINE z == Slot("tx", Plus("tx", c, i - 1))
      <4>1. /\ i - 1 \in 0 .. RingSize["tx"] - 1 /\ i - 1 # g /\ i - 1 \in Nat
            /\ i \in 1 .. g + 1
        BY <1>4, <3>1
      <4>2. z # Slot("tx", Plus("tx", c, g)) /\ z \in Slots("tx")
        BY <1>0, <3>1, <4>1, SlotsDiffer, SlotOfPlus
      <4>3. fWqeMbuf'[z] = fWqeMbuf[z]
        BY <3>4, <4>2
      <4>4. b[i] = fWqeMbuf'[z] /\ a[i] = fWqeMbuf[z]
        BY <4>1 DEF Flight
      <4> QED  BY <4>3, <4>4
    <3> QED  BY <3>2, <3>3, <3>6, <3>7
  <2> HIDE DEF a, b
  <2>5. b = Append(a, p)
    BY <1>4, <1>6, <2>3, <2>4
  <2> QED  BY <1>1, <1>8, <2>5 DEF a, b
<1>10. \A i \in 1 .. Len(InFlight) : InFlight[i] # p
  <2> SUFFICES ASSUME NEW i \in 1 .. g  PROVE InFlight[i] # p
    BY <1>1
  <2>1. InFlight[i] = fWqeMbuf[Slot("tx", Plus("tx", c, i - 1))]
    BY <1>1 DEF Flight
  <2>2. i - 1 \in Nat
    BY <1>4
  <2>3. Slot("tx", Plus("tx", c, i - 1)) \in Slots("tx")
    BY <1>0, <1>4, <2>2, SlotOfPlus
  <2> QED  BY <1>1, <1>2, <2>1, <2>3 DEF DataInv, MbufInv
<1>11. Len(InFlight) < RingSize["tx"]
  BY <1>1, <1>5
<1>12. TxQ!Accept(p)
  <2>1. Dist("tx", hw["tx"], fCc["tx"])' = Dist("tx", hw["tx"], fCc["tx"])
    BY <1>3
  <2> QED  BY <1>1, <1>9, <1>10, <1>11, <2>1 DEF TxQ!Accept
<1> QED  BY <1>6, <1>12 DEF TxQ!Next

\* The device sends the oldest packet it has not sent.
LEMMA DeviceTx ==
  ASSUME IInv, DeviceWorks("tx")
  PROVE  TxQ!Next
<1> DEFINE c == fCc["tx"]
           g == Given("tx")
           d == Done("tx")
<1>0. UNCHANGED ctlVars /\ fNotifierRegistered /\ "tx" \in Queues
  BY DEF DeviceWorks, IInv, CtlInv, NoteInv, Queues
<1>1. /\ "SQ" \in has /\ "SQ" \in has' /\ DataInv /\ Len(InFlight) = g
  BY <1>0, TxView, CtlSame
<1>2. /\ hw["tx"] # db["tx"]
      /\ hw' = [hw EXCEPT !["tx"] = Plus("tx", hw["tx"], 1)]
      /\ UNCHANGED <<fPc, fCc, fWqeMbuf>>
  BY DEF DeviceWorks, DeviceCompletes, txVars
<1>3. /\ c \in Counters("tx") /\ d \in Nat /\ g \in Nat /\ d =< g /\ g =< RingSize["tx"]
      /\ hw["tx"] = Plus("tx", c, d) /\ db["tx"] = Plus("tx", c, g)
      /\ RingSize["tx"] \in Nat \ {0} /\ Wrap["tx"] \in Nat \ {0} /\ Wrap["tx"] >= 2 * RingSize["tx"]
  BY <1>0, <1>1, RingBefore
<1>4. hw'["tx"] = Plus("tx", hw["tx"], 1)
  BY <1>0, <1>1, <1>2 DEF DataInv, DataType
<1>5. d = Dist("tx", hw["tx"], c)
  BY DEF Done
<1>6. UNCHANGED InFlight
  BY <1>0, <1>1, <1>2 DEF InFlight
<1>a. fCc'["tx"] = c
  BY <1>2
<1> HIDE DEF c, g, d
<1>7. d < g
  BY <1>2, <1>3
<1>8. Dist("tx", hw'["tx"], c) = d + 1
  <2>1. d + 1 \in 0 .. Wrap["tx"] - 1 /\ d + 1 =< Wrap["tx"] /\ 1 \in Nat
    BY <1>3, <1>7
  <2>2. Plus("tx", Plus("tx", c, d), 1) = Plus("tx", c, d + 1)
    BY <1>0, <1>3, <2>1, PlusPlus
  <2>3. Dist("tx", Plus("tx", c, d + 1), c) = d + 1
    BY <1>0, <1>3, <2>1, PlusDist
  <2> QED  BY <1>3, <1>4, <2>2, <2>3
<1>9. TxQ!Transmit
  <2>1. (IF "SQ" \in has THEN Dist("tx", hw["tx"], fCc["tx"]) ELSE 0) = d
    BY <1>1, <1>5 DEF c
  <2>2. (IF "SQ" \in has' THEN Dist("tx", hw'["tx"], fCc'["tx"]) ELSE 0) = d + 1
    BY <1>1, <1>8, <1>a
  <2> QED  BY <1>1, <1>6, <1>7, <2>1, <2>2 DEF TxQ!Transmit
<1> QED  BY <1>9 DEF TxQ!Next

\* pollTxCq gives the oldest packet back, one that was sent.
LEMMA PollTxTx ==
  ASSUME IInv, PollTx, UNCHANGED ctlVars
  PROVE  TxQ!Next
<1> DEFINE c == fCc["tx"]
           g == Given("tx")
           d == Done("tx")
           S == Pkts \cup {None}
<1>0. /\ fNotifierRegistered /\ d > 0 /\ "tx" \in Queues
      /\ fWqeMbuf' = [s \in Slots("tx") |-> IF s = Slot("tx", c) THEN None ELSE fWqeMbuf[s]]
      /\ fCc' = [fCc EXCEPT !["tx"] = Plus("tx", c, 1)]
      /\ UNCHANGED <<fPc, hw>>
  BY PollTxIs DEF Queues
<1>1. /\ "SQ" \in has /\ "SQ" \in has' /\ DataInv
      /\ InFlight = Flight(g, c, fWqeMbuf) /\ Len(InFlight) = g
  BY <1>0, TxView, CtlSame
<1>2. /\ c \in Counters("tx") /\ d \in Nat /\ g \in Nat /\ d =< g /\ g =< RingSize["tx"]
      /\ hw["tx"] = Plus("tx", c, d) /\ db["tx"] = Plus("tx", c, g) /\ fPc["tx"] = db["tx"]
      /\ RingSize["tx"] \in Nat \ {0} /\ Wrap["tx"] \in Nat \ {0} /\ Wrap["tx"] >= 2 * RingSize["tx"]
  BY <1>0, <1>1, RingBefore
<1>3. /\ fWqeMbuf \in [Slots("tx") -> S] /\ fWqeMbuf' \in [Slots("tx") -> S]
      /\ \A s \in Slots("tx") : s # Slot("tx", c) => fWqeMbuf'[s] = fWqeMbuf[s]
  BY <1>0, <1>1 DEF DataInv, DataType
<1>4. fCc'["tx"] = Plus("tx", c, 1)
  BY <1>0, <1>1 DEF DataInv, DataType
<1>5. d = Dist("tx", hw["tx"], fCc["tx"])
  BY DEF Done
<1> HIDE DEF c, g, d, S
<1> DEFINE c1 == Plus("tx", c, 1)
<1>6. /\ c1 \in Counters("tx")
      /\ Plus("tx", c1, d - 1) = hw["tx"] /\ Plus("tx", c1, g - 1) = fPc["tx"]
      /\ d - 1 \in 0 .. Wrap["tx"] - 1 /\ g - 1 \in 0 .. Wrap["tx"] - 1 /\ g \in 1 .. RingSize["tx"]
  <2>1. /\ 1 \in 0 .. Wrap["tx"] /\ 1 \in Nat /\ d - 1 \in Nat /\ g - 1 \in Nat
        /\ 1 + (d - 1) = d /\ 1 + (g - 1) = g /\ d =< Wrap["tx"] /\ g =< Wrap["tx"]
        /\ d - 1 \in 0 .. Wrap["tx"] - 1 /\ g - 1 \in 0 .. Wrap["tx"] - 1 /\ g \in 1 .. RingSize["tx"]
    BY <1>0, <1>2
  <2>2. c1 \in Counters("tx")
    BY <1>0, <1>2, <2>1, PlusIs
  <2>3. Plus("tx", c1, d - 1) = Plus("tx", c, 1 + (d - 1))
    BY <1>0, <1>2, <2>1, PlusPlus
  <2>4. Plus("tx", c1, g - 1) = Plus("tx", c, 1 + (g - 1))
    BY <1>0, <1>2, <2>1, PlusPlus
  <2> QED  BY <1>2, <2>1, <2>2, <2>3, <2>4
<1> HIDE DEF c1
<1>7. Dist("tx", hw["tx"], c1) = d - 1
  BY <1>0, <1>6, PlusDist
<1>8. InFlight' = Flight(g - 1, c1, fWqeMbuf')
  <2>1. fCc'["tx"] = c1 /\ fPc'["tx"] = Plus("tx", c1, g - 1)
    BY <1>0, <1>4, <1>6 DEF c1
  <2> QED  BY <1>1, <1>6, <2>1, TxViewAfter
<1>9. InFlight' = SubSeq(InFlight, 2, g)
  <2>1. Flight(g - 1, Plus("tx", c, 1), fWqeMbuf') = SubSeq(Flight(g, c, fWqeMbuf), 2, g)
    BY <1>2, <1>3, <1>6, FlightTail, ZenonT(30)
  <2> QED  BY <1>1, <1>8, <2>1 DEF c1
<1>10. TxQ!GiveBack(1)
  <2>1. (IF "SQ" \in has THEN Dist("tx", hw["tx"], fCc["tx"]) ELSE 0) = d
    BY <1>1, <1>5
  <2>2. (IF "SQ" \in has' THEN Dist("tx", hw'["tx"], fCc'["tx"]) ELSE 0) = d - 1
    BY <1>0, <1>1, <1>4, <1>7 DEF c1
  <2>3. 1 + 1 = 2
    OBVIOUS
  <2> QED  BY <1>1, <1>9, <2>1, <2>2, <2>3 DEF TxQ!GiveBack
<1>11. 1 \in 1 .. (IF "SQ" \in has THEN Dist("tx", hw["tx"], fCc["tx"]) ELSE 0)
  BY <1>0, <1>1, <1>2, <1>5
<1> QED  BY <1>10, <1>11 DEF TxQ!Next

\* A step that leaves the send ring alone leaves the queue alone.
LEMMA TxSame ==
  ASSUME "SQ" \in has' <=> "SQ" \in has, fPc'["tx"] = fPc["tx"], fCc'["tx"] = fCc["tx"],
         hw'["tx"] = hw["tx"], fWqeMbuf' = fWqeMbuf
  PROVE  UNCHANGED TxQ!vars
BY DEF TxQ!vars, InFlight

\* A step behind which there is no send queue, or a new one, tears the queue down.
LEMMA TxEmpty ==
  ASSUME "SQ" \notin has' \/ (fPc'["tx"] = 0 /\ fCc'["tx"] = 0 /\ hw'["tx"] = 0)
  PROVE  TxQ!Next
<1>1. CASE "SQ" \notin has'
  BY <1>1 DEF TxQ!Next, TxQ!TearDown, InFlight
<1>2. CASE "SQ" \in has' /\ fPc'["tx"] = 0 /\ fCc'["tx"] = 0 /\ hw'["tx"] = 0
  <2>1. Dist("tx", 0, 0) = 0
    <3>1. "tx" \in Queues /\ Wrap["tx"] \in Nat \ {0}
      BY Ranges DEF Queues
    <3>2. 0 \in Counters("tx") /\ 0 - 0 = 0 /\ 0 >= 0
      BY <3>1 DEF Counters
    <3> QED  BY <3>1, <3>2, DistIs
  <2>2. InFlight' = <<>>
    <3>1. 1 .. 0 = {}
      OBVIOUS
    <3> QED  BY <1>2, <2>1, <3>1 DEF InFlight
  <2>3. (IF "SQ" \in has THEN Dist("tx", hw["tx"], fCc["tx"]) ELSE 0)' = 0
    BY <1>2, <2>1
  <2> QED  BY <2>2, <2>3 DEF TxQ!Next, TxQ!TearDown
<1> QED  BY <1>1, <1>2

\* Steps of enable.
LEMMA UpTx ==
  ASSUME IInv, NEW t \in Threads, Up(t)
  PROVE  TxQ!Next \/ UNCHANGED TxQ!vars
<1>0. pc[t] = "up" /\ CtlInv /\ DataInv
  BY DEF Up, IInv
<1>1. CASE UpLocal(t)
  <2>1. at[t] \in {"TXPOOL", "BFREG", "RXPOOL"} /\ UNCHANGED has /\ RingsOf(at[t])
    BY <1>1 DEF UpLocal, LocalSteps
  <2>2. CASE at[t] = "TXPOOL"
    <3>1. "SQ" \notin has
      BY <1>0, <2>2, BeforeNotify, PosIs
    <3> QED  BY <2>1, <3>1, TxEmpty
  <2>3. CASE at[t] = "BFREG"
    <3>1. UNCHANGED <<fPc, fCc, hw, fWqeMbuf>>
      BY <2>1, <2>3 DEF RingsOf, ringVars, txVars, devVars
    <3> QED  BY <2>1, <3>1, TxSame
  <2>4. CASE at[t] = "RXPOOL"
    <3>1. /\ fPc' = [fPc EXCEPT !["rx"] = 0] /\ fCc' = [fCc EXCEPT !["rx"] = 0]
          /\ UNCHANGED <<hw, fWqeMbuf>>
      BY <2>1, <2>4 DEF RingsOf, ResetRing, devVars
    <3>2. fPc'["tx"] = fPc["tx"] /\ fCc'["tx"] = fCc["tx"]
      BY <1>0, <3>1 DEF DataInv, DataType, Queues
    <3> QED  BY <2>1, <3>1, <3>2, TxSame
  <2> QED  BY <2>1, <2>2, <2>3, <2>4
<1>2. CASE UpNotify(t)
  BY <1>2, TxSame DEF UpNotify, objVars, txVars, devVars
<1>3. CASE UpCreate(t)
  <2>1. at[t] \notin {"TXPOOL", "RXPOOL"}
    BY <1>3, ObjectsAre DEF UpCreate
  <2>2. UNCHANGED <<fPc, fCc, hw, fWqeMbuf>> /\ (has' = has \/ has' = has \cup {at[t]})
    BY <1>3, <2>1 DEF UpCreate, RingsOf, NewCq, ringVars, txVars, devVars
  <2>3. CASE at[t] = "SQ"
    <3>1. fPc["tx"] = 0 /\ fCc["tx"] = 0 /\ hw["tx"] = 0
      <4>1. Pos(at[t]) = 7 /\ 7 =< 15 /\ 7 - 1 >= 4
        BY <2>3, PosIs
      <4> QED  BY <1>0, <4>1 DEF DataInv, NewInv, NewAt, Untouched
    <3> QED  BY <2>2, <3>1, TxEmpty
  <2>4. CASE at[t] # "SQ"
    BY <2>2, <2>4, TxSame
  <2> QED  BY <2>3, <2>4
<1>4. CASE UpReady(t)
  <2>1. UNCHANGED has
    BY <1>4 DEF UpReady
  <2>2. \/ UNCHANGED <<fPc, fCc, hw, fWqeMbuf>>
        \/ fPc' = [fPc EXCEPT !["rx"] = RingSize["rx"]] /\ UNCHANGED <<fCc, hw, fWqeMbuf>>
    BY <1>4 DEF UpReady, PostAllRx, ringVars, txVars, devVars
  <2>3. fPc'["tx"] = fPc["tx"]
    BY <1>0, <2>2 DEF DataInv, DataType, Queues
  <2> QED  BY <2>1, <2>2, <2>3, TxSame
<1> QED  BY <1>1, <1>2, <1>3, <1>4 DEF Up

\* The undoing of a part: only with the send queue do its packets go, all of them.
LEMMA UndoTxQueue ==
  ASSUME IInv, NEW t \in Threads, UndoStep(t)
  PROVE  TxQ!Next \/ UNCHANGED TxQ!vars
<1>0. DataInv /\ part[t] \in Parts
  BY DEF IInv, CtlInv, CtlType
<1> PICK n \in 0 .. Len(UndoOrder(part[t])) : UndoPart(t, n)
  BY DEF UndoStep
<1> DEFINE D == Gone(part[t], n)
<1>1. has' = has \ D
  BY DEF UndoPart, Gone
<1>2. CASE "SQ" \in D
  BY <1>1, <1>2, TxEmpty
<1>3. CASE "SQ" \notin D
  <2>1. fPc'["tx"] = fPc["tx"] /\ fCc'["tx"] = fCc["tx"] /\ hw'["tx"] = hw["tx"] /\ fWqeMbuf' = fWqeMbuf
    <3>1. CASE part[t] \in {"flow", "global"}
      BY <3>1 DEF UndoPart, ringVars, txVars, devVars
    <3>2. CASE part[t] = "tx"
      <4>1. n \in 0 .. 3 /\ Len(UndoOrder("tx")) = 3 /\ ~(n >= 1)
        BY <1>3, <3>2, UndoTx
      <4>2. n # Len(UndoOrder("tx"))
        BY <4>1
      <4>3. Dismantle("tx", "SQ" \in D, n = Len(UndoOrder("tx")))
        BY <3>2 DEF UndoPart, Gone
      <4> HIDE DEF D
      <4> QED  BY <1>3, <4>2, <4>3 DEF Dismantle, txVars
    <3>3. CASE part[t] = "rx"
      <4> DEFINE gone == "RQ" \in D
                 all == n = Len(UndoOrder("rx"))
      <4>1. Dismantle("rx", gone, all)
        BY <3>3 DEF UndoPart, Gone
      <4> HIDE DEF gone, all, D
      <4>2. /\ hw' = (IF gone THEN [hw EXCEPT !["rx"] = 0] ELSE hw)
            /\ fPc' = (IF all THEN [fPc EXCEPT !["rx"] = 0] ELSE fPc)
            /\ fCc' = (IF all THEN [fCc EXCEPT !["rx"] = 0] ELSE fCc)
            /\ fWqeMbuf' = fWqeMbuf
        BY <4>1 DEF Dismantle, txVars
      <4> QED  BY <1>0, <4>2 DEF DataInv, DataType, Queues
    <3> QED  BY <1>0, <3>1, <3>2, <3>3 DEF Parts
  <2> QED  BY <1>1, <1>3, <2>1, TxSame
<1> QED  BY <1>2, <1>3

\* The rest of the world, the entries and ends of calls, and the handler's steps
\* on the receive side.
LEMMA QuietTx ==
  ASSUME IInv, NEW t \in Threads,
         \/ \E ok \in BOOLEAN : Start(ok)
         \/ Enable(t) \/ Disable(t) \/ Unregister(t) \/ Sync(t)
         \/ Finish(t) \/ Enabled(t) \/ Report(t)
         \/ Stop \/ Free \/ Release \/ FirmwareAnswersLate \/ TakePortEvent \/ ReportPort
         \/ \E q \in Queues : TakeEvent(q) \/ (UNCHANGED ctlVars /\ (PollEnds(q) \/ ArmAfterPoll(q)))
         \/ UNCHANGED ctlVars /\ (PollRx \/ PostRx)
         \/ DeviceWorks("rx")
  PROVE  UNCHANGED TxQ!vars
<1>0. DataInv
  BY DEF IInv
<1> SUFFICES /\ UNCHANGED <<has, fWqeMbuf>>
             /\ fPc'["tx"] = fPc["tx"] /\ fCc'["tx"] = fCc["tx"] /\ hw'["tx"] = hw["tx"]
  BY TxSame
<1> USE DEF ringVars, txVars, devVars
<1>1. CASE \E ok \in BOOLEAN : Start(ok)
  BY <1>1 DEF Start
<1>2. CASE Enable(t) \/ Disable(t)
  BY <1>2 DEF Enable, Disable, objVars
<1>3. CASE Unregister(t) \/ Sync(t)
  BY <1>3 DEF Unregister, Sync, objVars
<1>4. CASE Finish(t) \/ Enabled(t) \/ Report(t)
  BY <1>4 DEF Finish, Enabled, Report, objVars
<1>5. CASE Stop \/ Free \/ Release \/ FirmwareAnswersLate
  BY <1>5 DEF Stop, Free, Release, ReleaseUnregister, ReleaseSync, ReleaseFree, FirmwareAnswersLate, objVars
<1>6. CASE TakePortEvent \/ ReportPort
  BY <1>6, CtlSame DEF TakePortEvent, ReportPort
<1>7. ASSUME NEW q \in Queues, TakeEvent(q) \/ (UNCHANGED ctlVars /\ (PollEnds(q) \/ ArmAfterPoll(q)))
      PROVE  UNCHANGED <<has, fWqeMbuf, fPc, fCc, hw>>
  BY <1>7, CtlSame DEF TakeEvent, PollEnds, ArmAfterPoll
<1>8. CASE UNCHANGED ctlVars /\ (PollRx \/ PostRx)
  BY <1>0, <1>8, CtlSame DEF PollRx, PostRx, DataInv, DataType, Queues
<1>9. CASE DeviceWorks("rx")
  <2>1. UNCHANGED <<ctlVars, fPc, fCc, fWqeMbuf>> /\ hw' = [hw EXCEPT !["rx"] = Plus("rx", hw["rx"], 1)]
    BY <1>9 DEF DeviceWorks, DeviceCompletes
  <2> QED  BY <1>0, <2>1, CtlSame DEF DataInv, DataType, Queues
<1> QED  BY <1>1, <1>2, <1>3, <1>4, <1>5, <1>6, <1>7, <1>8, <1>9

\* Every step is a step of the queue, or none.
LEMMA TxStep == IInv /\ [Next]_vars => [TxQ!Next]_TxQ!vars
<1> SUFFICES ASSUME IInv, [Next]_vars PROVE TxQ!Next \/ UNCHANGED TxQ!vars
  OBVIOUS
<1>0. Term \in Threads
  BY DEF Threads
<1>1. CASE UNCHANGED vars
  <2>1. UNCHANGED <<fPc, fCc, hw, fWqeMbuf, has>>
    BY <1>1, CtlSame DEF vars, ringVars, txVars, devVars
  <2> QED  BY <2>1, TxSame
<1>2. CASE \E ok \in BOOLEAN : Start(ok)
  BY <1>0, <1>2, QuietTx
<1>3. ASSUME NEW t \in Threads, Enable(t) \/ Disable(t) \/ Body(t)
      PROVE  TxQ!Next \/ UNCHANGED TxQ!vars
  <2>1. CASE Enable(t) \/ Disable(t) \/ Unregister(t) \/ Sync(t) \/ Finish(t) \/ Enabled(t) \/ Report(t)
    BY <2>1, QuietTx
  <2> QED  BY <1>3, <2>1, UpTx, UndoTxQueue DEF Body
<1>4. CASE Stop \/ Free \/ Release \/ FirmwareAnswersLate \/ TakePortEvent \/ ReportPort
  BY <1>0, <1>4, QuietTx
<1>5. CASE Output
  BY <1>5, OutputTx
<1>6. ASSUME NEW q \in Queues, DeviceWorks(q)  PROVE TxQ!Next \/ UNCHANGED TxQ!vars
  <2>1. CASE q = "tx"
    BY <1>6, <2>1, DeviceTx
  <2>2. CASE q = "rx"
    <3>1. DeviceWorks("rx")
      BY <1>6, <2>2
    <3> QED  BY <1>0, <3>1, QuietTx
  <2> QED  BY <2>1, <2>2 DEF Queues
<1>7. CASE PollTx /\ UNCHANGED ctlVars
  BY <1>7, PollTxTx
<1>8. CASE (PollRx \/ PostRx) /\ UNCHANGED ctlVars
  BY <1>0, <1>8, QuietTx
<1>9. ASSUME NEW q \in Queues,
             TakeEvent(q) \/ (UNCHANGED ctlVars /\ (PollEnds(q) \/ ArmAfterPoll(q)))
      PROVE  UNCHANGED TxQ!vars
  BY <1>0, <1>9, QuietTx
<1>10. CASE Handler
  BY <1>4, <1>7, <1>8, <1>9, <1>10 DEF Handler
<1> QED  BY <1>1, <1>2, <1>3, <1>4, <1>5, <1>6, <1>10 DEF Next

(***************************************************************************)
(* The send path, xmitPacket, the device, pollTxCq and the teardown paths, *)
(* implements the bounded queue of TxQueue: in order, each packet back to  *)
(* the stack once, and none before it was sent unless the queue is torn    *)
(* down.  The counters may wrap at any multiple of two laps.               *)
(***************************************************************************)
THEOREM SendPathIsQueue == Spec => ImplementsTxQueue
<1>1. Init => TxQ!Init
  BY DEF Init, TxQ!Init, InFlight
<1> QED  BY <1>1, TxStep, IInvAlways, PTL DEF Spec, ImplementsTxQueue, TxQ!Spec


(***************************************************************************)
(* Type correctness.                                                       *)
(***************************************************************************)

\* What the invariant leaves out of the types.
RestType ==
  /\ traffic \in Traffics
  /\ armed \in SUBSET Queues
  /\ fresh \in SUBSET Queues
  /\ events \in SUBSET Queues
  /\ hpc \in HandlerPoints
  /\ got \in Counters("rx") \cup {None}

\* Arming and raising stay among the queues.
LEMMA ArmKeepsQueues ==
  ASSUME armed \in SUBSET Queues, fresh \in SUBSET Queues, events \in SUBSET Queues,
         NEW qs \in SUBSET Queues, Arm(qs)
  PROVE  armed' \in SUBSET Queues /\ fresh' \in SUBSET Queues /\ events' \in SUBSET Queues
BY DEF Arm, RaiseFor

\* A CQ's doorbell record changes with the CQ's end and the arming behind a poll.
LEMMA CiSteps ==
  ASSUME [Next]_vars
  PROVE  \/ UNCHANGED ci
         \/ \E q \in Queues : ci' = [ci EXCEPT ![q] = 0]
         \/ \E q \in Queues : ci' = [ci EXCEPT ![q] = fCqCc[q]]
<1>q. "tx" \in Queues /\ "rx" \in Queues
  BY DEF Queues
<1>1. CASE UNCHANGED vars
  BY <1>1 DEF vars, ringVars, cqVars
<1>2. ASSUME NEW ok \in BOOLEAN, Start(ok)  PROVE UNCHANGED ci
  BY <1>2 DEF Start, ringVars, cqVars
<1>3. ASSUME NEW t \in Threads, Enable(t) \/ Disable(t) \/ Body(t), ~UndoStep(t)
      PROVE  UNCHANGED ci
  <2>1. CASE Enable(t) \/ Disable(t) \/ Unregister(t) \/ Sync(t)
    BY <2>1 DEF Enable, Disable, Unregister, Sync, ringVars, cqVars
  <2>2. CASE Finish(t) \/ Enabled(t) \/ Report(t)
    BY <2>2 DEF Finish, Enabled, Report, ringVars, cqVars
  <2>3. CASE Up(t)
    <3>1. ASSUME NEW s, RingsOf(s)  PROVE UNCHANGED ci
      BY <3>1 DEF RingsOf, ResetRing, NewCq, ringVars, cqVars
    <3>2. CASE UpLocal(t)
      BY <3>1, <3>2 DEF UpLocal
    <3>3. CASE UpNotify(t)
      BY <3>3 DEF UpNotify
    <3>4. CASE UpCreate(t)
      BY <3>1, <3>4 DEF UpCreate, ringVars, cqVars
    <3>5. CASE UpReady(t)
      BY <3>5 DEF UpReady, PostAllRx, ringVars, cqVars
    <3> QED  BY <2>3, <3>2, <3>3, <3>4, <3>5 DEF Up
  <2> QED  BY <1>3, <2>1, <2>2, <2>3 DEF Body
<1>4. ASSUME NEW t \in Threads, UndoStep(t)
      PROVE  UNCHANGED ci \/ \E q \in Queues : ci' = [ci EXCEPT ![q] = 0]
  <2>1. PICK n \in 0 .. Len(UndoOrder(part[t])) : UndoPart(t, n)
    BY <1>4 DEF UndoStep
  <2>2. \/ \E q \in Queues : \E wqGone, done : Dismantle(q, wqGone, done)
        \/ UNCHANGED ringVars
    BY <1>q, <2>1 DEF UndoPart
  <2> QED  BY <2>2 DEF Dismantle, ringVars, cqVars
<1>5. CASE Stop \/ Free \/ Release \/ FirmwareAnswersLate
  BY <1>5 DEF Stop, Free, Release, ReleaseUnregister, ReleaseSync, ReleaseFree,
              FirmwareAnswersLate, ringVars, cqVars
<1>6. CASE Output
  BY <1>6 DEF Output, Xmit, cqVars
<1>7. ASSUME NEW q \in Queues, DeviceWorks(q)  PROVE UNCHANGED ci
  BY <1>7 DEF DeviceWorks, DeviceCompletes
<1>8. CASE TakePortEvent
  BY <1>8 DEF TakePortEvent, cqVars
<1>9. CASE Handler
  <2>1. CASE PollTx \/ PollRx \/ PostRx \/ ReportPort
    BY <2>1 DEF PollTx, PollRx, PostRx, ReportPort, cqVars
  <2>2. ASSUME NEW q \in Queues, TakeEvent(q) \/ PollEnds(q)  PROVE UNCHANGED ci
    BY <2>2 DEF TakeEvent, PollEnds, cqVars
  <2>3. ASSUME NEW q \in Queues, ArmAfterPoll(q)  PROVE ci' = [ci EXCEPT ![q] = fCqCc[q]]
    BY <2>3 DEF ArmAfterPoll
  <2> QED  BY <1>9, <2>1, <2>2, <2>3 DEF Handler
<1> QED  BY <1>1, <1>2, <1>3, <1>4, <1>5, <1>6, <1>7, <1>8, <1>9 DEF Next

\* The counters it can hold.
CiType == /\ DOMAIN ci = Queues
          /\ ci = [q \in Queues |-> ci[q]]
          /\ \A q \in Queues : ci[q] \in Counters(q)

LEMMA CiNext == IInv /\ CiType /\ [Next]_vars => CiType'
<1> SUFFICES ASSUME IInv, CiType, [Next]_vars  PROVE CiType'
  OBVIOUS
<1>1. \A q \in Queues : fCqCc[q] \in Counters(q) /\ 0 \in Counters(q)
  BY RingsAssumption DEF IInv, DataInv, DataType, Counters
<1>2. ASSUME NEW q \in Queues, NEW c \in Counters(q), ci' = [ci EXCEPT ![q] = c]  PROVE CiType'
  BY <1>2 DEF CiType, Counters
<1>3. CASE UNCHANGED ci
  BY <1>3 DEF CiType, Counters
<1> QED  BY <1>1, <1>2, <1>3, CiSteps

\* Every step keeps the rest of the types.
LEMMA RestNext == IInv /\ IInv' /\ RestType /\ [Next]_vars => RestType'
<1> SUFFICES ASSUME IInv, IInv', RestType, [Next]_vars PROVE RestType'
  OBVIOUS
<1> USE DEF RestType
<1>q. "tx" \in Queues /\ "rx" \in Queues
  BY DEF Queues
<1>1. ASSUME UNCHANGED <<traffic, cqVars, hpc, got>>  PROVE RestType'
  BY <1>1 DEF cqVars
<1>2. CASE UNCHANGED vars
  BY <1>1, <1>2 DEF vars, ctlVars, ringVars
<1>3. ASSUME NEW ok \in BOOLEAN, Start(ok)  PROVE RestType'
  BY <1>1, <1>3 DEF Start, ringVars
<1>4. ASSUME NEW t \in Threads, Enable(t) \/ Disable(t) \/ Body(t)  PROVE RestType'
  <2>1. CASE Enable(t) \/ Disable(t) \/ Unregister(t) \/ Finish(t) \/ Enabled(t) \/ Report(t)
    BY <1>1, <2>1 DEF Enable, Disable, DisableEntry, Unregister, Finish, Enabled, Report, ringVars
  <2>2. CASE Sync(t)
    BY <1>1, <2>2 DEF Sync, ringVars
  <2>3. CASE Up(t)
    <3>1. traffic' = traffic
      BY <2>3 DEF Up
    <3>2. ASSUME NEW s, RingsOf(s)  PROVE RestType'
      <4>1. CASE ResetRing("tx") \/ ResetRing("rx")
        BY <1>1, <3>1, <4>1 DEF ResetRing
      <4>2. CASE NewCq("tx") \/ NewCq("rx")
        BY <1>q, <3>1, <4>2 DEF NewCq
      <4>3. CASE UNCHANGED ringVars
        BY <1>1, <3>1, <4>3 DEF ringVars
      <4> QED  BY <3>2, <4>1, <4>2, <4>3 DEF RingsOf
    <3>3. CASE UpLocal(t)
      BY <3>2, <3>3 DEF UpLocal
    <3>4. CASE UpNotify(t)
      <4>1. Arm(Queues) /\ UNCHANGED <<hpc, got>>
        BY <3>4 DEF UpNotify
      <4> QED  BY <3>1, <4>1, ArmKeepsQueues
    <3>5. CASE UpCreate(t)
      <4>1. RingsOf(at[t]) \/ UNCHANGED ringVars
        BY <3>5 DEF UpCreate
      <4> QED  BY <1>1, <3>1, <3>2, <4>1 DEF ringVars
    <3>6. CASE UpReady(t)
      <4>1. PostAllRx \/ UNCHANGED ringVars
        BY <3>6 DEF UpReady
      <4> QED  BY <1>1, <3>1, <4>1 DEF ringVars, PostAllRx
    <3> QED  BY <2>3, <3>3, <3>4, <3>5, <3>6 DEF Up
  <2>4. CASE UndoStep(t)
    <3>1. PICK n \in 0 .. Len(UndoOrder(part[t])) : UndoPart(t, n)
      BY <2>4 DEF UndoStep
    <3>2. traffic' = traffic
      BY <2>4 DEF UndoStep
    <3>3. \/ \E q \in Queues : \E wqGone, done : Dismantle(q, wqGone, done)
          \/ UNCHANGED ringVars
      BY <1>q, <3>1 DEF UndoPart
    <3>4. UNCHANGED <<events, hpc, got>> /\ armed' \in SUBSET Queues /\ fresh' \in SUBSET Queues
      BY <3>3 DEF Dismantle, ringVars, cqVars
    <3> QED  BY <3>2, <3>4
  <2> QED  BY <1>4, <2>1, <2>2, <2>3, <2>4 DEF Body
<1>5. CASE Stop \/ Free \/ Release \/ FirmwareAnswersLate
  BY <1>1, <1>5 DEF Stop, Free, Release, ReleaseUnregister, ReleaseSync, ReleaseFree,
                    DisableEntry, FirmwareAnswersLate, ringVars
<1>6. CASE Output
  BY <1>1, <1>6 DEF Output, Xmit, ctlVars
<1>7. ASSUME NEW q \in Queues, DeviceWorks(q)  PROVE RestType'
  BY <1>7 DEF DeviceWorks, DeviceCompletes, RaiseFor, ctlVars
<1>8. CASE TakePortEvent \/ ReportPort
  BY <1>8 DEF TakePortEvent, ReportPort, ringVars, cqVars, ctlVars, HandlerPoints
<1>9. CASE (PollTx \/ PollRx \/ PostRx) /\ UNCHANGED ctlVars
  <2>1. CASE PollTx
    BY <1>1, <1>9, <2>1 DEF PollTx, ctlVars
  <2>2. CASE PollRx
    <3>1. hpc' = "rxpost" /\ UNCHANGED cqVars
      BY <2>2 DEF PollRx
    <3>2. got' = fCc'["rx"] /\ fCc'["rx"] \in Counters("rx")
      BY <1>q, <3>1 DEF IInv, DataInv, RxInv, DataType
    <3> QED  BY <1>9, <3>1, <3>2 DEF cqVars, ctlVars, HandlerPoints
  <2>3. CASE PostRx
    BY <1>9, <2>3 DEF PostRx, cqVars, ctlVars, HandlerPoints
  <2> QED  BY <1>9, <2>1, <2>2, <2>3
<1>10. ASSUME NEW q \in Queues,
              TakeEvent(q) \/ (UNCHANGED ctlVars /\ (PollEnds(q) \/ ArmAfterPoll(q)))
       PROVE  RestType'
  <2>1. CASE TakeEvent(q)
    <3>1. UNCHANGED <<traffic, armed, got>> /\ events' = events \ {q}
      BY <2>1 DEF TakeEvent, ctlVars
    <3>2. (hpc' = q /\ fresh' = fresh \cup {q}) \/ UNCHANGED <<hpc, fresh>>
      BY <2>1 DEF TakeEvent, HandleCompletion
    <3>3. q \in HandlerPoints
      BY DEF HandlerPoints, Queues
    <3> QED  BY <3>1, <3>2, <3>3
  <2>2. CASE UNCHANGED ctlVars /\ PollEnds(q)
    BY <2>2 DEF PollEnds, cqVars, ctlVars, HandlerPoints
  <2>3. CASE UNCHANGED ctlVars /\ ArmAfterPoll(q)
    <3>1. Arm({q}) /\ hpc' = "idle" /\ got' = got /\ traffic' = traffic
      BY <2>3 DEF ArmAfterPoll, ctlVars
    <3> QED  BY <3>1, ArmKeepsQueues DEF HandlerPoints
  <2> QED  BY <1>10, <2>1, <2>2, <2>3
<1>11. CASE Handler
  BY <1>8, <1>9, <1>10, <1>11 DEF Handler
<1> QED  BY <1>2, <1>3, <1>4, <1>5, <1>6, <1>7, <1>8, <1>11 DEF Next

\* Every reachable state of the interface and its rings is well typed: no counter
\* leaves its range, and the handler is at a point of its own.
THEOREM TypeCorrect == Spec => []TypeOK
<1>1. Init => IInv /\ RestType /\ CiType
  <2>1. Init => CiType
    BY RingsAssumption DEF Init, RingsInit, CiType, Counters
  <2> QED  BY <2>1, CtlInit, DataInit DEF IInv, Init, RingsInit, RestType, HandlerPoints
<1>2. IInv /\ IInv' /\ RestType /\ CiType /\ [Next]_vars => RestType' /\ CiType'
  BY RestNext, CiNext
<1>3. IInv /\ RestType /\ CiType => TypeOK
  <2> SUFFICES ASSUME IInv, RestType, CiType PROVE TypeOK
    OBVIOUS
  <2>1. DataType /\ CtlType /\ FwInv
    BY DEF IInv, CtlInv, DataInv, ObjInv
  <2>2. RingsTypeOK
    BY <2>1 DEF DataType, RingsTypeOK, RestType, CiType, Cqes
  <2> QED  BY <2>1, <2>2 DEF TypeOK, CtlType, FwInv, Ready, RestType
<1> QED  BY <1>1, <1>2, <1>3, IInvAlways, PTL DEF Spec
(***************************************************************************)
(* Room in the completion queues.  Load: the completions the device has    *)
(* written beyond the consumer counter it knows, and the work it has still *)
(* to complete.  It fits the ring, but for the receive direction while     *)
(* pollRxCq runs, which gives work to the device before it writes the      *)
(* counter; and outside the polling the device knows the counter.          *)
(***************************************************************************)
Load(q) == Dist(q, cqHw[q], ci[q]) + Dist(q, db[q], hw[q])

Polling(q) == IF q = "tx" THEN {"tx", "txarm"} ELSE {"rx", "rxpost", "rxarm"}

RoomFor(q) ==
  /\ hpc \notin Polling(q) => ci[q] = fCqCc[q]
  /\ q = "tx" \/ hpc \notin Polling(q) => Load(q) =< RingSize[q]

RoomInv == CiType /\ \A q \in Queues : RoomFor(q)

\* What was given and not consumed fits the ring: counter d of the doorbell record,
\* h of the device, c of the driver, and k, g of the CQ.
LEMMA LoadFits ==
  ASSUME NEW q \in Queues, NEW c \in Counters(q), NEW h \in Counters(q), NEW d \in Counters(q),
         NEW k \in Counters(q), Dist(q, h, c) =< Dist(q, d, c), Dist(q, d, c) =< RingSize[q]
  PROVE  Dist(q, Plus(q, k, Dist(q, h, c)), k) + Dist(q, d, h) =< RingSize[q]
<1>1. RingSize[q] \in Nat \ {0} /\ Wrap[q] \in Nat \ {0} /\ Wrap[q] >= 2 * RingSize[q]
  BY Ranges
<1>2. Dist(q, h, c) \in 0 .. Wrap[q] - 1
  BY PlusDist
<1>3. Dist(q, Plus(q, k, Dist(q, h, c)), k) = Dist(q, h, c)
  BY <1>2, PlusDist
<1>4. /\ Dist(q, h, c) = IF h >= c THEN h - c ELSE (h - c) + Wrap[q]
      /\ Dist(q, d, c) = IF d >= c THEN d - c ELSE (d - c) + Wrap[q]
      /\ Dist(q, d, h) = IF d >= h THEN d - h ELSE (d - h) + Wrap[q]
  BY DistIs
<1>5. c \in 0 .. Wrap[q] - 1 /\ h \in 0 .. Wrap[q] - 1 /\ d \in 0 .. Wrap[q] - 1
  BY DEF Counters
<1>6. Dist(q, d, h) = Dist(q, d, c) - Dist(q, h, c)
  BY <1>1, <1>4, <1>5
<1>7. Dist(q, d, c) \in Nat
  BY <1>1, <1>4, <1>5
<1> QED  BY <1>1, <1>2, <1>3, <1>6, <1>7

\* A completion moves one piece of work across.
LEMMA LoadKept ==
  ASSUME NEW q \in Queues, NEW h \in Counters(q), NEW d \in Counters(q),
         NEW g \in Counters(q), NEW k \in Counters(q), h # d,
         Dist(q, g, k) + Dist(q, d, h) =< RingSize[q]
  PROVE  Dist(q, Plus(q, g, 1), k) + Dist(q, d, Plus(q, h, 1)) =< RingSize[q]
<1>1. RingSize[q] \in Nat \ {0} /\ Wrap[q] \in Nat \ {0} /\ Wrap[q] >= 2 * RingSize[q]
  BY Ranges
<1>2. /\ Plus(q, g, 1) = IF g + 1 < Wrap[q] THEN g + 1 ELSE (g + 1) - Wrap[q]
      /\ Plus(q, h, 1) = IF h + 1 < Wrap[q] THEN h + 1 ELSE (h + 1) - Wrap[q]
      /\ Plus(q, g, 1) \in Counters(q) /\ Plus(q, h, 1) \in Counters(q)
  BY <1>1, PlusIs
<1>3. /\ g \in 0 .. Wrap[q] - 1 /\ k \in 0 .. Wrap[q] - 1
      /\ h \in 0 .. Wrap[q] - 1 /\ d \in 0 .. Wrap[q] - 1
  BY DEF Counters
<1>4. /\ Dist(q, g, k) = IF g >= k THEN g - k ELSE (g - k) + Wrap[q]
      /\ Dist(q, d, h) = IF d >= h THEN d - h ELSE (d - h) + Wrap[q]
  BY DistIs
<1>5. Dist(q, Plus(q, g, 1), k)
        = IF Plus(q, g, 1) >= k THEN Plus(q, g, 1) - k ELSE (Plus(q, g, 1) - k) + Wrap[q]
  BY <1>2, DistIs
<1>6. Dist(q, d, Plus(q, h, 1))
        = IF d >= Plus(q, h, 1) THEN d - Plus(q, h, 1) ELSE (d - Plus(q, h, 1)) + Wrap[q]
  BY <1>2, DistIs
<1>7. Dist(q, d, Plus(q, h, 1)) = Dist(q, d, h) - 1
  BY <1>1, <1>2, <1>3, <1>4, <1>6
<1>8. Dist(q, g, k) =< Wrap[q] - 2
  <2>1. Dist(q, d, h) \in 0 .. Wrap[q] - 1 /\ Dist(q, g, k) \in 0 .. Wrap[q] - 1
    BY PlusDist
  <2>2. Dist(q, d, h) # 0
    BY <1>1, <1>3, <1>4
  <2>3. RingSize[q] =< Wrap[q] - 1
    BY <1>1
  <2> QED  BY <1>1, <2>1, <2>2, <2>3
<1>9. Dist(q, Plus(q, g, 1), k) = Dist(q, g, k) + 1
  BY <1>1, <1>2, <1>3, <1>4, <1>5, <1>8
<1>10. Dist(q, g, k) \in Nat /\ Dist(q, d, h) \in Nat
  BY <1>1, <1>3, <1>4
<1> QED  BY <1>1, <1>4, <1>7, <1>9, <1>10

\* The counters of a direction are among its counters.
LEMMA CountersOf ==
  ASSUME IInv, NEW q \in Queues
  PROVE  /\ fCc[q] \in Counters(q) /\ fCqCc[q] \in Counters(q) /\ db[q] \in Counters(q)
         /\ hw[q] \in Counters(q) /\ cqHw[q] \in Counters(q) /\ 0 \in Counters(q)
<1>1. Wrap[q] \in Nat \ {0}
  BY Ranges
<1> QED  BY <1>1 DEF IInv, DataInv, DataType, Counters

\* A direction that a step leaves alone, but for the driver's own counters while it
\* polls.
LEMMA RoomSame ==
  ASSUME NEW q \in Queues, RoomFor(q), ci'[q] = ci[q], cqHw'[q] = cqHw[q], db'[q] = db[q],
         hw'[q] = hw[q], hpc' \notin Polling(q) => hpc \notin Polling(q) /\ fCqCc'[q] = fCqCc[q]
  PROVE  RoomFor(q)'
<1>1. Load(q)' = Load(q)
  BY DEF Load
<1> QED  BY <1>1 DEF RoomFor, Polling

\* A direction in which the device knows the counter, while the notifier is
\* registered.
LEMMA RoomKnown ==
  ASSUME IInv', CiType', fNotifierRegistered', NEW q \in Queues, ci'[q] = fCqCc'[q]
  PROVE  RoomFor(q)'
<1>1. /\ fCc'[q] \in Counters(q) /\ fCqCc'[q] \in Counters(q) /\ db'[q] \in Counters(q)
      /\ hw'[q] \in Counters(q)
  BY DEF IInv, DataInv, DataType
<1>2. /\ Dist(q, hw'[q], fCc'[q]) =< Dist(q, db'[q], fCc'[q])
      /\ Dist(q, db'[q], fCc'[q]) =< RingSize[q]
      /\ cqHw'[q] = Plus(q, fCqCc'[q], Dist(q, hw'[q], fCc'[q]))
  BY DEF IInv, DataInv, RingInv, Done, Given
<1>3. Load(q)' =< RingSize[q]
  <2>1. Dist(q, cqHw'[q], ci'[q]) + Dist(q, db'[q], hw'[q]) =< RingSize[q]
    BY <1>1, <1>2, LoadFits
  <2> QED  BY <2>1 DEF Load
<1> QED  BY <1>3 DEF RoomFor

\* Steps outside the rings, and those of the handler that change its point only.
LEMMA RoomQuiet ==
  ASSUME RoomInv, CiType', UNCHANGED <<ci, fCqCc, cqHw, db, hw>>,
         \A q \in Queues : hpc' \notin Polling(q) => hpc \notin Polling(q)
  PROVE  RoomInv'
BY RoomSame DEF RoomInv

\* enable resets the counters of a ring only before its queue is there, when they
\* are zero, and posts the receive ring when no receive has been completed.
LEMMA RoomUp ==
  ASSUME IInv, RoomInv, CiType', NEW t \in Threads, Up(t)
  PROVE  RoomInv'
<1>0. pc[t] = "up" /\ CtlInv /\ DataInv
  BY DEF Up, IInv
<1>1. ASSUME UNCHANGED <<ci, fCqCc, cqHw, db, hw, hpc>>  PROVE RoomInv'
  BY <1>1, RoomQuiet
<1>2. ASSUME NEW r \in Queues, at[t] = IF r = "tx" THEN "TXPOOL" ELSE "RXPOOL", ResetRing(r)
      PROVE  RoomInv'
  <2>1. Pos(at[t]) = IF r = "tx" THEN 4 ELSE 10
    BY <1>2, PosIs
  <2>2. WorkQueue(r) \notin has
    BY <1>0, <2>1, BeforeNotify DEF WorkQueue, Queues
  <2>3. fCqCc[r] = 0
    BY <1>0, <2>2 DEF DataInv, NewInv, Untouched
  <2>4. fCqCc' = [fCqCc EXCEPT ![r] = 0] /\ UNCHANGED <<ci, cqHw, db, hw, hpc>>
    BY <1>2 DEF ResetRing, cqVars, devVars
  <2>5. fCqCc' = fCqCc
    BY <1>0, <2>3, <2>4 DEF DataInv, DataType
  <2> QED  BY <1>1, <2>4, <2>5
<1>3. ASSUME NewCq("tx") \/ NewCq("rx") \/ UNCHANGED ringVars  PROVE RoomInv'
  BY <1>1, <1>3 DEF NewCq, ringVars, devVars, cqVars
<1>4. CASE UpLocal(t)
  <2>1. at[t] \in {"TXPOOL", "BFREG", "RXPOOL"} /\ RingsOf(at[t])
    BY <1>4 DEF UpLocal, LocalSteps
  <2> QED  BY <1>2, <1>3, <2>1 DEF RingsOf, Queues
<1>5. CASE UpNotify(t)
  BY <1>1, <1>5 DEF UpNotify, devVars
<1>6. CASE UpCreate(t)
  <2>1. at[t] \notin {"TXPOOL", "RXPOOL"}
    BY <1>6, ObjectsAre DEF UpCreate
  <2>2. RingsOf(at[t]) \/ UNCHANGED ringVars
    BY <1>6 DEF UpCreate
  <2> QED  BY <1>3, <2>1, <2>2 DEF RingsOf
<1>7. CASE UpReady(t)
  <2>1. CASE at[t] = "RQRDY"
    <3>1. Pos(at[t]) = 14
      BY <2>1, PosIs
    <3>2. hpc = "idle"
      BY <1>0, <3>1, BeforeNotify
    <3>3. Untouched("rx") /\ db["rx"] = 0
      <4>1. NewAt(13)
        BY <1>0, <3>1 DEF DataInv, NewInv
      <4> QED  BY <4>1 DEF NewAt
    <3>4. db' = [db EXCEPT !["rx"] = RingSize["rx"]] /\ UNCHANGED <<ci, fCqCc, cqHw, hw, hpc>>
      BY <1>7, <2>1 DEF UpReady, PostAllRx, devVars, cqVars
    <3>5. RoomFor("tx")'
      <4>1. db'["tx"] = db["tx"]
        BY <1>0, <3>4 DEF DataInv, DataType, Queues
      <4> QED  BY <3>4, <4>1, RoomSame DEF RoomInv, Queues
    <3>6. RoomFor("rx")'
      <4>1. "rx" \in Queues
        BY DEF Queues
      <4>2. ci["rx"] = 0 /\ cqHw["rx"] = 0 /\ hw["rx"] = 0 /\ fCqCc["rx"] = 0
        BY <3>2, <3>3, <4>1 DEF RoomInv, RoomFor, Polling, Untouched
      <4>3. db'["rx"] = RingSize["rx"]
        BY <1>0, <3>4, <4>1 DEF DataInv, DataType
      <4>4. /\ RingSize["rx"] \in Nat \ {0} /\ RingSize["rx"] \in Counters("rx")
            /\ 0 \in Counters("rx")
        <5>1. /\ RingSize["rx"] \in Nat \ {0} /\ Wrap["rx"] \in Nat \ {0}
              /\ Wrap["rx"] >= 2 * RingSize["rx"]
          BY <4>1, Ranges
        <5> QED  BY <5>1 DEF Counters
      <4>5. Dist("rx", 0, 0) = 0 /\ Dist("rx", RingSize["rx"], 0) = RingSize["rx"]
        BY <4>1, <4>4, DistIs
      <4>6. Load("rx")' = 0 + RingSize["rx"]
        BY <3>4, <4>2, <4>3, <4>5 DEF Load
      <4>7. Load("rx")' =< RingSize["rx"]
        BY <4>4, <4>6
      <4> QED  BY <3>4, <4>2, <4>7 DEF RoomFor
    <3> QED  BY <3>5, <3>6 DEF RoomInv, Queues
  <2>2. CASE at[t] # "RQRDY"
    BY <1>3, <1>7, <2>2 DEF UpReady
  <2> QED  BY <2>1, <2>2
<1> QED  BY <1>4, <1>5, <1>6, <1>7 DEF Up

\* The end of a completion queue, or of the queue behind it, leaves no more load.
LEMMA RoomUndo ==
  ASSUME IInv, RoomInv, CiType', NEW t \in Threads, UndoStep(t)
  PROVE  RoomInv'
<1>0. pc[t] = "undo" /\ CtlInv /\ DataInv
  BY DEF UndoStep, IInv
<1>1. PICK n \in 0 .. Len(UndoOrder(part[t])) : UndoPart(t, n)
  BY DEF UndoStep
<1>2. CASE UNCHANGED ringVars
  BY <1>2, RoomQuiet DEF ringVars, devVars, cqVars
<1>3. ASSUME NEW r \in Queues, part[t] = r, NEW wqGone, NEW done,
             Dismantle(r, wqGone, done)
      PROVE  RoomInv'
  <2>1. hpc = "idle"
    BY <1>0, <1>3 DEF CtlInv, NoteInv, Queues
  <2>2. /\ hpc' = hpc
        /\ cqHw' = [cqHw EXCEPT ![r] = 0] /\ fCqCc' = [fCqCc EXCEPT ![r] = 0]
        /\ ci' = [ci EXCEPT ![r] = 0]
        /\ \/ hw' = [hw EXCEPT ![r] = 0] /\ db' = [db EXCEPT ![r] = 0]
           \/ hw' = hw /\ db' = db
    BY <1>3 DEF Dismantle
  <2>3. /\ ci'[r] = 0 /\ cqHw'[r] = 0 /\ fCqCc'[r] = 0
        /\ (hw'[r] = 0 /\ db'[r] = 0) \/ (hw'[r] = hw[r] /\ db'[r] = db[r])
        /\ \A q \in Queues \ {r} : /\ ci'[q] = ci[q] /\ cqHw'[q] = cqHw[q]
                                   /\ fCqCc'[q] = fCqCc[q]
                                   /\ hw'[q] = hw[q] /\ db'[q] = db[q]
    BY <1>0, <2>2 DEF DataInv, DataType, RoomInv, CiType
  <2>4. \A q \in Queues \ {r} : RoomFor(q)'
    BY <2>2, <2>3, RoomSame DEF RoomInv
  <2>5. RoomFor(r)'
    <3>1. 0 \in Counters(r) /\ hw[r] \in Counters(r) /\ db[r] \in Counters(r)
          /\ cqHw[r] \in Counters(r) /\ ci[r] \in Counters(r)
      BY CountersOf DEF RoomInv, CiType
    <3>2. RingSize[r] \in Nat \ {0} /\ Wrap[r] \in Nat
      BY Ranges
    <3>3. Dist(r, 0, 0) = 0
      BY <3>1, DistIs
    <3>4. Dist(r, cqHw[r], ci[r]) \in 0 .. Wrap[r] - 1 /\ Dist(r, db[r], hw[r]) \in 0 .. Wrap[r] - 1
      BY <3>1, PlusDist
    <3>5. Dist(r, cqHw[r], ci[r]) + Dist(r, db[r], hw[r]) =< RingSize[r]
      <4>1. hpc \notin Polling(r)
        BY <2>1 DEF Polling
      <4>2. RoomFor(r)
        BY DEF RoomInv
      <4> QED  BY <4>1, <4>2 DEF RoomFor, Load
    <3>6. Dist(r, db[r], hw[r]) =< RingSize[r]
      BY <3>2, <3>4, <3>5
    <3>7. Load(r)' = Dist(r, 0, 0) + Dist(r, db'[r], hw'[r])
      BY <2>3 DEF Load
    <3>8. Load(r)' =< RingSize[r]
      <4>1. Dist(r, db'[r], hw'[r]) = 0 \/ Dist(r, db'[r], hw'[r]) = Dist(r, db[r], hw[r])
        BY <2>3, <3>3
      <4> QED  BY <3>2, <3>3, <3>4, <3>6, <3>7, <4>1
    <3> QED  BY <2>3, <3>8 DEF RoomFor
  <2> QED  BY <2>4, <2>5 DEF RoomInv
<1>4. CASE part[t] \in Queues
  <2>1. CASE part[t] = "tx"
    <3>1. \E wqGone, done : Dismantle("tx", wqGone, done)
      BY <1>1, <2>1 DEF UndoPart
    <3> QED  BY <1>3, <1>4, <2>1, <3>1
  <2>2. CASE part[t] = "rx"
    <3>1. \E wqGone, done : Dismantle("rx", wqGone, done)
      BY <1>1, <2>2 DEF UndoPart
    <3> QED  BY <1>3, <1>4, <2>2, <3>1
  <2> QED  BY <1>4, <2>1, <2>2 DEF Queues
<1>5. CASE part[t] \notin Queues
  BY <1>1, <1>2, <1>5 DEF UndoPart, Queues
<1> QED  BY <1>4, <1>5

\* The packets sent, the device, and the handler.
LEMMA RoomRings ==
  ASSUME IInv, IInv', RoomInv, CiType',
         \/ Output
         \/ \E q \in Queues : DeviceWorks(q)
         \/ TakePortEvent
         \/ Handler
  PROVE  RoomInv'
<1>q. "tx" \in Queues /\ "rx" \in Queues
  BY DEF Queues
<1>0. DataType /\ NoteInv
  BY DEF IInv, CtlInv, DataInv
<1>1. CASE Output
  <2>1. /\ LockFree /\ UNCHANGED <<ci, fCqCc, cqHw, hw, hpc>>
        /\ db' = [db EXCEPT !["tx"] = fPc'["tx"]]
        /\ fNotifierRegistered'
    BY <1>0, <1>1, CtlSame DEF Output, Xmit, cqVars, devVars, NoteInv
  <2>2. ci'["tx"] = fCqCc'["tx"]
    BY <1>q, <2>1 DEF RoomInv, RoomFor, Polling, LockFree
  <2>3. RoomFor("tx")'
    BY <1>q, <2>1, <2>2, RoomKnown
  <2>4. db'["rx"] = db["rx"]
    BY <1>0, <1>q, <2>1 DEF DataType
  <2>5. RoomFor("rx")'
    BY <1>q, <2>1, <2>4, RoomSame DEF RoomInv
  <2> QED  BY <2>3, <2>5 DEF RoomInv, Queues
<1>2. ASSUME NEW q \in Queues, DeviceWorks(q)  PROVE RoomInv'
  <2>1. /\ hw[q] # db[q] /\ UNCHANGED <<ci, fCqCc, db, hpc>>
        /\ hw' = [hw EXCEPT ![q] = Plus(q, hw[q], 1)]
        /\ cqHw' = [cqHw EXCEPT ![q] = Plus(q, cqHw[q], 1)]
    BY <1>2 DEF DeviceWorks, DeviceCompletes
  <2>2. /\ hw'[q] = Plus(q, hw[q], 1) /\ cqHw'[q] = Plus(q, cqHw[q], 1)
        /\ \A r \in Queues \ {q} : hw'[r] = hw[r] /\ cqHw'[r] = cqHw[r]
    BY <1>0, <2>1 DEF DataType
  <2>3. \A r \in Queues \ {q} : RoomFor(r)'
    BY <2>1, <2>2, RoomSame DEF RoomInv
  <2>4. RoomFor(q)'
    <3>1. /\ hw[q] \in Counters(q) /\ db[q] \in Counters(q)
          /\ cqHw[q] \in Counters(q) /\ ci[q] \in Counters(q)
      BY CountersOf DEF RoomInv, CiType
    <3>2. ASSUME Load(q) =< RingSize[q]  PROVE Load(q)' =< RingSize[q]
      <4>1. Dist(q, Plus(q, cqHw[q], 1), ci[q]) + Dist(q, db[q], Plus(q, hw[q], 1)) =< RingSize[q]
        BY <2>1, <3>1, <3>2, LoadKept DEF Load
      <4> QED  BY <2>1, <2>2, <4>1 DEF Load
    <3> QED  BY <2>1, <3>2 DEF RoomInv, RoomFor, Polling
  <2> QED  BY <2>3, <2>4 DEF RoomInv
<1>3. CASE TakePortEvent \/ ReportPort
  BY <1>3, RoomQuiet DEF TakePortEvent, ReportPort, cqVars, devVars, Polling, Queues
<1>4. ASSUME NEW q \in Queues, TakeEvent(q)  PROVE RoomInv'
  BY <1>4, RoomQuiet DEF TakeEvent, HandleCompletion, devVars, Polling, Queues
<1>5. ASSUME NEW q \in Queues, PollEnds(q)  PROVE RoomInv'
  BY <1>5, RoomQuiet DEF PollEnds, cqVars, devVars, Polling, Queues
<1>6. CASE PollRx
  BY <1>6, RoomQuiet DEF PollRx, cqVars, devVars, Polling, Queues
<1>7. CASE PollTx
  <2>1. hpc = "tx" /\ hpc' = "tx" /\ UNCHANGED <<ci, cqHw, db, hw>>
        /\ fCqCc' = [fCqCc EXCEPT !["tx"] = Plus("tx", fCqCc["tx"], 1)]
    BY <1>7 DEF PollTx, cqVars, devVars
  <2>2. fCqCc'["rx"] = fCqCc["rx"]
    BY <1>0, <1>q, <2>1 DEF DataType
  <2> QED  BY <2>1, <2>2, RoomSame DEF RoomInv, Polling, Queues
<1>8. CASE PostRx
  <2>1. /\ hpc = "rxpost" /\ hpc' = "rx" /\ UNCHANGED <<ci, cqHw, hw>>
        /\ db' = [db EXCEPT !["rx"] = fPc'["rx"]]
        /\ fCqCc' = [fCqCc EXCEPT !["rx"] = Plus("rx", fCqCc["rx"], 1)]
    BY <1>8 DEF PostRx, cqVars, devVars
  <2>2. fCqCc'["tx"] = fCqCc["tx"] /\ db'["tx"] = db["tx"]
    BY <1>0, <1>q, <2>1 DEF DataType
  <2>3. RoomFor("tx")'
    BY <1>q, <2>1, <2>2, RoomSame DEF RoomInv, Polling
  <2>4. RoomFor("rx")'
    BY <2>1 DEF RoomFor, Polling
  <2> QED  BY <2>3, <2>4 DEF RoomInv, Queues
<1>9. ASSUME NEW q \in Queues, ArmAfterPoll(q), UNCHANGED ctlVars  PROVE RoomInv'
  <2>1. /\ hpc = (IF q = "tx" THEN "txarm" ELSE "rxarm") /\ hpc' = "idle"
        /\ ci' = [ci EXCEPT ![q] = fCqCc[q]] /\ UNCHANGED <<fCqCc, cqHw, db, hw>>
    BY <1>9 DEF ArmAfterPoll, devVars
  <2>2. fNotifierRegistered'
    BY <1>0, <1>9, <2>1, CtlSame DEF NoteInv
  <2>3. ci'[q] = fCqCc'[q] /\ \A r \in Queues \ {q} : ci'[r] = ci[r]
    BY <2>1 DEF RoomInv, CiType
  <2>4. RoomFor(q)'
    BY <2>2, <2>3, RoomKnown
  <2>5. ASSUME NEW r \in Queues \ {q}  PROVE RoomFor(r)'
    <3>1. hpc \notin Polling(r)
      BY <2>1, <2>5 DEF Polling, Queues
    <3> QED  BY <2>1, <2>3, <3>1, RoomSame DEF RoomInv
  <2> QED  BY <2>4, <2>5 DEF RoomInv
<1>10. CASE Handler
  BY <1>3, <1>4, <1>5, <1>6, <1>7, <1>8, <1>9, <1>10 DEF Handler
<1> QED  BY <1>1, <1>2, <1>3, <1>10

\* Every step keeps the room.
LEMMA RoomNext == IInv /\ IInv' /\ RoomInv /\ [Next]_vars => RoomInv'
<1> SUFFICES ASSUME IInv, IInv', RoomInv, [Next]_vars PROVE RoomInv'
  OBVIOUS
<1>c. CiType'
  BY CiNext DEF RoomInv
<1>1. ASSUME UNCHANGED ringVars  PROVE RoomInv'
  BY <1>c, <1>1, RoomQuiet DEF ringVars, devVars, cqVars
<1>2. CASE UNCHANGED vars
  BY <1>1, <1>2 DEF vars
<1>3. CASE \E ok \in BOOLEAN : Start(ok)
  BY <1>1, <1>3 DEF Start
<1>4. ASSUME NEW t \in Threads, Enable(t) \/ Disable(t) \/ Body(t)  PROVE RoomInv'
  <2>1. CASE Enable(t) \/ Disable(t) \/ Unregister(t) \/ Sync(t) \/ Finish(t) \/ Enabled(t) \/ Report(t)
    BY <1>1, <2>1 DEF Enable, Disable, Unregister, Sync, Finish, Enabled, Report
  <2> QED  BY <1>c, <1>4, <2>1, RoomUp, RoomUndo DEF Body
<1>5. CASE Stop \/ Free \/ Release \/ FirmwareAnswersLate
  BY <1>1, <1>5 DEF Stop, Free, Release, ReleaseUnregister, ReleaseSync, ReleaseFree,
                    FirmwareAnswersLate
<1> QED  BY <1>c, <1>2, <1>3, <1>4, <1>5, RoomRings DEF Next

(***************************************************************************)
(* The device never has more completions than a CQ holds beyond the        *)
(* counter in its doorbell record, for every ring size and counter range,  *)
(* but in the receive CQ while pollRxCq runs, which posts slots again      *)
(* before it writes the counter.                                           *)
(***************************************************************************)
THEOREM OverrunsInRxPoll == Spec => []OnlyRxPollOverruns
<1>1. Init => IInv /\ RoomInv
  <2> SUFFICES ASSUME Init PROVE IInv /\ RoomInv
    OBVIOUS
  <2>1. IInv
    BY CtlInit, DataInit DEF IInv
  <2>2. CiType
    BY RingsAssumption DEF Init, RingsInit, CiType, Counters
  <2>3. ASSUME NEW q \in Queues  PROVE RoomFor(q)
    <3>1. ci[q] = 0 /\ fCqCc[q] = 0 /\ cqHw[q] = 0 /\ hw[q] = 0 /\ db[q] = 0
      BY DEF Init, RingsInit
    <3>2. 0 \in Counters(q)
      BY <2>1, CountersOf
    <3>3. Dist(q, 0, 0) = 0
      BY <3>2, DistIs
    <3>4. RingSize[q] \in Nat
      BY Ranges
    <3>5. Load(q) =< RingSize[q]
      BY <3>1, <3>3, <3>4 DEF Load
    <3> QED  BY <3>1, <3>5 DEF RoomFor
  <2> QED  BY <2>1, <2>2, <2>3 DEF RoomInv
<1>2. IInv /\ IInv' /\ RoomInv /\ [Next]_vars => RoomInv'
  BY RoomNext
<1>3. IInv /\ RoomInv => OnlyRxPollOverruns
  <2> SUFFICES ASSUME IInv, RoomInv, NEW q \in Queues, ~(q = "rx" /\ hpc \in Polling(q))
               PROVE  Dist(q, cqHw[q], ci[q]) =< RingSize[q]
    BY DEF OnlyRxPollOverruns, Polling
  <2>1. Load(q) =< RingSize[q]
    BY DEF RoomInv, RoomFor, Queues
  <2>2. /\ hw[q] \in Counters(q) /\ db[q] \in Counters(q)
        /\ cqHw[q] \in Counters(q) /\ ci[q] \in Counters(q)
    BY CountersOf DEF RoomInv, CiType
  <2>3. RingSize[q] \in Nat /\ Wrap[q] \in Nat
    BY Ranges
  <2>4. Dist(q, cqHw[q], ci[q]) \in 0 .. Wrap[q] - 1 /\ Dist(q, db[q], hw[q]) \in 0 .. Wrap[q] - 1
    BY <2>2, PlusDist
  <2> QED  BY <2>1, <2>3, <2>4 DEF Load
<1> QED  BY <1>1, <1>2, <1>3, IInvAlways, PTL DEF Spec
=============================================================================
