-------------------------- MODULE MlxFwWorkerProofs --------------------------
(***************************************************************************)
(* Proofs about the page-request queue and its worker: for every size of   *)
(* the ring and every number of events, the ring is a first-in first-out   *)
(* queue, and a stop that has returned has left nothing behind.            *)
(***************************************************************************)
EXTENDS MlxFwWorker, RingLemmas

(***************************************************************************)
(* The inductive invariant.                                                *)
(***************************************************************************)

\* The i-th queued request, from the head.
Entry(i) == fRequests[(fRequestHead + i) % QueueSize]

\* The handler holds the newest event; whatever went through the ring is older.
EventsInv ==
  LET Past(id) == id =< events /\ (handler = "accept" => id < events) IN
  /\ \A i \in 0 .. fRequestCount - 1 : Past(Entry(i))
  /\ \A id \in taken \cup dropped : Past(id)

\* The points of workerMain between its first and its last locked section.
Active == {"loop", "process", "failed", "finish"}

\* The flags say where the thread call is: entered and not begun, between the first
\* and the last locked section of a run, or neither.
FlagInv ==
  /\ entered = fWorkerScheduled
  /\ fWorkerActive => ~fWorkerScheduled
  /\ fWorkerActive <=> worker \in Active

\* stopRuntimeAndDrain closes one source of work after the other.
Unregistered == {"synchronize", "drain", "cancelled", "done"}

StopInv ==
  /\ stopper # "idle" => fStopping /\ ~fAcceptRequests
  /\ stopper \in Unregistered => ~registered
  /\ stopper \in {"drain", "cancelled", "done"} => handler = "idle"
  /\ stopper \in {"cancelled", "done"} => ~entered /\ Drained
  /\ stopper = "done" => worker = "idle"

IInv == TypeOK /\ QueueInOrder /\ EventsInv /\ FlagInv /\ StopInv

(***************************************************************************)
(* The ring.                                                               *)
(***************************************************************************)

\* An index less than two laps wraps once at most.
LEMMA RingWrap ==
  ASSUME NEW a \in 0 .. 2 * QueueSize - 1
  PROVE  a % QueueSize = IF a < QueueSize THEN a ELSE a - QueueSize
BY QueueSizeAssumption, ModWrap

\* The slot of the i-th request, wrapped around once at most.
LEMMA EntrySlot ==
  ASSUME TypeOK, NEW i \in 0 .. QueueSize
  PROVE  /\ (fRequestHead + i) % QueueSize \in Cells
         /\ (fRequestHead + i) % QueueSize =
              IF fRequestHead + i < QueueSize THEN fRequestHead + i
              ELSE (fRequestHead + i) - QueueSize
<1>1. QueueSize \in Nat \ {0} /\ fRequestHead + i \in 0 .. 2 * QueueSize - 1
  BY QueueSizeAssumption DEF TypeOK, Cells
<1>2. (fRequestHead + i) % QueueSize =
              IF fRequestHead + i < QueueSize THEN fRequestHead + i
              ELSE (fRequestHead + i) - QueueSize
  BY <1>1, RingWrap, Zenon
<1> QED  BY <1>1, <1>2 DEF Cells, TypeOK

\* A queued request is an event number.
LEMMA EntryType ==
  ASSUME TypeOK, NEW i \in 0 .. QueueSize
  PROVE  Entry(i) \in Ids
BY EntrySlot DEF Entry, TypeOK

\* So is every request that a failed one throws out.
LEMMA QueuedType ==
  ASSUME TypeOK
  PROVE  /\ Queued = {Entry(i) : i \in 0 .. fRequestCount - 1}
         /\ Queued \in SUBSET Ids
<1>1. Queued = {Entry(i) : i \in 0 .. fRequestCount - 1}
  BY DEF Queued, Entry
<1>2. 0 .. fRequestCount - 1 \in SUBSET (0 .. QueueSize)
  BY QueueSizeAssumption DEF TypeOK
<1> QED  BY <1>1, <1>2, EntryType

\* The order of the queue, said with Entry.
LEMMA OrderIs ==
  QueueInOrder <=>
    /\ fRequestTail = (fRequestHead + fRequestCount) % QueueSize
    /\ \A i \in 0 .. fRequestCount - 1 :
         /\ \A old \in taken \cup dropped : old < Entry(i)
         /\ \A j \in 0 .. i - 1 : Entry(j) < Entry(i)
BY DEF QueueInOrder, Entry

\* enqueue leaves the entries of the queue alone and appends one.
LEMMA EnqueueEntries ==
  ASSUME IInv, EnqueueRequest
  PROVE  /\ \A i \in 0 .. fRequestCount :
              Entry(i)' = IF i < fRequestCount THEN Entry(i) ELSE events
         /\ fRequestTail' = ((fRequestHead + fRequestCount) % QueueSize)'
<1> USE QueueSizeAssumption DEF IInv
<1>1. fRequestCount \in 0 .. QueueSize - 1
  BY DEF EnqueueRequest, CanEnqueue, TypeOK
<1>2. fRequestTail = (fRequestHead + fRequestCount) % QueueSize
  BY DEF QueueInOrder
<1>3. fRequestHead' = fRequestHead /\ fRequestCount' = fRequestCount + 1
  BY DEF EnqueueRequest
<1>4. ASSUME NEW i \in 0 .. fRequestCount - 1
      PROVE  Entry(i)' = Entry(i)
  <2>1. /\ i \in 0 .. QueueSize
        /\ fRequestCount \in 0 .. QueueSize
    BY <1>1
  <2>2. (fRequestHead + i) % QueueSize # fRequestTail
    BY <1>1, <1>2, <2>1, EntrySlot DEF TypeOK, Cells
  <2>3. (fRequestHead + i) % QueueSize \in Cells
    BY <2>1, EntrySlot
  <2> QED  BY <1>3, <2>2, <2>3 DEF Entry, EnqueueRequest, TypeOK
<1>5. ASSUME NEW i, i = fRequestCount
      PROVE  Entry(i)' = events
  BY <1>2, <1>3, <1>5 DEF Entry, EnqueueRequest, TypeOK
<1>6. fRequestTail' = (fRequestHead + (fRequestCount + 1)) % QueueSize
  <2>1. fRequestTail + 1 \in 0 .. 2 * QueueSize - 1
    BY DEF TypeOK, Cells
  <2>2. (fRequestTail + 1) % QueueSize =
          IF fRequestTail + 1 < QueueSize THEN fRequestTail + 1
          ELSE (fRequestTail + 1) - QueueSize
    BY <2>1, RingWrap, Zenon
  <2>3. /\ fRequestCount \in 0 .. QueueSize
        /\ fRequestCount + 1 \in 0 .. QueueSize
    BY <1>1
  <2> QED  BY <1>1, <1>2, <2>2, <2>3, EntrySlot DEF EnqueueRequest, TypeOK, Cells
<1> QED  BY <1>1, <1>3, <1>4, <1>5, <1>6

\* dequeue takes the first entry; the i-th is the one that was after it.
LEMMA DequeueEntries ==
  ASSUME IInv, DequeueRequest
  PROVE  /\ \A i \in 0 .. fRequestCount - 2 : Entry(i)' = Entry(i + 1)
         /\ fRequests[fRequestHead] = Entry(0)
         /\ fRequestTail' = ((fRequestHead + fRequestCount) % QueueSize)'
<1> USE QueueSizeAssumption DEF IInv
<1>1. fRequestCount \in 1 .. QueueSize
  BY DEF DequeueRequest, TypeOK
<1>2. fRequestHead' = (fRequestHead + 1) % QueueSize
  BY DEF DequeueRequest
<1>3. /\ fRequestHead' = IF fRequestHead + 1 < QueueSize THEN fRequestHead + 1
                         ELSE (fRequestHead + 1) - QueueSize
      /\ fRequestHead' \in Cells
  <2>1. 1 \in 0 .. QueueSize
    OBVIOUS
  <2> QED  BY <1>2, <2>1, EntrySlot
<1>4. ASSUME NEW i \in 0 .. QueueSize - 1
      PROVE  (fRequestHead' + i) % QueueSize = (fRequestHead + (i + 1)) % QueueSize
  <2>1. fRequestHead' + i \in 0 .. 2 * QueueSize - 1
    BY <1>3 DEF Cells
  <2>2. (fRequestHead' + i) % QueueSize =
          IF fRequestHead' + i < QueueSize THEN fRequestHead' + i
          ELSE (fRequestHead' + i) - QueueSize
    BY <2>1, RingWrap, Zenon
  <2>3. i + 1 \in 0 .. QueueSize
    OBVIOUS
  <2>4. (fRequestHead + (i + 1)) % QueueSize =
              IF fRequestHead + (i + 1) < QueueSize THEN fRequestHead + (i + 1)
              ELSE (fRequestHead + (i + 1)) - QueueSize
    BY <2>3, EntrySlot
  <2>5. QueueSize \in Nat /\ fRequestHead \in 0 .. QueueSize - 1 /\ i \in 0 .. QueueSize - 1
    BY DEF TypeOK, Cells
  <2> HIDE DEF IInv
  <2>6. CASE fRequestHead + 1 < QueueSize
    <3>1. fRequestHead' + i = fRequestHead + (i + 1)
      BY <1>3, <2>5, <2>6
    <3> QED  BY <3>1
  <2>7. CASE ~(fRequestHead + 1 < QueueSize)
    <3>1. fRequestHead' = 0 /\ fRequestHead = QueueSize - 1
      BY <1>3, <2>5, <2>7
    <3> QED  BY <3>1, <2>2, <2>4, <2>5
  <2> QED  BY <2>6, <2>7
<1>5. ASSUME NEW i \in 0 .. fRequestCount - 2
      PROVE  Entry(i)' = Entry(i + 1)
  <2>1. i \in 0 .. QueueSize - 1
    BY <1>1
  <2>2. fRequests' = fRequests
    BY DEF DequeueRequest
  <2> QED  BY <1>4, <2>1, <2>2 DEF Entry
<1>6. fRequests[fRequestHead] = Entry(0)
  <2>1. 0 \in 0 .. QueueSize
    OBVIOUS
  <2>2. (fRequestHead + 0) % QueueSize = fRequestHead
    BY <2>1, EntrySlot DEF TypeOK, Cells
  <2> QED  BY <2>2 DEF Entry
<1>7. fRequestTail' = (fRequestHead' + fRequestCount') % QueueSize
  <2>1. /\ fRequestTail' = fRequestTail /\ fRequestCount' = fRequestCount - 1
        /\ fRequestCount - 1 \in 0 .. QueueSize - 1
        /\ (fRequestCount - 1) + 1 = fRequestCount
    BY <1>1 DEF DequeueRequest
  <2>2. (fRequestHead' + (fRequestCount - 1)) % QueueSize
          = (fRequestHead + ((fRequestCount - 1) + 1)) % QueueSize
    BY <1>4, <2>1
  <2>3. fRequestTail = (fRequestHead + fRequestCount) % QueueSize
    BY DEF QueueInOrder
  <2> QED  BY <2>1, <2>2, <2>3
<1> QED  BY <1>5, <1>6, <1>7

(***************************************************************************)
(* Every action preserves the invariant.                                   *)
(***************************************************************************)

\* The types.
LEMMA TypeStep ==
  ASSUME TypeOK, Next
  PROVE  TypeOK'
<1> USE QueueSizeAssumption, MaxEventsAssumption DEF TypeOK, ring, gates, flags, history
<1>1. CASE StartRuntime
  BY <1>1 DEF StartRuntime
<1>2. CASE EventArrives
  BY <1>2 DEF EventArrives, Ids
<1>3. CASE MalformedEvent
  BY <1>3 DEF MalformedEvent
<1>4. CASE EnqueueRequest
  BY <1>4 DEF EnqueueRequest, CanEnqueue, Cells, Ids
<1>5. CASE RefuseRequest
  BY <1>5 DEF RefuseRequest
<1>6. CASE HandlerSchedules
  BY <1>6 DEF HandlerSchedules, ScheduleWorker
<1>7. CASE WorkerStarts
  BY <1>7 DEF WorkerStarts, At
<1>8. CASE DequeueRequest
  BY <1>8 DEF DequeueRequest, At, Cells
<1>9. CASE ProcessRequest
  BY <1>9 DEF ProcessRequest, At
<1>10. CASE QueueEmpty
  BY <1>10 DEF QueueEmpty, At
<1>11. CASE ClearQueue
  BY <1>11, QueuedType DEF ClearQueue, At, Cells
<1>12. CASE WorkerFinishes
  BY <1>12 DEF WorkerFinishes, At
<1>13. CASE CheckFatal
  BY <1>13 DEF CheckFatal, At
<1>14. CASE StopAccepting
  BY <1>14 DEF StopAccepting
<1>15. CASE Unregister
  BY <1>15 DEF Unregister
<1>16. CASE StopSchedules
  BY <1>16 DEF StopSchedules, ScheduleWorker
<1>17. CASE StopDrained
  BY <1>17 DEF StopDrained
<1>18. CASE StopReturns
  BY <1>18 DEF StopReturns
<1> QED
  BY <1>1, <1>2, <1>3, <1>4, <1>5, <1>6, <1>7, <1>8, <1>9, <1>10, <1>11, <1>12, <1>13, <1>14, <1>15, <1>16, <1>17, <1>18 DEF Next, Handler, WorkerStep, Stop


\* The order of the queue and of the events.  The ring is touched by enqueue, by
\* dequeue and by a failed request.
LEMMA OrderStep ==
  ASSUME IInv, Next
  PROVE  QueueInOrder' /\ EventsInv'
<1> USE QueueSizeAssumption DEF IInv
<1>a. /\ events \in Nat
      /\ fRequestCount \in 0 .. QueueSize
      /\ \A i \in 0 .. fRequestCount - 1 : Entry(i) \in Int
      /\ \A id \in taken \cup dropped : id \in Int
  BY EntryType DEF TypeOK, Ids
<1>1. ASSUME UNCHANGED <<ring, history>>,
             events' = events, handler' # "accept" \/ handler' = handler
      PROVE  QueueInOrder' /\ EventsInv'
  <2>1. QueueInOrder'
    BY <1>1 DEF QueueInOrder, ring, history
  <2>2. EventsInv'
    BY <1>1 DEF EventsInv, Entry, ring, history
  <2> QED  BY <2>1, <2>2
<1>2. CASE EventArrives
  <2>1. UNCHANGED <<ring, history>> /\ events' = events + 1
    BY <1>2 DEF EventArrives
  <2>2. QueueInOrder'
    BY <2>1 DEF QueueInOrder, ring, history
  <2>3. EventsInv'
    BY <1>a, <2>1 DEF EventsInv, Entry, ring, history
  <2> QED  BY <2>2, <2>3
<1>3. CASE EnqueueRequest
  <2>1. /\ handler = "accept" /\ handler' = "schedule"
        /\ UNCHANGED <<events, taken, dropped>>
        /\ fRequestCount' = fRequestCount + 1
    BY <1>3 DEF EnqueueRequest, history
  <2>2. /\ fRequestTail' = ((fRequestHead + fRequestCount) % QueueSize)'
        /\ \A i \in 0 .. fRequestCount :
             Entry(i)' = IF i < fRequestCount THEN Entry(i) ELSE events
    BY <1>3, EnqueueEntries
  <2>3. /\ \A i \in 0 .. fRequestCount - 1 : Entry(i) < events
        /\ \A id \in taken \cup dropped : id < events
    BY <2>1 DEF EventsInv
  <2>4. ASSUME NEW i \in 0 .. fRequestCount
        PROVE  /\ \A old \in taken \cup dropped : old < Entry(i)'
               /\ \A j \in 0 .. i - 1 : Entry(j)' < Entry(i)'
               /\ Entry(i)' =< events
    <3>1. CASE i < fRequestCount
      BY <1>a, <2>2, <2>3, <3>1, OrderIs
    <3>2. CASE i = fRequestCount
      BY <1>a, <2>2, <2>3, <3>2
    <3> QED  BY <1>a, <3>1, <3>2
  <2>5. 0 .. fRequestCount' - 1 = 0 .. fRequestCount
    BY <1>a, <2>1
  <2>6. QueueInOrder'
    BY <2>1, <2>2, <2>4, <2>5 DEF QueueInOrder, Entry
  <2>7. EventsInv'
    BY <1>a, <2>1, <2>3, <2>4, <2>5 DEF EventsInv
  <2> QED  BY <2>6, <2>7
<1>4. ASSUME DequeueRequest
      PROVE  QueueInOrder' /\ EventsInv'
  <2>1. /\ UNCHANGED <<events, handler, dropped>>
        /\ fRequestCount > 0 /\ fRequestCount' = fRequestCount - 1
        /\ taken' = taken \cup {fRequests[fRequestHead]}
    BY <1>4 DEF DequeueRequest
  <2>2. /\ fRequestTail' = ((fRequestHead + fRequestCount) % QueueSize)'
        /\ \A i \in 0 .. fRequestCount - 2 : Entry(i)' = Entry(i + 1)
        /\ fRequests[fRequestHead] = Entry(0)
    BY <1>4, DequeueEntries
  <2>3. taken' \cup dropped' = (taken \cup dropped) \cup {Entry(0)}
    BY <2>1, <2>2
  <2>4. ASSUME NEW i \in 0 .. fRequestCount - 2
        PROVE  /\ \A old \in taken \cup dropped : old < Entry(i)'
               /\ Entry(0) < Entry(i)'
               /\ \A j \in 0 .. i - 1 : Entry(j)' < Entry(i)'
    <3>1. i + 1 \in 0 .. fRequestCount - 1 /\ 0 \in 0 .. i
      BY <1>a
    <3>2. Entry(i)' = Entry(i + 1)
      BY <2>2
    <3>3. \A j \in 0 .. i : Entry(j) < Entry(i + 1)
      BY <1>a, <3>1, OrderIs
    <3>4. ASSUME NEW j \in 0 .. i - 1  PROVE  Entry(j)' < Entry(i)'
      <4>1. j \in 0 .. fRequestCount - 2 /\ j + 1 \in 0 .. i
        BY <1>a
      <4> QED  BY <2>2, <3>2, <3>3, <4>1
    <3> QED  BY <3>1, <3>2, <3>3, <3>4, OrderIs
  <2>5. 0 .. fRequestCount' - 1 = 0 .. fRequestCount - 2
    BY <1>a, <2>1
  <2>6. QueueInOrder'
    BY <2>2, <2>3, <2>4, <2>5 DEF QueueInOrder, Entry
  <2>7. EventsInv'
    <3>1. 0 \in 0 .. fRequestCount - 1
      BY <1>a, <2>1
    <3>2. \A i \in 0 .. fRequestCount - 2 : i + 1 \in 0 .. fRequestCount - 1
      BY <1>a
    <3> QED  BY <1>a, <2>1, <2>2, <2>3, <2>5, <3>1, <3>2 DEF EventsInv
  <2> QED  BY <2>6, <2>7
<1>5. ASSUME ClearQueue
      PROVE  QueueInOrder' /\ EventsInv'
  <2>1. /\ UNCHANGED <<events, handler, taken>>
        /\ fRequestCount' = 0
        /\ fRequestTail' = fRequestTail /\ fRequestHead' = fRequestTail
        /\ dropped' = dropped \cup Queued
    BY <1>5 DEF ClearQueue
  <2>2. 0 .. fRequestCount' - 1 = {}
    BY <2>1
  <2>3. fRequestTail' = ((fRequestHead + fRequestCount) % QueueSize)'
    <3>1. fRequestTail + 0 = fRequestTail /\ fRequestTail \in 0 .. QueueSize - 1
      BY DEF TypeOK, Cells
    <3>2. fRequestTail % QueueSize = fRequestTail
      BY <3>1
    <3> QED  BY <2>1, <3>1, <3>2
  <2>4. QueueInOrder'
    BY <2>2, <2>3 DEF QueueInOrder
  <2>5. \A id \in taken' \cup dropped' :
          id \in taken \cup dropped \/ \E i \in 0 .. fRequestCount - 1 : id = Entry(i)
    BY <2>1, QueuedType
  <2>6. EventsInv'
    BY <2>1, <2>2, <2>5 DEF EventsInv
  <2> QED  BY <2>4, <2>6
<1> QED
  <2>1. CASE StartRuntime \/ StopAccepting \/ Stop
    BY <1>1, <2>1 DEF StartRuntime, StopAccepting, Stop, Unregister, StopSchedules,
                      StopDrained, StopReturns
  <2>2. CASE MalformedEvent \/ RefuseRequest \/ HandlerSchedules
    BY <1>1, <2>2 DEF MalformedEvent, RefuseRequest, HandlerSchedules
  <2>3. ASSUME WorkerStarts \/ ProcessRequest \/ QueueEmpty
                 \/ WorkerFinishes \/ CheckFatal
        PROVE  QueueInOrder' /\ EventsInv'
    BY <1>1, <2>3 DEF WorkerStarts, ProcessRequest, QueueEmpty, WorkerFinishes,
                      CheckFatal
  <2> QED
    BY <1>2, <1>3, <1>4, <1>5, <2>1, <2>2, <2>3 DEF Next, Handler, WorkerStep

\* The flags.  Only workerMain's first and last locked sections move it into and
\* out of the active part.
LEMMA FlagStep ==
  ASSUME IInv, Next
  PROVE  FlagInv'
<1> USE DEF IInv, FlagInv, Active
<1>1. ASSUME UNCHANGED <<flags, worker>>  PROVE FlagInv'
  BY <1>1 DEF flags
<1>2. ASSUME ScheduleWorker, UNCHANGED worker  PROVE FlagInv'
  BY <1>2 DEF ScheduleWorker, TypeOK
<1>3. CASE WorkerStarts
  BY <1>3 DEF WorkerStarts, At
<1>4. CASE WorkerFinishes
  BY <1>4 DEF WorkerFinishes, At
<1>5. CASE CheckFatal
  BY <1>5 DEF CheckFatal, At, flags
<1>6. CASE DequeueRequest \/ ProcessRequest \/ QueueEmpty \/ ClearQueue
  <2>1. UNCHANGED flags /\ worker \in Active /\ worker' \in Active
    <3>1. CASE DequeueRequest
      BY <3>1 DEF DequeueRequest, At
    <3>2. CASE ProcessRequest
      BY <3>2 DEF ProcessRequest, At
    <3>3. CASE QueueEmpty \/ ClearQueue
      BY <3>3 DEF QueueEmpty, ClearQueue, At
    <3> QED  BY <1>6, <3>1, <3>2, <3>3
  <2> QED  BY <2>1 DEF flags
<1>7. CASE HandlerSchedules \/ StopSchedules
  BY <1>2, <1>7 DEF HandlerSchedules, StopSchedules
<1>8. CASE StopDrained
  BY <1>8 DEF StopDrained, Drained, TypeOK
<1> QED
  BY <1>1, <1>3, <1>4, <1>5, <1>6, <1>7, <1>8
  DEF Next, Handler, WorkerStep, Stop, StartRuntime, EventArrives, MalformedEvent,
      EnqueueRequest, RefuseRequest, StopAccepting, Unregister, StopReturns

\* The stop.  What a stage has waited for cannot come back.
LEMMA StopStep ==
  ASSUME IInv, Next
  PROVE  StopInv'
<1> USE DEF IInv, StopInv, Unregistered, Drained
<1>1. CASE StartRuntime \/ EventArrives \/ MalformedEvent \/ EnqueueRequest
             \/ RefuseRequest
  BY <1>1 DEF StartRuntime, EventArrives, MalformedEvent, EnqueueRequest,
              RefuseRequest, flags, ring, gates
<1>2. CASE HandlerSchedules
  BY <1>2 DEF HandlerSchedules, ring, gates
<1>3. ASSUME WorkerStarts  PROVE StopInv'
  BY <1>3 DEF WorkerStarts, gates
<1>4. ASSUME DequeueRequest \/ ProcessRequest \/ QueueEmpty \/ ClearQueue
               \/ WorkerFinishes
      PROVE  StopInv'
  <2>1. fWorkerActive /\ stopper' = stopper /\ handler' = handler /\ UNCHANGED gates
    BY <1>4 DEF FlagInv, Active, DequeueRequest, ProcessRequest, QueueEmpty,
                ClearQueue, WorkerFinishes
  <2> QED  BY <2>1 DEF gates
<1>5. ASSUME CheckFatal  PROVE StopInv'
  BY <1>5 DEF CheckFatal, At, flags, ring, gates
<1>6. CASE StopAccepting
  BY <1>6 DEF StopAccepting
<1>7. CASE Unregister
  BY <1>7 DEF Unregister
<1>8. CASE StopSchedules
  BY <1>8 DEF StopSchedules, gates
<1>9. CASE StopDrained
  BY <1>9 DEF StopDrained, gates, ring
<1>10. CASE StopReturns
  BY <1>10 DEF StopReturns, flags, ring
<1> QED
  BY <1>1, <1>2, <1>3, <1>4, <1>5, <1>6, <1>7, <1>8, <1>9, <1>10
  DEF Next, Handler, WorkerStep, Stop

(***************************************************************************)
(* The theorems.                                                           *)
(***************************************************************************)

\* IInv holds initially.
LEMMA InitInv == Init => IInv
<1> SUFFICES ASSUME Init PROVE IInv
  OBVIOUS
<1> USE QueueSizeAssumption, MaxEventsAssumption DEF Init
<1>1. TypeOK
  <2>1. 0 \in Cells /\ 0 \in Ids /\ 0 \in 0 .. QueueSize
    BY DEF Cells, Ids
  <2> QED  BY <2>1 DEF TypeOK
<1>2. QueueInOrder
  <2>1. (0 + 0) % QueueSize = 0
    OBVIOUS
  <2> QED  BY <2>1 DEF QueueInOrder
<1>3. EventsInv
  BY DEF EventsInv
<1>4. FlagInv
  BY DEF FlagInv, Active
<1>5. StopInv
  BY DEF StopInv, Unregistered
<1> QED  BY <1>1, <1>2, <1>3, <1>4, <1>5 DEF IInv

\* Every step preserves it.
LEMMA StepInv == IInv /\ [Next]_vars => IInv'
<1>1. ASSUME IInv, Next  PROVE IInv'
  BY <1>1, TypeStep, OrderStep, FlagStep, StopStep DEF IInv
<1>2. ASSUME IInv, UNCHANGED vars  PROVE IInv'
  BY <1>2 DEF IInv, TypeOK, QueueInOrder, EventsInv, Entry, FlagInv,
              StopInv, Drained, vars, ring, gates, flags, history
<1> QED  BY <1>1, <1>2

\* IInv is an invariant.
LEMMA Invariance == Spec => []IInv
BY InitInv, StepInv, PTL DEF Spec

\* The ring's indices and the control points of handleEvent, workerMain and
\* stopRuntimeAndDrain stay in range.
THEOREM TypeCorrect == Spec => []TypeOK
<1>1. IInv => TypeOK
  BY DEF IInv
<1> QED  BY <1>1, Invariance, PTL

\* The ring of page requests is a first-in first-out queue, whatever its size and
\* however enqueue, dequeue and the clearing by a failed request interleave.
THEOREM RequestsInOrder == Spec => []QueueInOrder
<1>1. IInv => QueueInOrder
  BY DEF IInv
<1> QED  BY <1>1, Invariance, PTL

\* When stopRuntimeAndDrain has returned, no callback and no run of the worker is inside, none
\* can start, and no request is left in the ring.
THEOREM StopIsQuiet == Spec => []StoppedIsQuiet
<1>1. IInv => StoppedIsQuiet
  BY DEF IInv, StopInv, Unregistered, Drained, StoppedIsQuiet
<1> QED  BY <1>1, Invariance, PTL

=============================================================================
