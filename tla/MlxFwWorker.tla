---------------------------- MODULE MlxFwWorker ----------------------------
(***************************************************************************)
(* The runtime half of Sources/core/MlxFwPages.cpp: PAGE_REQUEST events    *)
(* are queued by the event-queue callback (handleEvent) and processed by a *)
(* thread call (workerMain); teardown stops the events and waits for the   *)
(* worker (stopRuntimeAndDrain).  What processing a request does to the    *)
(* pages is the subject of MlxFwPages; here a request is a number, and     *)
(* processing it succeeds, fails, or fails with a fatal fault.             *)
(*                                                                         *)
(* The thread call has THREAD_CALL_OPTIONS_ONCE: its runs do not overlap,  *)
(* and one that is entered while it runs is run again when it has ended.   *)
(***************************************************************************)
EXTENDS Integers

CONSTANTS QueueSize,   \* MLX_FW_REQUEST_QUEUE_SIZE
          MaxEvents    \* bound: the PAGE_REQUEST events the firmware raises

ASSUME QueueSizeAssumption == QueueSize \in Nat \ {0}
ASSUME MaxEventsAssumption == MaxEvents \in Nat

VARIABLES
  fRequests, fRequestHead, fRequestTail, fRequestCount,   \* the ring
  fAcceptRequests, fStopping, fRuntimeStarted,
  fWorkerScheduled, fWorkerActive, fWorkerReschedule,
  fFatal,
  registered,   \* the notifier is registered with the event queue
  entered,      \* the thread call is pending
  events,       \* the number of events raised so far; an event's number
  handler,      \* the control point of handleEvent
  worker,       \* the control point of workerMain
  stopper,      \* the control point of stopRuntimeAndDrain
  quarantined,  \* enterDmaQuarantine has been called
  taken,        \* the requests the worker has dequeued
  dropped       \* the requests thrown out of the queue unprocessed

ring    == <<fRequests, fRequestHead, fRequestTail, fRequestCount>>
gates   == <<fAcceptRequests, fStopping, fRuntimeStarted, registered>>
flags   == <<fWorkerScheduled, fWorkerActive, fWorkerReschedule, entered>>
history == <<taken, dropped>>
vars    == <<ring, gates, flags, history, fFatal, events, handler, worker, stopper,
             quarantined>>

Cells == 0 .. QueueSize - 1
Ids   == 0 .. MaxEvents           \* 0 is the zeroed cell, no event

Init ==
  /\ fRequests = [c \in Cells |-> 0]
  /\ fRequestHead = 0 /\ fRequestTail = 0 /\ fRequestCount = 0
  /\ fAcceptRequests = FALSE /\ fStopping = FALSE /\ fRuntimeStarted = FALSE
  /\ fWorkerScheduled = FALSE /\ fWorkerActive = FALSE
  /\ fWorkerReschedule = FALSE
  /\ fFatal = FALSE
  /\ registered = FALSE
  /\ entered = FALSE
  /\ events = 0
  /\ handler = "idle"
  /\ worker = "idle"
  /\ stopper = "idle"
  /\ quarantined = FALSE
  /\ taken = {}
  /\ dropped = {}

StartRuntime ==
  /\ stopper = "idle"
  /\ ~fRuntimeStarted
  /\ fStopping' = FALSE
  /\ fAcceptRequests' = TRUE
  /\ registered' = TRUE
  /\ fRuntimeStarted' = TRUE
  /\ UNCHANGED <<ring, flags, history, fFatal, events, handler, worker, stopper,
                 quarantined>>

(***************************************************************************)
(* The worker is scheduled under fRequestLock; thread_call_enter follows   *)
(* and its effect on the thread call is part of the same step.             *)
(***************************************************************************)
ScheduleWorker ==
  IF fWorkerActive
  THEN /\ fWorkerReschedule' = TRUE
       /\ UNCHANGED <<fWorkerScheduled, fWorkerActive, entered>>
  ELSE /\ fWorkerScheduled' = TRUE
       /\ entered' = (entered \/ ~fWorkerScheduled)
       /\ UNCHANGED <<fWorkerActive, fWorkerReschedule>>

----------------------------------------------------------------------------
(***************************************************************************)
(* handleEvent, run by the event queue while the notifier is registered.   *)
(***************************************************************************)
EventArrives ==
  /\ handler = "idle"
  /\ registered
  /\ events < MaxEvents
  /\ events' = events + 1
  /\ handler' = "accept"
  /\ UNCHANGED <<ring, gates, flags, history, fFatal, worker, stopper, quarantined>>

\* A request with no pages, or with INT32_MIN of them.
MalformedEvent ==
  /\ handler = "accept"
  /\ fFatal' = TRUE
  /\ handler' = "schedule"
  /\ UNCHANGED <<ring, gates, flags, history, events, worker, stopper, quarantined>>

\* Mutation: a full ring is not noticed.
CanAlwaysEnqueue == fAcceptRequests /\ ~fStopping

CanEnqueue == fAcceptRequests /\ ~fStopping /\ fRequestCount < QueueSize

EnqueueRequest ==
  /\ handler = "accept"
  /\ CanEnqueue
  /\ fRequests' = [fRequests EXCEPT ![fRequestTail] = events]
  /\ fRequestTail' = (fRequestTail + 1) % QueueSize
  /\ fRequestCount' = fRequestCount + 1
  /\ handler' = "schedule"
  /\ UNCHANGED <<fRequestHead, gates, flags, history, fFatal, events, worker, stopper,
                 quarantined>>

RefuseRequest ==
  /\ handler = "accept"
  /\ ~CanEnqueue
  /\ fFatal' = TRUE
  /\ handler' = "schedule"
  /\ UNCHANGED <<ring, gates, flags, history, events, worker, stopper, quarantined>>

\* Mutation: only a request that was queued wakes the worker.
HandlerSchedulesQueued ==
  /\ handler = "schedule"
  /\ IF fRequestCount > 0 THEN ScheduleWorker ELSE UNCHANGED flags
  /\ handler' = "idle"
  /\ UNCHANGED <<ring, gates, history, fFatal, events, worker, stopper, quarantined>>

HandlerSchedules ==
  /\ handler = "schedule"
  /\ ScheduleWorker
  /\ handler' = "idle"
  /\ UNCHANGED <<ring, gates, history, fFatal, events, worker, stopper, quarantined>>

----------------------------------------------------------------------------
(***************************************************************************)
(* workerMain                                                              *)
(***************************************************************************)
At(point) == worker' = point

WorkerStarts ==
  /\ entered
  /\ worker = "idle"
  /\ entered' = FALSE
  /\ fWorkerScheduled' = FALSE
  /\ fWorkerActive' = TRUE
  /\ At("loop")
  /\ UNCHANGED <<fWorkerReschedule, ring, gates, history, fFatal, events, handler,
                 stopper, quarantined>>

DequeueRequest ==
  /\ worker = "loop"
  /\ fRequestCount > 0
  /\ fRequestHead' = (fRequestHead + 1) % QueueSize
  /\ fRequestCount' = fRequestCount - 1
  /\ taken' = taken \cup {fRequests[fRequestHead]}
  /\ At("process")
  /\ UNCHANGED <<fRequests, fRequestTail, gates, flags, dropped, fFatal, events,
                 handler, stopper, quarantined>>

\* processRequest succeeds, fails, or fails and calls setFatal.
ProcessRequest ==
  /\ worker = "process"
  /\ \/ At("loop") /\ UNCHANGED fFatal
     \/ At("failed") /\ fFatal' \in {fFatal, TRUE}
  /\ UNCHANGED <<ring, gates, flags, history, events, handler, stopper, quarantined>>

QueueEmpty ==
  /\ worker = "loop"
  /\ fRequestCount = 0
  /\ At("finish")
  /\ UNCHANGED <<ring, gates, flags, history, fFatal, events, handler, stopper,
                 quarantined>>

\* The requests between head and tail, in the order they were accepted.
Queued == {fRequests[(fRequestHead + i) % QueueSize] : i \in 0 .. fRequestCount - 1}

\* Mutation: the count is cleared and the head left where it was.
ClearCountOnly ==
  /\ worker = "failed"
  /\ dropped' = dropped \cup Queued
  /\ fRequestCount' = 0
  /\ At("finish")
  /\ UNCHANGED <<fRequests, fRequestHead, fRequestTail, gates, flags, taken, fFatal,
                 events, handler, stopper, quarantined>>

\* A failed request empties the queue.
ClearQueue ==
  /\ worker = "failed"
  /\ dropped' = dropped \cup Queued
  /\ fRequestHead' = fRequestTail
  /\ fRequestCount' = 0
  /\ At("finish")
  /\ UNCHANGED <<fRequests, fRequestTail, gates, flags, taken, fFatal, events, handler,
                 stopper, quarantined>>

\* Mutation: the last section never asks for another run.
WorkerFinishesForGood ==
  /\ worker = "finish"
  /\ fWorkerActive' = FALSE
  /\ fWorkerReschedule' = FALSE
  /\ At("fatal")
  /\ UNCHANGED <<fWorkerScheduled, entered, ring, gates, history, fFatal, events,
                 handler, stopper, quarantined>>

\* The last locked section; thread_call_enter follows if there is more to do.
WorkerFinishes ==
  LET again == (fWorkerReschedule \/ fRequestCount > 0) /\ ~fStopping IN
  /\ worker = "finish"
  /\ fWorkerActive' = FALSE
  /\ fWorkerReschedule' = FALSE
  /\ fWorkerScheduled' = (again \/ fWorkerScheduled)
  /\ entered' = (again \/ entered)
  /\ At("fatal")
  /\ UNCHANGED <<ring, gates, history, fFatal, events, handler, stopper, quarantined>>

CheckFatal ==
  /\ worker = "fatal"
  /\ quarantined' = (quarantined \/ fFatal)
  /\ At("idle")
  /\ UNCHANGED <<ring, gates, flags, history, fFatal, events, handler, stopper>>

----------------------------------------------------------------------------
(***************************************************************************)
(* stopRuntimeAndDrain                                                     *)
(***************************************************************************)
StopAccepting ==
  /\ stopper = "idle"
  /\ fRuntimeStarted
  /\ fAcceptRequests' = FALSE
  /\ fStopping' = TRUE
  /\ stopper' = "unregister"
  /\ UNCHANGED <<fRuntimeStarted, registered, ring, flags, history, fFatal, events,
                 handler, worker, quarantined>>

Unregister ==
  /\ stopper = "unregister"
  /\ registered' = FALSE
  /\ stopper' = "synchronize"
  /\ UNCHANGED <<fAcceptRequests, fStopping, fRuntimeStarted, ring, flags, history,
                 fFatal, events, handler, worker, quarantined>>

\* synchronizeCallbacks has waited for the callback; the worker gets a last run.
StopSchedules ==
  /\ stopper = "synchronize"
  /\ handler = "idle"
  /\ ScheduleWorker
  /\ stopper' = "drain"
  /\ UNCHANGED <<ring, gates, history, fFatal, events, handler, worker, quarantined>>

Drained ==
  ~fWorkerActive /\ ~fWorkerScheduled /\ ~fWorkerReschedule /\ fRequestCount = 0

\* The loop that waits for the drain; then the thread call is cancelled.
StopDrained ==
  /\ stopper = "drain"
  /\ Drained
  /\ entered' = FALSE
  /\ stopper' = "cancelled"
  /\ UNCHANGED <<fWorkerScheduled, fWorkerActive, fWorkerReschedule, ring, gates,
                 history, fFatal, events, handler, worker, quarantined>>

\* Mutation: the wait on thread_call_isactive is missing.
StopReturnsAtOnce ==
  /\ stopper = "cancelled"
  /\ fRuntimeStarted' = FALSE
  /\ stopper' = "done"
  /\ UNCHANGED <<fAcceptRequests, fStopping, registered, ring, flags, history, fFatal,
                 events, handler, worker, quarantined>>

StopReturns ==
  /\ stopper = "cancelled"
  /\ worker = "idle"
  /\ fRuntimeStarted' = FALSE
  /\ stopper' = "done"
  /\ UNCHANGED <<fAcceptRequests, fStopping, registered, ring, flags, history, fFatal,
                 events, handler, worker, quarantined>>

----------------------------------------------------------------------------
Handler ==
  \/ MalformedEvent
  \/ EnqueueRequest
  \/ RefuseRequest
  \/ HandlerSchedules

WorkerStep ==
  \/ WorkerStarts
  \/ DequeueRequest
  \/ ProcessRequest
  \/ QueueEmpty
  \/ ClearQueue
  \/ WorkerFinishes
  \/ CheckFatal

Stop ==
  \/ Unregister
  \/ StopSchedules
  \/ StopDrained
  \/ StopReturns

Next ==
  \/ StartRuntime
  \/ EventArrives
  \/ Handler
  \/ WorkerStep
  \/ StopAccepting
  \/ Stop

Spec == Init /\ [][Next]_vars

(***************************************************************************)
(* The callback, the thread call and a stop in progress keep running.   *)
(* Nothing obliges the firmware to raise an event or the driver to stop.   *)
(***************************************************************************)
FairSpec ==
  /\ Spec
  /\ WF_vars(Handler)
  /\ WF_vars(WorkerStep)
  /\ WF_vars(Stop)

----------------------------------------------------------------------------
(***************************************************************************)
(* Properties                                                              *)
(***************************************************************************)

\* The ring's indices and the control points stay in range.
TypeOK ==
  /\ fRequests \in [Cells -> Ids]
  /\ fRequestHead \in Cells
  /\ fRequestTail \in Cells
  /\ fRequestCount \in 0 .. QueueSize
  /\ {fAcceptRequests, fStopping, fRuntimeStarted, registered} \subseteq BOOLEAN
  /\ {fWorkerScheduled, fWorkerActive, fWorkerReschedule, entered} \subseteq BOOLEAN
  /\ {fFatal, quarantined} \subseteq BOOLEAN
  /\ events \in Ids
  /\ handler \in {"idle", "accept", "schedule"}
  /\ worker \in {"idle", "loop", "process", "failed", "finish", "fatal"}
  /\ stopper \in {"idle", "unregister", "synchronize", "drain", "cancelled", "done"}
  /\ taken \in SUBSET Ids
  /\ dropped \in SUBSET Ids

\* The ring is a first-in first-out queue: tail is head plus count, and the
\* queued requests are newer than every request already dequeued or dropped,
\* in the order they arrived.  No request is lost, repeated or overtaken.
QueueInOrder ==
  /\ fRequestTail = (fRequestHead + fRequestCount) % QueueSize
  /\ \A i \in 0 .. fRequestCount - 1 :
       LET id == fRequests[(fRequestHead + i) % QueueSize] IN
       /\ \A old \in taken \cup dropped : old < id
       /\ \A j \in 0 .. i - 1 : fRequests[(fRequestHead + j) % QueueSize] < id

\* When stopRuntimeAndDrain has returned, no callback and no run of the worker is
\* inside MlxFwPages, none can start, and no accepted request is left behind:
\* the driver goes on to reclaim the pages and free the object.
StoppedIsQuiet ==
  stopper = "done" =>
    /\ handler = "idle" /\ ~registered
    /\ worker = "idle"
    /\ ~entered
    /\ fRequestCount = 0

\* A fatal fault, raised by the callback or by the worker, always gets the
\* device quarantined, also when it is raised while the worker is finishing or
\* teardown has begun.
FatalQuarantines == fFatal ~> quarantined

\* While the driver is not stopping, queued requests are always taken out again:
\* no wake-up is lost between the callback and a finishing worker.
QueueServed == fRequestCount > 0 ~> (fRequestCount = 0 \/ fStopping)

\* "Reclaim startup and runtime pages during teardown": a stop that has begun
\* comes to its end.
StopEnds == fStopping ~> stopper = "done"

=============================================================================
