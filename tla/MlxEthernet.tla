---------------------------- MODULE MlxEthernet ----------------------------
(***************************************************************************)
(* The Ethernet interface, Sources/netif/MlxEthernet.cpp: its life (start, *)
(* stop, free), enable and disable with the firmware objects and the       *)
(* memory they create and destroy, the notifier, and the data path of      *)
(* MlxEthRings that runs in between.                                       *)
(*                                                                         *)
(* enable is a chain of steps, each of which may fail; a failure undoes    *)
(* the part it belongs to and then everything (the labels fail and         *)
(* fail_all).  disable runs the same undoing.  A part is undone object by  *)
(* object and stops at the first command that fails.                       *)
(*                                                                         *)
(* A command is taken by its outcome, as MlxCmd shows: carried out;        *)
(* failed or refused and never carried out; timed out, carried out later   *)
(* or never, after which the interface refuses every other command here.   *)
(***************************************************************************)
EXTENDS MlxEthRings, Sequences

CONSTANTS NetThreads,   \* threads on which the network stack calls enable, disable
          Term,         \* the thread on which MlxEthernetDriver stops the interface
          Traffics,     \* bound: the sets of directions that may carry packets
          Undisturbed   \* bound: those with which nothing fails and nobody stops

ASSUME TermAssumption == Term \notin NetThreads /\ Traffics \subseteq SUBSET Queues

Threads == NetThreads \cup {Term}

(***************************************************************************)
(* The chain of enable: allocGlobalResources, createTxResources,           *)
(* createRxResources, the notifier and createRxFlowSteering.               *)
(***************************************************************************)
UpOrder == << "PD", "TD", "MKEY",
              "TXPOOL", "TIS", "TXCQ", "SQ", "BFREG", "SQRDY",
              "RXPOOL", "RXCQ", "RQ", "TIR", "RQRDY",
              "NOTIFY",
              "FT", "FG", "FTE", "ROOT" >>

UpSteps == {UpOrder[i] : i \in 1 .. Len(UpOrder)}

\* Steps that only allocate memory or register, and send no command.
LocalSteps == {"TXPOOL", "BFREG", "RXPOOL", "NOTIFY"}

\* Firmware objects with a handle (fPd ... fFlowRootActive); SQRDY and RQRDY are
\* the states MODIFY_SQ and MODIFY_RQ put a queue in.
Objects == UpSteps \ (LocalSteps \cup {"SQRDY", "RQRDY"})

Parts == {"global", "tx", "rx", "flow"}

PartOf(step) ==
  CASE step \in {"PD", "TD", "MKEY"} -> "global"
    [] step \in {"TXPOOL", "TIS", "TXCQ", "SQ", "BFREG", "SQRDY"} -> "tx"
    [] step \in {"RXPOOL", "RXCQ", "RQ", "TIR", "RQRDY"} -> "rx"
    [] OTHER -> "flow"

\* destroyRxFlowSteering, destroyRxResources, destroyTxResources,
\* deallocGlobalResources.
UndoOrder(p) ==
  CASE p = "flow"   -> <<"ROOT", "FTE", "FG", "FT">>
    [] p = "rx"     -> <<"TIR", "RQ", "RXCQ">>
    [] p = "tx"     -> <<"SQ", "TXCQ", "TIS">>
    [] p = "global" -> <<"MKEY", "TD", "PD">>

\* The host memory a step allocates: the bounce and receive pools, the buffers
\* of the CQs, slots of the shared doorbell-record page, a blue-flame register.
Allocates(step) ==
  CASE step = "TXPOOL" -> {"txpool"}
    [] step = "TXCQ"   -> {"txcqbuf", "txcqdb"}
    [] step = "SQ"     -> {"txdb"}
    [] step = "BFREG"  -> {"bfreg"}
    [] step = "RXPOOL" -> {"rxpool"}
    [] step = "RXCQ"   -> {"rxcqbuf", "rxcqdb"}
    [] step = "RQ"     -> {"rxdb"}
    [] OTHER           -> {}

\* What is freed once an object is gone, also when it was never there.
Frees(obj) ==
  CASE obj = "SQ"   -> {"txpool", "txdb", "bfreg"}
    [] obj = "TXCQ" -> {"txcqbuf", "txcqdb"}
    [] obj = "RQ"   -> {"rxpool", "rxdb"}
    [] obj = "RXCQ" -> {"rxcqbuf", "rxcqdb"}
    [] OTHER        -> {}

\* The rings (start to releaseResources) and the reference to the core driver.
Rings  == {"txring", "rxring"}
Memory == (UNION {Allocates(s) : s \in UpSteps}) \cup Rings \cup {"core"}

VARIABLES
  life,                  \* of the MlxEthernet object
  fNic,                  \* the interface is attached to the network stack
  traffic,               \* the directions that carry packets, one of Traffics
  fEnabled, fEnabling, fDisabling, fNotifierRegistered,
  registered,            \* the EQ has this object in its table of notifiers
  has,                   \* the objects whose handle is valid
  mem,                   \* the host memory that is allocated and mapped
  fw,                    \* the objects and queue states in the firmware
  late,                  \* a timed-out command the firmware has not carried out
  quarantined,           \* the command interface (MlxCmd) is quarantined
  pc, at, part, job,     \* per thread: control point, step, part, and its caller
  failed                 \* per thread: the parts whose undoing failed

flagVars == <<fEnabled, fEnabling, fDisabling>>
noteVars == <<fNotifierRegistered, registered>>
objVars  == <<has, mem, fw, late, quarantined>>
callVars == <<pc, at, part, job, failed>>
ctlVars  == <<life, fNic, traffic, flagVars, noteVars, objVars, callVars>>
vars     == <<ctlVars, ringVars>>

Points == {"idle", "up", "enabled", "report", "unregister", "sync", "undo",
           "finish", "release", "releaseSync", "releaseFree"}

NoCommand == [kind |-> "none", obj |-> "PD"]

Init ==
  /\ RingsInit
  /\ life = "new"
  /\ fNic = FALSE
  /\ traffic \in Traffics
  /\ fEnabled = FALSE
  /\ fEnabling = FALSE
  /\ fDisabling = FALSE
  /\ fNotifierRegistered = FALSE
  /\ registered = FALSE
  /\ has = {}
  /\ mem = {}
  /\ fw = {}
  /\ late = NoCommand
  /\ quarantined = FALSE
  /\ pc = [t \in Threads |-> "idle"]
  /\ at = [t \in Threads |-> "PD"]
  /\ part = [t \in Threads |-> "global"]
  /\ job = [t \in Threads |-> "none"]
  /\ failed = [t \in Threads |-> {}]

\* Mutation: pollTxCq gives fLock back before it writes the consumer counter.
LockFreeWhileArming == hpc # "tx"

\* pollTxCq holds fLock from its first look to the arming of the CQ.
LockFree == hpc \notin {"tx", "txarm"}

\* releaseResources runs; it runs under an enable or disable that has not ended.
Releasing == pc[Term] \in {"release", "releaseSync", "releaseFree"}
Overran   == Releasing /\ \E t \in NetThreads : pc[t] # "idle"

\* Thread t goes on at point p; its other locals stay.
Goto(t, p) ==
  /\ pc' = [pc EXCEPT ![t] = p]
  /\ UNCHANGED <<at, part, job, failed>>

\* Steps may fail and the driver may stop, where the bound does not exclude it.
MayBeDisturbed == traffic \notin Undisturbed

\* The call of t ends; in stop, releaseResources follows the disable.
Return(t) ==
  /\ pc' = [pc EXCEPT ![t] = IF job[t] = "stop" THEN "release" ELSE "idle"]
  /\ job' = [job EXCEPT ![t] = IF @ = "stop" THEN "stop" ELSE "none"]
  /\ at' = [at EXCEPT ![t] = "PD"]
  /\ part' = [part EXCEPT ![t] = "global"]
  /\ failed' = [failed EXCEPT ![t] = {}]

----------------------------------------------------------------------------
(***************************************************************************)
(* start, called by MlxEthernetDriver::start for an Ethernet port: the     *)
(* core is retained, rings allocated, the MAC queried, the interface       *)
(* attached.  Any failure releases what there is.                          *)
(***************************************************************************)
Start(ok) ==
  /\ life = "new"
  /\ life' = IF ok THEN "up" ELSE "failed"
  /\ mem' = IF ok THEN Rings \cup {"core"} ELSE {}
  /\ fNic' = ok
  /\ UNCHANGED <<traffic, flagVars, noteVars, has, fw, late, quarantined,
                 callVars, ringVars>>

\* Mutation: enable does not look for what a failed teardown left.
MayEnableOverLeftovers == ~fEnabled /\ ~fEnabling /\ ~fDisabling

(***************************************************************************)
(* The entry of enable.  Otherwise it returns at once: already enabled,    *)
(* busy, or not ready because a failed teardown has left objects.  Four of *)
(* the handles are not looked at.                                          *)
(***************************************************************************)
MayEnable ==
  /\ ~fEnabled /\ ~fEnabling /\ ~fDisabling
  /\ has \cap {"PD", "TD", "TIS", "SQ", "RQ", "TIR", "FT"} = {}

Enable(t) ==
  /\ t \in NetThreads
  /\ pc[t] = "idle"
  /\ fNic
  /\ LockFree
  /\ MayEnable
  /\ fEnabling' = TRUE
  /\ pc' = [pc EXCEPT ![t] = "up"]
  /\ at' = [at EXCEPT ![t] = "PD"]
  /\ job' = [job EXCEPT ![t] = "enable"]
  /\ UNCHANGED <<life, fNic, traffic, fEnabled, fDisabling, noteVars, objVars,
                 part, failed, ringVars>>

\* The undoing of part p begins; only fail in the code goes on without fail_all.
Undo(t, p, fails) ==
  /\ pc' = [pc EXCEPT ![t] = "undo"]
  /\ part' = [part EXCEPT ![t] = p]
  /\ at' = [at EXCEPT ![t] = "PD"]
  /\ failed' = [failed EXCEPT ![t] = fails]

\* A step of enable that succeeded leads to the next one, a failed one to the
\* undoing of its own part (job "own"), whose result nobody looks at.
UpTo(t) ==
  LET i == CHOOSE k \in 1 .. Len(UpOrder) : UpOrder[k] = at[t]
  IN  IF i < Len(UpOrder)
      THEN /\ at' = [at EXCEPT ![t] = UpOrder[i + 1]]
           /\ UNCHANGED <<pc, part, job, failed>>
      ELSE Goto(t, "enabled")

UpFails(t) ==
  /\ MayBeDisturbed
  /\ job' = [job EXCEPT ![t] = "own"]
  /\ Undo(t, PartOf(at[t]), {})

----------------------------------------------------------------------------
(***************************************************************************)
(* The outcomes of a command.                                              *)
(***************************************************************************)
NotCarriedOut == UNCHANGED <<late, quarantined>>

TimesOut(kind, obj) ==
  /\ ~quarantined
  /\ quarantined' = TRUE
  /\ late' = [kind |-> kind, obj |-> obj]

Created(f, obj) == f \cup {obj}

\* Destroying a queue ends its ready state.
Destroyed(f, obj) ==
  f \ ({obj} \cup (IF obj = "SQ" THEN {"SQRDY"} ELSE {})
             \cup (IF obj = "RQ" THEN {"RQRDY"} ELSE {}))

\* What a successful step does to the rings, or an unsuccessful one before it.
RingsOf(step) ==
  CASE step = "TXPOOL" -> ResetRing("tx")
    [] step = "RXPOOL" -> ResetRing("rx")
    [] step = "TXCQ"   -> NewCq("tx")
    [] step = "RXCQ"   -> NewCq("rx")
    [] OTHER           -> UNCHANGED ringVars

\* createTxResources or createRxResources up to the pool, allocBfreg.
UpLocal(t) ==
  /\ at[t] \in LocalSteps \ {"NOTIFY"}
  /\ RingsOf(at[t])
  /\ \/ mem' = mem \cup Allocates(at[t]) /\ UpTo(t)
     \/ mem' = mem /\ UpFails(t)
  /\ UNCHANGED <<noteVars, has, fw, late, quarantined>>

\* Registered "before arming the CQs"; both are armed with sequence number zero.
UpNotify(t) ==
  /\ at[t] = "NOTIFY"
  /\ fNotifierRegistered' = TRUE
  /\ registered' = TRUE
  /\ Arm(Queues)
  /\ UpTo(t)
  /\ UNCHANGED <<objVars, fPc, fCc, fCqCc, ci, db, txVars, devVars, hpc, got>>

\* A command that creates an object: on success its memory and handle are kept,
\* otherwise the memory taken for it is freed, after a timeout too.
UpCreate(t) ==
  /\ at[t] \in Objects
  /\ \/ /\ ~quarantined
        /\ has' = has \cup {at[t]}
        /\ mem' = mem \cup Allocates(at[t])
        /\ fw' = Created(fw, at[t])
        /\ RingsOf(at[t])
        /\ UpTo(t)
        /\ UNCHANGED <<late, quarantined>>
     \/ /\ NotCarriedOut \/ TimesOut("create", at[t])
        /\ UpFails(t)
        /\ UNCHANGED <<has, mem, fw, ringVars>>
  /\ UNCHANGED noteVars

\* MODIFY_SQ; MODIFY_RQ, before which the whole receive ring has been posted.
UpReady(t) ==
  /\ at[t] \in {"SQRDY", "RQRDY"}
  /\ IF at[t] = "RQRDY" THEN PostAllRx ELSE UNCHANGED ringVars
  /\ \/ /\ ~quarantined
        /\ fw' = Created(fw, at[t])
        /\ UpTo(t)
        /\ UNCHANGED <<late, quarantined>>
     \/ /\ NotCarriedOut \/ TimesOut("create", at[t])
        /\ UpFails(t)
        /\ UNCHANGED fw
  /\ UNCHANGED <<has, mem, noteVars>>

Up(t) ==
  /\ pc[t] = "up"
  /\ UpLocal(t) \/ UpNotify(t) \/ UpCreate(t) \/ UpReady(t)
  /\ UNCHANGED <<life, fNic, traffic, flagVars>>

----------------------------------------------------------------------------
\* Behind a part: the own part of a failed enable leads to fail_all, or, when it
\* is the global part, to fail; otherwise the parts follow each other, the
\* receive part only behind a steering that is gone, the global part only when
\* nothing failed.
AfterPart(t, fails) ==
  CASE job[t] = "own" /\ part[t] = "global" -> Goto(t, "finish")
    [] job[t] = "own" /\ part[t] # "global" ->
         /\ job' = [job EXCEPT ![t] = "enable"]
         /\ pc' = [pc EXCEPT ![t] = "unregister"]
         /\ UNCHANGED <<at, part, failed>>
    [] job[t] # "own" /\ part[t] = "flow" ->
         UNCHANGED job /\ (IF fails = {} THEN Undo(t, "rx", fails)
                                         ELSE Undo(t, "tx", fails))
    [] job[t] # "own" /\ part[t] = "rx" -> UNCHANGED job /\ Undo(t, "tx", fails)
    [] job[t] # "own" /\ part[t] = "tx" /\ fails = {} ->
         UNCHANGED job /\ Undo(t, "global", fails)
    [] OTHER -> Goto(t, "finish")

\* The memory freed when the first n objects of a part are gone, or were never
\* there: all that belongs to the others is kept.
FreedWith(p, n) == UNION {Frees(UndoOrder(p)[i]) : i \in 1 .. n}

(***************************************************************************)
(* The undoing of a part: n of its objects are destroyed, then the next    *)
(* one fails or times out, or there is none.  Nothing else looks at what   *)
(* the commands of one part change while it runs: the notifier is gone and *)
(* enable, disable and stop exclude each other or read the handles later.  *)
(***************************************************************************)
UndoPart(t, n) ==
  LET order == UndoOrder(part[t])
      done  == {order[i] : i \in 1 .. n}
      left  == {o \in fw : \A d \in done \cap has : o \in Destroyed(fw, d)}
      all   == n = Len(order)
  IN
  /\ done \cap has # {} => ~quarantined
  /\ has' = has \ done
  /\ fw' = left
  /\ mem' = mem \ FreedWith(part[t], n)
  /\ CASE part[t] = "tx" -> Dismantle("tx", "SQ" \in done, all)
       [] part[t] = "rx" -> Dismantle("rx", "RQ" \in done, all)
       [] OTHER -> UNCHANGED ringVars
  /\ \/ all /\ AfterPart(t, failed[t]) /\ UNCHANGED <<late, quarantined>>
     \/ /\ ~all
        /\ MayBeDisturbed
        /\ order[n + 1] \in has
        /\ AfterPart(t, failed[t] \cup {part[t]})
        /\ \/ NotCarriedOut
           \/ TimesOut("destroy", order[n + 1])

UndoStep(t) ==
  /\ pc[t] = "undo"
  /\ \E n \in 0 .. Len(UndoOrder(part[t])) : UndoPart(t, n)
  /\ UNCHANGED <<life, fNic, traffic, flagVars, noteVars>>

(***************************************************************************)
(* disable, for the network stack or from stop.                            *)
(***************************************************************************)
DisableEntry(t, caller) ==
  /\ ~fEnabling /\ ~fDisabling
  /\ fDisabling' = TRUE
  /\ fEnabled' = FALSE
  /\ pc' = [pc EXCEPT ![t] = "unregister"]
  /\ job' = [job EXCEPT ![t] = caller]
  /\ UNCHANGED <<fEnabling, at, part, failed>>

Disable(t) ==
  /\ t \in NetThreads
  /\ pc[t] = "idle"
  /\ fNic
  /\ LockFree
  /\ DisableEntry(t, "disable")
  /\ UNCHANGED <<life, fNic, traffic, noteVars, objVars, ringVars>>

\* unregisterNotifier, in disable and under fail_all.
Unregister(t) ==
  /\ pc[t] = "unregister"
  /\ IF fNotifierRegistered
     THEN registered' = FALSE /\ Goto(t, "sync")
     ELSE UNCHANGED <<registered, job>> /\ Undo(t, "flow", {})
  /\ UNCHANGED <<life, fNic, traffic, flagVars, fNotifierRegistered, objVars, ringVars>>

\* Mutation: nobody waits for the callbacks that run.
SyncWithoutWaiting(t) ==
  /\ pc[t] = "sync"
  /\ fNotifierRegistered' = FALSE
  /\ Undo(t, "flow", {})
  /\ UNCHANGED <<life, fNic, traffic, flagVars, registered, objVars, job, ringVars>>

\* synchronizeCallbacks (see MlxEQ) returns when no callback runs.
Sync(t) ==
  /\ pc[t] = "sync"
  /\ hpc = "idle"
  /\ fNotifierRegistered' = FALSE
  /\ Undo(t, "flow", {})
  /\ UNCHANGED <<life, fNic, traffic, flagVars, registered, objVars, job, ringVars>>

(***************************************************************************)
(* The last sections of enable and disable under fLock.  Behind a          *)
(* successful one enable asks the firmware for the port's state.           *)
(***************************************************************************)
Enabled(t) ==
  /\ pc[t] = "enabled"
  /\ LockFree
  /\ fEnabled' = TRUE
  /\ fEnabling' = FALSE
  /\ Goto(t, "report")
  /\ UNCHANGED <<life, fNic, traffic, fDisabling, noteVars, objVars, ringVars>>

Report(t) ==
  /\ pc[t] = "report"
  /\ Return(t)
  /\ UNCHANGED <<life, fNic, traffic, flagVars, noteVars, objVars, ringVars>>

Finish(t) ==
  /\ pc[t] = "finish"
  /\ LockFree
  /\ IF job[t] \in {"enable", "own"}
     THEN fEnabled' = FALSE /\ fEnabling' = FALSE /\ UNCHANGED fDisabling
     ELSE fDisabling' = FALSE /\ UNCHANGED <<fEnabled, fEnabling>>
  /\ Return(t)
  /\ UNCHANGED <<life, fNic, traffic, noteVars, objVars, ringVars>>

----------------------------------------------------------------------------
(***************************************************************************)
(* stop: disable, whose result is only logged, then releaseResources.      *)
(* Neither waits for an enable or disable that a network thread has in     *)
(* progress, nor keeps one from beginning before the interface is          *)
(* detached.  releaseResources then changes the notifier, the rings and    *)
(* the core under that thread; the model ends there (Overran), since what  *)
(* follows is a NULL pointer or freed memory, whichever comes first.  It   *)
(* also leaves out a call that begins while releaseResources runs.         *)
(***************************************************************************)
Stop ==
  /\ MayBeDisturbed
  /\ life = "up"
  /\ pc[Term] = "idle"
  /\ LockFree
  /\ life' = "stopping"
  /\ \/ DisableEntry(Term, "stop")
     \/ /\ fEnabling \/ fDisabling
        /\ pc' = [pc EXCEPT ![Term] = "release"]
        /\ job' = [job EXCEPT ![Term] = "stop"]
        /\ UNCHANGED <<flagVars, at, part, failed>>
  /\ UNCHANGED <<fNic, traffic, noteVars, objVars, ringVars>>

\* MlxEthernet::free: the last reference is gone, releaseResources runs again.
Free ==
  /\ life = "stopped"
  /\ \A t \in Threads : pc[t] = "idle"
  /\ life' = "freeing"
  /\ pc' = [pc EXCEPT ![Term] = "release"]
  /\ UNCHANGED <<fNic, traffic, flagVars, noteVars, objVars, at, part, job,
                 failed, ringVars>>

ReleaseUnregister ==
  /\ pc[Term] = "release"
  /\ IF "core" \in mem /\ fNotifierRegistered
     THEN registered' = FALSE /\ Goto(Term, "releaseSync")
     ELSE UNCHANGED registered /\ Goto(Term, "releaseFree")
  /\ UNCHANGED <<life, fNic, traffic, flagVars, fNotifierRegistered, objVars, ringVars>>

ReleaseSync ==
  /\ pc[Term] = "releaseSync"
  /\ hpc = "idle"
  /\ fNotifierRegistered' = FALSE
  /\ Goto(Term, "releaseFree")
  /\ UNCHANGED <<life, fNic, traffic, flagVars, registered, objVars,
                 ringVars>>

\* Mutation: only the two work queues are looked at.
MustRetainQueuesOnly == has \cap {"SQ", "RQ"} # {}

\* "hardware resources quarantined"
MustRetain == has \cap {"SQ", "RQ", "TXCQ", "RXCQ", "TIR", "ROOT"} # {}

\* The interface is detached; rings and core are released unless objects are
\* left.  An object freed with something left is retained for good.
ReleaseFree ==
  /\ pc[Term] = "releaseFree"
  /\ fNic' = FALSE
  /\ mem' = IF MustRetain THEN mem ELSE mem \ (Rings \cup {"core"})
  /\ life' = IF life = "stopping" THEN "stopped"
             ELSE IF mem' \cap (Rings \cup {"core"}) = {} THEN "freed" ELSE "retained"
  /\ pc' = [pc EXCEPT ![Term] = "idle"]
  /\ job' = [job EXCEPT ![Term] = "none"]
  /\ UNCHANGED <<traffic, flagVars, noteVars, has, fw, late, quarantined, at,
                 part, failed, ringVars>>

----------------------------------------------------------------------------
(***************************************************************************)
(* The data path, when the objects are there.                              *)
(***************************************************************************)
\* outputPacket; the stack has any of its mbufs to send.
Output ==
  /\ fEnabled
  /\ LockFree
  /\ "SQ" \in has
  /\ "bfreg" \in mem
  /\ stack # {}
  /\ "tx" \in traffic
  /\ Xmit(CHOOSE p \in stack : TRUE)
  /\ UNCHANGED ctlVars

\* Packets arrive only through the steering, and the device sends in SQ state
\* ready.  Completions that come when the notifier is gone are left out: nobody
\* looks at them, and Uses says where they may be written.
DeviceWorks(q) ==
  /\ registered
  /\ IF q = "tx" THEN "SQRDY" \in fw ELSE {"RQRDY", "ROOT", "FTE", "TIR"} \subseteq fw
  /\ q \in traffic
  /\ DeviceCompletes(q)
  /\ UNCHANGED ctlVars

\* The EQ's work loop takes a completion event: it calls handleEvent if this
\* object is registered, which polls if the CQ number is one of its own.
TakeEvent(q) ==
  /\ q \in events
  /\ hpc = "idle"
  /\ events' = events \ {q}
  /\ IF registered /\ (IF q = "tx" THEN "TXCQ" ELSE "RXCQ") \in has
     THEN HandleCompletion(q)
     ELSE UNCHANGED <<hpc, fresh>>
  /\ UNCHANGED <<ctlVars, fPc, fCc, fCqCc, ci, db, txVars, devVars, armed, got>>

\* handleEvent for PORT_STATE_CHANGE: it queries the port and reports the link.
\* fLinkUp and fLinkSpeed are written and never read.
TakePortEvent ==
  /\ hpc = "idle"
  /\ registered
  /\ hpc' = "link"
  /\ UNCHANGED <<ctlVars, fPc, fCc, fCqCc, db, txVars, devVars, cqVars, got>>

ReportPort ==
  /\ hpc = "link"
  /\ hpc' = "idle"
  /\ UNCHANGED <<ctlVars, fPc, fCc, fCqCc, db, txVars, devVars, cqVars, got>>

Handler ==
  \/ (PollTx \/ PollRx \/ PostRx) /\ UNCHANGED ctlVars
  \/ \E q \in Queues : (PollEnds(q) \/ ArmAfterPoll(q)) /\ UNCHANGED ctlVars
  \/ \E q \in Queues : TakeEvent(q)
  \/ ReportPort

----------------------------------------------------------------------------
(***************************************************************************)
(* The rest of the world.                                                  *)
(***************************************************************************)
\* The firmware carries out a timed-out command; one that names an object that
\* is not there fails.
FirmwareAnswersLate ==
  /\ late.kind # "none"
  /\ late' = NoCommand
  /\ fw' = CASE late.kind = "destroy" -> Destroyed(fw, late.obj)
             [] late.obj = "SQRDY" /\ "SQ" \notin fw -> fw
             [] late.obj = "RQRDY" /\ "RQ" \notin fw -> fw
             [] OTHER -> Created(fw, late.obj)
  /\ UNCHANGED <<life, fNic, traffic, flagVars, noteVars, has, mem, quarantined,
                 callVars, ringVars>>

Body(t) ==
  \/ Up(t)
  \/ UndoStep(t)
  \/ Unregister(t)
  \/ Sync(t)
  \/ Finish(t)
  \/ Enabled(t)
  \/ Report(t)

Release == ReleaseUnregister \/ ReleaseSync \/ ReleaseFree

Next ==
  /\ ~Overran
  /\ \/ \E ok \in BOOLEAN : Start(ok)
     \/ ~Releasing /\ \E t \in Threads : Enable(t) \/ Disable(t) \/ Body(t)
     \/ Stop
     \/ Free
     \/ Release
     \/ Output
     \/ \E q \in Queues : DeviceWorks(q)
     \/ TakePortEvent
     \/ Handler
     \/ FirmwareAnswersLate

Spec == Init /\ [][Next]_vars

(***************************************************************************)
(* The EQ's work loop runs, threads run, the device works on what it is    *)
(* told of while the link is up.  A completion event is taken however      *)
(* many port events there are: the EQ hands entries out in their order.    *)
(* Commands end by answer or timeout.                                      *)
(***************************************************************************)
FairSpec ==
  /\ Spec
  /\ WF_vars(~Overran /\ Handler)
  /\ SF_vars(~Overran /\ TakeEvent("tx"))
  /\ WF_vars(~Overran /\ DeviceWorks("tx"))

----------------------------------------------------------------------------
(***************************************************************************)
(* Properties                                                              *)
(***************************************************************************)

\* Everything is of its type.
TypeOK ==
  /\ RingsTypeOK
  /\ life \in {"new", "up", "failed", "stopping", "stopped", "freeing", "freed", "retained"}
  /\ traffic \in Traffics
  /\ {fNic, fEnabled, fEnabling, fDisabling, fNotifierRegistered,
      registered, quarantined} \subseteq BOOLEAN
  /\ has \subseteq Objects
  /\ mem \subseteq Memory
  /\ fw \subseteq Objects \cup {"SQRDY", "RQRDY"}
  /\ late \in [kind : {"none", "create", "destroy"}, obj : Objects \cup {"SQRDY", "RQRDY"}]
  /\ pc \in [Threads -> Points]
  /\ at \in [Threads -> UpSteps]
  /\ part \in [Threads -> Parts]
  /\ job \in [Threads -> {"none", "enable", "own", "disable", "stop"}]
  /\ failed \in [Threads -> SUBSET Parts]

\* What a firmware object cannot do without: other objects, and the host memory
\* its CREATE command names: of a CQ its buffer and doorbell record, of a work
\* queue its ring ("Both WQs must remain DMA mapped for the entire
\* firmware-object lifetime") and doorbell record.  A queue in state ready also
\* reads or writes the buffers its entries point to.
Uses(obj) ==
  CASE obj = "MKEY"  -> {"PD"}
    [] obj = "TIS"   -> {"PD", "TD"}
    [] obj = "TXCQ"  -> {"txcqbuf", "txcqdb"}
    [] obj = "SQ"    -> {"PD", "TIS", "TXCQ", "txring", "txdb"}
    [] obj = "SQRDY" -> {"SQ", "MKEY", "txpool"}
    [] obj = "RXCQ"  -> {"rxcqbuf", "rxcqdb"}
    [] obj = "RQ"    -> {"PD", "RXCQ", "rxring", "rxdb"}
    [] obj = "RQRDY" -> {"RQ", "MKEY", "rxpool"}
    [] obj = "TIR"   -> {"TD", "RQ"}
    [] obj = "FG"    -> {"FT"}
    [] obj = "FTE"   -> {"FG", "TIR"}
    [] obj = "ROOT"  -> {"FT"}
    [] OTHER         -> {}

\* What an object created behind its caller's back has lost: the memory taken for
\* the command that timed out and created it later.
Lost(obj) == IF obj \in has THEN {} ELSE Allocates(obj)

\* "No hardware-referenced DMA memory is released before destroy success or
\* bus-master disable."  The code breaks this in one way: cmdCreateCq, cmdCreateSq
\* and cmdCreateRq free the CQ buffer and the doorbell records they took when their
\* command times out, and the firmware may carry it out later.  Nothing else that
\* an object in the firmware uses is destroyed or freed, not the ring of a late
\* work queue either, nor the CQ it completes to, whichever commands of enable,
\* disable and stop fail or time out; until stop overruns one of them (Overran),
\* where the model ends.
OnlyLateCreatesLose == \A obj \in fw : Uses(obj) \ Lost(obj) \subseteq fw \cup mem

\* No step of enable overwrites a handle or a buffer left by an earlier enable:
\* the guard of enable looks at seven of the handles, and that is enough.
NothingOverwritten ==
  \A t \in Threads : pc[t] = "up" => (has \cap {at[t]}) \cup (mem \cap Allocates(at[t])) = {}

\* The memory the completion handler works on, and the core it sends commands
\* through, are there as long as it runs; the handler takes no lock that disable
\* or stop would respect.
HandlerSafe ==
  /\ hpc \in {"tx", "txarm"} => {"core", "txring", "txcqbuf", "txcqdb"} \subseteq mem
  /\ hpc \in {"rx", "rxpost", "rxarm"} =>
       {"core", "rxring", "rxpool", "rxcqbuf", "rxcqdb"} \subseteq mem
  /\ hpc = "link" => "core" \in mem

\* Receives are handed up in the order of arrival, none twice and none left out,
\* and the bytes copied are those of the receive the completion is about: the
\* device has not been given the slot again.
RxInOrder ==
  hpc = "rxpost" =>
    LET entry == cqe["rx"][Slot("rx", fCqCc["rx"])]
    IN  entry.ctr = fCc["rx"] /\ got = entry.ctr

\* The send path is the bounded queue of TxQueue.
InFlight ==
  IF "SQ" \in has
  THEN [i \in 1 .. Dist("tx", fPc["tx"], fCc["tx"]) |-> fWqeMbuf[Slot("tx", fCc["tx"] + i - 1)]]
  ELSE <<>>

TxQ == INSTANCE TxQueue WITH
         Room <- RingSize["tx"],
         q    <- InFlight,
         sent <- IF "SQ" \in has THEN Dist("tx", hw["tx"], fCc["tx"]) ELSE 0

\* The counters that wrap, the completions and the teardown paths together give
\* the stack the queue TxQueue promises: bounded, in order, every packet back
\* once, and none before it was sent unless the queue is torn down.
ImplementsTxQueue == TxQ!Spec

\* A packet in the ring comes back while the interface stays enabled: no
\* completion is missed between the last look at the CQ and its arming.  The code
\* breaks this: pollRxCq has no budget, and as long as packets arrive it keeps the
\* work loop from the completions of the send queue.
TxReturned ==
  \A p \in Pkts : p \notin stack ~> (p \in stack \/ ~fEnabled)

\* That is the only way: with both directions busy, a packet comes back if the
\* polling of the receive CQ always ends.
TxReturnedUnlessFlooded ==
  []<>(hpc \notin {"rx", "rxpost"}) => TxReturned

\* "Sustained RX pass without CQ or RQ stalls": the device never has more
\* completions than a CQ holds beyond the consumer counter it has been told of.  The
\* code breaks this in one place: pollRxCq posts slots again inside its loop and
\* writes the counter behind it.  Elsewhere both CQs have room; pollTxCq has no such
\* gap, because fLock keeps packets out until the counter is written.
OnlyRxPollOverruns ==
  \A q \in Queues :
    \/ Dist(q, cqHw[q], ci[q]) =< RingSize[q]
    \/ q = "rx" /\ hpc \in {"rx", "rxpost", "rxarm"}

=============================================================================
