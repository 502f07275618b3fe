---------------------------- MODULE MlxPCIDriver ----------------------------
(***************************************************************************)
(* The device's life, Sources/core/MlxPCIDriver.cpp: start() brings the    *)
(* device up one firmware command and one object at a time, and cleanup(), *)
(* which stop(), free() and every failure of start() run, takes it down    *)
(* and decides whether the memory the device was told of may be released.  *)
(*                                                                         *)
(* Three other threads can meet them: the health timer (MlxHealth.cpp),    *)
(* the interrupt handler that sees DEVICE_FATAL, and the page worker.      *)
(* Each may call enterDmaQuarantine.  What MlxCmd, MlxEQ, MlxUAR and       *)
(* MlxFwPages do inside a call is here the outcome of the call; the first, *)
(* the second and the last have modules of their own.                      *)
(***************************************************************************)
EXTENDS Integers, FiniteSets

CONSTANTS NumAsync,   \* fNumAsyncEqs
          NumComp,    \* fNumCompEqs
          Threshold,  \* missed health updates that make a watchdog
          QueueSize   \* MLX_FW_REQUEST_QUEUE_SIZE

ASSUME SizesAssumption ==
  /\ NumAsync \in Nat /\ NumComp \in Nat \ {0} /\ Threshold \in Nat \ {0}
  /\ QueueSize \in Nat \ {0}

NumEqs == NumAsync + NumComp
Eqs    == 1 .. NumEqs         \* in the order of their creation
\* shutdown() destroys the completion EQs first.
Destroyed(i) == IF i <= NumComp THEN NumAsync + i ELSE i - NumComp

Callers == {"health", "interrupt", "worker"}
Cmd(op) == <<op, 0>>
Ops == {"ENABLE_HCA", "SET_ISSI", "MANAGE_PAGES", "SET_HCA_CAP", "INIT_HCA",
        "QUERY_HCA_CAP", "ALLOC_UAR", "FREE_UAR", "TEARDOWN_HCA",
        "DISABLE_HCA"}
Commands == (Ops \X {0}) \cup ({"CREATE_EQ", "DESTROY_EQ"} \X Eqs)

\* What start() does next when a step of it succeeds.
After ==
  [map |-> "enable", enable |-> "issi", issi |-> "bootpages",
   bootpages |-> "setcap", setcap |-> "initpages", initpages |-> "inithca",
   inithca |-> "query", query |-> "uar", uar |-> "dbrecord",
   dbrecord |-> "eq", eq |-> "runtime", runtime |-> "interrupts",
   interrupts |-> "health", health |-> "dma", dma |-> "publish",
   publish |-> "running"]
StartSteps   == DOMAIN After \cup {"uarback"}
CleanupSteps == {"cleanup", "healthfree", "irqfree", "drain", "destroy",
                 "teardown", "reclaim", "disable", "boundary", "freepages",
                 "freedma", "freeeq", "freeuar", "freecmd"}
Ends         == {"retained", "released"}

VARIABLES
  pc, k,           \* start and cleanup: control point, EQ of a loop
  busMaster,       \* PCI bus mastering is enabled
  fCmd,            \* the command interface
  outstanding,     \* commands that timed out and have not been answered
  fetched,         \* those of them the firmware can still execute
  hca, hwEqs,      \* the firmware's own state, and the EQs that exist for it
  rings, valid,    \* the EQs with a mapped ring, and those marked valid
  pages,           \* the pages of MlxFwPages: none, firmware or ambiguous
  bootUar,         \* fBootUarValid
  fHcaEnabled, fHcaInitialized,
  runtime,         \* fRuntimePagesStarted
  requests,        \* MlxFwPages: fRequestCount
  workerOver,      \* the page worker's last run has ended during the stop
  interrupts,      \* the interrupt sources are enabled
  fStarted,        \* MlxHealth: the timer runs
  fMissCount, hung,\* MlxHealth: missed updates; the firmware has stopped
  published,       \* the property mlx_eth is set
  fDmaQuarantined,
  q,               \* caller -> its control point in enterDmaQuarantine
  eqDestroyed, teardownOk, \* cleanup's local variables
  released         \* what cleanup has released

cmdVars   == <<fCmd, outstanding, fetched, hca, hwEqs>>
hcaVars   == <<fHcaEnabled, fHcaInitialized>>
eqVars    == <<rings, valid>>
healthVars == <<fStarted, fMissCount>>
localVars == <<eqDestroyed, teardownOk>>
sideVars  == <<q, hung, published, requests, workerOver>>
  \* what the start and stop thread leaves
vars == <<pc, k, busMaster, cmdVars, eqVars, pages, bootUar, hcaVars, runtime,
          interrupts, healthVars, sideVars, fDmaQuarantined, localVars,
          released>>

TypeOK ==
  /\ pc \in StartSteps \cup {"running"} \cup CleanupSteps \cup Ends
  /\ k \in 1 .. NumEqs
  /\ busMaster \in BOOLEAN
  /\ fCmd \in {"absent", "up", "quarantined", "freed"}
  /\ fetched \subseteq outstanding /\ outstanding \subseteq Commands
  /\ hca \in {"disabled", "enabled", "initialized"}
  /\ hwEqs \subseteq Eqs /\ rings \subseteq Eqs /\ valid \subseteq rings
  /\ pages \in {"none", "firmware", "ambiguous"}
  /\ bootUar \in BOOLEAN
  /\ fHcaEnabled \in BOOLEAN /\ fHcaInitialized \in BOOLEAN
  /\ runtime \in BOOLEAN /\ interrupts \in BOOLEAN
  /\ requests \in 0 .. QueueSize /\ workerOver \in BOOLEAN
  /\ fStarted \in BOOLEAN /\ fMissCount \in 0 .. Threshold
  /\ hung \in BOOLEAN /\ published \in BOOLEAN
  /\ fDmaQuarantined \in BOOLEAN
  /\ q \in [Callers -> {"idle", "flag", "unpublish", "busoff"}]
  /\ eqDestroyed \in BOOLEAN /\ teardownOk \in BOOLEAN
  /\ released \subseteq {"pages", "dma", "eq", "uar", "cmd"}

-----------------------------------------------------------------------------
(***************************************************************************)
(* Commands.  fCmd->exec posts a command and waits; a timeout quarantines  *)
(* the interface, after which only the two teardown commands are accepted. *)
(* With bus mastering off the device can neither read the command nor      *)
(* write the answer, so the wait can only end in a timeout.                *)
(***************************************************************************)
TeardownOps == {Cmd("TEARDOWN_HCA"), Cmd("DISABLE_HCA")}

Outcomes(c) ==
  IF fCmd = "quarantined" /\ c \notin TeardownOps THEN {"rejected"}
  ELSE IF busMaster THEN {"ok", "failed", "timeout"} ELSE {"timeout"}

\* What executing a command does to the firmware's state.
HcaAfter(c, h) ==
  CASE c = Cmd("ENABLE_HCA") /\ h = "disabled" -> "enabled"
    [] c = Cmd("INIT_HCA") /\ h = "enabled" -> "initialized"
    [] c = Cmd("TEARDOWN_HCA") /\ h = "initialized" -> "enabled"
    [] c = Cmd("DISABLE_HCA") -> "disabled"
    [] OTHER -> h
EqsAfter(c, eqs) ==
  CASE c[1] = "CREATE_EQ" -> eqs \cup {c[2]}
    [] c[1] = "DESTROY_EQ" -> eqs \ {c[2]}
    [] OTHER -> eqs

\* The call exec(c) ends with the outcome r.
Exec(c, r) ==
  /\ r \in Outcomes(c)
  /\ IF r = "timeout"
     THEN /\ fCmd' = "quarantined"
          /\ outstanding' = outstanding \cup {c}
          /\ fetched' = IF busMaster THEN fetched \cup {c} ELSE fetched
     ELSE UNCHANGED <<fCmd, outstanding, fetched>>
  /\ IF r = "ok"
     THEN hca' = HcaAfter(c, hca) /\ hwEqs' = EqsAfter(c, hwEqs)
     ELSE UNCHANGED <<hca, hwEqs>>

\* The firmware executes a command whose caller has given up.
FirmwareAnswersLate ==
  \E c \in fetched :
    /\ fetched' = fetched \ {c} /\ outstanding' = outstanding \ {c}
    /\ hca' = HcaAfter(c, hca) /\ hwEqs' = EqsAfter(c, hwEqs)
    /\ UNCHANGED <<pc, k, busMaster, fCmd, eqVars, pages, bootUar, hcaVars,
                   runtime, interrupts, healthVars, sideVars, fDmaQuarantined,
                   localVars, released>>

-----------------------------------------------------------------------------
(***************************************************************************)
(* start().                                                                *)
(***************************************************************************)
Init ==
  /\ pc = "map" /\ k = 1
  /\ busMaster = FALSE
  /\ fCmd = "absent" /\ outstanding = {} /\ fetched = {}
  /\ hca = "disabled" /\ hwEqs = {}
  /\ rings = {} /\ valid = {}
  /\ pages = "none" /\ bootUar = FALSE
  /\ fHcaEnabled = FALSE /\ fHcaInitialized = FALSE
  /\ runtime = FALSE /\ interrupts = FALSE
  /\ requests = 0 /\ workerOver = FALSE
  /\ fStarted = FALSE /\ fMissCount = 0 /\ hung = FALSE
  /\ published = FALSE /\ fDmaQuarantined = FALSE
  /\ q = [c \in Callers |-> "idle"]
  /\ eqDestroyed = TRUE /\ teardownOk = TRUE
  /\ released = {}

\* A step of start() succeeds, or fails and start() calls cleanup().
Proceeds(ok) == pc' = IF ok THEN After[pc] ELSE "cleanup"

\* Bus mastering, BAR 0, the HCA model, the command interface, the page manager.
MapDevice ==
  /\ pc = "map"
  /\ busMaster' = TRUE
  /\ \/ fCmd' = "up" /\ Proceeds(TRUE)
     \/ fCmd' \in {"absent", "up"} /\ Proceeds(FALSE)
  /\ UNCHANGED <<k, outstanding, fetched, hca, hwEqs, eqVars, pages, bootUar,
                 hcaVars, runtime, interrupts, healthVars, sideVars,
                 fDmaQuarantined, localVars, released>>

\* The wait for the firmware to leave its pre-initializing state, then
\* ENABLE_HCA.
EnableHca ==
  /\ pc = "enable"
  /\ \E r \in Outcomes(Cmd("ENABLE_HCA")) :
       /\ Exec(Cmd("ENABLE_HCA"), r)
       /\ fHcaEnabled' = (r = "ok")
       /\ Proceeds(r = "ok")
  /\ UNCHANGED <<k, busMaster, eqVars, pages, bootUar, fHcaInitialized, runtime,
                 interrupts, healthVars, sideVars, fDmaQuarantined, localVars,
                 released>>

InitHca ==
  /\ pc = "inithca"
  /\ \E r \in Outcomes(Cmd("INIT_HCA")) :
       /\ Exec(Cmd("INIT_HCA"), r)
       /\ fHcaInitialized' = (r = "ok")
       /\ Proceeds(r = "ok")
  /\ UNCHANGED <<k, busMaster, eqVars, pages, bootUar, fHcaEnabled, runtime,
                 interrupts, healthVars, sideVars, fDmaQuarantined, localVars,
                 released>>

\* Commands that only inform.  setIssi never fails, and of the capabilities
\* queryHcaCaps asks for only the general ones are required.
Informs(op, r) ==
  /\ Exec(Cmd(op), r)
  /\ UNCHANGED <<k, busMaster, eqVars, pages, bootUar, hcaVars, runtime,
                 interrupts, healthVars, sideVars, fDmaQuarantined, localVars,
                 released>>

SetIssi ==
  /\ pc = "issi"
  /\ \E r \in Outcomes(Cmd("SET_ISSI")) : Informs("SET_ISSI", r)
  /\ Proceeds(TRUE)

SetHcaCaps ==
  /\ pc = "setcap"
  /\ \E r \in Outcomes(Cmd("SET_HCA_CAP")) :
       Informs("SET_HCA_CAP", r) /\ Proceeds(r = "ok")

QueryHcaCaps ==
  /\ pc = "query"
  /\ \E r \in Outcomes(Cmd("QUERY_HCA_CAP")), ok \in BOOLEAN :
       Informs("QUERY_HCA_CAP", r) /\ Proceeds(ok)

\* satisfyStartupPages: QUERY_PAGES and the GIVEs.  A page is the firmware's
\* after a GIVE that succeeded, in doubt after one that timed out; a later
\* batch may fail after an earlier one has succeeded.
StartupPages ==
  /\ pc \in {"bootpages", "initpages"}
  /\ \E r \in Outcomes(Cmd("MANAGE_PAGES")) :
       /\ Exec(Cmd("MANAGE_PAGES"), r)
       /\ pages' \in {pages} \cup CASE r = "timeout" -> {"ambiguous"}
                                 [] r = "rejected" -> {}
                                 [] OTHER -> {"firmware"}
       /\ Proceeds(r = "ok")
  /\ UNCHANGED <<k, busMaster, eqVars, bootUar, hcaVars, runtime, interrupts,
                 healthVars, sideVars, fDmaQuarantined, localVars, released>>

\* allocUar: ALLOC_UAR, then a mapping of the UAR page, which may fail.
AllocUar ==
  /\ pc = "uar"
  /\ \E r \in Outcomes(Cmd("ALLOC_UAR")) :
       /\ Exec(Cmd("ALLOC_UAR"), r)
       /\ \/ bootUar' = (r = "ok") /\ Proceeds(r = "ok")
          \/ r = "ok" /\ bootUar' = FALSE /\ pc' = "uarback"
  /\ UNCHANGED <<k, busMaster, eqVars, pages, hcaVars, runtime, interrupts,
                 healthVars, sideVars, fDmaQuarantined, localVars, released>>

\* The mapping has failed: allocUar gives the UAR back and returns an error.
GiveUarBack ==
  /\ pc = "uarback"
  /\ \E r \in Outcomes(Cmd("FREE_UAR")) : Exec(Cmd("FREE_UAR"), r)
  /\ pc' = "cleanup"
  /\ UNCHANGED <<k, busMaster, eqVars, pages, bootUar, hcaVars, runtime,
                 interrupts, healthVars, sideVars, fDmaQuarantined, localVars,
                 released>>

\* The steps that only allocate: the DB record page and the two interrupt
\* vectors, the DMA service.
Allocate ==
  /\ pc \in {"dbrecord", "dma"}
  /\ \E ok \in BOOLEAN : Proceeds(ok)
  /\ UNCHANGED <<k, busMaster, cmdVars, eqVars, pages, bootUar, hcaVars, runtime,
                 interrupts, healthVars, sideVars, fDmaQuarantined, localVars,
                 released>>

\* The loops over the EQs, in createAsyncEqs, createCompEqs and shutdown.
LastEqPassed(i) == i > NumEqs     \* mutant: one iteration too many

LastEq(i) == i >= NumEqs

\* MlxEQ::init, and createEq for the k-th EQ.  A ring whose CREATE_EQ timed out stays mapped,
\* though its EQ is not valid; any other failure frees the ring.
RingKeptOnSuccess(r) == r = "ok"     \* mutant: a timeout frees the ring too

RingKept(r) == r \in {"ok", "timeout"}

CreateEq ==
  /\ pc = "eq"
  /\ \/ \E r \in Outcomes(<<"CREATE_EQ", k>>) :
          /\ Exec(<<"CREATE_EQ", k>>, r)
          /\ rings' = IF RingKept(r) THEN rings \cup {k} ELSE rings
          /\ valid' = IF r = "ok" THEN valid \cup {k} ELSE valid
          /\ IF r = "ok" /\ ~LastEq(k)
             THEN k' = k + 1 /\ pc' = pc
             ELSE k' = 1 /\ Proceeds(r = "ok")
     \/ \* init or allocEqBuf fails
        pc' = "cleanup" /\ k' = 1 /\ UNCHANGED <<cmdVars, eqVars>>
  /\ UNCHANGED <<busMaster, pages, bootUar, hcaVars, runtime, interrupts,
                 healthVars, sideVars, fDmaQuarantined, localVars, released>>

StartRuntime ==
  /\ pc = "runtime"
  /\ runtime' = TRUE /\ Proceeds(TRUE)
  /\ UNCHANGED <<k, busMaster, cmdVars, eqVars, pages, bootUar, hcaVars,
                 interrupts, healthVars, sideVars, fDmaQuarantined, localVars,
                 released>>

\* setupInterrupts: the first source may be enabled when a later one fails.
SetupInterrupts ==
  /\ pc = "interrupts"
  /\ \/ interrupts' = TRUE /\ Proceeds(TRUE)
     \/ interrupts' \in BOOLEAN /\ Proceeds(FALSE)
  /\ UNCHANGED <<k, busMaster, cmdVars, eqVars, pages, bootUar, hcaVars, runtime,
                 healthVars, sideVars, fDmaQuarantined, localVars, released>>

StartHealth ==
  /\ pc = "health"
  /\ \E ok \in BOOLEAN : fStarted' = ok /\ Proceeds(ok)
  /\ UNCHANGED <<k, busMaster, cmdVars, eqVars, pages, bootUar, hcaVars, runtime,
                 interrupts, fMissCount, sideVars, fDmaQuarantined, localVars,
                 released>>

\* publishNubs sets the property when the card has the Ethernet capabilities.
PublishNubs ==
  /\ pc = "publish"
  /\ published' \in BOOLEAN
  /\ Proceeds(TRUE)
  /\ UNCHANGED <<k, busMaster, cmdVars, eqVars, pages, bootUar, hcaVars, runtime,
                 interrupts, healthVars, q, hung, requests, workerOver,
                 fDmaQuarantined, localVars, released>>

-----------------------------------------------------------------------------
(***************************************************************************)
(* The other threads: the health timer, the interrupt handler, the page    *)
(* worker, each of which may call enterDmaQuarantine.                      *)
(***************************************************************************)
CallsQuarantine(c) == q' = [q EXCEPT ![c] = "flag"]

\* MlxHealth::check, from pollTimer.  The firmware has counted since the last
\* check or not; it may also report a syndrome with the RFR severity.
MissedForgotten(n) == IF n + 1 < Threshold THEN n + 1 ELSE 0 \* mutant

Missed(n) == IF n < Threshold THEN n + 1 ELSE n

HealthCheck ==
  /\ fStarted /\ q["health"] = "idle"
  /\ \E counted \in {FALSE, ~hung}, severe \in BOOLEAN :
       /\ fMissCount' = IF counted THEN 0 ELSE Missed(fMissCount)
       /\ IF fMissCount' >= Threshold \/ severe
          THEN CallsQuarantine("health") ELSE UNCHANGED q
  /\ UNCHANGED <<pc, k, busMaster, cmdVars, eqVars, pages, bootUar, hcaVars,
                 runtime, interrupts, fStarted, hung, published, requests,
                 workerOver, fDmaQuarantined, localVars, released>>

FirmwareHangs ==
  /\ ~hung /\ hung' = TRUE
  /\ UNCHANGED <<pc, k, busMaster, cmdVars, eqVars, pages, bootUar, hcaVars,
                 runtime, interrupts, healthVars, q, published, requests,
                 workerOver, fDmaQuarantined, localVars, released>>

\* handleAsyncEqe sees DEVICE_FATAL.
DeviceFatal ==
  /\ interrupts /\ q["interrupt"] = "idle"
  /\ CallsQuarantine("interrupt")
  /\ UNCHANGED <<pc, k, busMaster, cmdVars, eqVars, pages, bootUar, hcaVars,
                 runtime, interrupts, healthVars, hung, published, requests,
                 workerOver, fDmaQuarantined, localVars, released>>

\* handleEvent of MlxFwPages queues a PAGE_REQUEST; one that is malformed or
\* finds the queue full is a fault, which the worker reports.
RequestArrives ==
  /\ runtime /\ interrupts /\ q["interrupt"] = "idle"
  /\ \/ requests < QueueSize /\ requests' = requests + 1 /\ UNCHANGED q
     \/ q["worker"] = "idle" /\ CallsQuarantine("worker") /\ UNCHANGED requests
  /\ UNCHANGED <<pc, k, busMaster, cmdVars, eqVars, pages, bootUar, hcaVars,
                 runtime, interrupts, healthVars, hung, published, workerOver,
                 fDmaQuarantined, localVars, released>>

\* The page worker serves a request: a GIVE or a TAKE, or a release-all, which
\* needs no command.  Pages whose owner it cannot tell are ambiguous, for good,
\* and that is always fatal, as some other faults are.
PagesAfter(r) ==
  {pages} \cup CASE r = "rejected" \/ pages = "ambiguous" -> {}
               [] r = "timeout" -> {"ambiguous"}
               [] r = "failed" -> {"firmware", "ambiguous"}
               [] OTHER -> {"none", "firmware", "ambiguous"}

\* A request that failed throws out those behind it.
PageWorker ==
  /\ requests > 0 /\ ~workerOver /\ q["worker"] = "idle"
  /\ \/ \E r \in Outcomes(Cmd("MANAGE_PAGES")) :
          /\ Exec(Cmd("MANAGE_PAGES"), r)
          /\ pages' \in PagesAfter(r)
          /\ requests' \in {0} \cup (IF r = "ok" THEN {requests - 1} ELSE {})
     \/ /\ pages' \in {pages} \cup (IF pages = "firmware" THEN {"none"} ELSE {})
        /\ requests' = requests - 1
        /\ UNCHANGED cmdVars
  /\ \/ pages' # "ambiguous" /\ UNCHANGED q
     \/ CallsQuarantine("worker")
  /\ UNCHANGED <<pc, k, busMaster, eqVars, bootUar, hcaVars, runtime,
                 interrupts, healthVars, hung, published, workerOver,
                 fDmaQuarantined, localVars, released>>

\* A run that was ending when stopRuntimeAndDrain began does not run again, and
\* clears the call the stop has made: what was queued since its last look stays.
WorkerEnds ==
  /\ pc = "drain" /\ requests > 0 /\ ~workerOver /\ q["worker"] = "idle"
  /\ workerOver' = TRUE
  /\ UNCHANGED <<pc, k, busMaster, cmdVars, eqVars, pages, bootUar, hcaVars,
                 runtime, interrupts, healthVars, q, hung, published, requests,
                 fDmaQuarantined, localVars, released>>

\* enterDmaQuarantine: the flag, the properties, bus mastering; then it returns.
QuarantineFlags(c) ==
  /\ q[c] = "flag"
  /\ fDmaQuarantined' = TRUE
  /\ q' = [q EXCEPT ![c] = "unpublish"]
  /\ UNCHANGED <<pc, k, busMaster, cmdVars, eqVars, pages, bootUar, hcaVars,
                 runtime, interrupts, healthVars, hung, published, requests,
                 workerOver, localVars, released>>

QuarantineUnpublishes(c) ==
  /\ q[c] = "unpublish"
  /\ published' = FALSE
  /\ q' = [q EXCEPT ![c] = "busoff"]
  /\ UNCHANGED <<pc, k, busMaster, cmdVars, eqVars, pages, bootUar, hcaVars,
                 runtime, interrupts, healthVars, hung, requests, workerOver,
                 fDmaQuarantined, localVars, released>>

\* mutant: the caller stays until the driver has stopped
QuarantineWaitsForStop(c) ==
  /\ q[c] = "busoff" /\ pc \in Ends
  /\ busMaster' = FALSE
  /\ q' = [q EXCEPT ![c] = "idle"]
  /\ UNCHANGED <<pc, k, cmdVars, eqVars, pages, bootUar, hcaVars, runtime,
                 interrupts, healthVars, hung, published, requests,
                 workerOver, fDmaQuarantined, localVars, released>>

QuarantineStopsBus(c) ==
  /\ q[c] = "busoff"
  /\ busMaster' = FALSE
  /\ q' = [q EXCEPT ![c] = "idle"]
  /\ UNCHANGED <<pc, k, cmdVars, eqVars, pages, bootUar, hcaVars, runtime,
                 interrupts, healthVars, hung, published, requests,
                 workerOver, fDmaQuarantined, localVars, released>>

-----------------------------------------------------------------------------
(***************************************************************************)
(* cleanup().                                                              *)
(***************************************************************************)
Stop ==
  /\ pc = "running"
  /\ pc' = "cleanup"
  /\ UNCHANGED <<k, busMaster, cmdVars, eqVars, pages, bootUar, hcaVars, runtime,
                 interrupts, healthVars, sideVars, fDmaQuarantined, localVars,
                 released>>

\* The three other threads are told to stop one after the other, and each is
\* waited for: removeEventSource for the timer and for the interrupt sources,
\* stopRuntimeAndDrain for the page worker and for an empty request queue.
CleanupBegins ==
  /\ pc = "cleanup"
  /\ fStarted' = FALSE
  /\ pc' = "healthfree"
  /\ UNCHANGED <<k, busMaster, cmdVars, eqVars, pages, bootUar, hcaVars, runtime,
                 interrupts, fMissCount, sideVars, fDmaQuarantined, localVars,
                 released>>

\* mutant: the timer is cancelled and a check that is running is not waited for
FreeHealthAtOnce ==
  /\ pc = "healthfree"
  /\ interrupts' = FALSE
  /\ pc' = "irqfree"
  /\ UNCHANGED <<k, busMaster, cmdVars, eqVars, pages, bootUar, hcaVars, runtime,
                 healthVars, sideVars, fDmaQuarantined, localVars, released>>

FreeHealth ==
  /\ pc = "healthfree" /\ q["health"] = "idle"
  /\ interrupts' = FALSE
  /\ pc' = "irqfree"
  /\ UNCHANGED <<k, busMaster, cmdVars, eqVars, pages, bootUar, hcaVars, runtime,
                 healthVars, sideVars, fDmaQuarantined, localVars, released>>

DisableInterrupts ==
  /\ pc = "irqfree" /\ q["interrupt"] = "idle"
  /\ runtime' = FALSE
  /\ pc' = "drain"
  /\ UNCHANGED <<k, busMaster, cmdVars, eqVars, pages, bootUar, hcaVars,
                 interrupts, healthVars, sideVars, fDmaQuarantined, localVars,
                 released>>

Drain ==
  /\ pc = "drain" /\ q["worker"] = "idle" /\ requests = 0
  /\ pc' = "destroy"
  /\ UNCHANGED <<k, busMaster, cmdVars, eqVars, pages, bootUar, hcaVars, runtime,
                 interrupts, healthVars, sideVars, fDmaQuarantined, localVars,
                 released>>

IsUp == fCmd \in {"up", "quarantined"}

\* MlxEQ::shutdown, one EQ at a time.
DestroyEq ==
  LET e == Destroyed(k)
      Done(ok) == /\ eqDestroyed' = (eqDestroyed /\ ok)
                  /\ IF LastEq(k) THEN k' = 1 /\ pc' = "teardown"
                                  ELSE k' = k + 1 /\ pc' = pc
  IN
  /\ pc = "destroy"
  /\ \/ /\ e \in valid /\ IsUp
        /\ \E r \in Outcomes(<<"DESTROY_EQ", e>>) :
             /\ Exec(<<"DESTROY_EQ", e>>, r)
             /\ valid' = IF r = "ok" THEN valid \ {e} ELSE valid
             /\ Done(r = "ok")
     \/ /\ e \notin valid \/ ~IsUp
        /\ Done(e \notin valid)
        /\ UNCHANGED <<cmdVars, valid>>
  /\ UNCHANGED <<busMaster, rings, pages, bootUar, hcaVars, runtime, interrupts,
                 healthVars, sideVars, fDmaQuarantined, teardownOk, released>>

Teardown ==
  /\ pc = "teardown"
  /\ pc' = "reclaim"
  /\ \/ /\ fHcaInitialized /\ IsUp
        /\ \E r \in Outcomes(Cmd("TEARDOWN_HCA")) :
             /\ Exec(Cmd("TEARDOWN_HCA"), r)
             /\ teardownOk' = (r = "ok")
             /\ fHcaInitialized' = (r # "ok")
             /\ fDmaQuarantined' = (fDmaQuarantined \/ r # "ok")
     \/ /\ ~(fHcaInitialized /\ IsUp)
        /\ UNCHANGED <<cmdVars, teardownOk, fHcaInitialized, fDmaQuarantined>>
  /\ UNCHANGED <<k, busMaster, eqVars, pages, bootUar, fHcaEnabled, runtime,
                 interrupts, healthVars, sideVars, eqDestroyed, released>>

\* reclaimAll takes every page back, or fails and leaves some in doubt.
Reclaim ==
  /\ pc = "reclaim"
  /\ pc' = "disable"
  /\ \/ /\ fHcaEnabled /\ fCmd = "up" /\ teardownOk /\ pages # "none"
        /\ \E r \in Outcomes(Cmd("MANAGE_PAGES")) :
             /\ Exec(Cmd("MANAGE_PAGES"), r)
             /\ \/ /\ r = "ok" /\ pages = "firmware"
                   /\ pages' = "none" /\ UNCHANGED fDmaQuarantined
                \/ /\ pages' \in {pages, "ambiguous"} /\ fDmaQuarantined' = TRUE
     \/ /\ ~(fHcaEnabled /\ fCmd = "up" /\ teardownOk /\ pages # "none")
        /\ UNCHANGED <<cmdVars, pages, fDmaQuarantined>>
  /\ UNCHANGED <<k, busMaster, eqVars, bootUar, hcaVars, runtime, interrupts,
                 healthVars, sideVars, localVars, released>>

DisableHca ==
  /\ pc = "disable"
  /\ pc' = "boundary"
  /\ \/ /\ fHcaEnabled /\ IsUp
        /\ \E r \in Outcomes(Cmd("DISABLE_HCA")) :
             /\ Exec(Cmd("DISABLE_HCA"), r)
             /\ fHcaEnabled' = (r # "ok")
             /\ fDmaQuarantined' = (fDmaQuarantined \/ r # "ok")
     \/ /\ ~(fHcaEnabled /\ IsUp)
        /\ UNCHANGED <<cmdVars, fHcaEnabled, fDmaQuarantined>>
  /\ UNCHANGED <<k, busMaster, eqVars, pages, bootUar, fHcaInitialized, runtime,
                 interrupts, healthVars, sideVars, localVars, released>>

\* mutant: the EQs that could not be destroyed are forgotten
BoundaryIgnoresEqs ==
  /\ teardownOk /\ ~fDmaQuarantined
  /\ fCmd # "quarantined"
  /\ pages = "none"

GracefulBoundary ==
  /\ eqDestroyed /\ teardownOk /\ ~fDmaQuarantined
  /\ fCmd # "quarantined"
  /\ pages = "none"

\* Bus mastering is turned off and read back; the read-back may deny it.
Boundary ==
  /\ pc = "boundary"
  /\ busMaster' = FALSE
  /\ \E verified \in BOOLEAN :
       pc' = IF verified /\ GracefulBoundary THEN "freepages" ELSE "retained"
  /\ UNCHANGED <<k, cmdVars, eqVars, pages, bootUar, hcaVars, runtime, interrupts,
                 healthVars, sideVars, fDmaQuarantined, localVars, released>>

\* Behind the boundary the parts are released one after the other.
Releases(step, next, part) ==
  /\ pc = step /\ pc' = next
  /\ released' = released \cup {part}

ReleasePart ==
  /\ \/ Releases("freepages", "freedma", "pages") /\ UNCHANGED fCmd
     \/ Releases("freedma", "freeeq", "dma") /\ UNCHANGED fCmd
     \/ Releases("freecmd", "released", "cmd") /\ fCmd' = "freed"
  /\ UNCHANGED <<k, busMaster, outstanding, fetched, hca, hwEqs, eqVars, pages,
                 bootUar, hcaVars, runtime, interrupts, healthVars, sideVars,
                 fDmaQuarantined, localVars>>

\* MlxEQ::free frees the rings of the EQs that are not valid.
FreeEq ==
  /\ pc = "freeeq"
  /\ rings' = rings \cap valid
  /\ released' = released \cup {"eq"}
  /\ pc' = "freeuar"
  /\ UNCHANGED <<k, busMaster, cmdVars, valid, pages, bootUar, hcaVars, runtime,
                 interrupts, healthVars, sideVars, fDmaQuarantined, localVars>>

\* MlxUAR::free gives the boot UAR back to the firmware with FREE_UAR and
\* ignores how that ends.
FreeUar ==
  /\ pc = "freeuar"
  /\ \/ /\ bootUar
        /\ \E r \in Outcomes(Cmd("FREE_UAR")) : Exec(Cmd("FREE_UAR"), r)
     \/ ~bootUar /\ UNCHANGED cmdVars
  /\ bootUar' = FALSE
  /\ released' = released \cup {"uar"}
  /\ pc' = "freecmd"
  /\ UNCHANGED <<k, busMaster, eqVars, pages, hcaVars, runtime, interrupts,
                 healthVars, sideVars, fDmaQuarantined, localVars>>

StartNext ==
  \/ MapDevice \/ EnableHca \/ SetIssi \/ StartupPages \/ SetHcaCaps
  \/ InitHca \/ QueryHcaCaps \/ AllocUar \/ GiveUarBack \/ Allocate \/ CreateEq \/ StartRuntime
  \/ SetupInterrupts \/ StartHealth \/ PublishNubs
CleanupNext ==
  \/ CleanupBegins \/ FreeHealth \/ DisableInterrupts \/ Drain \/ DestroyEq
  \/ Teardown \/ Reclaim \/ DisableHca \/ Boundary \/ ReleasePart \/ FreeEq
  \/ FreeUar
Quarantine(c) ==
  QuarantineFlags(c) \/ QuarantineUnpublishes(c) \/ QuarantineStopsBus(c)
Next ==
  \/ StartNext \/ Stop \/ CleanupNext
  \/ HealthCheck \/ DeviceFatal \/ RequestArrives \/ PageWorker \/ WorkerEnds
  \/ \E c \in Callers : Quarantine(c)
  \/ FirmwareHangs \/ FirmwareAnswersLate

Spec == Init /\ [][Next]_vars

\* start() and cleanup() run to their ends, a caller of enterDmaQuarantine
\* returns, the worker runs, and the timer fires as long as it is armed.  The
\* device need not be stopped, and the firmware owes nothing.
FairSpec ==
  /\ Spec
  /\ WF_vars(StartNext) /\ WF_vars(CleanupNext)
  /\ \A c \in Callers : WF_vars(Quarantine(c))
  /\ WF_vars(PageWorker \/ WorkerEnds)
  /\ WF_vars(HealthCheck)

-----------------------------------------------------------------------------
(* Properties.                                                             *)

\* No EQ ring is unmapped while the device may write to it: not the ring of an
\* EQ that exists, and not that of a CREATE_EQ that timed out and may yet be
\* executed (createEq, shutdown, free; the boundary of cleanup).
RingsReleasedSafely ==
  \A e \in Eqs :
    e \in hwEqs \/ <<"CREATE_EQ", e>> \in outstanding => e \in rings

\* cleanup releases DMA memory only after a trusted drain: no EQ exists, the
\* firmware has no page, it has executed DISABLE_HCA, and no command issued
\* before the boundary is unanswered.
ReleasedAfterDrain ==
  released # {} => /\ hwEqs = {} /\ hca = "disabled" /\ pages = "none"
                   /\ outstanding \subseteq {Cmd("FREE_UAR")}

\* A device in DMA quarantine keeps all its mappings, whichever thread asked
\* for the quarantine and however late it came (enterDmaQuarantine against
\* cleanup).
QuarantineRetains == fDmaQuarantined => released = {}

\* cleanup, once begun, ends, though it waits for three other threads, each of
\* which may be inside enterDmaQuarantine.  It can wait for ever in one place
\* only: in stopRuntimeAndDrain, for a request that the page worker's last run
\* has left in the queue.
CleanupEndsOrStrands ==
  pc = "cleanup" ~> pc \in Ends \/ (pc = "drain" /\ workerOver)

\* A firmware that stops counting is noticed: the health timer quarantines the
\* device unless the driver is stopped first.
HangDetected == hung /\ pc = "running" ~> fDmaQuarantined \/ pc # "running"

\* Publication fails closed: a device in quarantine is not published once
\* enterDmaQuarantine has removed the properties.
PublicationFailsClosed ==
  published => ~fDmaQuarantined \/ \E c \in Callers : q[c] = "unpublish"

\* The command queue and its mailboxes are not released while a command that
\* timed out is unanswered.
CmdReleasedIdle == "cmd" \in released => outstanding = {}
=============================================================================
