-------------------------- MODULE MlxPCIDriverProofs --------------------------
(***************************************************************************)
(* Proofs about the device's life: for every number of event queues, DMA   *)
(* memory is released only behind a complete drain, never from a device in *)
(* quarantine, and no event ring is unmapped under the device.             *)
(***************************************************************************)
EXTENDS MlxPCIDriver, TLAPS

(***************************************************************************)
(* The inductive invariant.                                                *)
(***************************************************************************)

\* Where the three other threads can still be active.  cleanup switches off
\* the timer, the interrupts and the worker in this order and waits for each.
HealthRuns    == {"dma", "publish", "running", "cleanup"}
InterruptRuns == HealthRuns \cup {"health", "healthfree"}
WorkerRuns    == InterruptRuns \cup {"interrupts", "irqfree"}

ThreadsInv ==
  /\ fStarted => pc \in HealthRuns
  /\ q["health"] # "idle" => pc \in HealthRuns \cup {"healthfree"}
  /\ interrupts => pc \in InterruptRuns
  /\ q["interrupt"] # "idle" => pc \in InterruptRuns \cup {"irqfree"}
  /\ runtime => pc \in WorkerRuns
  /\ q["worker"] # "idle" => pc \in WorkerRuns \cup {"drain"}
  /\ requests > 0 => pc \in WorkerRuns \cup {"drain"}

\* Until a command times out the driver's flags are the firmware's state.
CmdInv ==
  /\ fCmd \in {"absent", "up"} => /\ outstanding = {} /\ hwEqs = valid
                                  /\ fHcaEnabled <=> hca # "disabled"
  /\ fHcaEnabled => fCmd # "absent"
  /\ fCmd = "freed" => pc = "released"
  /\ pc \in {"map", "enable"} => ~fHcaEnabled
  /\ pc = "map" => fCmd = "absent"
  /\ pc = "enable" => fCmd = "up"

\* The loop of shutdown: the EQs before the k-th are gone, if all went well.
LoopInv ==
  /\ pc \notin {"eq", "destroy"} => k = 1
  /\ pc = "destroy" /\ eqDestroyed =>
       \A i \in 1 .. NumEqs : i < k => Destroyed(i) \notin valid
  /\ pc \in {"teardown", "reclaim", "disable", "boundary"} /\ eqDestroyed =>
       valid = {}

\* DISABLE_HCA has succeeded, or the device is in quarantine.
DisabledInv == pc = "boundary" /\ ~fDmaQuarantined => ~fHcaEnabled

\* Behind the boundary.  The device cannot fetch FREE_UAR any more.
Behind == {"freepages", "freedma", "freeeq", "freeuar", "freecmd", "released"}

BehindInv ==
  /\ released # {} => pc \in Behind
  /\ pc \in Behind => /\ ~fDmaQuarantined /\ ~busMaster
                      /\ hwEqs = {} /\ hca = "disabled" /\ pages = "none"
                      /\ fetched = {} /\ outstanding \subseteq {Cmd("FREE_UAR")}

\* The commands that change neither the HCA's state nor its EQs.
Informing == {"SET_ISSI", "MANAGE_PAGES", "SET_HCA_CAP", "QUERY_HCA_CAP",
              "ALLOC_UAR", "FREE_UAR"}

IInv == /\ TypeOK /\ ThreadsInv /\ CmdInv /\ LoopInv /\ DisabledInv
        /\ BehindInv /\ RingsReleasedSafely

\* What start() does next, spelled out for the provers.
LEMMA AfterIs ==
  /\ After["map"] = "enable" /\ After["enable"] = "issi"
  /\ After["issi"] = "bootpages" /\ After["bootpages"] = "setcap"
  /\ After["setcap"] = "initpages" /\ After["initpages"] = "inithca"
  /\ After["inithca"] = "query" /\ After["query"] = "uar"
  /\ After["uar"] = "dbrecord" /\ After["dbrecord"] = "eq"
  /\ After["eq"] = "runtime" /\ After["runtime"] = "interrupts"
  /\ After["interrupts"] = "health" /\ After["health"] = "dma"
  /\ After["dma"] = "publish" /\ After["publish"] = "running"
  BY DEF After

\* The steps of start(), spelled out.
LEMMA StartStepsAre ==
  StartSteps = {"map", "enable", "issi", "bootpages", "setcap", "initpages",
                "inithca", "query", "uar", "dbrecord", "eq", "runtime",
                "interrupts", "health", "dma", "publish", "uarback"}
  BY DEF StartSteps, After

\* The effect of a firmware command on the firmware.
LEMMA HcaEffect ==
  ASSUME NEW h \in {"disabled", "enabled", "initialized"}
  PROVE  /\ \A c \in Commands :
              HcaAfter(c, h) \in {"disabled", "enabled", "initialized"}
         /\ HcaAfter(Cmd("ENABLE_HCA"), h) # "disabled"
         /\ HcaAfter(Cmd("INIT_HCA"), h) = "disabled" <=> h = "disabled"
         /\ HcaAfter(Cmd("TEARDOWN_HCA"), h) = "disabled" <=> h = "disabled"
         /\ HcaAfter(Cmd("DISABLE_HCA"), h) = "disabled"
         /\ \A op \in Informing : HcaAfter(Cmd(op), h) = h
         /\ \A e \in Eqs : /\ HcaAfter(<<"CREATE_EQ", e>>, h) = h
                           /\ HcaAfter(<<"DESTROY_EQ", e>>, h) = h
  BY DEF HcaAfter, Cmd, Informing

\* The effect of a firmware command on the event queues.
LEMMA EqsEffect ==
  ASSUME NEW eqs \in SUBSET Eqs
  PROVE  /\ \A c \in Commands : EqsAfter(c, eqs) \in SUBSET Eqs
         /\ \A op \in Ops : EqsAfter(Cmd(op), eqs) = eqs
         /\ \A e \in Eqs : /\ EqsAfter(<<"CREATE_EQ", e>>, eqs) = eqs \cup {e}
                           /\ EqsAfter(<<"DESTROY_EQ", e>>, eqs) = eqs \ {e}
  BY DEF EqsAfter, Cmd, Ops, Commands

\* The commands exec is called with, and that no other one is a CREATE_EQ.
LEMMA CommandsAre ==
  /\ \A op \in Ops : Cmd(op) \in Commands
  /\ \A e \in Eqs : /\ <<"CREATE_EQ", e>> \in Commands
                    /\ <<"DESTROY_EQ", e>> \in Commands
  /\ \A op \in Ops, e \in Eqs : Cmd(op) # <<"CREATE_EQ", e>>
  BY DEF Cmd, Ops, Commands

\* What a call of exec does, apart from what the command means to the firmware.
ExecDoes(c, r) ==
  /\ r \in {"ok", "failed", "timeout", "rejected"}
  /\ fCmd' \in {fCmd, "quarantined"}
  /\ r = "timeout" => fCmd' = "quarantined"
  /\ fCmd' # fCmd => r = "timeout"
  /\ r # "timeout" => outstanding' = outstanding
  /\ outstanding' \in SUBSET (outstanding \cup {c})
  /\ outstanding' \in SUBSET Commands /\ fetched' \in SUBSET outstanding'
  /\ hca' \in {"disabled", "enabled", "initialized"}
  /\ hwEqs' \in SUBSET Eqs
  /\ r = "ok" => hca' = HcaAfter(c, hca) /\ hwEqs' = EqsAfter(c, hwEqs)
  /\ r # "ok" => hca' = hca /\ hwEqs' = hwEqs
  /\ ~busMaster => r # "ok" /\ fetched' = fetched

\* exec does so.
LEMMA ExecEffect ==
  ASSUME TypeOK, NEW c \in Commands, NEW r \in Outcomes(c), Exec(c, r)
  PROVE  ExecDoes(c, r)
<1> USE DEF TypeOK, Exec
<1>1. r \in {"ok", "failed", "timeout", "rejected"}
  BY DEF Outcomes
<1>2. /\ fCmd' \in {fCmd, "quarantined"}
      /\ r = "timeout" => fCmd' = "quarantined"
      /\ fCmd' # fCmd => r = "timeout"
      /\ r # "timeout" => outstanding' = outstanding
      /\ outstanding' \in SUBSET (outstanding \cup {c})
      /\ outstanding' \in SUBSET Commands /\ fetched' \in SUBSET outstanding'
  OBVIOUS
<1>3. /\ r = "ok" => hca' = HcaAfter(c, hca) /\ hwEqs' = EqsAfter(c, hwEqs)
      /\ r # "ok" => hca' = hca /\ hwEqs' = hwEqs
  OBVIOUS
<1>4. /\ hca' \in {"disabled", "enabled", "initialized"}
      /\ hwEqs' \in SUBSET Eqs
  BY <1>3, HcaEffect, EqsEffect, ZenonT(30)
<1>5. ~busMaster => r # "ok" /\ fetched' = fetched
  BY DEF Outcomes
<1> QED  BY <1>1, <1>2, <1>3, <1>4, <1>5 DEF ExecDoes

\* The same for a command that changes neither the HCA's state nor its EQs.
InformDoes(op, r) ==
  /\ r \in {"ok", "failed", "timeout", "rejected"}
  /\ fCmd' \in {fCmd, "quarantined"}
  /\ fCmd' # "quarantined" => outstanding' = outstanding
  /\ outstanding' \in SUBSET (outstanding \cup {Cmd(op)})
  /\ outstanding' \in SUBSET Commands /\ fetched' \in SUBSET outstanding'
  /\ hca' = hca /\ hwEqs' = hwEqs
  /\ \A e \in Eqs : <<"CREATE_EQ", e>> \in outstanding' =>
                    <<"CREATE_EQ", e>> \in outstanding
  /\ ~busMaster => r # "ok" /\ fetched' = fetched

\* exec does so with the informing commands.
LEMMA InformEffect ==
  ASSUME TypeOK, NEW op \in Informing, NEW r \in Outcomes(Cmd(op)),
         Exec(Cmd(op), r)
  PROVE  InformDoes(op, r)
<1>1. op \in Ops
  BY DEF Informing, Ops
<1>2. Cmd(op) \in Commands
  BY <1>1, CommandsAre
<1>3. HcaAfter(Cmd(op), hca) = hca
  BY HcaEffect DEF TypeOK
<1>4. EqsAfter(Cmd(op), hwEqs) = hwEqs
  BY <1>1, EqsEffect DEF TypeOK
<1>5. \A e \in Eqs : Cmd(op) # <<"CREATE_EQ", e>>
  BY <1>1, CommandsAre
<1> QED  BY <1>2, <1>3, <1>4, <1>5, ExecEffect DEF ExecDoes, InformDoes

(***************************************************************************)
(* Every action keeps IInv.  The definitions below only abbreviate.        *)
(***************************************************************************)
USE DEF cmdVars, hcaVars, eqVars, healthVars, localVars, sideVars, HealthRuns,
        InterruptRuns, WorkerRuns, Behind, Proceeds

\* start() finds the device; no command has been sent.
LEMMA MapDeviceKeeps == ASSUME IInv, MapDevice PROVE IInv'
<1> USE AfterIs, StartStepsAre DEF IInv, TypeOK, MapDevice
<1>1. TypeOK'
  BY DEF CleanupSteps, Ends
<1>2. ThreadsInv'
  BY DEF ThreadsInv
<1>3. CmdInv' /\ LoopInv' /\ DisabledInv' /\ BehindInv' /\ RingsReleasedSafely'
  BY DEF CmdInv, LoopInv, DisabledInv, BehindInv, ThreadsInv,
         RingsReleasedSafely
<1> QED  BY <1>1, <1>2, <1>3

\* An allocation of start().
LEMMA AllocateKeeps == ASSUME IInv, Allocate PROVE IInv'
<1> USE AfterIs, StartStepsAre DEF IInv, TypeOK, Allocate
<1>1. TypeOK'
  BY DEF CleanupSteps, Ends
<1>2. ThreadsInv'
  BY DEF ThreadsInv
<1>3. CmdInv' /\ LoopInv' /\ DisabledInv' /\ BehindInv' /\ RingsReleasedSafely'
  BY DEF CmdInv, LoopInv, DisabledInv, BehindInv, ThreadsInv,
         RingsReleasedSafely
<1> QED  BY <1>1, <1>2, <1>3

\* The page worker may run from here on.
LEMMA StartRuntimeKeeps == ASSUME IInv, StartRuntime PROVE IInv'
<1> USE AfterIs, StartStepsAre DEF IInv, TypeOK, StartRuntime
<1>1. TypeOK'
  BY DEF CleanupSteps, Ends
<1>2. ThreadsInv'
  BY DEF ThreadsInv
<1>3. CmdInv' /\ LoopInv' /\ DisabledInv' /\ BehindInv' /\ RingsReleasedSafely'
  BY DEF CmdInv, LoopInv, DisabledInv, BehindInv, ThreadsInv,
         RingsReleasedSafely
<1> QED  BY <1>1, <1>2, <1>3

\* The interrupts may be handled from here on.
LEMMA SetupInterruptsKeeps == ASSUME IInv, SetupInterrupts PROVE IInv'
<1> USE AfterIs, StartStepsAre DEF IInv, TypeOK, SetupInterrupts
<1>1. TypeOK'
  <2>1. interrupts' \in BOOLEAN
    OBVIOUS
  <2>2. pc' \in StartSteps \cup {"running"} \cup CleanupSteps \cup Ends
    BY DEF CleanupSteps, Ends
  <2> QED  BY <2>1, <2>2
<1>2. ThreadsInv'
  BY DEF ThreadsInv
<1>3. CmdInv' /\ LoopInv' /\ DisabledInv' /\ BehindInv' /\ RingsReleasedSafely'
  BY DEF CmdInv, LoopInv, DisabledInv, BehindInv, ThreadsInv,
         RingsReleasedSafely
<1> QED  BY <1>1, <1>2, <1>3

\* The timer may fire from here on.
LEMMA StartHealthKeeps == ASSUME IInv, StartHealth PROVE IInv'
<1> USE AfterIs, StartStepsAre DEF IInv, TypeOK, StartHealth
<1>1. TypeOK'
  BY DEF CleanupSteps, Ends
<1>2. ThreadsInv'
  BY DEF ThreadsInv
<1>3. CmdInv' /\ LoopInv' /\ DisabledInv' /\ BehindInv' /\ RingsReleasedSafely'
  BY DEF CmdInv, LoopInv, DisabledInv, BehindInv, ThreadsInv,
         RingsReleasedSafely
<1> QED  BY <1>1, <1>2, <1>3

\* Publication touches nothing IInv is about.
LEMMA PublishNubsKeeps == ASSUME IInv, PublishNubs PROVE IInv'
<1> USE AfterIs, StartStepsAre DEF IInv, TypeOK, PublishNubs
<1>1. TypeOK'
  BY DEF CleanupSteps, Ends
<1>2. ThreadsInv'
  BY DEF ThreadsInv
<1>3. CmdInv' /\ LoopInv' /\ DisabledInv' /\ BehindInv' /\ RingsReleasedSafely'
  BY DEF CmdInv, LoopInv, DisabledInv, BehindInv, ThreadsInv,
         RingsReleasedSafely
<1> QED  BY <1>1, <1>2, <1>3

\* A health check may call enterDmaQuarantine.
LEMMA HealthCheckKeeps == ASSUME IInv, HealthCheck PROVE IInv'
<1> USE DEF IInv, TypeOK, HealthCheck
<1>1. TypeOK'
  <2>1. fMissCount' \in 0 .. Threshold
    BY SizesAssumption DEF Missed
  <2>2. q' \in [Callers -> {"idle", "flag", "unpublish", "busoff"}]
    BY DEF CallsQuarantine
  <2> QED  BY <2>1, <2>2
<1>2. ThreadsInv'
  BY DEF ThreadsInv, CallsQuarantine, Callers
<1>3. CmdInv' /\ LoopInv' /\ DisabledInv' /\ BehindInv' /\ RingsReleasedSafely'
  BY DEF CmdInv, LoopInv, DisabledInv, BehindInv, RingsReleasedSafely
<1> QED  BY <1>1, <1>2, <1>3

\* So may the handler of DEVICE_FATAL.
LEMMA DeviceFatalKeeps == ASSUME IInv, DeviceFatal PROVE IInv'
<1> USE AfterIs, StartStepsAre DEF IInv, TypeOK, DeviceFatal
<1>1. TypeOK'
  BY DEF CleanupSteps, Ends, CallsQuarantine, Callers
<1>2. ThreadsInv'
  BY DEF ThreadsInv, CallsQuarantine, Callers
<1>3. CmdInv' /\ LoopInv' /\ DisabledInv' /\ BehindInv' /\ RingsReleasedSafely'
  BY DEF CmdInv, LoopInv, DisabledInv, BehindInv, ThreadsInv,
         RingsReleasedSafely
<1> QED  BY <1>1, <1>2, <1>3

\* A firmware that hangs changes nothing the driver sees at once.
LEMMA FirmwareHangsKeeps == ASSUME IInv, FirmwareHangs PROVE IInv'
<1> USE AfterIs, StartStepsAre DEF IInv, TypeOK, FirmwareHangs
<1>1. TypeOK'
  BY DEF CleanupSteps, Ends
<1>2. ThreadsInv'
  BY DEF ThreadsInv
<1>3. CmdInv' /\ LoopInv' /\ DisabledInv' /\ BehindInv' /\ RingsReleasedSafely'
  BY DEF CmdInv, LoopInv, DisabledInv, BehindInv, ThreadsInv,
         RingsReleasedSafely
<1> QED  BY <1>1, <1>2, <1>3

\* stop() calls cleanup().
LEMMA StopKeeps == ASSUME IInv, Stop PROVE IInv'
<1> USE AfterIs, StartStepsAre DEF IInv, TypeOK, Stop
<1>1. TypeOK'
  BY DEF CleanupSteps, Ends
<1>2. ThreadsInv'
  BY DEF ThreadsInv
<1>3. CmdInv' /\ LoopInv' /\ DisabledInv' /\ BehindInv' /\ RingsReleasedSafely'
  BY DEF CmdInv, LoopInv, DisabledInv, BehindInv, ThreadsInv,
         RingsReleasedSafely
<1> QED  BY <1>1, <1>2, <1>3

\* The timer is cancelled.
LEMMA CleanupBeginsKeeps == ASSUME IInv, CleanupBegins PROVE IInv'
<1> USE AfterIs, StartStepsAre DEF IInv, TypeOK, CleanupBegins
<1>1. TypeOK'
  <2>1. fStarted' \in BOOLEAN
    OBVIOUS
  <2>2. pc' \in StartSteps \cup {"running"} \cup CleanupSteps \cup Ends
    BY DEF CleanupSteps, Ends
  <2> QED  BY <2>1, <2>2
<1>2. ThreadsInv'
  BY DEF ThreadsInv
<1>3. CmdInv' /\ LoopInv' /\ DisabledInv' /\ BehindInv' /\ RingsReleasedSafely'
  BY DEF CmdInv, LoopInv, DisabledInv, BehindInv, ThreadsInv,
         RingsReleasedSafely
<1> QED  BY <1>1, <1>2, <1>3

\* The check has returned; the interrupts go off.
LEMMA FreeHealthKeeps == ASSUME IInv, FreeHealth PROVE IInv'
<1> USE AfterIs, StartStepsAre DEF IInv, TypeOK, FreeHealth
<1>1. TypeOK'
  <2>1. interrupts' \in BOOLEAN
    OBVIOUS
  <2>2. pc' \in StartSteps \cup {"running"} \cup CleanupSteps \cup Ends
    BY DEF CleanupSteps, Ends
  <2> QED  BY <2>1, <2>2
<1>2. ThreadsInv'
  BY DEF ThreadsInv
<1>3. CmdInv' /\ LoopInv' /\ DisabledInv' /\ BehindInv' /\ RingsReleasedSafely'
  BY DEF CmdInv, LoopInv, DisabledInv, BehindInv, ThreadsInv,
         RingsReleasedSafely
<1> QED  BY <1>1, <1>2, <1>3

\* The handlers have returned; the worker is stopped.
LEMMA DisableInterruptsKeeps == ASSUME IInv, DisableInterrupts PROVE IInv'
<1> USE AfterIs, StartStepsAre DEF IInv, TypeOK, DisableInterrupts
<1>1. TypeOK'
  <2>1. runtime' \in BOOLEAN
    OBVIOUS
  <2>2. pc' \in StartSteps \cup {"running"} \cup CleanupSteps \cup Ends
    BY DEF CleanupSteps, Ends
  <2> QED  BY <2>1, <2>2
<1>2. ThreadsInv'
  BY DEF ThreadsInv
<1>3. CmdInv' /\ LoopInv' /\ DisabledInv' /\ BehindInv' /\ RingsReleasedSafely'
  BY DEF CmdInv, LoopInv, DisabledInv, BehindInv, ThreadsInv,
         RingsReleasedSafely
<1> QED  BY <1>1, <1>2, <1>3

\* The worker has returned.
LEMMA DrainKeeps == ASSUME IInv, Drain PROVE IInv'
<1> USE AfterIs, StartStepsAre DEF IInv, TypeOK, Drain
<1>1. TypeOK'
  BY DEF CleanupSteps, Ends
<1>2. ThreadsInv'
  BY DEF ThreadsInv
<1>3. CmdInv' /\ LoopInv' /\ DisabledInv' /\ BehindInv' /\ RingsReleasedSafely'
  BY DEF CmdInv, LoopInv, DisabledInv, BehindInv, ThreadsInv,
         RingsReleasedSafely
<1> QED  BY <1>1, <1>2, <1>3

\* The decision at the boundary: here the loop over the EQs, DISABLE_HCA and
\* the flags come together.
LEMMA BoundaryKeeps == ASSUME IInv, Boundary PROVE IInv'
<1> USE DEF IInv, TypeOK, Boundary
<1>1. TypeOK'
  <2>1. busMaster' \in BOOLEAN
    OBVIOUS
  <2>2. pc' \in CleanupSteps \cup Ends
    BY DEF CleanupSteps, Ends
  <2> QED  BY <2>1, <2>2
<1>2. ThreadsInv'
  BY DEF ThreadsInv
<1>3. BehindInv'
  <2>1. CASE pc' = "freepages"
    <3>1. GracefulBoundary
      BY <2>1
    <3>2. fCmd \in {"absent", "up"}
      BY <3>1 DEF GracefulBoundary, CmdInv
    <3>3. valid = {} /\ outstanding = {} /\ hwEqs = {} /\ fetched = {}
      BY <3>1, <3>2 DEF GracefulBoundary, CmdInv, LoopInv
    <3>4. hca = "disabled"
      BY <3>1, <3>2 DEF GracefulBoundary, CmdInv, DisabledInv
    <3>5. ~busMaster' /\ pages' = "none" /\ ~fDmaQuarantined'
      BY <3>1 DEF GracefulBoundary
    <3> QED  BY <2>1, <3>3, <3>4, <3>5 DEF BehindInv
  <2>2. CASE pc' = "retained"
    BY <2>2 DEF BehindInv
  <2> QED  BY <2>1, <2>2
<1>4. CmdInv' /\ LoopInv' /\ DisabledInv' /\ RingsReleasedSafely'
  BY DEF CmdInv, LoopInv, DisabledInv, RingsReleasedSafely
<1> QED  BY <1>1, <1>2, <1>3, <1>4

\* The parts go one after the other.
LEMMA ReleasePartKeeps == ASSUME IInv, ReleasePart PROVE IInv'
<1> USE DEF IInv, TypeOK, ReleasePart, Releases
<1>1. TypeOK'
  <2>1. released' \subseteq {"pages", "dma", "eq", "uar", "cmd"}
    OBVIOUS
  <2>2. pc' \in CleanupSteps \cup Ends
    BY DEF CleanupSteps, Ends
  <2>3. fCmd' \in {"absent", "up", "quarantined", "freed"}
    OBVIOUS
  <2> QED  BY <2>1, <2>2, <2>3
<1>2. ThreadsInv'
  BY DEF ThreadsInv
<1>3. CmdInv' /\ LoopInv' /\ DisabledInv' /\ BehindInv' /\ RingsReleasedSafely'
  BY DEF CmdInv, LoopInv, DisabledInv, BehindInv, RingsReleasedSafely
<1> QED  BY <1>1, <1>2, <1>3

\* The rings are unmapped when no EQ exists and no CREATE_EQ is unanswered.
LEMMA FreeEqKeeps == ASSUME IInv, FreeEq PROVE IInv'
<1> USE DEF IInv, TypeOK, FreeEq
<1>1. TypeOK'
  BY DEF CleanupSteps, Ends
<1>2. ThreadsInv'
  BY DEF ThreadsInv
<1>3. RingsReleasedSafely'
  <2>1. \A e \in Eqs : <<"CREATE_EQ", e>> # Cmd("FREE_UAR")
    BY CommandsAre DEF Ops
  <2>2. hwEqs' = {} /\ outstanding' \subseteq {Cmd("FREE_UAR")}
    BY DEF BehindInv
  <2> QED  BY <2>1, <2>2 DEF RingsReleasedSafely
<1>4. CmdInv' /\ LoopInv' /\ DisabledInv' /\ BehindInv'
  BY DEF CmdInv, LoopInv, DisabledInv, BehindInv
<1> QED  BY <1>1, <1>2, <1>3, <1>4

\* A command that only informs, whatever its outcome.
LEMMA SetIssiKeeps == ASSUME IInv, SetIssi PROVE IInv'
<1>0. TypeOK /\ "SET_ISSI" \in Informing
  BY DEF IInv, Informing
<1>1. PICK r \in Outcomes(Cmd("SET_ISSI")) :
        Exec(Cmd("SET_ISSI"), r)
  BY DEF SetIssi, Informs
<1>2. InformDoes("SET_ISSI", r)
  BY <1>0, <1>1, InformEffect
<1> USE AfterIs, StartStepsAre DEF IInv, TypeOK, InformDoes, SetIssi, Informs
<1>3. TypeOK'
  BY <1>1, <1>2 DEF CleanupSteps, Ends
<1>4. ThreadsInv'
  BY <1>1, <1>2 DEF ThreadsInv
<1>5. CmdInv' /\ LoopInv' /\ DisabledInv' /\ BehindInv' /\ RingsReleasedSafely'
  BY <1>1, <1>2 DEF CmdInv, LoopInv, DisabledInv, BehindInv, ThreadsInv,
         RingsReleasedSafely
<1> QED  BY <1>3, <1>4, <1>5

\* The same.
LEMMA SetHcaCapsKeeps == ASSUME IInv, SetHcaCaps PROVE IInv'
<1>0. TypeOK /\ "SET_HCA_CAP" \in Informing
  BY DEF IInv, Informing
<1>1. PICK r \in Outcomes(Cmd("SET_HCA_CAP")) :
        Exec(Cmd("SET_HCA_CAP"), r) /\ Proceeds(r = "ok")
  BY DEF SetHcaCaps, Informs
<1>2. InformDoes("SET_HCA_CAP", r)
  BY <1>0, <1>1, InformEffect
<1> USE AfterIs, StartStepsAre DEF IInv, TypeOK, InformDoes, SetHcaCaps, Informs
<1>3. TypeOK'
  BY <1>1, <1>2 DEF CleanupSteps, Ends
<1>4. ThreadsInv'
  BY <1>1, <1>2 DEF ThreadsInv
<1>5. CmdInv' /\ LoopInv' /\ DisabledInv' /\ BehindInv' /\ RingsReleasedSafely'
  BY <1>1, <1>2 DEF CmdInv, LoopInv, DisabledInv, BehindInv, ThreadsInv,
         RingsReleasedSafely
<1> QED  BY <1>3, <1>4, <1>5

\* The same.
LEMMA QueryHcaCapsKeeps == ASSUME IInv, QueryHcaCaps PROVE IInv'
<1>0. TypeOK /\ "QUERY_HCA_CAP" \in Informing
  BY DEF IInv, Informing
<1>1. PICK r \in Outcomes(Cmd("QUERY_HCA_CAP")) :
        /\ Exec(Cmd("QUERY_HCA_CAP"), r)
        /\ \E ok \in BOOLEAN : Proceeds(ok)
  BY DEF QueryHcaCaps, Informs
<1>2. InformDoes("QUERY_HCA_CAP", r)
  BY <1>0, <1>1, InformEffect
<1> USE AfterIs, StartStepsAre
    DEF IInv, TypeOK, InformDoes, QueryHcaCaps, Informs
<1>3. TypeOK'
  BY <1>1, <1>2 DEF CleanupSteps, Ends
<1>4. ThreadsInv'
  BY <1>1, <1>2 DEF ThreadsInv
<1>5. CmdInv' /\ LoopInv' /\ DisabledInv' /\ BehindInv' /\ RingsReleasedSafely'
  BY <1>1, <1>2 DEF CmdInv, LoopInv, DisabledInv, BehindInv, ThreadsInv,
         RingsReleasedSafely
<1> QED  BY <1>3, <1>4, <1>5

\* Pages are given.
LEMMA StartupPagesKeeps == ASSUME IInv, StartupPages PROVE IInv'
<1>0. TypeOK /\ "MANAGE_PAGES" \in Informing
  BY DEF IInv, Informing
<1>1. PICK r \in Outcomes(Cmd("MANAGE_PAGES")) :
        /\ Exec(Cmd("MANAGE_PAGES"), r)
        /\ pages' \in {"none", "firmware", "ambiguous"}
        /\ Proceeds(r = "ok")
  BY <1>0 DEF StartupPages, TypeOK
<1>2. InformDoes("MANAGE_PAGES", r)
  BY <1>0, <1>1, InformEffect
<1> USE AfterIs, StartStepsAre DEF IInv, TypeOK, InformDoes, StartupPages
<1>3. TypeOK'
  BY <1>1, <1>2 DEF CleanupSteps, Ends
<1>4. ThreadsInv'
  BY <1>1, <1>2 DEF ThreadsInv
<1>5. CmdInv' /\ LoopInv' /\ DisabledInv' /\ BehindInv' /\ RingsReleasedSafely'
  BY <1>1, <1>2 DEF CmdInv, LoopInv, DisabledInv, BehindInv, ThreadsInv,
         RingsReleasedSafely
<1> QED  BY <1>3, <1>4, <1>5

\* The boot UAR.
LEMMA AllocUarKeeps == ASSUME IInv, AllocUar PROVE IInv'
<1>0. TypeOK /\ "ALLOC_UAR" \in Informing
  BY DEF IInv, Informing
<1>1. PICK r \in Outcomes(Cmd("ALLOC_UAR")) :
        /\ Exec(Cmd("ALLOC_UAR"), r)
        /\ bootUar' \in BOOLEAN
        /\ Proceeds(r = "ok") \/ pc' = "uarback"
  BY DEF AllocUar
<1>2. InformDoes("ALLOC_UAR", r)
  BY <1>0, <1>1, InformEffect
<1> USE AfterIs, StartStepsAre DEF IInv, TypeOK, InformDoes, AllocUar
<1>3. TypeOK'
  <2>1. bootUar' \in BOOLEAN
    BY <1>1
  <2> QED  BY <1>1, <1>2, <2>1 DEF CleanupSteps, Ends
<1>4. ThreadsInv'
  BY <1>1, <1>2 DEF ThreadsInv
<1>5. CmdInv' /\ LoopInv' /\ DisabledInv' /\ BehindInv' /\ RingsReleasedSafely'
  BY <1>1, <1>2 DEF CmdInv, LoopInv, DisabledInv, BehindInv, ThreadsInv,
         RingsReleasedSafely
<1> QED  BY <1>3, <1>4, <1>5

\* Its mapping has failed.
LEMMA GiveUarBackKeeps == ASSUME IInv, GiveUarBack PROVE IInv'
<1>0. TypeOK /\ "FREE_UAR" \in Informing
  BY DEF IInv, Informing
<1>1. PICK r \in Outcomes(Cmd("FREE_UAR")) :
        Exec(Cmd("FREE_UAR"), r)
  BY DEF GiveUarBack
<1>2. InformDoes("FREE_UAR", r)
  BY <1>0, <1>1, InformEffect
<1> USE AfterIs, StartStepsAre DEF IInv, TypeOK, InformDoes, GiveUarBack
<1>3. TypeOK'
  BY <1>1, <1>2 DEF CleanupSteps, Ends
<1>4. ThreadsInv'
  BY <1>1, <1>2 DEF ThreadsInv
<1>5. CmdInv' /\ LoopInv' /\ DisabledInv' /\ BehindInv' /\ RingsReleasedSafely'
  BY <1>1, <1>2 DEF CmdInv, LoopInv, DisabledInv, BehindInv, ThreadsInv,
         RingsReleasedSafely
<1> QED  BY <1>3, <1>4, <1>5

\* The page worker, while it may run.
LEMMA PageWorkerKeeps == ASSUME IInv, PageWorker PROVE IInv'
<1>0. TypeOK /\ "MANAGE_PAGES" \in Informing
  BY DEF IInv, Informing
<1>1. /\ pages' \in {"none", "firmware", "ambiguous"}
      /\ requests' \in 0 .. QueueSize /\ requests > 0
      /\ UNCHANGED q \/ CallsQuarantine("worker")
  BY <1>0, SizesAssumption DEF PageWorker, TypeOK, PagesAfter
<1>2. \/ UNCHANGED cmdVars
      \/ \E r \in Outcomes(Cmd("MANAGE_PAGES")) : Exec(Cmd("MANAGE_PAGES"), r)
  BY DEF PageWorker
<1>3. \/ UNCHANGED cmdVars
      \/ \E r : InformDoes("MANAGE_PAGES", r)
  BY <1>0, <1>2, InformEffect
<1> USE AfterIs, StartStepsAre DEF IInv, TypeOK, InformDoes, PageWorker
<1>4. TypeOK'
  <2>1. q' \in [Callers -> {"idle", "flag", "unpublish", "busoff"}]
    BY <1>1 DEF CallsQuarantine
  <2> QED  BY <1>1, <1>3, <2>1 DEF CleanupSteps
<1>5. ThreadsInv'
  BY <1>1, <1>3 DEF ThreadsInv, CallsQuarantine, Callers
<1>6. CmdInv' /\ LoopInv' /\ DisabledInv' /\ BehindInv' /\ RingsReleasedSafely'
  BY <1>1, <1>3 DEF CmdInv, LoopInv, DisabledInv, BehindInv, ThreadsInv,
         RingsReleasedSafely
<1> QED  BY <1>4, <1>5, <1>6

\* A request is queued, or the worker is left a fault to report.
LEMMA RequestArrivesKeeps == ASSUME IInv, RequestArrives PROVE IInv'
<1> USE DEF IInv, TypeOK, RequestArrives
<1>1. TypeOK'
  <2>1. q' \in [Callers -> {"idle", "flag", "unpublish", "busoff"}]
    BY DEF CallsQuarantine
  <2>2. requests' \in 0 .. QueueSize
    BY SizesAssumption
  <2> QED  BY <2>1, <2>2
<1>2. ThreadsInv'
  BY DEF ThreadsInv, CallsQuarantine, Callers
<1>3. CmdInv' /\ LoopInv' /\ DisabledInv' /\ BehindInv' /\ RingsReleasedSafely'
  BY DEF CmdInv, LoopInv, DisabledInv, BehindInv, RingsReleasedSafely
<1> QED  BY <1>1, <1>2, <1>3

\* The worker's last run leaves a request behind.
LEMMA WorkerEndsKeeps == ASSUME IInv, WorkerEnds PROVE IInv'
<1> USE DEF IInv, TypeOK, WorkerEnds
<1>1. TypeOK' /\ ThreadsInv'
  BY DEF ThreadsInv
<1>2. CmdInv' /\ LoopInv' /\ DisabledInv' /\ BehindInv' /\ RingsReleasedSafely'
  BY DEF CmdInv, LoopInv, DisabledInv, BehindInv, RingsReleasedSafely
<1> QED  BY <1>1, <1>2

\* ENABLE_HCA: the first command, so the driver's flag follows the firmware.
LEMMA EnableHcaKeeps == ASSUME IInv, EnableHca PROVE IInv'
<1> DEFINE c == Cmd("ENABLE_HCA")
<1>0. TypeOK /\ c \in Commands /\ \A e \in Eqs : c # <<"CREATE_EQ", e>>
  BY CommandsAre DEF IInv, Ops
<1>1. PICK r \in Outcomes(c) :
        Exec(c, r) /\ fHcaEnabled' = (r = "ok") /\ Proceeds(r = "ok")
  BY DEF EnableHca
<1> HIDE DEF c
<1>2. ExecDoes(c, r)
  BY <1>0, <1>1, ExecEffect
<1>3. hwEqs' = hwEqs /\ (r = "ok" => hca' # "disabled")
  BY <1>0, <1>2, HcaEffect, EqsEffect DEF c, Ops, TypeOK, ExecDoes
<1> USE <1>0, <1>1, <1>2, <1>3, AfterIs, StartStepsAre
    DEF IInv, TypeOK, EnableHca, ExecDoes
<1>4. TypeOK'
  <2>1. fHcaEnabled' \in BOOLEAN
    OBVIOUS
  <2> QED  BY <2>1 DEF CleanupSteps
<1>5. ThreadsInv'
  BY DEF ThreadsInv
<1>6. CmdInv' /\ LoopInv' /\ DisabledInv' /\ BehindInv' /\ RingsReleasedSafely'
  BY DEF CmdInv, LoopInv, DisabledInv, BehindInv, RingsReleasedSafely
<1> QED  BY <1>4, <1>5, <1>6

\* INIT_HCA leaves the HCA enabled.
LEMMA InitHcaKeeps == ASSUME IInv, InitHca PROVE IInv'
<1> DEFINE c == Cmd("INIT_HCA")
<1>0. TypeOK /\ c \in Commands /\ \A e \in Eqs : c # <<"CREATE_EQ", e>>
  BY CommandsAre DEF IInv, Ops
<1>1. PICK r \in Outcomes(c) :
        Exec(c, r) /\ fHcaInitialized' = (r = "ok") /\ Proceeds(r = "ok")
  BY DEF InitHca
<1> HIDE DEF c
<1>2. ExecDoes(c, r)
  BY <1>0, <1>1, ExecEffect
<1>3. hwEqs' = hwEqs /\ (hca' = "disabled" <=> hca = "disabled")
  BY <1>0, <1>2, HcaEffect, EqsEffect DEF c, Ops, TypeOK, ExecDoes
<1> USE <1>0, <1>1, <1>2, <1>3, AfterIs, StartStepsAre
    DEF IInv, TypeOK, InitHca, ExecDoes
<1>4. TypeOK'
  <2>1. fHcaInitialized' \in BOOLEAN
    OBVIOUS
  <2> QED  BY <2>1 DEF CleanupSteps
<1>5. ThreadsInv'
  BY DEF ThreadsInv
<1>6. CmdInv' /\ LoopInv' /\ DisabledInv' /\ BehindInv' /\ RingsReleasedSafely'
  BY DEF CmdInv, LoopInv, DisabledInv, BehindInv, RingsReleasedSafely
<1> QED  BY <1>4, <1>5, <1>6

\* TEARDOWN_HCA leaves the HCA enabled.
LEMMA TeardownKeeps == ASSUME IInv, Teardown PROVE IInv'
<1> DEFINE c == Cmd("TEARDOWN_HCA")
<1>0. TypeOK /\ c \in Commands /\ \A e \in Eqs : c # <<"CREATE_EQ", e>>
  BY CommandsAre DEF IInv, Ops
<1>1. CASE fHcaInitialized /\ IsUp
  <2>1. PICK r \in Outcomes(c) :
          /\ Exec(c, r)
          /\ teardownOk' = (r = "ok")
          /\ fHcaInitialized' = (r # "ok")
          /\ fDmaQuarantined' = (fDmaQuarantined \/ r # "ok")
    BY <1>1 DEF Teardown
  <2> HIDE DEF c
  <2>2. ExecDoes(c, r)
    BY <1>0, <2>1, ExecEffect
  <2>3. hwEqs' = hwEqs /\ (hca' = "disabled" <=> hca = "disabled")
    BY <1>0, <2>2, HcaEffect, EqsEffect DEF c, Ops, TypeOK, ExecDoes
  <2> USE DEF IInv, TypeOK, Teardown, ExecDoes
  <2>4. TypeOK'
    <3>1. /\ teardownOk' \in BOOLEAN /\ fHcaInitialized' \in BOOLEAN
          /\ fDmaQuarantined' \in BOOLEAN
      BY <2>1
    <3> QED  BY <2>2, <2>3, <3>1 DEF CleanupSteps
  <2>5. ThreadsInv'
    BY DEF ThreadsInv
  <2>6. CmdInv' /\ LoopInv' /\ DisabledInv' /\ BehindInv' /\ RingsReleasedSafely'
    BY <1>0, <2>2, <2>3
       DEF CmdInv, LoopInv, DisabledInv, BehindInv, RingsReleasedSafely
  <2> QED  BY <2>4, <2>5, <2>6
<1>2. CASE ~(fHcaInitialized /\ IsUp)
  <2> USE <1>2 DEF IInv, TypeOK, Teardown, ExecDoes
  <2>1. TypeOK' /\ ThreadsInv'
    BY DEF CleanupSteps, ThreadsInv
  <2>2. CmdInv' /\ LoopInv' /\ DisabledInv' /\ BehindInv' /\ RingsReleasedSafely'
    BY DEF CmdInv, LoopInv, DisabledInv, BehindInv, RingsReleasedSafely
  <2> QED  BY <2>1, <2>2
<1> QED  BY <1>1, <1>2

\* DISABLE_HCA succeeds, or the device is put in quarantine, or there was
\* nothing to disable.
LEMMA DisableHcaKeeps == ASSUME IInv, DisableHca PROVE IInv'
<1> DEFINE c == Cmd("DISABLE_HCA")
<1>0. TypeOK /\ c \in Commands /\ \A e \in Eqs : c # <<"CREATE_EQ", e>>
  BY CommandsAre DEF IInv, Ops
<1>1. CASE fHcaEnabled /\ IsUp
  <2>1. PICK r \in Outcomes(c) :
          /\ Exec(c, r)
          /\ fHcaEnabled' = (r # "ok")
          /\ fDmaQuarantined' = (fDmaQuarantined \/ r # "ok")
    BY <1>1 DEF DisableHca
  <2> HIDE DEF c
  <2>2. ExecDoes(c, r)
    BY <1>0, <2>1, ExecEffect
  <2>3. hwEqs' = hwEqs /\ (r = "ok" => hca' = "disabled")
    BY <1>0, <2>2, HcaEffect, EqsEffect DEF c, Ops, TypeOK, ExecDoes
  <2> USE DEF IInv, TypeOK, DisableHca, ExecDoes
  <2>4. TypeOK'
    <3>1. fHcaEnabled' \in BOOLEAN /\ fDmaQuarantined' \in BOOLEAN
      BY <2>1
    <3> QED  BY <2>2, <2>3, <3>1 DEF CleanupSteps
  <2>5. ThreadsInv'
    BY DEF ThreadsInv
  <2>6. CmdInv' /\ LoopInv' /\ DisabledInv' /\ BehindInv' /\ RingsReleasedSafely'
    BY <1>0, <1>1, <2>1, <2>2, <2>3
       DEF CmdInv, LoopInv, DisabledInv, BehindInv, RingsReleasedSafely
  <2> QED  BY <2>4, <2>5, <2>6
<1>2. CASE ~(fHcaEnabled /\ IsUp)
  <2> USE <1>2 DEF IInv, TypeOK, DisableHca, ExecDoes
  <2>1. TypeOK' /\ ThreadsInv'
    BY DEF CleanupSteps, ThreadsInv
  <2>2. ~fHcaEnabled
    BY DEF IsUp, CmdInv
  <2>3. CmdInv' /\ LoopInv' /\ DisabledInv' /\ BehindInv' /\ RingsReleasedSafely'
    BY <2>2 DEF CmdInv, LoopInv, DisabledInv, BehindInv, RingsReleasedSafely
  <2> QED  BY <2>1, <2>3
<1> QED  BY <1>1, <1>2

\* reclaimAll succeeds, or the device is put in quarantine.
LEMMA ReclaimKeeps == ASSUME IInv, Reclaim PROVE IInv'
<1>0. TypeOK /\ "MANAGE_PAGES" \in Informing
  BY DEF IInv, Informing
<1>1. CASE fHcaEnabled /\ fCmd = "up" /\ teardownOk /\ pages # "none"
  <2>1. PICK r \in Outcomes(Cmd("MANAGE_PAGES")) :
          /\ Exec(Cmd("MANAGE_PAGES"), r)
          /\ pages' \in {"none", "firmware", "ambiguous"}
          /\ fDmaQuarantined' = fDmaQuarantined \/ fDmaQuarantined' = TRUE
    BY <1>0, <1>1 DEF Reclaim, TypeOK
  <2>2. InformDoes("MANAGE_PAGES", r)
    BY <1>0, <2>1, InformEffect
  <2> USE DEF IInv, TypeOK, InformDoes, Reclaim
  <2>3. TypeOK'
    <3>1. fDmaQuarantined' \in BOOLEAN
      BY <2>1
    <3> QED  BY <2>1, <2>2, <3>1 DEF CleanupSteps
  <2>4. ThreadsInv'
    BY DEF ThreadsInv
  <2>5. CmdInv' /\ LoopInv' /\ DisabledInv' /\ BehindInv' /\ RingsReleasedSafely'
    BY <2>2 DEF CmdInv, LoopInv, DisabledInv, BehindInv, RingsReleasedSafely
  <2> QED  BY <2>3, <2>4, <2>5
<1>2. CASE ~(fHcaEnabled /\ fCmd = "up" /\ teardownOk /\ pages # "none")
  <2> USE <1>2 DEF IInv, TypeOK, InformDoes, Reclaim
  <2>1. TypeOK' /\ ThreadsInv'
    BY DEF CleanupSteps, ThreadsInv
  <2>2. CmdInv' /\ LoopInv' /\ DisabledInv' /\ BehindInv' /\ RingsReleasedSafely'
    BY DEF CmdInv, LoopInv, DisabledInv, BehindInv, RingsReleasedSafely
  <2> QED  BY <2>1, <2>2
<1> QED  BY <1>1, <1>2

\* FREE_UAR behind the boundary: the device cannot fetch it.
LEMMA FreeUarKeeps == ASSUME IInv, FreeUar PROVE IInv'
<1>0. TypeOK /\ "FREE_UAR" \in Informing
  BY DEF IInv, Informing
<1>1. /\ fCmd' \in {fCmd, "quarantined"}
      /\ fCmd' # "quarantined" => outstanding' = outstanding
      /\ outstanding' \in SUBSET (outstanding \cup {Cmd("FREE_UAR")})
      /\ outstanding' \in SUBSET Commands /\ fetched' \in SUBSET outstanding'
      /\ hca' = hca /\ hwEqs' = hwEqs
      /\ \A e \in Eqs : <<"CREATE_EQ", e>> \in outstanding' =>
                        <<"CREATE_EQ", e>> \in outstanding
      /\ ~busMaster => fetched' = fetched
  <2>1. CASE bootUar
    <3>1. PICK r \in Outcomes(Cmd("FREE_UAR")) : Exec(Cmd("FREE_UAR"), r)
      BY <2>1 DEF FreeUar
    <3> QED  BY <1>0, <3>1, InformEffect DEF InformDoes
  <2>2. CASE ~bootUar
    BY <1>0, <2>2 DEF FreeUar, TypeOK
  <2> QED  BY <2>1, <2>2
<1> USE DEF IInv, TypeOK, FreeUar
<1>2. TypeOK'
  <2>1. bootUar' \in BOOLEAN
    OBVIOUS
  <2> QED  BY <1>1, <2>1 DEF CleanupSteps
<1>3. ThreadsInv'
  BY DEF ThreadsInv
<1>4. CmdInv' /\ LoopInv' /\ DisabledInv' /\ BehindInv' /\ RingsReleasedSafely'
  BY <1>1 DEF CmdInv, LoopInv, DisabledInv, BehindInv, RingsReleasedSafely
<1> QED  BY <1>2, <1>3, <1>4

\* CREATE_EQ: a ring exists for every EQ the firmware has or may yet create.
LEMMA CreateEqKeeps == ASSUME IInv, CreateEq PROVE IInv'
<1> DEFINE c == <<"CREATE_EQ", k>>
<1>0. TypeOK /\ k \in Eqs /\ c \in Commands
  BY CommandsAre DEF IInv, TypeOK, Eqs
<1>1. ASSUME NEW r \in Outcomes(c),
             Exec(c, r),
             rings' = IF RingKept(r) THEN rings \cup {k} ELSE rings,
             valid' = IF r = "ok" THEN valid \cup {k} ELSE valid,
             IF r = "ok" /\ ~LastEq(k)
               THEN k' = k + 1 /\ pc' = pc
               ELSE k' = 1 /\ Proceeds(r = "ok")
      PROVE  IInv'
  <2> HIDE DEF c
  <2>1. ExecDoes(c, r)
    BY <1>0, <1>1, ExecEffect
  <2>2. /\ hca' = hca
        /\ r = "ok" => hwEqs' = hwEqs \cup {k}
        /\ r # "ok" => hwEqs' = hwEqs
    <3>1. hca \in {"disabled", "enabled", "initialized"} /\ hwEqs \in SUBSET Eqs
      BY <1>0 DEF TypeOK
    <3>2. HcaAfter(c, hca) = hca
      BY <1>0, <3>1, HcaEffect, ZenonT(30) DEF c
    <3>3. EqsAfter(c, hwEqs) = hwEqs \cup {k}
      BY <1>0, <3>1, EqsEffect DEF c
    <3> QED  BY <2>1, <3>2, <3>3 DEF ExecDoes
  <2>3. \A e \in Eqs : <<"CREATE_EQ", e>> = c => e = k
    BY DEF c
  <2> USE <1>0, <1>1 DEF IInv, TypeOK, CreateEq, ExecDoes
  <2>4. TypeOK'
    <3>1. k' \in 1 .. NumEqs
      BY SizesAssumption DEF LastEq, NumEqs
    <3>2. pc' \in {"eq", "runtime", "cleanup"}
      BY AfterIs
    <3>3. hwEqs' \subseteq Eqs /\ rings' \subseteq Eqs /\ valid' \subseteq rings'
      BY <2>2 DEF RingKept
    <3> QED  BY <2>1, <2>2, <3>1, <3>2, <3>3, StartStepsAre DEF CleanupSteps
  <2>5. RingsReleasedSafely'
    BY <2>1, <2>2, <2>3 DEF RingsReleasedSafely, RingKept
  <2>6. ThreadsInv'
    BY AfterIs DEF ThreadsInv
  <2>7. CmdInv' /\ LoopInv' /\ DisabledInv' /\ BehindInv'
    BY <2>1, <2>2, AfterIs DEF CmdInv, LoopInv, DisabledInv, BehindInv
  <2> QED  BY <2>4, <2>5, <2>6, <2>7
<1>2. CASE pc' = "cleanup" /\ k' = 1 /\ UNCHANGED <<cmdVars, eqVars>>
  <2> USE <1>0, <1>2 DEF IInv, TypeOK, CreateEq, ExecDoes
  <2>1. TypeOK' /\ ThreadsInv'
    BY SizesAssumption DEF CleanupSteps, ThreadsInv, NumEqs
  <2>2. CmdInv' /\ LoopInv' /\ DisabledInv' /\ BehindInv' /\ RingsReleasedSafely'
    BY DEF CmdInv, LoopInv, DisabledInv, BehindInv, RingsReleasedSafely
  <2> QED  BY <2>1, <2>2
<1> QED  BY <1>1, <1>2 DEF CreateEq

\* shutdown() destroys the EQs in the order of Destroyed, which reaches all.
LEMMA DestroyedReachesAll ==
  /\ \A i \in 1 .. NumEqs : Destroyed(i) \in Eqs
  /\ \A e \in Eqs : \E i \in 1 .. NumEqs : Destroyed(i) = e
<1> USE SizesAssumption DEF NumEqs, Eqs, Destroyed
<1>1. \A i \in 1 .. NumEqs : Destroyed(i) \in Eqs
  OBVIOUS
<1>2. ASSUME NEW e \in Eqs
      PROVE  \E i \in 1 .. NumEqs : Destroyed(i) = e
  <2>1. CASE e > NumAsync
    <3>1. e - NumAsync \in 1 .. NumEqs /\ Destroyed(e - NumAsync) = e
      BY <2>1
    <3> QED  BY <3>1
  <2>2. CASE e <= NumAsync
    <3>1. e + NumComp \in 1 .. NumEqs /\ Destroyed(e + NumComp) = e
      BY <2>2
    <3> QED  BY <3>1
  <2> QED  BY <2>1, <2>2
<1> QED  BY <1>1, <1>2

\* A step of the loop of shutdown(), from what it does to the k-th EQ.
LEMMA LoopStepKeeps ==
  ASSUME IInv, pc = "destroy", NEW ok \in BOOLEAN,
         valid' \in SUBSET valid, ok => Destroyed(k) \notin valid',
         eqDestroyed' = (eqDestroyed /\ ok),
         IF LastEq(k) THEN k' = 1 /\ pc' = "teardown" ELSE k' = k + 1 /\ pc' = pc
  PROVE  LoopInv' /\ k' \in 1 .. NumEqs /\ eqDestroyed' \in BOOLEAN
<1> USE SizesAssumption DEF IInv, TypeOK, NumEqs, LastEq
<1>1. k' \in 1 .. NumEqs
  OBVIOUS
<1>2. eqDestroyed' \in BOOLEAN
  OBVIOUS
<1>3. ASSUME eqDestroyed'
      PROVE  \A i \in 1 .. NumEqs : i <= k => Destroyed(i) \notin valid'
  BY <1>3 DEF LoopInv
<1>4. CASE LastEq(k)
  <2>1. eqDestroyed' => valid' = {}
    <3>1. SUFFICES ASSUME eqDestroyed', NEW e \in valid' PROVE FALSE
      OBVIOUS
    <3>2. PICK i \in 1 .. NumEqs : Destroyed(i) = e
      BY DestroyedReachesAll
    <3> QED  BY <1>3, <1>4, <3>1, <3>2
  <2> QED  BY <1>1, <1>2, <1>4, <2>1 DEF LoopInv
<1>5. CASE ~LastEq(k)
  BY <1>1, <1>2, <1>3, <1>5 DEF LoopInv
<1> QED  BY <1>4, <1>5

\* DESTROY_EQ for the k-th EQ, or the decision that there is nothing to destroy.
LEMMA DestroyEqKeeps == ASSUME IInv, DestroyEq PROVE IInv'
<1> DEFINE d == Destroyed(k)
           c == <<"DESTROY_EQ", d>>
<1>0. /\ TypeOK /\ d \in Eqs /\ c \in Commands
      /\ \A e \in Eqs : c # <<"CREATE_EQ", e>>
  BY DestroyedReachesAll, CommandsAre DEF IInv, TypeOK
<1>1. CASE d \in valid /\ IsUp
  <2>1. PICK r \in Outcomes(c) :
          /\ Exec(c, r)
          /\ valid' = IF r = "ok" THEN valid \ {d} ELSE valid
          /\ eqDestroyed' = (eqDestroyed /\ r = "ok")
          /\ IF LastEq(k) THEN k' = 1 /\ pc' = "teardown"
                          ELSE k' = k + 1 /\ pc' = pc
    BY <1>1 DEF DestroyEq
  <2>2. /\ HcaAfter(c, hca) = hca
        /\ EqsAfter(c, hwEqs) = hwEqs \ {d}
    <3>1. hca \in {"disabled", "enabled", "initialized"} /\ hwEqs \in SUBSET Eqs
      BY <1>0 DEF TypeOK
    <3>2. HcaAfter(c, hca) = hca
      BY <1>0, <3>1, HcaEffect, ZenonT(30)
    <3>3. EqsAfter(c, hwEqs) = hwEqs \ {d}
      BY <1>0, <3>1, EqsEffect
    <3> QED  BY <3>2, <3>3
  <2>3. LoopInv' /\ k' \in 1 .. NumEqs /\ eqDestroyed' \in BOOLEAN
    <3>1. (r = "ok") \in BOOLEAN /\ (r = "ok" => Destroyed(k) \notin valid')
      BY <2>1
    <3>2. pc = "destroy" /\ valid' \in SUBSET valid
      BY <2>1 DEF DestroyEq
    <3> QED  BY <2>1, <3>1, <3>2, LoopStepKeeps
  <2> HIDE DEF c, d
  <2>4. ExecDoes(c, r)
    BY <1>0, <2>1, ExecEffect
  <2> USE <1>0, <2>1, <2>2, <2>3, <2>4 DEF IInv, TypeOK, DestroyEq, ExecDoes
  <2>5. TypeOK'
    BY DEF CleanupSteps
  <2>6. ThreadsInv'
    BY DEF ThreadsInv
  <2>7. CmdInv' /\ DisabledInv' /\ BehindInv' /\ RingsReleasedSafely'
    BY DEF CmdInv, DisabledInv, BehindInv, RingsReleasedSafely
  <2> QED  BY <2>3, <2>5, <2>6, <2>7
<1>2. CASE d \notin valid \/ ~IsUp
  <2>1. /\ eqDestroyed' = (eqDestroyed /\ d \notin valid)
        /\ IF LastEq(k) THEN k' = 1 /\ pc' = "teardown"
                        ELSE k' = k + 1 /\ pc' = pc
        /\ UNCHANGED <<cmdVars, valid>>
    BY <1>2 DEF DestroyEq
  <2>2. LoopInv' /\ k' \in 1 .. NumEqs /\ eqDestroyed' \in BOOLEAN
    <3>1. /\ (d \notin valid) \in BOOLEAN
          /\ (d \notin valid => Destroyed(k) \notin valid')
      BY <2>1
    <3>2. pc = "destroy" /\ valid' \in SUBSET valid
      BY <2>1 DEF DestroyEq
    <3> QED  BY <2>1, <3>1, <3>2, LoopStepKeeps
  <2> HIDE DEF c, d
  <2> USE <2>1, <2>2 DEF IInv, TypeOK, DestroyEq, ExecDoes
  <2>3. TypeOK'
    BY DEF CleanupSteps
  <2>4. ThreadsInv'
    BY DEF ThreadsInv
  <2>5. CmdInv' /\ DisabledInv' /\ BehindInv' /\ RingsReleasedSafely'
    BY DEF CmdInv, DisabledInv, BehindInv, RingsReleasedSafely
  <2> QED  BY <2>2, <2>3, <2>4, <2>5
<1> QED  BY <1>1, <1>2

\* A late answer: nothing is outstanding unless the interface is quarantined,
\* and behind the boundary nothing has been fetched.
LEMMA FirmwareAnswersLateKeeps == ASSUME IInv, FirmwareAnswersLate PROVE IInv'
<1>1. PICK c \in fetched :
        /\ fetched' = fetched \ {c} /\ outstanding' = outstanding \ {c}
        /\ hca' = HcaAfter(c, hca) /\ hwEqs' = EqsAfter(c, hwEqs)
  BY DEF FirmwareAnswersLate
<1>2. c \in Commands /\ c \in outstanding
  BY <1>1 DEF IInv, TypeOK
<1>3. /\ hca' \in {"disabled", "enabled", "initialized"}
      /\ hwEqs' \in SUBSET Eqs
  BY <1>1, <1>2, HcaEffect, EqsEffect DEF IInv, TypeOK
<1>4. \A e \in Eqs : e \in hwEqs' => e \in hwEqs \/ <<"CREATE_EQ", e>> = c
  <2>1. CASE c[1] = "CREATE_EQ"
    <3>1. c = <<"CREATE_EQ", c[2]>>
      BY <1>2, <2>1 DEF Commands
    <3> QED  BY <1>1, <2>1, <3>1 DEF EqsAfter
  <2>2. CASE c[1] # "CREATE_EQ"
    BY <1>1, <2>2 DEF EqsAfter
  <2> QED  BY <2>1, <2>2
<1> USE <1>1, <1>2, <1>3, <1>4 DEF IInv, TypeOK, FirmwareAnswersLate
<1>5. TypeOK'
  OBVIOUS
<1>6. ThreadsInv' /\ LoopInv' /\ DisabledInv'
  BY DEF ThreadsInv, LoopInv, DisabledInv
<1>7. CmdInv' /\ BehindInv'
  BY DEF CmdInv, BehindInv
<1>8. RingsReleasedSafely'
  BY DEF RingsReleasedSafely
<1> QED  BY <1>5, <1>6, <1>7, <1>8

\* enterDmaQuarantine, which no thread runs once cleanup has drained them.
LEMMA QuarantineKeeps ==
  ASSUME IInv, NEW c \in Callers, Quarantine(c) PROVE IInv'
<1> USE DEF IInv, TypeOK, Quarantine, QuarantineFlags, QuarantineUnpublishes,
            QuarantineStopsBus
<1>1. TypeOK'
  <2>1. /\ fDmaQuarantined' \in BOOLEAN /\ published' \in BOOLEAN
        /\ busMaster' \in BOOLEAN
    OBVIOUS
  <2>2. q' \in [Callers -> {"idle", "flag", "unpublish", "busoff"}]
    OBVIOUS
  <2>3. UNCHANGED <<pc, k, cmdVars, eqVars, pages, bootUar, hcaVars, runtime,
                    interrupts, healthVars, hung, requests, workerOver, localVars,
                    released>>
    OBVIOUS
  <2> QED  BY <2>1, <2>2, <2>3
<1>2. pc \in WorkerRuns \cup {"drain"}
  BY DEF ThreadsInv, Callers
<1>3. ThreadsInv'
  BY <1>2 DEF ThreadsInv, Callers
<1>4. CmdInv' /\ LoopInv' /\ DisabledInv' /\ BehindInv' /\ RingsReleasedSafely'
  BY <1>2 DEF CmdInv, LoopInv, DisabledInv, BehindInv, RingsReleasedSafely
<1> QED  BY <1>1, <1>3, <1>4

-----------------------------------------------------------------------------
\* The device that start() finds satisfies the invariant.
LEMMA InitEstablishes == Init => IInv
<1> SUFFICES ASSUME Init PROVE IInv
  OBVIOUS
<1> USE DEF Init
<1>1. TypeOK
  <2>1. /\ busMaster \in BOOLEAN /\ bootUar \in BOOLEAN
        /\ fHcaEnabled \in BOOLEAN /\ fHcaInitialized \in BOOLEAN
        /\ runtime \in BOOLEAN /\ interrupts \in BOOLEAN
        /\ fStarted \in BOOLEAN /\ hung \in BOOLEAN /\ published \in BOOLEAN
        /\ fDmaQuarantined \in BOOLEAN /\ workerOver \in BOOLEAN
        /\ eqDestroyed \in BOOLEAN /\ teardownOk \in BOOLEAN
    OBVIOUS
  <2>2. k \in 1 .. NumEqs /\ fMissCount \in 0 .. Threshold
    BY SizesAssumption DEF NumEqs
  <2>3. requests \in 0 .. QueueSize
    BY SizesAssumption
  <2> QED  BY <2>1, <2>2, <2>3, StartStepsAre DEF TypeOK
<1>2. ThreadsInv
  BY DEF ThreadsInv, Callers
<1>3. CmdInv /\ LoopInv /\ DisabledInv /\ BehindInv /\ RingsReleasedSafely
  BY DEF CmdInv, LoopInv, DisabledInv, BehindInv, RingsReleasedSafely
<1> QED  BY <1>1, <1>2, <1>3 DEF IInv

\* Every step of the driver, its threads and the firmware preserves it.
LEMMA NextKeeps == IInv /\ [Next]_vars => IInv'
<1> SUFFICES ASSUME IInv, [Next]_vars PROVE IInv'
  OBVIOUS
<1>1. CASE StartNext
  BY <1>1, MapDeviceKeeps, EnableHcaKeeps, SetIssiKeeps, StartupPagesKeeps,
     SetHcaCapsKeeps, InitHcaKeeps, QueryHcaCapsKeeps, AllocUarKeeps,
     GiveUarBackKeeps, AllocateKeeps, CreateEqKeeps, StartRuntimeKeeps,
     SetupInterruptsKeeps, StartHealthKeeps, PublishNubsKeeps
     DEF StartNext
<1>2. CASE CleanupNext
  BY <1>2, CleanupBeginsKeeps, FreeHealthKeeps, DisableInterruptsKeeps,
     DrainKeeps, DestroyEqKeeps, TeardownKeeps, ReclaimKeeps, DisableHcaKeeps,
     BoundaryKeeps, ReleasePartKeeps, FreeEqKeeps, FreeUarKeeps
     DEF CleanupNext
<1>3. CASE Stop \/ HealthCheck \/ DeviceFatal \/ RequestArrives \/ PageWorker
           \/ WorkerEnds \/ FirmwareHangs \/ FirmwareAnswersLate
  BY <1>3, StopKeeps, HealthCheckKeeps, DeviceFatalKeeps, RequestArrivesKeeps,
     PageWorkerKeeps, WorkerEndsKeeps, FirmwareHangsKeeps, FirmwareAnswersLateKeeps
<1>4. CASE \E c \in Callers : Quarantine(c)
  BY <1>4, QuarantineKeeps
<1>5. CASE UNCHANGED vars
  <2> USE <1>5 DEF vars
  <2>1. TypeOK'
    BY DEF IInv, TypeOK
  <2>2. ThreadsInv' /\ CmdInv' /\ LoopInv' /\ DisabledInv' /\ BehindInv'
    BY DEF IInv, ThreadsInv, CmdInv, LoopInv, DisabledInv, BehindInv
  <2>3. RingsReleasedSafely'
    BY DEF IInv, RingsReleasedSafely
  <2> QED  BY <2>1, <2>2, <2>3 DEF IInv
<1> QED  BY <1>1, <1>2, <1>3, <1>4, <1>5 DEF Next

\* So it holds for ever.
LEMMA Invariance == Spec => []IInv
  BY InitEstablishes, NextKeeps, PTL DEF Spec

\* The variables of the device's life keep their types: the loops over the EQs
\* stay in their arrays, and the miss counter at its threshold.
THEOREM TypeCorrect == Spec => []TypeOK
<1>1. IInv => TypeOK
  BY DEF IInv
<1> QED  BY <1>1, Invariance, PTL

\* For every number of EQs: no ring is unmapped under an EQ that exists or may
\* yet be created by a CREATE_EQ that timed out.
THEOREM RingsSafe == Spec => []RingsReleasedSafely
<1>1. IInv => RingsReleasedSafely
  BY DEF IInv
<1> QED  BY <1>1, Invariance, PTL

\* cleanup releases memory only when every EQ is destroyed, the HCA disabled,
\* the pages are back, and no command from before the boundary is unanswered.
THEOREM DrainedBeforeRelease == Spec => []ReleasedAfterDrain
<1>1. IInv => ReleasedAfterDrain
  BY DEF IInv, BehindInv, ReleasedAfterDrain
<1> QED  BY <1>1, Invariance, PTL

\* A device in DMA quarantine has released nothing and never will.
THEOREM QuarantineKeepsAll == Spec => []QuarantineRetains
<1>1. IInv => QuarantineRetains
  BY DEF IInv, BehindInv, QuarantineRetains
<1> QED  BY <1>1, Invariance, PTL

=============================================================================
