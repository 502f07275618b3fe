# AppleMCX: a TLA+ model of the driver

AppleMCX is a macOS kernel driver for Mellanox ConnectX adapters. The parts that
are hard to test are not the bit layouts (the host tests under `Tests/host` cover
those) but the protocols: a firmware that answers late or never, interrupts and
worker threads that overlap with teardown, and the rule that memory the device
was told of is never freed while the device may still write to it. This project
models those protocols, checks them with TLC on small instances, and proves their
safety properties with TLAPS for every size of instance.

## The system and its parts

| Part | Source | State it keeps | What it does |
|---|---|---|---|
| Command interface | `Sources/core/MlxCmd.cpp` | slot bitmap, page slot and its lock, table of in-flight entities, quarantine flag | `exec`: take a slot, build the descriptor and mailboxes, ring the doorbell, poll, time out |
| Firmware pages: requests | `Sources/core/MlxFwPages.cpp` | ring of page requests, worker flags, stop flags | event callback queues, a thread call serves, teardown drains |
| Firmware pages: ownership | `Sources/core/MlxFwPages.cpp` | an ownership record per page, fatal flag | give, take, reclaim, release behind the DMA boundary |
| Event queues | `Sources/core/MlxEQ.cpp` | rings and indices, arming, notifier registry, count of running callbacks | interrupt handlers, dispatch, registration, `synchronizeCallbacks` |
| Device life | `Sources/core/MlxPCIDriver.cpp` | what has been brought up, DMA quarantine | `start`, `cleanup`, `enterDmaQuarantine`, publication |
| Health | `Sources/core/MlxHealth.cpp` | timer, missed updates | periodic check, watchdog |
| UAR | `Sources/core/MlxUAR.cpp` | boot UAR, doorbell-record slots, bfregs | allocate and free |
| Ethernet | `Sources/netif/MlxEthernet.cpp` | TX and RX rings, firmware objects, link state | enable, disable, send, receive |
| Verbs objects, RoCE | `Sources/ib` | QPs, CQs, MRs, AHs, a ring of async events | create, modify, destroy |
| User client | `Sources/userclient` | lists of the objects a process owns | external methods, release on close |
| HCA models, encoders | `Sources/hw` | none | pure functions |
| User library, tools | `usermode` | user-space queues | post, poll |

How they interact. Everybody sends firmware commands through `MlxCmd::exec`, from
many threads. The firmware raises events through the event queues; their handlers
run on one work loop and call notifiers back (the page worker, Ethernet, RoCE).
The page manager sends its MANAGE_PAGES commands from a thread call of its own.
The health timer, the handler of DEVICE_FATAL and the page worker can each put the
device in DMA quarantine, at any moment, also while `start` or `cleanup` runs.
`cleanup` stops those threads one after the other, drains the device, and then
decides at the *DMA boundary* whether its memory may be released or has to be
retained for ever.

What is hard: interleavings of `exec` calls on one slot; a command that times out
and is carried out later; requests that arrive while the worker is ending; an
event posted between the last look at a ring and its arming; a callback that runs
while its owner goes away; a quarantine that races publication or release; counters
that wrap; object numbers the firmware uses again while the driver still has the
old context; and one failed step in a teardown of ten. `PROJECT.json` lists these as hazards, each at
its line, with the property that would catch it.

## Modules

| Module | Models | Used by |
|---|---|---|
| `MlxCmd` | `exec` as its callers and the firmware interleave | `MCMlxCmd`, `MlxCmdProofs` |
| `CmdContract` | abstract: what the callers of `exec` are promised of a command | refined by `MlxCmd` |
| `MlxFwWorker` | `handleEvent`, `scheduleWorker`, `workerMain`, `startRuntime`, `stopRuntimeAndDrain` | `MCMlxFwWorker`, `MlxFwWorkerProofs` |
| `MlxFwPages` | `givePages`, `takePages`, `reclaimAll`, `releaseAllForFunction`, `releaseAfterDmaBoundary` | `MCMlxFwPages`, `MlxFwPagesProofs` |
| `MlxEQ` | rings, handlers, arming, notifiers, shutdown | `MCMlxEQ`, `MlxEQProofs` |
| `MlxPCIDriver` | `start`, `cleanup`, `enterDmaQuarantine`, `MlxHealth`, the boot UAR | `MCMlxPCIDriver`, `MlxPCIDriverProofs` |
| `MlxEthRings` | the data path of `MlxEthernet.cpp`: send and receive rings, completion queues, the device, polling and arming | `MlxEthernet` |
| `MlxEthernet` | `start`, `enable`, `disable`, `stop`, `free`, the notifier, and the data path above in between | `MCMlxEthernet`, `MlxEthernetProofs` |
| `TxQueue` | abstract: the bounded queue the network stack is promised | refined by `MlxEthernet` |
| `MlxVerbs` | `MlxQP`, `MlxCQ`, `MlxMR`, the ownership lists of `MlxUserClient`, life of `MlxRoCE`, doorbell slots of `MlxUAR`, pins of `MlxDMA` | `MCMlxVerbs`, `MlxVerbsProofs` |
| `MlxCmdProofs`, `MlxFwWorkerProofs`, `MlxFwPagesProofs`, `MlxEQProofs`, `MlxPCIDriverProofs`, `MlxEthernetProofs`, `MlxVerbsProofs` | the inductive invariant and the theorems of the module each is named after | |
| `RingLemmas` | no code: the arithmetic of slots, laps and counters that wrap | the proofs of `MlxFwWorker`, `MlxEQ`, `MlxEthernet` |

Each module is a state machine in which the code between two points where threads
can affect each other is one step. Variables keep the names of the fields they
stand for (`fBitmask`, `fRequestHead`, `consIndex`, `fDmaQuarantined`); a variable
named `pc`, `worker`, `stopper`, `hpc`, `spc`, `client` or `q` is a thread's
control point. Definitions commented `Mutation:` or `mutant:` are plausible bugs of
the definition that follows; no specification uses them.

The modules meet at calls. `MlxFwPages`, `MlxPCIDriver`, `MlxEthernet` and
`MlxVerbs` take `exec` by its
outcome (carried out; refused or failed and never carried out; timed out, carried
out later or never, and the interface quarantined). `CmdContract` states these
outcomes, and `MlxCmd` is shown to implement it.
`MlxFwWorker` takes the processing of one request by its outcome, which is what
`MlxFwPages` models. `MlxPCIDriver` takes the event queues by the existence of
their rings, and the page manager by whether the firmware has pages, has none, or
nobody can tell. `MlxEthernet` composes control and data path (`EXTENDS
MlxEthRings`) and takes `synchronizeCallbacks` by what `MlxEQ` shows of it: it
returns when no callback runs.

### MlxCmd

A thread's call goes through the points *acquire* (take `fPageLock` or a bit of
`fBitmask`), *build* (allocate entity and mailboxes, register it in `fEntArr`),
*submit* (read `fEntArr[idx]`, fill the descriptor, ring), *poll*, *expired* (the
quarantine of slot and mailbox), *release* and *clear* (give the slot back, then
clear `fEntArr[idx]`). The firmware answers an owned descriptor at any time, also
after the timeout, or never. `free` tears the interface down when no call runs.
Mailbox contents are left out: an entity stands for its mailboxes and its token.
Every command is taken to have a mailbox, which is the harder case.
`MlxCmd::handleCompletion` has no caller in the repository and is left out, and so
is polling without a timeout: every caller passes a nonzero one.

`CmdContract` knows neither slots nor mailboxes. A call is refused, or sent and
carried out once and returns what was answered to it, or its caller gives up: then
the interface is quarantined, no call is let in any more but TEARDOWN_HCA and
DISABLE_HCA, and the command left behind is carried out once later, or never.
`ImplementsContract` is the refinement. `Phase` maps a thread's point to what its
caller can tell (*asked*, *sent*, *answered*, or the last result), and the commands
left behind are the slots the firmware owns and nobody waits for. A call already
past the quarantine check when another one times out goes on, in the contract as
in the code.

### MlxFwWorker

The ring of requests holds event numbers, so that order and loss show. The thread
call is allocated with `THREAD_CALL_OPTIONS_ONCE` (`MlxFwPages.cpp:24-26`): its runs
do not overlap, and one that is entered while it runs is run again when it has ended.
So `worker` is one control point, and `entered` says that a run is due. The bound
`MaxEvents` is on the events raised, larger than the ring, so it fills and wraps.

### MlxFwPages

`fOperationLock` admits one operation at a time; the operation is a sequence of
batches, and between any two steps the firmware accepts, refuses, returns fewer
pages than asked for, answers with pages it was never given, or shuts a function
down. `fwOwns` is the firmware's own view. Two assumptions on the firmware: it
refuses a GIVE for a function it has shut down, and such a function does not come
back. Because of `fOperationLock` the spurious busy result of the page slot in
`exec` cannot be met from here.

### MlxEQ

`owner` is the owner bit of each entry as the firmware wrote it, `consIndex` and
`prodIndex` are unbounded counters (bounded by the events posted), so a handler
that misread the lap would show. All handlers run on one work loop. The firmware
does not post past the consumer index the driver has published, as the device
guarantees. The order in which notifiers are called is left open (a set), and the
24-bit mask of the doorbell's index is not modelled.

### MlxPCIDriver

`start` is a chain of steps (`After`), each of which succeeds, fails or times out;
any failure goes to `cleanup`. Every command's late execution by the firmware is a
step of its own (`FirmwareAnswersLate`), possible only for commands fetched while
bus mastering was on. The health counter is abstracted to whether it moved since
the last check. The page worker is there with the length of its queue (`requests`):
`RequestArrives` is the callback, `PageWorker` serves one request (a failure empties
the queue), and `WorkerEnds` is the last run of `fwworker_drain`'s trace, which ends
during the stop and leaves a request behind. `Drain` waits, as `stopRuntimeAndDrain`
does, for an idle worker and an empty queue, and so for ever in that case. After
`WorkerEnds` nobody serves the queue again, which `workerOver` records.
TEARDOWN_HCA does not remove event queues for the model, which is the harder case. The services above (Ethernet, RoCE) have stopped before `cleanup`
begins, as IOKit guarantees for clients of a provider.

### MlxEthRings, MlxEthernet and TxQueue

`enable` is the chain `UpOrder` of nineteen steps: firmware objects, memory pools,
the notifier, the flow steering. Every step succeeds, fails, or (a command) times
out; a failure undoes its own part and then all parts, object by object, and a part
stops at the first command that fails. `has` is what the driver has a handle of,
`fw` what exists in the firmware, `mem` what host memory is allocated. `Uses` says
what an object in the firmware needs: other objects, and the host memory its CREATE
command names, of a CQ its buffer and doorbell record, of a work queue its ring and
doorbell record. The code does not keep all of it there, and `OnlyLateCreatesLose`
names where: only an object created behind its caller's back (the driver has no
handle of it) can lack something, and only what was taken for the command that
created it (`Lost`). One thread calls `enable` and
`disable`, another `stop` and `free`, and the EQ's work loop runs the handler
between any two of their steps.

`stop` does not wait for an `enable` or `disable` in progress: `disable` returns
busy, which is only logged, and `releaseResources` runs under the other thread.
The model goes as far as the state in which that has happened (`Overran`) and ends
there, because the code has no defined behaviour after it; the properties speak of
all behaviours up to that point and of those that never reach it.

In the rings a slot is a counter modulo the ring size and the counters wrap at
`Wrap`, a small multiple of the ring in place of 2^16. The device completes what
the doorbell record tells it of, writes the owner bit of its lap, and raises one
event for each new arm sequence number. `ci` is the consumer counter in the CQ's
doorbell record, which is all the device knows of what the driver has consumed. The
device of the model goes on when the CQ is full by that counter: what a device does
then (an overrun, or waiting) is not in the source. `OnlyRxPollOverruns` says when it
happens: for the receive CQ, while its loop runs. `pollTxCq` holds `fLock`; `pollRxCq`
holds nothing, so copying a buffer and posting the slot again are two steps. Packet
contents, checksums and the packets `xmitPacket` frees at once are left out.

`TxQueue` says nothing of rings: packets are accepted while there is room, sent in
order, given back in order once sent, or all at once when the queue is torn down.
`ImplementsTxQueue` is the refinement, with the ring between `fTxCc` and `fTxPc` as
the queue and the device's position in it as what was sent.

### MlxVerbs

Threads of two clients call `createQP`, `createCQ`, `regMR`, `modifyQP`, the three
destroys and close, step by step: `fOwnedLock` and a table's `fLock` cover single
steps, not the firmware command between them. An object is what the driver and the
firmware have of it: number, doorbell slots, pins, firmware state, context. The
driver finds contexts by number, and the firmware may use a number again as soon as
the object is gone, which is before the driver has dropped its context.

`Worlds` takes bounds together that are too many at once: three objects with reused
numbers and two clients but no timeouts; the same with one client and an allocation
that fails; the same with one client and timeouts; two objects with reuse, timeouts
and two clients; two objects with a memory region, timeouts and failing allocations.

The remediation plan's rule is that memory stays until its object is destroyed. The
code keeps it but for some cases, which the properties name. `Abandoned` are the
objects whose memory the code lets go by a decision about that object: one created
after its caller gave up; a CQ whose DESTROY failed in `createCQ`'s clean-up
(`MlxCQ.cpp:206-226`) or in `MlxCQ::free` (lines 34-43).
`blind` is a history variable: `createQP`'s clean-up (`MlxQP.cpp:174`) has found a
context by number that is another QP's. Until then every object not abandoned keeps
its pins and slots and shares none (`KeptUnlessAbandoned`, `ApartUnlessAbandoned`).

Calls that run while `cleanup` of their own client frees the lock they use are left
out, since nothing is defined after that (listed as a hazard). Address handles,
completion counters and asynchronous events are not modelled.

## Runs

| Run | States | Result | Question |
|---|---|---|---|
| `cmd` | 63,652 | holds | Can two calls share a slot, can the firmware write into a freed mailbox, can a slot be lost, is success always earned, is `fEntArr` ever dangling, does every call return, does `exec` keep the contract its callers are modelled with? |
| `cmd_race` | | violated | Does every descriptor carry the mailbox of its caller? |
| `fwworker` | 14,395 | holds | Are requests served in order, is the worker quiet once stopped, is a fatal fault always reported, is every queued request reached? |
| `fwworker_drain` | | violated | Does the drain always end? |
| `fwpages` | 615,778 | holds | Does the firmware ever use a page the host considers free, is ambiguity permanent, do both sides agree between operations, is release behind the boundary safe, do operations end? |
| `eq` | 102,494 | holds | Does the owner bit tell new entries from old on every lap, is an entry stable while it is read, is no callback of a notifier running after `synchronizeCallbacks`, is every event served, does the wait end? |
| `pcidriver` | 208,228 | holds | Is a ring ever unmapped under the device, is memory released only after a complete drain and never in quarantine, is a stranded request all that can keep `cleanup` from ending, is a hung firmware noticed? |
| `ethernet` | 297,708 | holds | Does an object in the firmware lose anything but what a timed-out CREATE named, does `enable` overwrite what a failed `disable` left, does the handler meet freed memory, are receives in order over the laps, does a completion queue overrun anywhere but in the receive loop, is the send path a queue, does every packet come back unless that loop never ends? |
| `ethernet_flood` | | violated | Does every packet come back with both directions busy? |
| `verbs` | 832,040 | holds | Does an object in the firmware that is not abandoned keep its memory and doorbell slots although numbers are used again, does it share a slot, can two calls or two clients have hold of an object? |
| `pcidriver_publish` | | violated | Is a quarantined device unpublished? |
| `pcidriver_uar` | | violated | Are the mailboxes of an unanswered command kept? |

Bounds, and why they are enough:

- `MlxCmd.cfg`: two threads, three entities, one regular slot and the page slot.
  The two threads compete for either slot; a third entity is there while the
  mailboxes of two timed-out commands are retained.
- `MlxFwWorker.cfg`: a ring of two, four events: the ring is full and wraps twice,
  and the thread call is entered again before, during and after the worker's last
  locked section.
- `MlxFwPages.cfg`: three pages, two functions, batches of one page, requests of
  at most two, one wait before the reclaim times out: an operation has several
  batches, fails after the first, and a take meets pages of another function.
- `MlxEQ.cfg`: two async queues on the shared vector and one completion queue,
  rings of two entries, four events on one queue (two laps), two notifiers for
  the same events, index written every entry.
- `MlxPCIDriver.cfg`: two async and one completion queue, a threshold of three:
  creation and destruction can fail at the first, a middle and the last queue. The
  page worker's queue holds one request (`QueueSize`): it is full, and a request is
  left in it.
- `MlxEthernet.cfg`: send and receive rings of two entries, counters that wrap at
  twice the ring, three packets: the ring is full with a packet left over, and all
  counters and owner bits wrap. One network thread and the stopping one. `Traffics`
  has behaviours with packets in one direction, in which every step may fail and
  `stop` may come at any time, and behaviours with packets in both, in which they do
  not (`Undisturbed`) and the network thread's `disable` is the only teardown.
- `MlxEthernet_flood.cfg`: the same sizes, both directions, undisturbed.
- `MlxVerbs.cfg`: two threads of one client, one of another, up to three objects (a
  CQ with two QPs, or QPs whose numbers follow each other), eight doorbell slots of
  which Ethernet holds the second, so that a pair does not fit in front of it. The
  worlds are those named above.

Deadlock is not checked where the modelled system really ends (events used up,
stop completed, memory released or retained, all objects created and destroyed). It is checked for `MlxCmd`, where
calls never end for good.

### Fairness

- `MlxCmd`: every thread inside `exec` keeps running. The firmware owes nothing:
  `ExecReturns` holds because the poll ends by its timeout. Waiting for `fPageLock`
  is given strong fairness where the module says so; it is an IOLock whose holder
  returns in bounded time.
- `MlxFwWorker`: the callback, a thread call once entered, and the stopping thread
  run. Events owe nothing.
- `MlxFwPages`: the running operation continues; the firmware owes nothing, so an
  operation ends by answers or timeouts.
- `MlxEQ`: the work loop runs pending interrupts, callbacks return, a waiting
  client is scheduled. A storm of events without end could starve
  `synchronizeCallbacks`; the bound on events leaves that out.
- `MlxPCIDriver`: `start` and `cleanup` run on, callers of `enterDmaQuarantine`
  return, the page worker runs, and an armed timer fires. The device need not be
  stopped.
- `MlxEthernet`: the work loop runs on, the device completes sends it was told of,
  and a completion event is taken however many port events there are, since the EQ
  hands entries out in order. No thread owes a call of `enable` or `disable`.
- `MlxVerbs`: none; its properties are invariants.

## What the violated runs show

1. `cmd_race`: `exec` gives the slot back before it clears `fEntArr[idx]`
   (`MlxCmd.cpp:497-501`). A second caller can take the slot and register in
   between; its registration is then wiped and the firmware receives a descriptor
   without mailbox and token.
2. `fwworker_drain`: a request queued after the worker has seen the queue empty,
   followed by the stop, leaves a nonempty queue and no run to serve it;
   `stopRuntimeAndDrain` waits for ever (`MlxFwPages.cpp:553` and `625-633`).
3. `pcidriver_publish`: `publishNubs` does not look at the quarantine flag and
   publishes a device that a concurrent thread has just withdrawn.
4. `pcidriver_uar`: `cleanup` releases the UAR, and with it sends FREE_UAR, after
   bus mastering has been turned off: the command can only time out, and the
   command queue is released with that command unanswered. `ReleasedAfterDrain`
   therefore excepts FREE_UAR, which the device cannot have fetched.
5. `ethernet_flood`: `pollRxCq` has no budget and runs on the work loop of the send
   completions. If packets keep arriving, the loop never ends and a sent packet is
   never given back. The trace relies on a device that goes on completing receives
   although the loop has not written the consumer counter; a device that
   waited for the counter would end the loop by a stall of the CQ, which the plan
   forbids as well.

## Departures from the plan that the properties name

The remediation plan promises more than the code does in the places below too. No
run of their own is about them; each is in the model, and the property that comes
closest names it as its exception. Without the exception TLC finds the departure.

- Late creation in Ethernet. CREATE_CQ, CREATE_SQ and CREATE_RQ free what they took
  (`MlxEthernet.cpp:825-829`, `893-896`, the same in `cmdCreateRq`) on every error.
  After a timeout the command can still be carried out, and the object then uses a
  buffer or a doorbell record that has been given back. The plan: "No
  hardware-referenced DMA memory is released before destroy success or bus-master
  disable" (`REMEDIATION_PLAN.md:960-961`). Exception: `Lost` in
  `OnlyLateCreatesLose`.
- Late creation of verbs objects: `createCQ` (`MlxCQ.cpp:198`), `createQP`
  (`MlxQP.cpp:157`) and `regMR` (`MlxMR.cpp:222`) do the same, against "Never release
  DMA memory until the referencing hardware object is confirmed destroyed"
  (`REMEDIATION_PLAN.md:68-69`). Exception: the first case of `Abandoned`.
- `createCQ` without memory for its record destroys the CQ, does not look at the
  result, and releases buffer and slots (`MlxCQ.cpp:206-226`); the next object shares
  its doorbell record with a CQ that may still be there. `MlxCQ::free` releases the
  buffer of a CQ whose DESTROY failed (lines 34-43). The plan: "Destroy failures
  retain DMA resources or cross a verified bus-master-off boundary"
  (`REMEDIATION_PLAN.md:261-262`). Exceptions: the other cases of `Abandoned`.
- `createQP` without memory for a context calls `destroyQP` by number
  (`MlxQP.cpp:174`). Behind the DESTROY the firmware gives the number to another QP,
  and `destroyQP` then drops that one's context, pins and slots. Exception: `blind`.
- Overrun of the receive CQ: slots are posted again inside the loop of `pollRxCq`, its
  consumer counter is written behind it (`MlxEthernet.cpp:1476`). A round of receives
  during one loop overruns a CQ that has as many entries as the ring, against
  "sustained RX pass without CQ or RQ stalls" (`REMEDIATION_PLAN.md:510`). Exception:
  the second case of `OnlyRxPollOverruns`. On the send side `fLock` prevents it.

And one without a property: a page request that fails, also without a fatal fault,
empties the whole queue (`MlxFwPages.cpp:546`, `ClearQueue`). The accepted requests
behind it are lost without an answer to the firmware, while the plan says that
PAGE_REQUEST "cannot be silently consumed" (`REMEDIATION_PLAN.md:288`).

One more comment disagrees with its code and is no state-machine question:
`MlxEQ.cpp:334` speaks of one request and 128 spare entries, while `logSize` 7
gives 128 entries in all.

## What is proved

### The command interface

`MlxCmdProofs` proves, for every set of threads and entities and every number of
slots, from the two named assumptions of `MlxCmd` (`NumReg` is a positive natural,
`None` is none of the other values):

| Theorem | Property |
|---|---|
| `TypeCorrect` | `TypeOK` |
| `SlotsExclusive` | `SlotExclusion`: a slot has one user, and none once a timeout has withheld it |
| `LateDmaSafe` | `NoLateDma`: whatever mailbox the firmware may access is mapped |
| `SlotsNotLeaked` | `NoSlotLeak`: a regular slot is idle, in use, or withheld |
| `SuccessEarned` | `SuccessMeansAnswered` |
| `EntArrNeverDangles` | `EntArrValid` |
| `ExecKeepsContract` | `ImplementsContract`, the refinement of `CmdContract` |

No one of these is inductive. `IInv` joins them with what a thread's point says
of its locals (`CallInv`), which kind of slot an operation holds (`SlotKind`), who
owns an entity and its mailbox (`EntInv`), what `fEntArr` refers to (`ArrInv`),
that `fPageLock` is held exactly by a thread in the page slot's section
(`PageInv`), that a mailbox known to the firmware belongs to a waiting thread or
is withheld (`DmaInv`), and that an answer comes from the firmware (`AnswerInv`).
The race of `cmd_race` shows why `ArrInv` cannot say that a submitting thread
finds its own entity. The proof has one lemma per action.

The refinement needs one thing more, `HeardInv`: a thread has been answered exactly
when the firmware no longer owns its descriptor, and behind the poll its result is
what that answer means, or a failure if nothing was submitted. With it every action
is a step of the contract or a stutter: taking a slot, building and reading back are
stutters, the doorbell is a `Send` because no command was left behind in the slot
(`SlotExclusion`), an answer is a `CarryOut` for the one thread that waits for the
slot or a `CarryOutLate` if none does, and the timeout is a `GiveUp`.

### The device's life

`MlxPCIDriverProofs` proves, for every number of event queues and every threshold,
from `SizesAssumption` of `MlxPCIDriver` (at least one completion queue, a positive
threshold):

| Theorem | Property |
|---|---|
| `TypeCorrect` | `TypeOK` |
| `RingsSafe` | `RingsReleasedSafely` |
| `DrainedBeforeRelease` | `ReleasedAfterDrain` |
| `QuarantineKeepsAll` | `QuarantineRetains` |

The argument follows `cleanup`. `ThreadsInv` says up to which point each of the
three other threads can be active, so that none can call `enterDmaQuarantine` once
the worker is drained. `CmdInv` says that as long as no command has timed out, the
driver's flags (`valid`, `fHcaEnabled`) are the firmware's state. `LoopInv` carries
the loop that destroys the queues, completion queues first, to the conclusion that
none is left when every step succeeded. `DisabledInv` says that at the boundary the
HCA is disabled or the device is in quarantine. The decision at the boundary joins
these into `BehindInv`, which nothing behind the boundary disturbs, FREE_UAR
included, because the device has fetched nothing and can fetch nothing.

### The page-request queue

`MlxFwWorkerProofs`: for every size of the ring and every number of events
(`QueueSizeAssumption`: the ring is not empty; `MaxEventsAssumption`: the bound is a
natural).

| Theorem | Property |
|---|---|
| `TypeCorrect` | `TypeOK` |
| `RequestsInOrder` | `QueueInOrder` |
| `StopIsQuiet` | `StoppedIsQuiet` |

The order of the queue needs `EventsInv`: the event in the handler's hands is newer
than all that went through the ring. `FlagInv` says what the flags mean:
`fWorkerScheduled` is the pending thread call, `fWorkerActive` that the worker is
between its first and its last locked section. `StopInv` follows
`stopRuntimeAndDrain`: each of its steps closes one source of work (requests, the
notifier, the callback, the thread call), and what is closed stays closed.

### The pages

`MlxFwPagesProofs`: for any finite set of pages, any functions, batch size and
bounds (`BoundsAssumption`, `PagesAssumption`).

| Theorem | Property |
|---|---|
| `TypeCorrect` | `TypeOK` |
| `ReleasedPagesUnused` | `NoDmaIntoReleased` |
| `HostAndFirmwareAgree` | `ViewsAgree` |
| `BoundarySafe` | `BoundaryIsSafe` |
| `AmbiguousStays` | `AmbiguousForever`, an action property |

`CmdInv` ties the command in flight to the operation that waits for it, and says
that a command is lost only with the fatal flag set. `GiveInv` follows the pages of
a GIVE: host-prepared, pending, and ambiguous from the moment its caller gives up,
which is why a late GIVE finds them mapped. `OwnsInv` says which records a page the
firmware uses can have, `AgreeInv` extends `ViewsAgree` into an operation: until the
answer is applied the views differ by exactly what it will change.

### The event queues

`MlxEQProofs`: for every number of queues and size of ring, any finite set of
notifiers and every number of events (`SizesAssumption`, `NotifiersAssumption`,
`EventsAssumption`).

| Theorem | Property |
|---|---|
| `TypeCorrect` | `TypeOK` |
| `OwnerBitCorrect` | `OwnerBitTells` |
| `EntriesStable` | `EqeStable` |
| `SynchronizedIsQuiet` | `QuietAfterSync` |

`OwnerBitTells` speaks of one slot and is not inductive. `OwnerInv` speaks of the
whole ring's worth of entries the producer will write next: their slots hold the
bit of the lap before. `SetupInv` covers the race of the initial arming, whose
index may be out of date and never ahead. `HandlerInv` makes `fActiveCallbacks` the
number of callbacks still to be made, so that the zero for which
`synchronizeCallbacks` waits means that none is.

### The Ethernet interface

`MlxEthernetProofs`: for any threads and packets, every ring size and every range of
the counters that is a multiple of two laps (`RingsAssumption`; 2^16 is one for
every power of two the driver uses), any choice of traffic and of what is undisturbed (`TermAssumption`:
the stopping thread is not a network thread).

| Theorem | Property |
|---|---|
| `TypeCorrect` | `TypeOK` |
| `ObjectsSupported` | `OnlyLateCreatesLose` |
| `EnableIsFresh` | `NothingOverwritten` |
| `HandlerMemoryKept` | `HandlerSafe` |
| `ReceivesInOrder` | `RxInOrder` |
| `OverrunsInRxPoll` | `OnlyRxPollOverruns` |
| `SendPathIsQueue` | `ImplementsTxQueue`, the refinement of `TxQueue` |

The invariant has two halves. `CtlInv` is about `enable`, `disable`, `stop` and the
objects, and gives the three theorems about them. `ThreadInv`: `fEnabling` and
`fDisabling` admit one thread. `UpInv`: at a step of `enable` there is exactly what
the steps before it made, which is the whole of `EnableIsFresh`, and is kept because
the handles a failed teardown leaves are closed under creation order (`HasOK`,
`StageInv`) and their memory goes with them and not before or after (`MemOK`,
`JustInv`). `NoteInv`: between registration and synchronization all the handler uses
is there. `FwInv`: until a command times out, the firmware has what the handles say;
afterwards, what it has or comes to have late is supported, and a late destruction
hits what nobody uses. An object with a handle has all it was created with, which is
why only one without a handle can lack anything, and no more than `Lost`.

`DataInv` is about the rings. While the notifier is registered (`RingInv`), consumer,
device and producer counters are in this order within one ring size, and the
completions between the consumer and the device are the entries of their lap, in
order; before that, the rings are new (`NewInv`). `MbufInv`: a packet is with the
stack or in one slot. `RxInv`: a buffer filled and not consumed holds its own receive.

`RoomInv` is about the completion queues. The load of a direction is what the device
has completed beyond the consumer counter it knows, plus what it was given and has
not completed. It never exceeds the ring, except in the receive direction while
`pollRxCq` runs; a completion moves work from the second part to the first, `fLock`
keeps new work out while `pollTxCq` runs, and outside the polling the counter is the
driver's own, where `RingInv` gives the bound.

The refinement maps the queue of `TxQueue` to the slots from `fTxCc` up to `fTxPc`
while the send queue has a handle, and to the empty queue otherwise; what was sent is
the distance from `fTxCc` to the device's position. `Init` maps to the abstract
`Init`. `xmitPacket` is an `Accept`, a step of the device on the send ring a
`Transmit`, a completion polled a `GiveBack`, the loss of the send queue's handle a
`TearDown`, and every other action a stutter.

### The verbs objects

`MlxVerbsProofs`: for any threads, clients and worlds, any number of objects and of
doorbell slots (`VerbsAssumption`: the sizes are naturals, Ethernet's slots are
slots, every thread has a client, the worlds are well typed).

| Theorem | Property |
|---|---|
| `TypeCorrect` | `TypeOK` |
| `SoleHolderHolds` | `SoleHolder` |
| `KeptUnlessAbandonedHolds` | `KeptUnlessAbandoned` |
| `ApartUnlessAbandonedHolds` | `ApartUnlessAbandoned` |

None has a condition on the worlds: numbers may be used again while allocations fail
and commands time out. The exceptions are in the properties (`Abandoned`, `blind`).

`SoleHolder` needs an invariant on numbers, since lists and calls hold numbers and
not objects. `NumInv`: two live objects of a kind have different numbers. `HoldInv`:
a number is in one list or with one call; until a command times out it is that of a
live object; and the object is one of that client. `CreateInv` and `JobInv` say what
a call has at each of its points, `ClientInv` that a closing client has one call,
`TableInv` that of the contexts with one number all but the last in the table are
those of dead objects, which is why the first match is never that of a live object
as long as a dead one is left, `SlotInv` that pinned objects have separate pairs of
slots, and `LateInv` that the object of a command carried out late has not changed
since.

That a drop finds the context of a dead object, until `blind`, is `DropInv`: the calls about to
drop a context can be matched one to one with contexts of dead objects with their
numbers. No call owns a particular one (two calls with the same number may drop each
other's), so the matching is existential, and a drop by one call changes it for the
other. `RecInv`: a live object has lost its context only to `free`, which keeps the
memory of QPs and regions; `BareInv`: a live QP or region that never had a context
keeps its memory, since its creator is at work on it or has failed to destroy it.

### Rings

`RingLemmas` has the arithmetic all three rings share, proved once: a counter and
its slot, the next lap, slots that differ within one lap, laps across the wrap.

### What stays with TLC

All liveness properties (`ExecReturns`, `FatalQuarantines`, `QueueServed`,
`OperationEnds`, `EventsServed`, `SyncReturns`, `CleanupEndsOrStrands`,
`HangDetected`, `TxReturnedUnlessFlooded`): the prover does not reach arguments from fairness.

The other way round, the type invariants of `MlxFwPages`, `MlxEthernet` and
`MlxVerbs` are in no run: they are proved for every instance (`TypeCorrect`).

The theorems are about the modules as specified. That `exec` has the outcomes of
`CmdContract` is a theorem; that `MlxFwPages`, `MlxPCIDriver`, `MlxEthernet` and
`MlxVerbs` take no others is read off their command steps, which do not instantiate
the contract. In one respect they take fewer: a command is one step in `MlxVerbs`
and leaves at most one late command behind, while the contract keeps a set. Two
commands in flight from two threads that both time out are therefore covered in
`MlxCmd` and not in `MlxVerbs`.

## What is not modelled, and the plan

Not modelled: contents and layout of commands, mailboxes and capabilities (host
tests cover the encoders); MSI-X allocation; the parts marked `not_modelled` in
`PROJECT.json`. `markHardwareStopped` behind the boundary
(`MlxPCIDriver.cpp:279-280`) has nothing left to mark there: a device that reaches
the line has no valid event queue.

The user library posts to queues through mappings of the UAR and the doorbell page
that `clientMemoryForType` refuses at this commit, so there is no data path of it to
model against the driver. Address handles, GIDs, congestion control, register access
and statistics are single calls or commands with no protocol. The ring of
asynchronous events of `MlxRoCE` drops its newest entry when it is full, by design of
the code, and has no other state. The bitmap of blue-flame registers is changed
without a lock and is only reached from Ethernet's `enable`, which excludes itself.

What could come next: several late commands at once in `MlxVerbs`, and the command
steps of the four modules above written with the actions of `CmdContract`.
