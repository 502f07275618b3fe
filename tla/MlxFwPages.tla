----------------------------- MODULE MlxFwPages -----------------------------
(***************************************************************************)
(* Ownership of the host pages lent to the firmware, the other half of     *)
(* Sources/core/MlxFwPages.cpp: pages are given at startup and on request, *)
(* taken back on request, reclaimed at teardown, and every MANAGE_PAGES    *)
(* command may be refused, fail, or time out with the firmware carrying it *)
(* out later.  fOperationLock lets one operation run at a time; an         *)
(* operation is a sequence of commands, and the firmware acts between any  *)
(* two steps.                                                              *)
(*                                                                         *)
(* What exec promises its callers is taken from MlxCmd: success means the  *)
(* firmware carried the command out, a timeout quarantines the interface   *)
(* for every later MANAGE_PAGES, and any other result means that the       *)
(* firmware has not carried the command out and never will.                *)
(***************************************************************************)
EXTENDS Integers, FiniteSets

CONSTANTS Pages,       \* the pages the host can allocate
          Functions,   \* the (functionId, embedded) pairs
          Batch,       \* MLX_P1_MAX_MANAGE_PAGES
          MaxTracked,  \* MLX_FW_MAX_TRACKED_PAGES
          MaxRequest,  \* bound: the largest number of pages in a request
          MaxWaits     \* reclaimAll's timeout, in 50 ms waits

ASSUME BoundsAssumption ==
  /\ Batch \in Nat \ {0} /\ MaxRequest \in Nat /\ MaxWaits \in Nat
  /\ MaxTracked \in Nat
ASSUME PagesAssumption == IsFiniteSet(Pages) /\ Functions # {}

VARIABLES
  ownership,    \* page -> the host's record of it; "Free" when not tracked
  functionId,   \* page -> the function it was allocated for
  fFatal,       \* setFatal has been called
  op,           \* the operation that holds fOperationLock
  opFn,         \* its function
  todo,         \* give: the pages not yet given
  start,        \* give: some batch has been given
  remaining,    \* take: the pages still to be taken
  waited,       \* reclaim: the waits since the last page came back
  cmd,          \* the MANAGE_PAGES command last sent
  cmdState,     \* "none", "sent", "answered", or "lost" after a timeout
  reply,        \* the answer to it
  quarantined,  \* MlxCmd's fQuarantined
  phase,        \* how far MlxPCIDriver's start and cleanup have come
  fwOwns,       \* the pages the firmware uses
  gone,         \* the functions the firmware has shut down
  announced     \* those whose release-all event has not been processed

hostVars == <<ownership, functionId, fFatal, phase>>
opVars   == <<op, opFn, todo, start, remaining, waited>>
cmdVars  == <<cmd, cmdState, reply, quarantined>>
fwVars   == <<fwOwns, gone, announced>>
vars     == <<hostVars, opVars, cmdVars, fwVars>>

Ownerships == {"Free", "HostPrepared", "GivePending", "FirmwareOwned", "Ambiguous"}
Commands == [kind : {"give", "take"}, fn : Functions, pages : SUBSET Pages, n : Nat]
Phases   == {"startup", "runtime", "teardown", "reclaimed", "released"}
NoFn     == CHOOSE f \in Functions : TRUE   \* the value of an unused field
NoReply  == [ok |-> FALSE, pages |-> {}, bad |-> FALSE]
NoCmd    == [kind |-> "take", fn |-> NoFn, pages |-> {}, n |-> 0]

With(o)    == {p \in Pages : ownership[p] = o}
OwnedBy(f) == {p \in Pages : ownership[p] = "FirmwareOwned" /\ functionId[p] = f}
Lesser(m, n) == IF m =< n THEN m ELSE n

hasOutstandingPages ==
  \E p \in Pages : ownership[p] \in {"FirmwareOwned", "Ambiguous", "GivePending"}

Init ==
  /\ ownership = [p \in Pages |-> "Free"]
  /\ functionId = [p \in Pages |-> NoFn]
  /\ fFatal = FALSE
  /\ op = "idle" /\ opFn = NoFn
  /\ todo = {} /\ start = FALSE /\ remaining = 0 /\ waited = 0
  /\ cmd = NoCmd /\ cmdState = "none" /\ reply = NoReply
  /\ quarantined = FALSE
  /\ phase = "startup"
  /\ fwOwns = {} /\ gone = {} /\ announced = {}

----------------------------------------------------------------------------
(***************************************************************************)
(* Operations begin and end                                                *)
(***************************************************************************)
OpIdle ==
  /\ op' = "idle"
  /\ opFn' = NoFn
  /\ todo' = {} /\ start' = FALSE /\ remaining' = 0 /\ waited' = 0

\* A page released by the host loses its record.
Release(S) == [p \in Pages |-> IF p \in S THEN "Free" ELSE ownership[p]]
Mark(S, o) == [p \in Pages |-> IF p \in S THEN o ELSE ownership[p]]

\* givePages allocates all its pages before it gives the first one.
BeginGive(f, n) ==
  /\ op = "idle"
  /\ phase \in {"startup", "runtime"}
  /\ Cardinality(Pages \ With("Free")) + n =< MaxTracked
  /\ \E S \in SUBSET With("Free") :
       /\ Cardinality(S) = n
       /\ ownership' = Mark(S, "HostPrepared")
       /\ functionId' = [p \in Pages |-> IF p \in S THEN f ELSE functionId[p]]
       /\ todo' = S
  /\ op' = "give" /\ opFn' = f /\ start' = FALSE
  /\ UNCHANGED <<fFatal, phase, remaining, waited, cmdVars, fwVars>>

\* Over the limit, or out of memory: nothing is kept.  At run time the firmware
\* is told (notifyAllocationFailure); that command's only lasting effect is a
\* quarantine if it times out.
GiveRefused ==
  /\ op = "idle"
  /\ phase = "runtime"
  /\ quarantined' \in {quarantined, TRUE}
  /\ UNCHANGED <<hostVars, opVars, cmd, cmdState, reply, fwVars>>

BeginTake(f, n) ==
  /\ op = "idle"
  /\ phase = "runtime"
  /\ op' = "take" /\ opFn' = f /\ remaining' = n
  /\ UNCHANGED <<hostVars, todo, start, waited, cmdVars, fwVars>>

\* The driver reclaims once, at teardown, unless the interface is quarantined.
BeginReclaim ==
  /\ op = "idle"
  /\ phase = "teardown"
  /\ ~quarantined
  /\ hasOutstandingPages
  /\ op' = "reclaim" /\ waited' = 0
  /\ phase' = "reclaimed"
  /\ UNCHANGED <<ownership, functionId, fFatal, opFn, todo, start, remaining, cmdVars, fwVars>>

----------------------------------------------------------------------------
(***************************************************************************)
(* Commands                                                                *)
(***************************************************************************)
Send(k, f, S, n) ==
  /\ cmdState = "none"
  /\ ~quarantined
  /\ cmd' = [kind |-> k, fn |-> f, pages |-> S, n |-> n]
  /\ cmdState' = "sent"
  /\ reply' = NoReply
  /\ UNCHANGED quarantined

Done == cmdState' = "none" /\ cmd' = NoCmd /\ reply' = NoReply /\ UNCHANGED quarantined

\* exec times out: the command is lost in the firmware, unless its answer
\* arrived after the last look at the ownership bit.
TimesOut ==
  /\ cmdState \in {"sent", "answered"}
  /\ quarantined' = TRUE
  /\ IF cmdState = "sent"
     THEN cmdState' = "lost" /\ UNCHANGED <<cmd, reply>>
     ELSE cmdState' = "none" /\ cmd' = NoCmd /\ reply' = NoReply

\* Some other thread's command times out.
OtherTimeout ==
  /\ ~quarantined
  /\ quarantined' = TRUE
  /\ UNCHANGED <<hostVars, opVars, cmd, cmdState, reply, fwVars>>

Answered == cmdState' = IF cmdState = "sent" THEN "answered" ELSE "none"

FirmwareAcceptsGive ==
  /\ cmdState \in {"sent", "lost"}
  /\ cmd.kind = "give"
  /\ cmd.fn \notin gone
  /\ fwOwns' = fwOwns \cup cmd.pages
  /\ reply' = [ok |-> TRUE, pages |-> {}, bad |-> FALSE]
  /\ Answered
  /\ UNCHANGED <<cmd, quarantined, hostVars, opVars, gone, announced>>

FirmwareRejects ==
  /\ cmdState \in {"sent", "lost"}
  /\ reply' = NoReply
  /\ Answered
  /\ UNCHANGED <<cmd, quarantined, hostVars, opVars, fwVars>>

\* The firmware returns pages of the function, as many as asked or fewer, or
\* answers with something else: pages of another function, too many, a page
\* twice, an address it was never given (bad).
FirmwareReturns(S, bad) ==
  /\ cmdState \in {"sent", "lost"}
  /\ cmd.kind = "take"
  /\ S \subseteq fwOwns
  /\ bad \/ (Cardinality(S) =< cmd.n /\ \A p \in S : functionId[p] = cmd.fn)
  /\ fwOwns' = fwOwns \ S
  /\ reply' = [ok |-> TRUE, pages |-> S, bad |-> bad]
  /\ Answered
  /\ UNCHANGED <<cmd, quarantined, hostVars, opVars, gone, announced>>

\* The firmware shuts a function down: it stops using its pages, raises a
\* release-all event and takes no more pages for it.
FirmwareReleasesAll(f) ==
  /\ phase = "runtime"
  /\ f \notin gone
  /\ gone' = gone \cup {f}
  /\ announced' = announced \cup {f}
  /\ fwOwns' = {p \in fwOwns : functionId[p] # f}
  /\ UNCHANGED <<hostVars, opVars, cmdVars>>

----------------------------------------------------------------------------
(***************************************************************************)
(* giveBatch                                                               *)
(***************************************************************************)
GiveBatch ==
  /\ op = "give"
  /\ todo # {}
  /\ \E S \in SUBSET todo :
       /\ Cardinality(S) = Lesser(Batch, Cardinality(todo))
       /\ ownership' = Mark(S, "GivePending")
       /\ Send("give", opFn, S, Cardinality(S))
  /\ UNCHANGED <<functionId, fFatal, phase, opVars, fwVars>>

GiveSucceeds ==
  /\ op = "give"
  /\ cmdState = "answered" /\ reply.ok
  /\ ownership' = Mark(cmd.pages, "FirmwareOwned")
  /\ todo' = todo \ cmd.pages
  /\ start' = TRUE
  /\ Done
  /\ UNCHANGED <<functionId, fFatal, phase, op, opFn, remaining, waited, fwVars>>

\* Startup that cannot give the firmware its pages turns into a cleanup.
AfterFailedGive == IF phase = "startup" THEN "teardown" ELSE phase

\* The batch fails: the pages of this and of the later batches are released,
\* and it is a protocol fault if an earlier batch had been given.
GiveFails ==
  /\ op = "give"
  /\ todo # {}
  /\ \/ cmdState = "answered" /\ ~reply.ok /\ Done
     \/ cmdState \in {"none", "lost"} /\ UNCHANGED cmdVars   \* exec refuses
  /\ ownership' = Release(todo)
  /\ fFatal' = (fFatal \/ start)
  /\ phase' = AfterFailedGive
  /\ OpIdle
  /\ UNCHANGED <<functionId, fwVars>>

\* Mutation: a timeout is handled like any other failure of the batch.
GiveTimesOutReleases ==
  /\ op = "give"
  /\ TimesOut
  /\ ownership' = Release(todo)
  /\ fFatal' = TRUE
  /\ phase' = AfterFailedGive
  /\ OpIdle
  /\ UNCHANGED <<functionId, fwVars>>

\* The batch times out: its pages are ambiguous, the later ones are released.
GiveTimesOut ==
  /\ op = "give"
  /\ TimesOut
  /\ ownership' = [p \in Pages |-> IF p \in cmd.pages THEN "Ambiguous"
                                   ELSE IF p \in todo THEN "Free" ELSE ownership[p]]
  /\ fFatal' = TRUE
  /\ phase' = AfterFailedGive
  /\ OpIdle
  /\ UNCHANGED <<functionId, fwVars>>

GiveEnds ==
  /\ op = "give"
  /\ todo = {}
  /\ OpIdle
  /\ UNCHANGED <<hostVars, cmdVars, fwVars>>

----------------------------------------------------------------------------
(***************************************************************************)
(* takePages, as called by processRequest and by reclaimAll                *)
(***************************************************************************)
TakeSend ==
  \/ /\ op = "take" /\ remaining > 0
     /\ Send("take", opFn, {}, Lesser(Batch, remaining))
     /\ UNCHANGED <<hostVars, opVars, fwVars>>
  \/ /\ op = "reclaim"
     /\ \E f \in Functions :
          /\ OwnedBy(f) # {}
          /\ opFn' = f
          /\ Send("take", f, {}, Lesser(Batch, Cardinality(OwnedBy(f))))
     /\ UNCHANGED <<hostVars, op, todo, start, remaining, waited, fwVars>>

\* The answer names only pages recorded as owned by the firmware for this function.
ValidReply ==
  /\ ~reply.bad
  /\ reply.pages \subseteq OwnedBy(opFn)

\* markFunctionAmbiguous and setFatal; the operation fails.
TakeFaults ==
  /\ ownership' = Mark(OwnedBy(opFn), "Ambiguous")
  /\ fFatal' = TRUE
  /\ OpIdle
  /\ UNCHANGED <<functionId, phase, fwVars>>

TakeReturnsPages ==
  /\ op \in {"take", "reclaim"}
  /\ cmdState = "answered" /\ reply.ok
  /\ ValidReply
  /\ reply.pages # {}
  /\ ownership' = Release(reply.pages)
  /\ remaining' = IF op = "take" THEN remaining - Cardinality(reply.pages) ELSE remaining
  /\ waited' = 0
  /\ Done
  /\ UNCHANGED <<functionId, fFatal, phase, op, opFn, todo, start, fwVars>>

\* Mutation: the waits are not counted.
TakeWaitsUncounted ==
  /\ op \in {"take", "reclaim"}
  /\ cmdState = "answered" /\ reply.ok
  /\ ValidReply
  /\ reply.pages = {}
  /\ Done
  /\ \/ op = "reclaim" /\ UNCHANGED <<hostVars, opVars, fwVars>>
     \/ op = "take" /\ TakeFaults

\* No page came back: a fault for a request, a wait for reclaimAll until its
\* time is used up.
TakeReturnsNone ==
  /\ op \in {"take", "reclaim"}
  /\ cmdState = "answered" /\ reply.ok
  /\ ValidReply
  /\ reply.pages = {}
  /\ Done
  /\ \/ /\ op = "reclaim" /\ waited < MaxWaits
        /\ waited' = waited + 1
        /\ UNCHANGED <<hostVars, op, opFn, todo, start, remaining, fwVars>>
     \/ /\ op = "take" \/ waited >= MaxWaits
        /\ TakeFaults

TakeBadReply ==
  /\ op \in {"take", "reclaim"}
  /\ cmdState = "answered" /\ reply.ok
  /\ ~ValidReply
  /\ Done
  /\ TakeFaults

\* Mutation: a timeout is handled like any other failure.
TakeTimesOutFails ==
  /\ op \in {"take", "reclaim"}
  /\ TimesOut
  /\ OpIdle
  /\ UNCHANGED <<hostVars, fwVars>>

TakeTimesOut ==
  /\ op \in {"take", "reclaim"}
  /\ TimesOut
  /\ TakeFaults

\* There is something left to take.
TakesOn ==
  \/ op = "take" /\ remaining > 0
  \/ op = "reclaim" /\ With("FirmwareOwned") # {}

TakeFails ==
  /\ TakesOn
  /\ \/ cmdState = "answered" /\ ~reply.ok /\ Done
     \/ cmdState \in {"none", "lost"} /\ UNCHANGED cmdVars   \* exec refuses
  /\ OpIdle
  /\ UNCHANGED <<hostVars, fwVars>>

TakeEnds ==
  /\ op \in {"take", "reclaim"}
  /\ ~TakesOn
  /\ cmdState \in {"none", "lost"}
  /\ OpIdle
  /\ UNCHANGED <<hostVars, cmdVars, fwVars>>

\* Mutation: pages are released whatever their ownership.
ReleaseAllWhatever(f) ==
  /\ op = "idle"
  /\ phase = "runtime"
  /\ f \in announced
  /\ announced' = announced \ {f}
  /\ ownership' = Release({p \in Pages : functionId[p] = f})
  /\ UNCHANGED <<functionId, fFatal, phase, opVars, cmdVars, fwOwns, gone>>

\* releaseAllForFunction, when the event is processed.
ReleaseAllForFunction(f) ==
  /\ op = "idle"
  /\ phase = "runtime"
  /\ f \in announced
  /\ announced' = announced \ {f}
  /\ ownership' = Release(OwnedBy(f))
  /\ UNCHANGED <<functionId, fFatal, phase, opVars, cmdVars, fwOwns, gone>>

----------------------------------------------------------------------------
(***************************************************************************)
(* The driver's phases.  releaseAfterDmaBoundary is called behind the      *)
(* graceful boundary of MlxPCIDriver::cleanup only.                        *)
(***************************************************************************)
StartRuntime ==
  /\ op = "idle" /\ phase = "startup"
  /\ phase' = "runtime"
  /\ UNCHANGED <<ownership, functionId, fFatal, opVars, cmdVars, fwVars>>

Teardown ==
  /\ op = "idle" /\ phase \in {"startup", "runtime"}
  /\ phase' = "teardown"
  /\ UNCHANGED <<ownership, functionId, fFatal, opVars, cmdVars, fwVars>>

\* Mutation: pages still out do not count.
BoundaryIgnoresPages == ~quarantined

GracefulBoundary == ~quarantined /\ ~hasOutstandingPages

ReleaseAfterDmaBoundary ==
  /\ op = "idle" /\ phase \in {"teardown", "reclaimed"}
  /\ GracefulBoundary
  /\ phase' = "released"
  /\ ownership' = Release(Pages)
  /\ UNCHANGED <<functionId, fFatal, opVars, cmdVars, fwVars>>

----------------------------------------------------------------------------
Operation ==
  \/ GiveBatch \/ GiveSucceeds \/ GiveFails \/ GiveTimesOut \/ GiveEnds
  \/ TakeSend \/ TakeReturnsPages \/ TakeReturnsNone \/ TakeBadReply
  \/ TakeTimesOut \/ TakeFails \/ TakeEnds

Begin ==
  \/ \E f \in Functions, n \in 1 .. MaxRequest : BeginGive(f, n) \/ BeginTake(f, n)
  \/ GiveRefused
  \/ BeginReclaim
  \/ \E f \in Functions : ReleaseAllForFunction(f)
  \/ StartRuntime
  \/ Teardown
  \/ ReleaseAfterDmaBoundary

Firmware ==
  \/ FirmwareAcceptsGive
  \/ FirmwareRejects
  \/ \E S \in SUBSET Pages, bad \in BOOLEAN : FirmwareReturns(S, bad)
  \/ \E f \in Functions : FirmwareReleasesAll(f)

Next == Operation \/ Begin \/ Firmware \/ OtherTimeout

Spec == Init /\ [][Next]_vars

\* The thread that holds fOperationLock keeps running: exec always returns.
FairSpec == Spec /\ WF_vars(Operation)

----------------------------------------------------------------------------
(***************************************************************************)
(* Properties                                                              *)
(***************************************************************************)

\* Every page has one of the recorded ownerships, every command its fields.
TypeOK ==
  /\ ownership \in [Pages -> Ownerships]
  /\ functionId \in [Pages -> Functions]
  /\ fFatal \in BOOLEAN
  /\ op \in {"idle", "give", "take", "reclaim"}
  /\ opFn \in Functions
  /\ todo \in SUBSET Pages
  /\ start \in BOOLEAN
  /\ remaining \in 0 .. MaxRequest
  /\ waited \in 0 .. MaxWaits
  /\ cmd \in Commands
  /\ cmdState \in {"none", "sent", "answered", "lost"}
  /\ reply \in [ok : BOOLEAN, pages : SUBSET Pages, bad : BOOLEAN]
  /\ quarantined \in BOOLEAN
  /\ phase \in Phases
  /\ fwOwns \in SUBSET Pages
  /\ gone \in SUBSET Functions
  /\ announced \in SUBSET gone

\* The pages the firmware uses, or will use if it carries out a command late.
FirmwareMayUse ==
  fwOwns \cup (IF cmdState \in {"sent", "lost"} /\ cmd.kind = "give"
               THEN cmd.pages ELSE {})

\* "Firmware-owned pages retain their descriptors and IOMMU mappings until TAKE,
\* release-all, or a trusted graceful teardown": no page is released while the
\* firmware uses it or may still come to use it.
NoDmaIntoReleased == \A p \in FirmwareMayUse : ownership[p] # "Free"

\* "Ambiguous ownership is quarantined and intentionally leaked": a page whose
\* owner is not known stays mapped for good, whatever the firmware sends later.
AmbiguousForever ==
  [][\A p \in Pages : ownership[p] = "Ambiguous" => ownership'[p] = "Ambiguous"]_vars

\* Without a fault the two sides agree: between operations the pages recorded as
\* firmware-owned are the ones the firmware uses, apart from functions whose
\* release-all event is still queued.
ViewsAgree ==
  op = "idle" /\ ~fFatal =>
    \A p \in Pages : functionId[p] \notin announced =>
      (ownership[p] = "FirmwareOwned" <=> p \in fwOwns)

\* The driver releases the tracking object only when the firmware uses nothing.
BoundaryIsSafe == phase = "released" => FirmwareMayUse = {}

\* Every operation ends: giving and taking run out of pages, reclaimAll out of
\* time, whatever the firmware answers.
OperationEnds == op # "idle" ~> op = "idle"

=============================================================================
