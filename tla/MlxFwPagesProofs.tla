-------------------------- MODULE MlxFwPagesProofs --------------------------
(***************************************************************************)
(* Proofs about the pages lent to the firmware: for any finite set of      *)
(* pages, any functions and every bound, no page is released that the      *)
(* firmware uses or may come to use, an ambiguous page stays mapped for    *)
(* good, and without a fault the two sides agree on who owns what.         *)
(***************************************************************************)
EXTENDS MlxFwPages, FiniteSetTheorems, TLAPS

(***************************************************************************)
(* The inductive invariant.                                                *)
(***************************************************************************)
InFlight    == cmdState \in {"sent", "answered"}
Outstanding == {"FirmwareOwned", "Ambiguous", "GivePending"}

\* The operation and its command: what it has sent is what it waits for.
CmdInv ==
  /\ op = "idle" => ~InFlight
  /\ InFlight /\ op = "give" => cmd.kind = "give" /\ cmd.pages \subseteq todo /\ todo # {}
  /\ InFlight /\ op \in {"take", "reclaim"} => cmd.kind = "take"
  /\ InFlight /\ op = "take" => cmd.n =< remaining
  /\ cmdState = "answered" /\ cmd.kind = "take" /\ reply.ok =>
       /\ reply.pages \cap fwOwns = {}
       /\ ~reply.bad => Cardinality(reply.pages) =< cmd.n
  /\ cmdState = "lost" => fFatal

\* The pages of a give: those not sent are the host's, those in flight are
\* pending, and those of a command that timed out are ambiguous.
GiveInv ==
  /\ op # "give" => todo = {}
  /\ \A p \in todo : ownership[p] \in {"HostPrepared", "GivePending"}
  /\ \A p \in todo : functionId[p] = opFn
  /\ InFlight /\ op = "give" =>
       cmd.fn = opFn /\ \A p \in cmd.pages : ownership[p] = "GivePending"
  /\ cmdState = "lost" /\ cmd.kind = "give" =>
       \A p \in cmd.pages : ownership[p] = "Ambiguous" /\ functionId[p] = cmd.fn

\* The pages the firmware uses: none is free, none belongs to a function that has
\* been shut down, and one of a give under way has been accepted by the firmware.
OwnsInv ==
  \A p \in fwOwns :
    /\ ownership[p] \in Outstanding
    /\ functionId[p] \notin gone
    /\ p \in todo => cmdState = "answered" /\ reply.ok /\ p \in cmd.pages

\* Without a fault, and while an operation is under way, the two views differ by
\* what the answer just received will change.
AgreeInv ==
  ~fFatal =>
    \A p \in Pages : functionId[p] \notin announced =>
      LET accepted == cmdState = "answered" /\ reply.ok /\ cmd.kind = "give"
                        /\ p \in cmd.pages
          returned == cmdState = "answered" /\ reply.ok /\ cmd.kind = "take"
                        /\ p \in reply.pages
      IN  p \in fwOwns <=> (ownership[p] = "FirmwareOwned" /\ ~returned) \/ accepted

\* The tracking object is gone.
ReleasedInv ==
  phase = "released" => op = "idle" /\ \A p \in Pages : ownership[p] = "Free"

IInv == TypeOK /\ CmdInv /\ GiveInv /\ OwnsInv /\ AgreeInv /\ ReleasedInv

\* The values of unused fields, and zero, are in range.
LEMMA UnusedTypes ==
  /\ NoFn \in Functions
  /\ NoCmd \in Commands
  /\ NoReply \in [ok : BOOLEAN, pages : SUBSET Pages, bad : BOOLEAN]
  /\ 0 \in 0 .. MaxRequest /\ 0 \in 0 .. MaxWaits
<1>1. NoFn \in Functions
  BY PagesAssumption DEF NoFn
<1> QED  BY <1>1, BoundsAssumption DEF NoCmd, Commands, NoReply

\* Sets of pages can be counted.
LEMMA PageCount ==
  ASSUME NEW S \in SUBSET Pages
  PROVE  Cardinality(S) \in Nat
BY PagesAssumption, FS_Subset, FS_CardinalityType

\* A batch is a number of pages.
LEMMA LesserType ==
  ASSUME NEW m \in Nat, NEW n \in Nat
  PROVE  Lesser(m, n) \in Nat /\ Lesser(m, n) =< n
BY DEF Lesser

\* BeginGive preserves the invariant.
LEMMA BeginGiveStep ==
  ASSUME IInv, NEW f \in Functions, NEW n \in 1 .. MaxRequest, BeginGive(f, n)
  PROVE  IInv'
<1> USE BoundsAssumption DEF IInv, BeginGive, Mark, With,
        hostVars, opVars, cmdVars, fwVars
<1>1. TypeOK'
  <2>1. PICK S \in SUBSET With("Free") :
          /\ ownership' = Mark(S, "HostPrepared")
          /\ functionId' = [p \in Pages |-> IF p \in S THEN f ELSE functionId[p]]
          /\ todo' = S
    OBVIOUS
  <2>2. /\ ownership' \in [Pages -> Ownerships]
        /\ functionId' \in [Pages -> Functions]
        /\ todo' \in SUBSET Pages
    BY <2>1 DEF TypeOK, Ownerships
  <2> QED  BY <2>2 DEF TypeOK
<1>2. CmdInv'
  BY DEF TypeOK, CmdInv, InFlight
<1>3. GiveInv'
  <2>1. PICK S \in SUBSET With("Free") :
          /\ ownership' = Mark(S, "HostPrepared")
          /\ functionId' = [p \in Pages |-> IF p \in S THEN f ELSE functionId[p]]
          /\ todo' = S
    OBVIOUS
  <2>2. ASSUME NEW p \in Pages, ownership[p] = "Ambiguous"
        PROVE  ownership'[p] = "Ambiguous" /\ functionId'[p] = functionId[p]
    BY <2>1, <2>2
  <2>3. \A p \in todo' : ownership'[p] = "HostPrepared" /\ functionId'[p] = f
    BY <2>1
  <2>4. cmdState \notin {"sent", "answered"} /\ cmd.pages \in SUBSET Pages
    BY DEF TypeOK, CmdInv, InFlight, Commands
  <2> QED  BY <2>2, <2>3, <2>4 DEF GiveInv, InFlight
<1>4. OwnsInv'
  BY DEF TypeOK, CmdInv, GiveInv, OwnsInv, InFlight, Outstanding
<1>5. AgreeInv'
  BY DEF TypeOK, CmdInv, GiveInv, OwnsInv, AgreeInv, InFlight, Outstanding
<1>6. ReleasedInv'
  BY DEF TypeOK, ReleasedInv, Phases
<1> QED  BY <1>1, <1>2, <1>3, <1>4, <1>5, <1>6

\* GiveRefused preserves the invariant.
LEMMA GiveRefusedStep ==
  ASSUME IInv, GiveRefused
  PROVE  IInv'
<1> USE BoundsAssumption DEF IInv, GiveRefused,
        hostVars, opVars, cmdVars, fwVars
<1>1. TypeOK'
  BY UnusedTypes DEF TypeOK, Ownerships, Phases
<1>2. CmdInv'
  BY DEF TypeOK, CmdInv, InFlight
<1>3. GiveInv'
  BY DEF TypeOK, CmdInv, GiveInv, InFlight
<1>4. OwnsInv'
  BY DEF TypeOK, CmdInv, GiveInv, OwnsInv, InFlight, Outstanding
<1>5. AgreeInv'
  BY DEF TypeOK, CmdInv, GiveInv, OwnsInv, AgreeInv, InFlight, Outstanding
<1>6. ReleasedInv'
  BY DEF TypeOK, ReleasedInv, Phases
<1> QED  BY <1>1, <1>2, <1>3, <1>4, <1>5, <1>6

\* BeginTake preserves the invariant.
LEMMA BeginTakeStep ==
  ASSUME IInv, NEW f \in Functions, NEW n \in 1 .. MaxRequest, BeginTake(f, n)
  PROVE  IInv'
<1> USE BoundsAssumption DEF IInv, BeginTake,
        hostVars, opVars, cmdVars, fwVars
<1>1. TypeOK'
  BY UnusedTypes DEF TypeOK, Ownerships, Phases
<1>2. CmdInv'
  BY DEF TypeOK, CmdInv, InFlight
<1>3. GiveInv'
  BY DEF TypeOK, CmdInv, GiveInv, InFlight
<1>4. OwnsInv'
  BY DEF TypeOK, CmdInv, GiveInv, OwnsInv, InFlight, Outstanding
<1>5. AgreeInv'
  BY DEF TypeOK, CmdInv, GiveInv, OwnsInv, AgreeInv, InFlight, Outstanding
<1>6. ReleasedInv'
  BY DEF TypeOK, ReleasedInv, Phases
<1> QED  BY <1>1, <1>2, <1>3, <1>4, <1>5, <1>6

\* BeginReclaim preserves the invariant.
LEMMA BeginReclaimStep ==
  ASSUME IInv, BeginReclaim
  PROVE  IInv'
<1> USE BoundsAssumption DEF IInv, BeginReclaim,
        hostVars, opVars, cmdVars, fwVars
<1>1. TypeOK'
  BY UnusedTypes DEF TypeOK, Ownerships, Phases
<1>2. CmdInv'
  BY DEF TypeOK, CmdInv, InFlight
<1>3. GiveInv'
  BY DEF TypeOK, CmdInv, GiveInv, InFlight
<1>4. OwnsInv'
  BY DEF TypeOK, CmdInv, GiveInv, OwnsInv, InFlight, Outstanding
<1>5. AgreeInv'
  BY DEF TypeOK, CmdInv, GiveInv, OwnsInv, AgreeInv, InFlight, Outstanding
<1>6. ReleasedInv'
  BY DEF TypeOK, ReleasedInv, Phases
<1> QED  BY <1>1, <1>2, <1>3, <1>4, <1>5, <1>6

\* ReleaseAllForFunction preserves the invariant.
LEMMA ReleaseAllForFunctionStep ==
  ASSUME IInv, NEW f \in Functions, ReleaseAllForFunction(f)
  PROVE  IInv'
<1> USE BoundsAssumption DEF IInv, ReleaseAllForFunction, Release, OwnedBy,
        hostVars, opVars, cmdVars, fwVars
<1>1. TypeOK'
  BY UnusedTypes DEF TypeOK, Ownerships, Phases
<1>2. CmdInv'
  BY DEF TypeOK, CmdInv, InFlight
<1>3. GiveInv'
  <2>1. \A p \in Pages : ownership[p] = "Ambiguous" => ownership'[p] = "Ambiguous"
    OBVIOUS
  <2>2. todo = {} /\ ~InFlight /\ cmd.pages \in SUBSET Pages
    BY DEF TypeOK, CmdInv, GiveInv, Commands
  <2> QED  BY <2>1, <2>2 DEF GiveInv, InFlight
<1>4. OwnsInv'
  BY DEF TypeOK, CmdInv, GiveInv, OwnsInv, InFlight, Outstanding
<1>5. AgreeInv'
  BY DEF TypeOK, CmdInv, GiveInv, OwnsInv, AgreeInv, InFlight, Outstanding
<1>6. ReleasedInv'
  BY DEF TypeOK, ReleasedInv, Phases
<1> QED  BY <1>1, <1>2, <1>3, <1>4, <1>5, <1>6

\* StartRuntime preserves the invariant.
LEMMA StartRuntimeStep ==
  ASSUME IInv, StartRuntime
  PROVE  IInv'
<1> USE BoundsAssumption DEF IInv, StartRuntime,
        hostVars, opVars, cmdVars, fwVars
<1>1. TypeOK'
  BY UnusedTypes DEF TypeOK, Ownerships, Phases
<1>2. CmdInv'
  BY DEF TypeOK, CmdInv, InFlight
<1>3. GiveInv'
  BY DEF TypeOK, CmdInv, GiveInv, InFlight
<1>4. OwnsInv'
  BY DEF TypeOK, CmdInv, GiveInv, OwnsInv, InFlight, Outstanding
<1>5. AgreeInv'
  BY DEF TypeOK, CmdInv, GiveInv, OwnsInv, AgreeInv, InFlight, Outstanding
<1>6. ReleasedInv'
  BY DEF TypeOK, ReleasedInv, Phases
<1> QED  BY <1>1, <1>2, <1>3, <1>4, <1>5, <1>6

\* Teardown preserves the invariant.
LEMMA TeardownStep ==
  ASSUME IInv, Teardown
  PROVE  IInv'
<1> USE BoundsAssumption DEF IInv, Teardown,
        hostVars, opVars, cmdVars, fwVars
<1>1. TypeOK'
  BY UnusedTypes DEF TypeOK, Ownerships, Phases
<1>2. CmdInv'
  BY DEF TypeOK, CmdInv, InFlight
<1>3. GiveInv'
  BY DEF TypeOK, CmdInv, GiveInv, InFlight
<1>4. OwnsInv'
  BY DEF TypeOK, CmdInv, GiveInv, OwnsInv, InFlight, Outstanding
<1>5. AgreeInv'
  BY DEF TypeOK, CmdInv, GiveInv, OwnsInv, AgreeInv, InFlight, Outstanding
<1>6. ReleasedInv'
  BY DEF TypeOK, ReleasedInv, Phases
<1> QED  BY <1>1, <1>2, <1>3, <1>4, <1>5, <1>6

\* ReleaseAfterDmaBoundary preserves the invariant.
LEMMA ReleaseAfterDmaBoundaryStep ==
  ASSUME IInv, ReleaseAfterDmaBoundary
  PROVE  IInv'
<1> USE BoundsAssumption DEF IInv, ReleaseAfterDmaBoundary, Release, GracefulBoundary, hasOutstandingPages,
        hostVars, opVars, cmdVars, fwVars
<1>1. TypeOK'
  BY UnusedTypes DEF TypeOK, Ownerships, Phases
<1>2. CmdInv'
  BY DEF TypeOK, CmdInv, InFlight
<1>3. GiveInv'
  <2>1. \A p \in Pages : ownership[p] = "Ambiguous" => ownership'[p] = "Ambiguous"
    OBVIOUS
  <2>2. todo = {} /\ ~InFlight /\ cmd.pages \in SUBSET Pages
    BY DEF TypeOK, CmdInv, GiveInv, Commands
  <2> QED  BY <2>1, <2>2 DEF GiveInv, InFlight
<1>4. OwnsInv'
  BY DEF TypeOK, CmdInv, GiveInv, OwnsInv, InFlight, Outstanding
<1>5. AgreeInv'
  BY DEF TypeOK, CmdInv, GiveInv, OwnsInv, AgreeInv, InFlight, Outstanding
<1>6. ReleasedInv'
  BY DEF TypeOK, ReleasedInv, Phases
<1> QED  BY <1>1, <1>2, <1>3, <1>4, <1>5, <1>6

\* OtherTimeout preserves the invariant.
LEMMA OtherTimeoutStep ==
  ASSUME IInv, OtherTimeout
  PROVE  IInv'
<1> USE BoundsAssumption DEF IInv, OtherTimeout,
        hostVars, opVars, cmdVars, fwVars
<1>1. TypeOK'
  BY UnusedTypes DEF TypeOK, Ownerships, Phases
<1>2. CmdInv'
  BY DEF TypeOK, CmdInv, InFlight
<1>3. GiveInv'
  BY DEF TypeOK, CmdInv, GiveInv, InFlight
<1>4. OwnsInv'
  BY DEF TypeOK, CmdInv, GiveInv, OwnsInv, InFlight, Outstanding
<1>5. AgreeInv'
  BY DEF TypeOK, CmdInv, GiveInv, OwnsInv, AgreeInv, InFlight, Outstanding
<1>6. ReleasedInv'
  BY DEF TypeOK, ReleasedInv, Phases
<1> QED  BY <1>1, <1>2, <1>3, <1>4, <1>5, <1>6

\* FirmwareAcceptsGive preserves the invariant.
LEMMA FirmwareAcceptsGiveStep ==
  ASSUME IInv, FirmwareAcceptsGive
  PROVE  IInv'
<1> USE BoundsAssumption DEF IInv, FirmwareAcceptsGive, Answered,
        hostVars, opVars, cmdVars, fwVars
<1>1. TypeOK'
  BY DEF TypeOK, Commands
<1>2. CmdInv'
  BY DEF TypeOK, CmdInv, InFlight
<1>3. GiveInv'
  BY DEF TypeOK, CmdInv, GiveInv, InFlight
<1>4. OwnsInv'
  BY DEF TypeOK, CmdInv, GiveInv, OwnsInv, InFlight, Outstanding
<1>5. AgreeInv'
  BY DEF TypeOK, CmdInv, GiveInv, OwnsInv, AgreeInv, InFlight, Outstanding
<1>6. ReleasedInv'
  BY DEF TypeOK, ReleasedInv, Phases
<1> QED  BY <1>1, <1>2, <1>3, <1>4, <1>5, <1>6

\* FirmwareRejects preserves the invariant.
LEMMA FirmwareRejectsStep ==
  ASSUME IInv, FirmwareRejects
  PROVE  IInv'
<1> USE BoundsAssumption DEF IInv, FirmwareRejects, Answered,
        hostVars, opVars, cmdVars, fwVars
<1>1. TypeOK'
  BY UnusedTypes DEF TypeOK, Ownerships, Phases
<1>2. CmdInv'
  BY DEF TypeOK, CmdInv, InFlight, NoReply
<1>3. GiveInv'
  BY DEF TypeOK, CmdInv, GiveInv, InFlight, NoReply
<1>4. OwnsInv'
  BY DEF TypeOK, CmdInv, GiveInv, OwnsInv, InFlight, Outstanding, NoReply
<1>5. AgreeInv'
  BY DEF TypeOK, CmdInv, GiveInv, OwnsInv, AgreeInv, InFlight, Outstanding, NoReply
<1>6. ReleasedInv'
  BY DEF TypeOK, ReleasedInv, Phases
<1> QED  BY <1>1, <1>2, <1>3, <1>4, <1>5, <1>6

\* FirmwareReturns preserves the invariant.
LEMMA FirmwareReturnsStep ==
  ASSUME IInv, NEW S \in SUBSET Pages, NEW bad \in BOOLEAN, FirmwareReturns(S, bad)
  PROVE  IInv'
<1> USE BoundsAssumption DEF IInv, FirmwareReturns, Answered,
        hostVars, opVars, cmdVars, fwVars
<1>1. TypeOK'
  BY UnusedTypes DEF TypeOK, Ownerships, Phases
<1>2. CmdInv'
  BY DEF TypeOK, CmdInv, InFlight
<1>3. GiveInv'
  BY DEF TypeOK, CmdInv, GiveInv, InFlight
<1>4. OwnsInv'
  BY DEF TypeOK, CmdInv, GiveInv, OwnsInv, InFlight, Outstanding
<1>5. AgreeInv'
  BY DEF TypeOK, CmdInv, GiveInv, OwnsInv, AgreeInv, InFlight, Outstanding
<1>6. ReleasedInv'
  BY DEF TypeOK, ReleasedInv, Phases
<1> QED  BY <1>1, <1>2, <1>3, <1>4, <1>5, <1>6

\* FirmwareReleasesAll preserves the invariant.
LEMMA FirmwareReleasesAllStep ==
  ASSUME IInv, NEW f \in Functions, FirmwareReleasesAll(f)
  PROVE  IInv'
<1> USE BoundsAssumption DEF IInv, FirmwareReleasesAll,
        hostVars, opVars, cmdVars, fwVars
<1>1. TypeOK'
  BY UnusedTypes DEF TypeOK, Ownerships, Phases
<1>2. CmdInv'
  BY DEF TypeOK, CmdInv, InFlight
<1>3. GiveInv'
  BY DEF TypeOK, CmdInv, GiveInv, InFlight
<1>4. OwnsInv'
  BY DEF TypeOK, CmdInv, GiveInv, OwnsInv, InFlight, Outstanding
<1>5. AgreeInv'
  BY DEF TypeOK, CmdInv, GiveInv, OwnsInv, AgreeInv, InFlight, Outstanding
<1>6. ReleasedInv'
  BY DEF TypeOK, ReleasedInv, Phases
<1> QED  BY <1>1, <1>2, <1>3, <1>4, <1>5, <1>6

\* GiveBatch preserves the invariant.
LEMMA GiveBatchStep ==
  ASSUME IInv, GiveBatch
  PROVE  IInv'
<1> USE BoundsAssumption DEF IInv, GiveBatch, Mark, Send,
        hostVars, opVars, cmdVars, fwVars
<1>1. TypeOK'
  <2>1. PICK S \in SUBSET todo :
          ownership' = Mark(S, "GivePending") /\ Send("give", opFn, S, Cardinality(S))
    OBVIOUS
  <2>2. ownership' \in [Pages -> Ownerships]
    BY <2>1 DEF TypeOK, Ownerships
  <2>3. S \in SUBSET Pages /\ Cardinality(S) \in Nat
    BY PageCount DEF TypeOK
  <2>4. cmd' \in Commands
    BY <2>1, <2>3 DEF TypeOK, Commands
  <2> QED  BY <2>1, <2>2, <2>4, UnusedTypes DEF TypeOK
<1>2. CmdInv'
  BY DEF TypeOK, CmdInv, InFlight, NoReply
<1>3. GiveInv'
  BY DEF TypeOK, CmdInv, GiveInv, InFlight, NoReply
<1>4. OwnsInv'
  BY DEF TypeOK, CmdInv, GiveInv, OwnsInv, InFlight, Outstanding, NoReply
<1>5. AgreeInv'
  BY DEF TypeOK, CmdInv, GiveInv, OwnsInv, AgreeInv, InFlight, Outstanding, NoReply
<1>6. ReleasedInv'
  BY DEF TypeOK, ReleasedInv, Phases
<1> QED  BY <1>1, <1>2, <1>3, <1>4, <1>5, <1>6

\* GiveSucceeds preserves the invariant.
LEMMA GiveSucceedsStep ==
  ASSUME IInv, GiveSucceeds
  PROVE  IInv'
<1> USE BoundsAssumption DEF IInv, GiveSucceeds, Mark, Done,
        hostVars, opVars, cmdVars, fwVars
<1>1. TypeOK'
  BY UnusedTypes DEF TypeOK, Ownerships, Phases
<1>2. CmdInv'
  BY DEF TypeOK, CmdInv, InFlight, NoReply, NoCmd
<1>3. GiveInv'
  BY DEF TypeOK, CmdInv, GiveInv, InFlight, NoReply, NoCmd
<1>4. OwnsInv'
  BY DEF TypeOK, CmdInv, GiveInv, OwnsInv, InFlight, Outstanding, NoReply, NoCmd
<1>5. AgreeInv'
  BY DEF TypeOK, CmdInv, GiveInv, OwnsInv, AgreeInv, InFlight, Outstanding, NoReply, NoCmd
<1>6. ReleasedInv'
  BY DEF TypeOK, ReleasedInv, Phases
<1> QED  BY <1>1, <1>2, <1>3, <1>4, <1>5, <1>6

\* GiveFails preserves the invariant.
LEMMA GiveFailsStep ==
  ASSUME IInv, GiveFails
  PROVE  IInv'
<1> USE BoundsAssumption DEF IInv, GiveFails, Release, Done, OpIdle, AfterFailedGive,
        hostVars, opVars, cmdVars, fwVars
<1>1. TypeOK'
  BY UnusedTypes, ZenonT(30) DEF TypeOK, Ownerships, Phases
<1>2. CmdInv'
  BY DEF TypeOK, CmdInv, InFlight, NoReply, NoCmd
<1>3. GiveInv'
  <2>1. \A p \in Pages : ownership[p] = "Ambiguous" => ownership'[p] = "Ambiguous"
    BY DEF GiveInv
  <2>2. todo' = {} /\ op' = "idle" /\ cmd.pages \in SUBSET Pages
    BY DEF TypeOK, Commands
  <2>3. \/ cmdState' = "none"
        \/ cmdState' = "lost" /\ cmdState = "lost" /\ cmd' = cmd
    OBVIOUS
  <2> QED  BY <2>1, <2>2, <2>3 DEF GiveInv, InFlight
<1>4. OwnsInv'
  BY DEF TypeOK, CmdInv, GiveInv, OwnsInv, InFlight, Outstanding, NoReply, NoCmd
<1>5. AgreeInv'
  BY DEF TypeOK, CmdInv, GiveInv, OwnsInv, AgreeInv, InFlight, Outstanding, NoReply, NoCmd
<1>6. ReleasedInv'
  BY DEF TypeOK, ReleasedInv, Phases
<1> QED  BY <1>1, <1>2, <1>3, <1>4, <1>5, <1>6

\* GiveTimesOut preserves the invariant.
LEMMA GiveTimesOutStep ==
  ASSUME IInv, GiveTimesOut
  PROVE  IInv'
<1> USE BoundsAssumption DEF IInv, GiveTimesOut, TimesOut, OpIdle, AfterFailedGive,
        hostVars, opVars, cmdVars, fwVars
<1>1. TypeOK'
  BY UnusedTypes DEF TypeOK, Ownerships, Phases
<1>2. CmdInv'
  BY DEF TypeOK, CmdInv, InFlight, NoReply, NoCmd
<1>3. GiveInv'
  BY DEF TypeOK, CmdInv, GiveInv, InFlight, NoReply, NoCmd
<1>4. OwnsInv'
  BY DEF TypeOK, CmdInv, GiveInv, OwnsInv, InFlight, Outstanding, NoReply, NoCmd
<1>5. AgreeInv'
  BY DEF TypeOK, CmdInv, GiveInv, OwnsInv, AgreeInv, InFlight, Outstanding, NoReply, NoCmd
<1>6. ReleasedInv'
  BY DEF TypeOK, ReleasedInv, Phases
<1> QED  BY <1>1, <1>2, <1>3, <1>4, <1>5, <1>6

\* GiveEnds preserves the invariant.
LEMMA GiveEndsStep ==
  ASSUME IInv, GiveEnds
  PROVE  IInv'
<1> USE BoundsAssumption DEF IInv, GiveEnds, OpIdle,
        hostVars, opVars, cmdVars, fwVars
<1>1. TypeOK'
  BY UnusedTypes DEF TypeOK, Ownerships, Phases
<1>2. CmdInv'
  BY DEF TypeOK, CmdInv, InFlight
<1>3. GiveInv'
  BY DEF TypeOK, CmdInv, GiveInv, InFlight
<1>4. OwnsInv'
  BY DEF TypeOK, CmdInv, GiveInv, OwnsInv, InFlight, Outstanding
<1>5. AgreeInv'
  BY DEF TypeOK, CmdInv, GiveInv, OwnsInv, AgreeInv, InFlight, Outstanding
<1>6. ReleasedInv'
  BY DEF TypeOK, ReleasedInv, Phases
<1> QED  BY <1>1, <1>2, <1>3, <1>4, <1>5, <1>6

\* TakeSend preserves the invariant.
LEMMA TakeSendStep ==
  ASSUME IInv, TakeSend
  PROVE  IInv'
<1> USE BoundsAssumption DEF IInv, TakeSend, Send,
        hostVars, opVars, cmdVars, fwVars
<1>1. TypeOK'
  <2>1. ASSUME NEW f \in Functions, NEW m \in Nat, Send("take", f, {}, Lesser(Batch, m))
        PROVE  /\ cmd' \in Commands /\ cmdState' = "sent"
               /\ reply' \in [ok : BOOLEAN, pages : SUBSET Pages, bad : BOOLEAN]
               /\ quarantined' \in BOOLEAN
    <3>1. Lesser(Batch, m) \in Nat
      BY LesserType
    <3>2. cmd' \in Commands
      BY <2>1, <3>1 DEF Commands
    <3> QED  BY <2>1, <3>2, UnusedTypes DEF TypeOK
  <2>2. CASE op = "take"
    BY <2>1, <2>2 DEF TypeOK
  <2>3. CASE op = "reclaim"
    <3>1. PICK f \in Functions :
            opFn' = f /\ Send("take", f, {}, Lesser(Batch, Cardinality(OwnedBy(f))))
      BY <2>3
    <3>2. Cardinality(OwnedBy(f)) \in Nat
      BY PageCount DEF OwnedBy
    <3>3. /\ cmd' \in Commands /\ cmdState' = "sent"
          /\ reply' \in [ok : BOOLEAN, pages : SUBSET Pages, bad : BOOLEAN]
          /\ quarantined' \in BOOLEAN
      BY <2>1, <3>1, <3>2
    <3> QED  BY <2>3, <3>1, <3>3 DEF TypeOK
  <2> QED  BY <2>2, <2>3
<1>2. CmdInv'
  <2>1. CASE op = "take"
    <3>1. Lesser(Batch, remaining) =< remaining
      BY LesserType DEF TypeOK
    <3> QED  BY <2>1, <3>1 DEF CmdInv, InFlight
  <2>2. CASE op = "reclaim"
    BY <2>2 DEF CmdInv, InFlight
  <2> QED  BY <2>1, <2>2
<1>3. GiveInv'
  BY DEF TypeOK, CmdInv, GiveInv, InFlight, NoReply
<1>4. OwnsInv'
  BY DEF TypeOK, CmdInv, GiveInv, OwnsInv, InFlight, Outstanding, NoReply
<1>5. AgreeInv'
  BY DEF TypeOK, CmdInv, GiveInv, OwnsInv, AgreeInv, InFlight, Outstanding, NoReply
<1>6. ReleasedInv'
  BY DEF TypeOK, ReleasedInv, Phases
<1> QED  BY <1>1, <1>2, <1>3, <1>4, <1>5, <1>6

\* TakeReturnsPages preserves the invariant.
LEMMA TakeReturnsPagesStep ==
  ASSUME IInv, TakeReturnsPages
  PROVE  IInv'
<1> USE BoundsAssumption DEF IInv, TakeReturnsPages, Release, Done, ValidReply, OwnedBy,
        hostVars, opVars, cmdVars, fwVars
<1>1. TypeOK'
  <2>1. Cardinality(reply.pages) \in Nat
    BY PageCount DEF TypeOK
  <2>2. op = "take" => Cardinality(reply.pages) =< cmd.n /\ cmd.n =< remaining
    BY DEF CmdInv, InFlight
  <2>3. remaining' \in 0 .. MaxRequest
    BY <2>1, <2>2 DEF TypeOK, Commands
  <2>4. ownership' \in [Pages -> Ownerships]
    BY DEF TypeOK, Ownerships
  <2> QED  BY <2>3, <2>4, UnusedTypes DEF TypeOK
<1>2. CmdInv'
  BY DEF TypeOK, CmdInv, InFlight, NoReply, NoCmd
<1>3. GiveInv'
  BY DEF TypeOK, CmdInv, GiveInv, InFlight, NoReply, NoCmd
<1>4. OwnsInv'
  BY DEF TypeOK, CmdInv, GiveInv, OwnsInv, InFlight, Outstanding, NoReply, NoCmd
<1>5. AgreeInv'
  BY DEF TypeOK, CmdInv, GiveInv, OwnsInv, AgreeInv, InFlight, Outstanding, NoReply, NoCmd
<1>6. ReleasedInv'
  BY DEF TypeOK, ReleasedInv, Phases
<1> QED  BY <1>1, <1>2, <1>3, <1>4, <1>5, <1>6

\* TakeReturnsNone preserves the invariant.
LEMMA TakeReturnsNoneStep ==
  ASSUME IInv, TakeReturnsNone
  PROVE  IInv'
<1> USE BoundsAssumption DEF IInv, TakeReturnsNone, Done, TakeFaults, Mark, OwnedBy, OpIdle,
        hostVars, opVars, cmdVars, fwVars
<1>1. TypeOK'
  <2>1. /\ cmd' \in Commands /\ cmdState' = "none" /\ quarantined' \in BOOLEAN
        /\ reply' \in [ok : BOOLEAN, pages : SUBSET Pages, bad : BOOLEAN]
    BY UnusedTypes DEF TypeOK
  <2>2. CASE op = "reclaim" /\ waited < MaxWaits /\ waited' = waited + 1
               /\ UNCHANGED <<hostVars, op, opFn, todo, start, remaining, fwVars>>
    <3>1. waited + 1 \in 0 .. MaxWaits
      BY <2>2 DEF TypeOK
    <3> QED  BY <2>1, <2>2, <3>1 DEF TypeOK
  <2>3. CASE TakeFaults
    BY <2>1, <2>3, UnusedTypes DEF TypeOK, Ownerships
  <2> QED  BY <2>2, <2>3
<1>2. CmdInv'
  BY DEF TypeOK, CmdInv, InFlight, NoReply, NoCmd
<1>3. GiveInv'
  BY DEF TypeOK, CmdInv, GiveInv, InFlight, NoReply, NoCmd
<1>4. OwnsInv'
  BY DEF TypeOK, CmdInv, GiveInv, OwnsInv, InFlight, Outstanding, NoReply, NoCmd
<1>5. AgreeInv'
  BY DEF TypeOK, CmdInv, GiveInv, OwnsInv, AgreeInv, InFlight, Outstanding, NoReply, NoCmd
<1>6. ReleasedInv'
  BY DEF TypeOK, ReleasedInv, Phases
<1> QED  BY <1>1, <1>2, <1>3, <1>4, <1>5, <1>6

\* TakeBadReply preserves the invariant.
LEMMA TakeBadReplyStep ==
  ASSUME IInv, TakeBadReply
  PROVE  IInv'
<1> USE BoundsAssumption DEF IInv, TakeBadReply, Done, TakeFaults, Mark, OwnedBy, OpIdle,
        hostVars, opVars, cmdVars, fwVars
<1>1. TypeOK'
  BY UnusedTypes DEF TypeOK, Ownerships, Phases
<1>2. CmdInv'
  BY DEF TypeOK, CmdInv, InFlight, NoReply, NoCmd
<1>3. GiveInv'
  BY DEF TypeOK, CmdInv, GiveInv, InFlight, NoReply, NoCmd
<1>4. OwnsInv'
  BY DEF TypeOK, CmdInv, GiveInv, OwnsInv, InFlight, Outstanding, NoReply, NoCmd
<1>5. AgreeInv'
  BY DEF TypeOK, CmdInv, GiveInv, OwnsInv, AgreeInv, InFlight, Outstanding, NoReply, NoCmd
<1>6. ReleasedInv'
  BY DEF TypeOK, ReleasedInv, Phases
<1> QED  BY <1>1, <1>2, <1>3, <1>4, <1>5, <1>6

\* TakeTimesOut preserves the invariant.
LEMMA TakeTimesOutStep ==
  ASSUME IInv, TakeTimesOut
  PROVE  IInv'
<1> USE BoundsAssumption DEF IInv, TakeTimesOut, TimesOut, TakeFaults, Mark, OwnedBy, OpIdle,
        hostVars, opVars, cmdVars, fwVars
<1>1. TypeOK'
  BY UnusedTypes DEF TypeOK, Ownerships, Phases
<1>2. CmdInv'
  BY DEF TypeOK, CmdInv, InFlight, NoReply, NoCmd
<1>3. GiveInv'
  BY DEF TypeOK, CmdInv, GiveInv, InFlight, NoReply, NoCmd
<1>4. OwnsInv'
  BY DEF TypeOK, CmdInv, GiveInv, OwnsInv, InFlight, Outstanding, NoReply, NoCmd
<1>5. AgreeInv'
  BY DEF TypeOK, CmdInv, GiveInv, OwnsInv, AgreeInv, InFlight, Outstanding, NoReply, NoCmd
<1>6. ReleasedInv'
  BY DEF TypeOK, ReleasedInv, Phases
<1> QED  BY <1>1, <1>2, <1>3, <1>4, <1>5, <1>6

\* TakeFails preserves the invariant.
LEMMA TakeFailsStep ==
  ASSUME IInv, TakeFails
  PROVE  IInv'
<1> USE BoundsAssumption DEF IInv, TakeFails, Done, OpIdle, TakesOn,
        hostVars, opVars, cmdVars, fwVars
<1>1. TypeOK'
  BY UnusedTypes DEF TypeOK, Ownerships, Phases
<1>2. CmdInv'
  BY DEF TypeOK, CmdInv, InFlight, NoReply, NoCmd
<1>3. GiveInv'
  BY DEF TypeOK, CmdInv, GiveInv, InFlight, NoReply, NoCmd
<1>4. OwnsInv'
  BY DEF TypeOK, CmdInv, GiveInv, OwnsInv, InFlight, Outstanding, NoReply, NoCmd
<1>5. AgreeInv'
  BY DEF TypeOK, CmdInv, GiveInv, OwnsInv, AgreeInv, InFlight, Outstanding, NoReply, NoCmd
<1>6. ReleasedInv'
  BY DEF TypeOK, ReleasedInv, Phases
<1> QED  BY <1>1, <1>2, <1>3, <1>4, <1>5, <1>6

\* TakeEnds preserves the invariant.
LEMMA TakeEndsStep ==
  ASSUME IInv, TakeEnds
  PROVE  IInv'
<1> USE BoundsAssumption DEF IInv, TakeEnds, OpIdle,
        hostVars, opVars, cmdVars, fwVars
<1>1. TypeOK'
  BY UnusedTypes DEF TypeOK, Ownerships, Phases
<1>2. CmdInv'
  BY DEF TypeOK, CmdInv, InFlight
<1>3. GiveInv'
  BY DEF TypeOK, CmdInv, GiveInv, InFlight
<1>4. OwnsInv'
  BY DEF TypeOK, CmdInv, GiveInv, OwnsInv, InFlight, Outstanding
<1>5. AgreeInv'
  BY DEF TypeOK, CmdInv, GiveInv, OwnsInv, AgreeInv, InFlight, Outstanding
<1>6. ReleasedInv'
  BY DEF TypeOK, ReleasedInv, Phases
<1> QED  BY <1>1, <1>2, <1>3, <1>4, <1>5, <1>6

(***************************************************************************)
(* The theorems.                                                           *)
(***************************************************************************)

\* IInv holds initially.
LEMMA InitInv == Init => IInv
<1> SUFFICES ASSUME Init PROVE IInv
  OBVIOUS
<1> USE DEF Init
<1>1. TypeOK
  BY UnusedTypes DEF TypeOK, Ownerships, Phases
<1> QED
  BY <1>1 DEF IInv, CmdInv, GiveInv, OwnsInv, AgreeInv, ReleasedInv, InFlight

\* Every step preserves it.
LEMMA StepInv == IInv /\ [Next]_vars => IInv'
<1> SUFFICES ASSUME IInv, [Next]_vars PROVE IInv'
  OBVIOUS
<1>1. CASE Operation
  BY <1>1, GiveBatchStep, GiveSucceedsStep, GiveFailsStep, GiveTimesOutStep,
     GiveEndsStep, TakeSendStep, TakeReturnsPagesStep, TakeReturnsNoneStep,
     TakeBadReplyStep, TakeTimesOutStep, TakeFailsStep, TakeEndsStep
  DEF Operation
<1>2. CASE Begin
  BY <1>2, BeginGiveStep, BeginTakeStep, GiveRefusedStep, BeginReclaimStep,
     ReleaseAllForFunctionStep, StartRuntimeStep, TeardownStep,
     ReleaseAfterDmaBoundaryStep
  DEF Begin
<1>3. CASE Firmware
  BY <1>3, FirmwareAcceptsGiveStep, FirmwareRejectsStep, FirmwareReturnsStep,
     FirmwareReleasesAllStep
  DEF Firmware
<1>4. CASE OtherTimeout
  BY <1>4, OtherTimeoutStep
<1>5. CASE UNCHANGED vars
  BY <1>5 DEF IInv, TypeOK, CmdInv, GiveInv, OwnsInv, AgreeInv, ReleasedInv, InFlight,
              vars, hostVars, opVars, cmdVars, fwVars
<1> QED  BY <1>1, <1>2, <1>3, <1>4, <1>5 DEF Next

\* IInv is an invariant.
LEMMA Invariance == Spec => []IInv
BY InitInv, StepInv, PTL DEF Spec

\* Whatever the firmware uses, or may come to use, is recorded as out.
LEMMA MayUseOutstanding ==
  ASSUME IInv, NEW p \in FirmwareMayUse
  PROVE  p \in Pages /\ ownership[p] \in Outstanding
<1>1. CASE p \in fwOwns
  BY <1>1 DEF IInv, OwnsInv, TypeOK
<1>2. CASE cmdState = "sent" /\ cmd.kind = "give" /\ p \in cmd.pages
  <2>1. op = "give"
    BY <1>2 DEF IInv, TypeOK, CmdInv, InFlight
  <2> QED  BY <1>2, <2>1 DEF IInv, TypeOK, Commands, GiveInv, InFlight, Outstanding
<1>3. CASE cmdState = "lost" /\ cmd.kind = "give" /\ p \in cmd.pages
  BY <1>3 DEF IInv, TypeOK, Commands, GiveInv, Outstanding
<1> QED  BY <1>1, <1>2, <1>3 DEF FirmwareMayUse

\* Every page has one of the recorded ownerships, every command its fields; the
\* pages left to take are never fewer than none.
THEOREM TypeCorrect == Spec => []TypeOK
<1>1. IInv => TypeOK
  BY DEF IInv
<1> QED  BY <1>1, Invariance, PTL

\* giveBatch, takePages, releaseAllForFunction and releaseAfterDmaBoundary release
\* no page that the firmware uses or will use if it carries out a command late.
THEOREM ReleasedPagesUnused == Spec => []NoDmaIntoReleased
<1>1. IInv => NoDmaIntoReleased
  BY MayUseOutstanding DEF NoDmaIntoReleased, Outstanding
<1> QED  BY <1>1, Invariance, PTL

\* Without a fault, between operations, the record of pages owned by the firmware is
\* what the firmware uses.
THEOREM HostAndFirmwareAgree == Spec => []ViewsAgree
<1>1. IInv => ViewsAgree
  BY DEF IInv, CmdInv, InFlight, AgreeInv, ViewsAgree
<1> QED  BY <1>1, Invariance, PTL

\* releaseAfterDmaBoundary runs only when the firmware uses nothing, and nothing it
\* does later gives it a page.
THEOREM BoundarySafe == Spec => []BoundaryIsSafe
<1>1. IInv => BoundaryIsSafe
  BY MayUseOutstanding DEF IInv, ReleasedInv, BoundaryIsSafe, Outstanding
<1> QED  BY <1>1, Invariance, PTL

\* No operation, answer or event changes a page marked ambiguous by a timeout or by
\* markFunctionAmbiguous: it stays mapped for good.
THEOREM AmbiguousStays == Spec => AmbiguousForever
<1>1. ASSUME IInv, [Next]_vars, NEW p \in Pages, ownership[p] = "Ambiguous"
      PROVE  ownership'[p] = "Ambiguous"
  <2> USE <1>1 DEF IInv, TypeOK
  <2>1. CASE UNCHANGED ownership
    BY <2>1
  <2>2. ASSUME NEW f \in Functions, NEW n \in 1 .. MaxRequest, BeginGive(f, n)
        PROVE  ownership'[p] = "Ambiguous"
    BY <2>2 DEF BeginGive, Mark, With
  <2>3. CASE GiveBatch \/ GiveFails
    BY <2>3 DEF GiveBatch, GiveFails, Mark, Release, GiveInv
  <2>4. CASE GiveSucceeds \/ GiveTimesOut
    <3>1. op = "give" /\ InFlight
      BY <2>4 DEF GiveSucceeds, GiveTimesOut, TimesOut, InFlight
    <3>2. p \notin todo /\ p \notin cmd.pages
      BY <3>1 DEF GiveInv, CmdInv
    <3> QED  BY <2>4, <3>2 DEF GiveSucceeds, GiveTimesOut, Mark
  <2>5. CASE TakeReturnsPages
    BY <2>5 DEF TakeReturnsPages, ValidReply, OwnedBy, Release
  <2>6. CASE TakeReturnsNone \/ TakeBadReply \/ TakeTimesOut
    BY <2>6 DEF TakeReturnsNone, TakeBadReply, TakeTimesOut, TakeFaults, Mark,
                hostVars
  <2>7. ASSUME NEW f \in Functions, ReleaseAllForFunction(f)
        PROVE  ownership'[p] = "Ambiguous"
    BY <2>7 DEF ReleaseAllForFunction, OwnedBy, Release
  <2>8. ~ReleaseAfterDmaBoundary
    BY DEF ReleaseAfterDmaBoundary, GracefulBoundary, hasOutstandingPages
  <2>9. CASE GiveEnds \/ TakeSend \/ TakeFails \/ TakeEnds
    BY <2>1, <2>9 DEF GiveEnds, TakeSend, TakeFails, TakeEnds, hostVars
  <2>10. CASE GiveRefused \/ BeginReclaim \/ StartRuntime \/ Teardown \/ Firmware
                \/ OtherTimeout \/ UNCHANGED vars
    BY <2>1, <2>10 DEF GiveRefused, BeginReclaim, StartRuntime, Teardown, Firmware,
         FirmwareAcceptsGive, FirmwareRejects, FirmwareReturns, FirmwareReleasesAll,
         OtherTimeout, vars, hostVars
  <2>11. ASSUME NEW f \in Functions, NEW n \in 1 .. MaxRequest, BeginTake(f, n)
         PROVE  ownership'[p] = "Ambiguous"
    BY <2>1, <2>11 DEF BeginTake, hostVars
  <2> QED
    BY <2>2, <2>3, <2>4, <2>5, <2>6, <2>7, <2>8, <2>9, <2>10, <2>11
    DEF Next, Operation, Begin
<1>2. IInv /\ [Next]_vars =>
        [\A p \in Pages : ownership[p] = "Ambiguous" => ownership'[p] = "Ambiguous"]_vars
  BY <1>1
<1> QED  BY <1>2, Invariance, PTL DEF Spec, AmbiguousForever

=============================================================================
