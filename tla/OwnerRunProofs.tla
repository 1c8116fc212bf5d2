--------------------------- MODULE OwnerRunProofs ---------------------------
(***************************************************************************)
(* One process at a time (nothing in the code locks an owner run, so this   *)
(* is an assumption of every theorem), dying at any point and retried       *)
(* with any observation and any draft.  Last comes what the run is as a     *)
(* whole: it keeps the ledger of RunLedger.                                 *)
(***************************************************************************)
EXTENDS OwnerRun, TLAPS

OneAtATime == \A o, p \in Owner : o = p

\* The places of a process, in the order it passes them.
Compiling == {"write_input", "write_prompt", "write_output", "write_draft", "load"}
Opening == {"clear_plan", "clear_verification", "clear_output", "clear_execution", "stale", "specify"}
Writing == {"issue", "check", "write"}
Failing == {"fail_capability", "fail", "output_failed"}
Blocking == {"refuse", "output_blocked"}
Recorded == {"consume", "written", "complete", "inspect", "record_reviewed",
             "record_vetoed", "verify"}
Concluding == {"conclude", "output_finalized"}
Ending == {"record_failed", "record_blocked", "record_finalized"}
Delegating == {"delegate", "record"} \cup Writing
Unconcluded == {"write_backlog"} \cup Delegating \cup Recorded \cup Concluding
                 \cup Failing \cup Blocking
Opened == Opening \cup {"plan"} \cup Unconcluded \cup Ending

MustHaveDraft == Delegating \cup Recorded \cup Concluding \cup {"fail_capability", "record_finalized"}

Backed(version) ==
  \E s \in RecordedIn(version) : written[s] > 0 /\ (Reviewed => reviews[s] = "passed")

\* A process, as TypeOK has it.
Process ==
  [pc : Label, request : Request \union {NoRequest}, seen : Context,
   draft : Draft \union {NoDraft}, version : 0 .. MaxAttempts,
   loaded : 0 .. MaxAttempts, state : RunState, vetoed : BOOLEAN]
Processes == me \in [Owner -> Process]

\* The process goes on with what it remembers.
Keeps(o) ==
  /\ me'[o].request = me[o].request /\ me'[o].draft = me[o].draft
  /\ me'[o].version = me[o].version /\ me'[o].vetoed = me[o].vetoed

LEMMA GotoMoves ==
  ASSUME Processes, NEW o \in Owner, NEW l \in Label, Goto(o, l)
  PROVE  /\ Processes' /\ me'[o].pc = l /\ Keeps(o)
         /\ me'[o].state = me[o].state /\ me'[o].loaded = me[o].loaded
  BY DEF Processes, Process, Goto, Keeps

LEMMA GotoAsMoves ==
  ASSUME Processes, NEW o \in Owner, NEW l \in Label, NEW s \in RunState, GotoAs(o, l, s)
  PROVE  /\ Processes' /\ me'[o].pc = l /\ Keeps(o)
         /\ me'[o].state = s /\ me'[o].loaded = me[o].loaded
  BY DEF Processes, Process, GotoAs, Keeps

LEMMA PromptMoves ==
  ASSUME Processes, NEW o \in Owner, WritePrompt(o)
  PROVE  Processes' /\ me'[o].pc = "write_output" /\ Keeps(o)
<1>1. 0 \in Context /\ "write_output" \in Label
  BY ConstantsAssumption DEF Context, Label
<1> QED
  BY <1>1 DEF WritePrompt, Processes, Process, Keeps

LEMMA RecoveredType ==
  ASSUME TypeOK PROVE Recovered \in RunState
  BY DEF TypeOK, Recovered, RunState, Terminal

LEMMA IdleType == Idle \in Process
  BY ConstantsAssumption DEF Idle, Process, Label, Context, RunState

LEMMA ReturnMoves ==
  ASSUME Processes, NEW o \in Owner, NEW r, Return(o, r)
  PROVE  Processes' /\ me'[o] = Idle
  BY IdleType DEF Processes, Return

LEMMA VerifiedMoves ==
  ASSUME Processes, NEW o \in Owner, RecordVerified(o)
  PROVE  /\ Processes'
         /\ \/ me'[o] = Idle
            \/ me'[o].pc = "output_finalized" /\ Keeps(o)
<1>1. GotoAs(o, "output_finalized", "VERIFIED") \/ Return(o, "raised")
  BY DEF RecordVerified
<1>2. CASE GotoAs(o, "output_finalized", "VERIFIED")
  <2>1. "output_finalized" \in Label /\ "VERIFIED" \in RunState
    BY DEF Label, RunState
  <2> QED
    BY <1>2, <2>1, GotoAsMoves
<1>3. CASE Return(o, "raised")
  BY <1>3, ReturnMoves
<1> QED
  BY <1>1, <1>2, <1>3

Answers ==
  [Owner -> [result : Terminal \union {"none", "raised"},
             request : Request \union {NoRequest},
             version : 0 .. MaxAttempts, draft : Draft \union {NoDraft}]]

\* Everything else TypeOK says.
ArtifactTypes ==
  /\ spec \in [version : 0 .. MaxAttempts, request : Request \union {NoRequest}]
  /\ runState.state \in RunState /\ runState.version \in 0 .. MaxAttempts
  /\ runState.step \in AnyStep
  /\ backlog \in BOOLEAN
  /\ verification \in {"none", "failed", "passed"}
  /\ finalOutput \in {"none"} \union Terminal
  /\ delegates \subseteq Step
  /\ reviews \in [Step -> {"none", "passed", "failed"}]
  /\ capability \in [Step -> {"none", "ACTIVE", "CONSUMED", "FAILED", "STALE"}]
  /\ execution \in [input : Request \union {NoRequest}, prompt : Request \union {NoRequest},
                    seen : Context, output : BOOLEAN, draft : Draft \union {NoDraft}]
  /\ context \in Context
  /\ written \in [Step -> Context]
  /\ answer \in Answers
  /\ attempts \in 0 .. MaxAttempts
  /\ deaths \in 0 .. MaxDeaths

LEMMA TypesSplit == /\ TypeOK <=> ArtifactTypes /\ Processes
                    /\ TypeOK' <=> ArtifactTypes' /\ Processes'
  BY DEF TypeOK, ArtifactTypes, Processes, Process, Answers

LEMMA ReturnTypes ==
  ASSUME Processes, answer \in Answers,
         NEW o \in Owner, NEW r \in Terminal \union {"none", "raised"}, Return(o, r)
  PROVE  answer' \in Answers
  BY DEF Processes, Process, Return, Answers

LEMMA ReturnAnswers ==
  ASSUME Processes, answer \in Answers, NEW o \in Owner, NEW r, Return(o, r)
  PROVE  answer'[o].result = r /\ answer'[o].version = me[o].version
  BY DEF Processes, Process, Return, Answers

LEMMA ReloadMoves ==
  ASSUME Processes, ArtifactTypes, NEW o \in Owner, NEW l \in Label, Reload(o, l)
  PROVE  /\ Processes' /\ me'[o].pc = l /\ Keeps(o)
         /\ me'[o].state = Recovered /\ me'[o].loaded = spec.version
<1>1. Recovered \in RunState /\ spec.version \in 0 .. MaxAttempts
  BY RecoveredType, TypesSplit DEF ArtifactTypes
<1> QED
  BY <1>1 DEF Processes, Process, Reload, Keeps

\* Versions grow with attempts, and only while a process opens one.
VersionOf(o) ==
  /\ me[o].version <= attempts
  /\ me[o].pc # "idle" => me[o].request \in Request
  /\ me[o].pc \in Compiling => spec.version < attempts
  /\ me[o].pc = "write_draft" => me[o].draft \in Draft
  /\ me[o].pc = "write_spec" =>
       me[o].version = spec.version + 1 /\ spec.version < attempts
  /\ me[o].pc \in Opened => me[o].version = spec.version /\ spec.version > 0
  /\ me[o].pc \in MustHaveDraft => me[o].draft \in Draft

VersionInv ==
  /\ spec.version <= attempts
  /\ spec.version = 0 => spec.request = NoRequest /\ finalOutput = "none"
  /\ \A o \in Owner : VersionOf(o)

\* What the artifacts say of each other.
ArtifactInv ==
  /\ \A s \in Step : written[s] <= context
  /\ \A s \in delegates : s.version <= spec.version /\ written[s] > 0
  /\ finalOutput = "FINALIZED" => Backed(spec.version) \/ RecordedIn(spec.version) = {}

\* What a process may rely on where it is.
PlaceOf(o) ==
  /\ me[o].pc \in Opening => RecordedIn(spec.version) = {}
  /\ me[o].pc \in {"clear_execution", "stale", "specify"} => finalOutput = "none"
  /\ me[o].pc = "plan" /\ finalOutput # "none" =>
       me[o].state = finalOutput \/ me[o].state = "FAILED"
  /\ me[o].pc = "plan" /\ me[o].state = "FINALIZED" => Backed(spec.version)
  /\ me[o].pc \in {"plan", "write_backlog", "delegate"} /\ RecordedIn(spec.version) # {} =>
       me[o].state \notin {"INIT", "SPECIFIED", "PLANNED", "DELEGATED"}
  /\ me[o].pc \in Unconcluded => finalOutput = "none"
  /\ me[o].pc \in Writing => RecordedIn(spec.version) = {}
  /\ me[o].pc = "record" => written[MyStep(o)] > 0
  /\ me[o].pc \in Recorded \cup Concluding \cup {"record_finalized"} => MyStep(o) \in delegates
  /\ me[o].pc = "inspect" => reviews[MyStep(o)] = "none"
  /\ me[o].vetoed => me[o].pc \in {"verify", "output_blocked", "record_blocked"}
  /\ \/ me[o].pc \in {"record_reviewed", "record_finalized"} \cup Concluding
     \/ me[o].pc = "verify" /\ ~me[o].vetoed
     => (Reviewed => reviews[MyStep(o)] = "passed")

PlaceInv == \A o \in Owner : PlaceOf(o)

Inv == TypeOK /\ VersionInv /\ ArtifactInv /\ PlaceInv /\ FinalizedIsBacked

LEMMA Holds ==
  ASSUME Processes, NEW o \in Owner
  PROVE  /\ me[o].request \in Request \union {NoRequest} /\ me[o].seen \in Context
         /\ me[o].draft \in Draft \union {NoDraft} /\ me[o].state \in RunState
         /\ me[o].version \in 0 .. MaxAttempts /\ me[o].loaded \in 0 .. MaxAttempts
         /\ MyStep(o) \in AnyStep
  BY ConstantsAssumption DEF Processes, Process, MyStep, AnyStep

LEMMA RecordTypes ==
  ASSUME Processes, NEW o \in Owner, NEW s \in RunState, Record(o, s)
  PROVE  /\ runState'.state \in RunState /\ runState'.version \in 0 .. MaxAttempts
         /\ runState'.step \in AnyStep
  BY Holds DEF Record

\* The files of an execution, and the older capabilities, go one by one: the
\* process stays where it is until none is left.
LEMMA ClearingMoves ==
  ASSUME Processes, ArtifactTypes, NEW u \in Owner, ClearExecution(u)
  PROVE  /\ Processes' /\ Keeps(u) /\ me'[u].state = me[u].state
         /\ me'[u].pc \in {"clear_execution", "stale"}
         /\ me'[u].pc = "stale" => execution' = NoExecution
         /\ execution' \in [input : Request \union {NoRequest}, prompt : Request \union {NoRequest},
                            seen : Context, output : BOOLEAN, draft : Draft \union {NoDraft}]
<1> USE ConstantsAssumption
<1>1. CASE execution # NoExecution /\ execution' \in Unlinked \ {execution} /\ UNCHANGED me
  <2>1. Processes' /\ Keeps(u) /\ me'[u].state = me[u].state /\ me'[u].pc = "clear_execution"
    BY <1>1 DEF ClearExecution, At, Processes, Keeps
  <2>2. \/ execution' = [execution EXCEPT !.input = NoRequest]
        \/ execution' = [execution EXCEPT !.prompt = NoRequest, !.seen = 0]
        \/ execution' = [execution EXCEPT !.output = FALSE]
        \/ execution' = [execution EXCEPT !.draft = NoDraft]
    BY <1>1 DEF Unlinked
  <2>3. execution' \in [input : Request \union {NoRequest}, prompt : Request \union {NoRequest},
                       seen : Context, output : BOOLEAN, draft : Draft \union {NoDraft}]
    <3>1. 0 \in Context
      BY DEF Context
    <3> QED
      BY <2>2, <3>1 DEF ArtifactTypes
  <2> QED
    BY <2>1, <2>3
<1>2. CASE execution = NoExecution /\ Goto(u, "stale") /\ UNCHANGED execution
  <2>1. "stale" \in Label
    BY DEF Label
  <2>2. Processes' /\ Keeps(u) /\ me'[u].state = me[u].state /\ me'[u].pc = "stale"
    BY <1>2, <2>1, GotoMoves
  <2> QED
    BY <1>2, <2>2 DEF ArtifactTypes
<1> QED
  BY <1>1, <1>2 DEF ClearExecution

LEMMA StaleMoves ==
  ASSUME Processes, ArtifactTypes, NEW u \in Owner, StaleCapability(u)
  PROVE  /\ Processes' /\ Keeps(u) /\ me'[u].state = me[u].state
         /\ me'[u].pc \in {"stale", "specify"}
         /\ capability' \in [Step -> {"none", "ACTIVE", "CONSUMED", "FAILED", "STALE"}]
<1>1. \/ UNCHANGED me /\ \E s \in Step : capability' = [capability EXCEPT ![s] = "STALE"]
      \/ Goto(u, "specify") /\ UNCHANGED capability
  BY DEF StaleCapability
<1>2. "specify" \in Label /\ me[u].pc = "stale"
  BY DEF Label, StaleCapability, At
<1>3. CASE UNCHANGED me /\ \E s \in Step : capability' = [capability EXCEPT ![s] = "STALE"]
  BY <1>2, <1>3 DEF Processes, Keeps, ArtifactTypes
<1>4. CASE Goto(u, "specify") /\ UNCHANGED capability
  BY <1>2, <1>4, GotoMoves DEF ArtifactTypes
<1> QED
  BY <1>1, <1>3, <1>4

\* Between a draft's admission and the end of its run the step is a real one.
LEMMA RealStep ==
  ASSUME Processes, ArtifactTypes, VersionInv, NEW o \in Owner, me[o].pc \in MustHaveDraft
  PROVE  MyStep(o) \in Step /\ MyStep(o).version = spec.version
  BY ConstantsAssumption, Holds DEF ArtifactTypes, VersionInv, VersionOf, MustHaveDraft, Opened, Unconcluded,
     Delegating, Writing, Recorded, Concluding, Failing, Ending, MyStep, Step, Version

\* Artifacts are added to, so what backs a version goes on backing it.
LEMMA BackedStays ==
  ASSUME ArtifactTypes, ArtifactTypes', delegates \subseteq delegates', reviews' = reviews,
         \A s \in Step : written'[s] >= written[s]
  PROVE  \A v : Backed(v) => Backed(v)'
<1> SUFFICES ASSUME NEW v, Backed(v) PROVE Backed(v)'
  OBVIOUS
<1>1. PICK s \in RecordedIn(v) : written[s] > 0 /\ (Reviewed => reviews[s] = "passed")
  BY DEF Backed
<1>2. s \in Step /\ s \in delegates' /\ s.version = v
  BY <1>1 DEF RecordedIn, ArtifactTypes
<1>3. written'[s] > 0 /\ (Reviewed => reviews'[s] = "passed")
  BY <1>1, <1>2, written[s] \in Nat, written'[s] \in Nat, ConstantsAssumption DEF ArtifactTypes, Context
<1> QED
  BY <1>2, <1>3 DEF Backed, RecordedIn

LEMMA CompileTypes ==
  ASSUME OneAtATime, Inv, NEW u \in Owner, Compile(u)
  PROVE  TypeOK'
<1> USE ConstantsAssumption, NoDraftAssumption
<1>0. ArtifactTypes /\ Processes /\ VersionInv /\ ArtifactInv /\ PlaceInv /\ FinalizedIsBacked
  BY TypesSplit DEF Inv
<1>h. /\ me[u].request \in Request \union {NoRequest} /\ me[u].seen \in Context
      /\ me[u].draft \in Draft \union {NoDraft} /\ me[u].state \in RunState
      /\ me[u].version \in 0 .. MaxAttempts /\ me[u].loaded \in 0 .. MaxAttempts
      /\ MyStep(u) \in AnyStep
  BY <1>0, Holds
<1>r. Recovered \in RunState
  BY RecoveredType DEF Inv
<1>1. CASE WriteInput(u)
  <2>1. /\ Processes' /\ Keeps(u)
        /\ me'[u].pc = "write_prompt"
        /\ me'[u].state = me[u].state
    BY <1>0, <1>1, GotoMoves DEF WriteInput, Label, RunState
  <2>2. ArtifactTypes'
    BY <1>0, <1>h, <1>r, <1>1, <2>1 DEF WriteInput, ArtifactTypes, artifacts, runtime, counters, Terminal, VersionInv, VersionOf, At, Compiling
  <2> QED
    BY <2>1, <2>2, TypesSplit
<1>2. CASE WritePrompt(u)
  <2>1. Processes' /\ me'[u].pc = "write_output" /\ Keeps(u)
    BY <1>0, <1>2, PromptMoves
  <2>2. ArtifactTypes'
    BY <1>0, <1>h, <1>r, <1>2, <2>1 DEF WritePrompt, ArtifactTypes, artifacts, runtime, counters, Terminal, VersionInv, VersionOf, At, Compiling
  <2> QED
    BY <2>1, <2>2, TypesSplit
<1>3. CASE WriteOutput(u)
  <2>1. /\ Processes' /\ Keeps(u)
        /\ me'[u].pc = (IF me[u].draft = NoDraft THEN "load" ELSE "write_draft")
        /\ me'[u].state = me[u].state
    BY <1>0, <1>3, GotoMoves DEF WriteOutput, Label, RunState
  <2>2. ArtifactTypes'
    BY <1>0, <1>h, <1>r, <1>3, <2>1 DEF WriteOutput, ArtifactTypes, artifacts, runtime, counters, Terminal
  <2> QED
    BY <2>1, <2>2, TypesSplit
<1>4. CASE WriteDraft(u)
  <2>1. /\ Processes' /\ Keeps(u)
        /\ me'[u].pc = "load"
        /\ me'[u].state = me[u].state
    BY <1>0, <1>4, GotoMoves DEF WriteDraft, Label, RunState
  <2>2. ArtifactTypes'
    BY <1>0, <1>h, <1>r, <1>4, <2>1 DEF WriteDraft, ArtifactTypes, artifacts, runtime, counters, Terminal, VersionInv, VersionOf, At, Compiling
  <2> QED
    BY <2>1, <2>2, TypesSplit
<1>5. CASE \E r \in Request :
             \/ BeginWithout(u, r) \/ Begin(u, r, NoDraft)
             \/ \E t \in Take : Begin(u, r, [of |-> r, take |-> t])
  <2>1. /\ Processes' /\ me'[u].request \in Request /\ ~me'[u].vetoed
        /\ me'[u].pc \in {"load", "write_input"} /\ me'[u].version = 0
        /\ attempts' = attempts + 1 /\ attempts < MaxAttempts
    <3>1. ASSUME NEW r \in Request, BeginWithout(u, r)
          PROVE  /\ Processes' /\ me'[u].request \in Request /\ ~me'[u].vetoed
                 /\ me'[u].pc = "load" /\ me'[u].version = 0
                 /\ attempts' = attempts + 1 /\ attempts < MaxAttempts
      BY <1>0, <3>1, IdleType DEF BeginWithout, Idle, Processes, Process, Label
    <3>2. ASSUME NEW r \in Request, NEW d \in Draft \union {NoDraft}, Begin(u, r, d)
          PROVE  /\ Processes' /\ me'[u].request \in Request /\ ~me'[u].vetoed
                 /\ me'[u].pc \in {"load", "write_input"} /\ me'[u].version = 0
                 /\ attempts' = attempts + 1 /\ attempts < MaxAttempts
      BY <1>0, <3>2, IdleType DEF Begin, Idle, Processes, Process, Label, ArtifactTypes
    <3>3. \A r \in Request, t \in Take : [of |-> r, take |-> t] \in Draft
      BY DEF Draft
    <3> QED
      BY <1>5, <3>1, <3>2, <3>3
  <2>2. ArtifactTypes'
    <3>1. UNCHANGED <<artifacts, runtime, answer, deaths>>
      BY <1>5 DEF Begin, BeginWithout
    <3> QED
      BY <1>0, <2>1, <3>1 DEF ArtifactTypes, artifacts, runtime
  <2> QED
    BY <2>1, <2>2, TypesSplit
<1> QED
  BY <1>0, <1>1, <1>2, <1>3, <1>4, <1>5 DEF Compile

LEMMA RestoreTypes ==
  ASSUME OneAtATime, Inv, NEW u \in Owner, Restore(u)
  PROVE  TypeOK'
<1> USE ConstantsAssumption, NoDraftAssumption
<1>0. ArtifactTypes /\ Processes /\ VersionInv /\ ArtifactInv /\ PlaceInv /\ FinalizedIsBacked
  BY TypesSplit DEF Inv
<1>h. /\ me[u].request \in Request \union {NoRequest} /\ me[u].seen \in Context
      /\ me[u].draft \in Draft \union {NoDraft} /\ me[u].state \in RunState
      /\ me[u].version \in 0 .. MaxAttempts /\ me[u].loaded \in 0 .. MaxAttempts
      /\ MyStep(u) \in AnyStep
  BY <1>0, Holds
<1>r. Recovered \in RunState
  BY RecoveredType DEF Inv
<1>1. CASE Load(u)
  <2>1. /\ Processes' /\ me'[u].request = me[u].request /\ me'[u].vetoed = me[u].vetoed
        /\ \/ /\ me'[u].pc = "plan" /\ me'[u].version = spec.version
              /\ me'[u].state = Recovered /\ spec.request = me[u].request
           \/ /\ me'[u].pc = "write_spec" /\ me'[u].version = spec.version + 1
    BY <1>0, <1>1, <1>r DEF Load, Processes, Process, Label, ArtifactTypes, VersionInv, VersionOf, At, Compiling
  <2>2. ArtifactTypes'
    BY <1>0, <1>h, <1>r, <1>1, <2>1 DEF Load, ArtifactTypes, artifacts, runtime, counters, Terminal, RunState, NoStep, AnyStep, VersionInv, VersionOf, At, Compiling
  <2> QED
    BY <2>1, <2>2, TypesSplit
<1>2. CASE WriteSpec(u)
  <2>1. /\ Processes' /\ Keeps(u)
        /\ me'[u].pc = (IF me[u].version > 1 THEN "clear_plan" ELSE "specify")
        /\ me'[u].state = me[u].state
    BY <1>0, <1>2, GotoMoves DEF WriteSpec, Label, RunState
  <2>2. ArtifactTypes'
    BY <1>0, <1>h, <1>r, <1>2, <2>1 DEF WriteSpec, ArtifactTypes, artifacts, runtime, counters, Terminal, VersionInv, VersionOf, At, Compiling
  <2> QED
    BY <2>1, <2>2, TypesSplit
<1>3. CASE ClearPlan(u)
  <2>1. /\ Processes' /\ Keeps(u)
        /\ me'[u].pc = "clear_verification"
        /\ me'[u].state = me[u].state
    BY <1>0, <1>3, GotoMoves DEF ClearPlan, Label, RunState
  <2>2. ArtifactTypes'
    BY <1>0, <1>h, <1>r, <1>3, <2>1 DEF ClearPlan, ArtifactTypes, artifacts, runtime, counters, Terminal
  <2> QED
    BY <2>1, <2>2, TypesSplit
<1>7. CASE ClearVerification(u)
  <2>1. /\ Processes' /\ Keeps(u)
        /\ me'[u].pc = "clear_output"
        /\ me'[u].state = me[u].state
    BY <1>0, <1>7, GotoMoves DEF ClearVerification, Label, RunState
  <2>2. ArtifactTypes'
    BY <1>0, <1>h, <1>r, <1>7, <2>1 DEF ClearVerification, ArtifactTypes, artifacts, runtime, counters, Terminal
  <2> QED
    BY <2>1, <2>2, TypesSplit
<1>4. CASE ClearOutput(u)
  <2>1. /\ Processes' /\ Keeps(u)
        /\ me'[u].pc = "clear_execution"
        /\ me'[u].state = me[u].state
    BY <1>0, <1>4, GotoMoves DEF ClearOutput, Label, RunState
  <2>2. ArtifactTypes'
    BY <1>0, <1>h, <1>r, <1>4, <2>1 DEF ClearOutput, ArtifactTypes, artifacts, runtime, counters, Terminal
  <2> QED
    BY <2>1, <2>2, TypesSplit
<1>5. CASE ClearExecution(u)
  <2>1. /\ Processes' /\ Keeps(u) /\ me'[u].state = me[u].state /\ me[u].pc = "clear_execution"
        /\ me'[u].pc \in {"clear_execution", "stale"}
    BY <1>0, <1>5, ClearingMoves DEF ClearExecution, At
  <2>2. ArtifactTypes'
    BY <1>0, <1>h, <1>r, <1>5, <2>1, ClearingMoves DEF ClearExecution, ArtifactTypes, artifacts, runtime, counters, Terminal
  <2> QED
    BY <2>1, <2>2, TypesSplit
<1>8. CASE StaleCapability(u)
  <2>1. /\ Processes' /\ Keeps(u) /\ me'[u].state = me[u].state /\ me[u].pc = "stale"
        /\ me'[u].pc \in {"stale", "specify"}
    BY <1>0, <1>8, StaleMoves DEF StaleCapability, At
  <2>2. ArtifactTypes'
    BY <1>0, <1>h, <1>r, <1>8, <2>1, StaleMoves DEF StaleCapability, ArtifactTypes, artifacts, runtime, counters, Terminal
  <2> QED
    BY <2>1, <2>2, TypesSplit
<1>6. CASE Specify(u)
  <2>1. /\ Processes' /\ Keeps(u)
        /\ me'[u].pc = "plan"
        /\ me'[u].state = "SPECIFIED"
    BY <1>0, <1>6, GotoAsMoves DEF Specify, Label, RunState
  <2>2. ArtifactTypes'
    BY <1>0, <1>h, <1>r, <1>6, <2>1 DEF Specify, ArtifactTypes, artifacts, runtime, counters, Terminal, RunState, NoStep, AnyStep, VersionInv, VersionOf, At, Compiling
  <2> QED
    BY <2>1, <2>2, TypesSplit
<1> QED
  BY <1>0, <1>1, <1>2, <1>3, <1>4, <1>5, <1>6, <1>7, <1>8 DEF Restore

LEMMA ExecuteTypes ==
  ASSUME OneAtATime, Inv, NEW u \in Owner, Execute(u)
  PROVE  TypeOK'
<1> USE ConstantsAssumption, NoDraftAssumption
<1>0. ArtifactTypes /\ Processes /\ VersionInv /\ ArtifactInv /\ PlaceInv /\ FinalizedIsBacked
  BY TypesSplit DEF Inv
<1>h. /\ me[u].request \in Request \union {NoRequest} /\ me[u].seen \in Context
      /\ me[u].draft \in Draft \union {NoDraft} /\ me[u].state \in RunState
      /\ me[u].version \in 0 .. MaxAttempts /\ me[u].loaded \in 0 .. MaxAttempts
      /\ MyStep(u) \in AnyStep
  BY <1>0, Holds
<1>r. Recovered \in RunState
  BY RecoveredType DEF Inv
<1>1. CASE Replay(u)
  <2>1. Processes' /\ me'[u] = Idle
    BY <1>0, <1>1, ReturnMoves DEF Replay
  <2>4. answer' \in Answers
    BY <1>0, <1>1, ReturnTypes DEF Replay, ArtifactTypes, Terminal, PlaceInv, PlaceOf, At
  <2>2. ArtifactTypes'
    BY <1>0, <1>h, <1>r, <1>1, <2>1, <2>4 DEF Replay, ArtifactTypes, artifacts, runtime, counters, Terminal
  <2> QED
    BY <2>1, <2>2, TypesSplit
<1>2. CASE Planned(u)
  <2>1. /\ Processes' /\ Keeps(u)
        /\ me'[u].pc = "write_backlog"
        /\ me'[u].state = (IF me[u].state \in {"INIT", "SPECIFIED"} THEN "PLANNED" ELSE me[u].state)
    BY <1>0, <1>2, GotoMoves, GotoAsMoves DEF Planned, Label, RunState
  <2>3. /\ runState'.state \in RunState /\ runState'.version \in 0 .. MaxAttempts
        /\ runState'.step \in AnyStep
    BY <1>0, <1>2, RecordTypes DEF Planned, RunState, ArtifactTypes
  <2>2. ArtifactTypes'
    BY <1>0, <1>h, <1>r, <1>2, <2>1, <2>3 DEF Planned, ArtifactTypes, artifacts, runtime, counters, Terminal
  <2> QED
    BY <2>1, <2>2, TypesSplit
<1>3. CASE WriteBacklog(u)
  <2>1. /\ Processes' /\ Keeps(u)
        /\ me'[u].pc = (IF me[u].draft = NoDraft THEN "refuse"
                        ELSE IF MyStep(u) \in delegates THEN "complete" ELSE "delegate")
        /\ me'[u].state = me[u].state
    BY <1>0, <1>3, GotoMoves DEF WriteBacklog, Label, RunState
  <2>2. ArtifactTypes'
    BY <1>0, <1>h, <1>r, <1>3, <2>1 DEF WriteBacklog, ArtifactTypes, artifacts, runtime, counters, Terminal
  <2> QED
    BY <2>1, <2>2, TypesSplit
<1>4. CASE Refuse(u)
  <2>1. /\ Processes' /\ Keeps(u)
        /\ me'[u].pc = "output_blocked"
        /\ me'[u].state = me[u].state
    BY <1>0, <1>4, GotoMoves DEF Refuse, Label, RunState
  <2>2. ArtifactTypes'
    BY <1>0, <1>h, <1>r, <1>4, <2>1 DEF Refuse, ArtifactTypes, artifacts, runtime, counters, Terminal
  <2> QED
    BY <2>1, <2>2, TypesSplit
<1>5. CASE Delegate(u)
  <2>1. /\ Processes'
        /\ \/ me'[u] = Idle
           \/ /\ me'[u].pc = "issue" /\ Keeps(u) /\ me'[u].state = "DELEGATED"
              /\ Legal(me[u].state, "DELEGATED")
    BY <1>0, <1>5, GotoAsMoves, ReturnMoves DEF Delegate, Label, RunState
  <2>3. /\ runState'.state \in RunState /\ runState'.version \in 0 .. MaxAttempts
        /\ runState'.step \in AnyStep
    BY <1>0, <1>5, RecordTypes DEF Delegate, RunState, ArtifactTypes
  <2>4. answer' \in Answers
    BY <1>0, <1>5, ReturnTypes DEF Delegate, ArtifactTypes, Terminal, PlaceInv, PlaceOf, At
  <2>2. ArtifactTypes'
    BY <1>0, <1>h, <1>r, <1>5, <2>1, <2>3, <2>4 DEF Delegate, ArtifactTypes, artifacts, runtime, counters, Terminal
  <2> QED
    BY <2>1, <2>2, TypesSplit
<1>6. CASE IssueCapability(u)
  <2>r. MyStep(u) \in Step /\ MyStep(u).version = spec.version
    BY <1>0, <1>6, RealStep DEF IssueCapability, At, MustHaveDraft, Delegating, Writing, Recorded, Concluding
  <2>1. /\ Processes' /\ Keeps(u)
        /\ me'[u].pc = "check"
        /\ me'[u].state = me[u].state
    BY <1>0, <1>6, GotoMoves DEF IssueCapability, Label, RunState
  <2>2. ArtifactTypes'
    BY <1>0, <1>h, <1>r, <1>6, <2>1, <2>r DEF IssueCapability, ArtifactTypes, artifacts, runtime, counters, Terminal
  <2> QED
    BY <2>1, <2>2, TypesSplit
<1>7. CASE CheckCapability(u)
  <2>r. MyStep(u) \in Step /\ MyStep(u).version = spec.version
    BY <1>0, <1>7, RealStep DEF CheckCapability, At, MustHaveDraft, Delegating, Writing, Recorded, Concluding
  <2>1. /\ Processes' /\ me'[u].pc \in {"write", "fail_capability"}
        /\ Keeps(u) /\ me'[u].state = me[u].state
    BY <1>0, <1>7, GotoMoves DEF CheckCapability, Label
  <2>2. ArtifactTypes'
    BY <1>0, <1>h, <1>r, <1>7, <2>1, <2>r DEF CheckCapability, ArtifactTypes, artifacts, runtime, counters, Terminal
  <2> QED
    BY <2>1, <2>2, TypesSplit
<1>8. CASE Write(u)
  <2>r. MyStep(u) \in Step /\ MyStep(u).version = spec.version
    BY <1>0, <1>8, RealStep DEF Write, At, MustHaveDraft, Delegating, Writing, Recorded, Concluding
  <2>1. /\ Processes' /\ Keeps(u)
        /\ me'[u].pc = "record"
        /\ me'[u].state = me[u].state
    BY <1>0, <1>8, GotoMoves DEF Write, Label, RunState
  <2>2. ArtifactTypes'
    BY <1>0, <1>h, <1>r, <1>8, <2>1, <2>r DEF Write, ArtifactTypes, artifacts, runtime, counters, Terminal, Ingested, Context, ArtifactInv
  <2> QED
    BY <2>1, <2>2, TypesSplit
<1>9. CASE WriteRaises(u)
  <2>r. MyStep(u) \in Step /\ MyStep(u).version = spec.version
    BY <1>0, <1>9, RealStep DEF WriteRaises, At, MustHaveDraft, Delegating, Writing, Recorded, Concluding
  <2>1. /\ Processes' /\ Keeps(u)
        /\ me'[u].pc = "fail_capability"
        /\ me'[u].state = me[u].state
    BY <1>0, <1>9, GotoMoves DEF WriteRaises, Label, RunState
  <2>2. ArtifactTypes'
    BY <1>0, <1>h, <1>r, <1>9, <2>1, <2>r DEF WriteRaises, ArtifactTypes, artifacts, runtime, counters, Terminal, Ingested, Context, ArtifactInv
  <2> QED
    BY <2>1, <2>2, TypesSplit
<1>10. CASE AppendDelegate(u)
  <2>r. MyStep(u) \in Step /\ MyStep(u).version = spec.version
    BY <1>0, <1>10, RealStep DEF AppendDelegate, At, MustHaveDraft, Delegating, Writing, Recorded, Concluding
  <2>1. /\ Processes' /\ Keeps(u)
        /\ me'[u].pc = "consume"
        /\ me'[u].state = me[u].state
    BY <1>0, <1>10, GotoMoves DEF AppendDelegate, Label, RunState
  <2>2. ArtifactTypes'
    BY <1>0, <1>h, <1>r, <1>10, <2>1, <2>r DEF AppendDelegate, ArtifactTypes, artifacts, runtime, counters, Terminal
  <2> QED
    BY <2>1, <2>2, TypesSplit
<1>11. CASE ConsumeCapability(u)
  <2>r. MyStep(u) \in Step /\ MyStep(u).version = spec.version
    BY <1>0, <1>11, RealStep DEF ConsumeCapability, At, MustHaveDraft, Delegating, Writing, Recorded, Concluding
  <2>1. /\ Processes' /\ Keeps(u)
        /\ me'[u].pc = "written"
        /\ me'[u].state = me[u].state
    BY <1>0, <1>11, GotoMoves DEF ConsumeCapability, Label, RunState
  <2>2. ArtifactTypes'
    BY <1>0, <1>h, <1>r, <1>11, <2>1, <2>r DEF ConsumeCapability, ArtifactTypes, artifacts, runtime, counters, Terminal
  <2> QED
    BY <2>1, <2>2, TypesSplit
<1>12. CASE RecordWritten(u)
  <2>1. /\ Processes' /\ Keeps(u)
        /\ me'[u].pc = "complete"
        /\ me'[u].state = "WRITTEN"
    BY <1>0, <1>12, GotoAsMoves DEF RecordWritten, Label, RunState
  <2>3. /\ runState'.state \in RunState /\ runState'.version \in 0 .. MaxAttempts
        /\ runState'.step \in AnyStep
    BY <1>0, <1>12, RecordTypes DEF RecordWritten, RunState, ArtifactTypes
  <2>2. ArtifactTypes'
    BY <1>0, <1>h, <1>r, <1>12, <2>1, <2>3 DEF RecordWritten, ArtifactTypes, artifacts, runtime, counters, Terminal
  <2> QED
    BY <2>1, <2>2, TypesSplit
<1>13. CASE FailCapability(u)
  <2>r. MyStep(u) \in Step /\ MyStep(u).version = spec.version
    BY <1>0, <1>13, RealStep DEF FailCapability, At, MustHaveDraft, Delegating, Writing, Recorded, Concluding
  <2>1. /\ Processes' /\ Keeps(u)
        /\ me'[u].pc = "fail"
        /\ me'[u].state = me[u].state
    BY <1>0, <1>13, GotoMoves DEF FailCapability, Label, RunState
  <2>2. ArtifactTypes'
    BY <1>0, <1>h, <1>r, <1>13, <2>1, <2>r DEF FailCapability, ArtifactTypes, artifacts, runtime, counters, Terminal
  <2> QED
    BY <2>1, <2>2, TypesSplit
<1> QED
  BY <1>0, <1>1, <1>2, <1>3, <1>4, <1>5, <1>6, <1>7, <1>8, <1>9, <1>10, <1>11, <1>12, <1>13 DEF Execute

LEMMA ConcludeTypes ==
  ASSUME OneAtATime, Inv, NEW u \in Owner, Conclude(u)
  PROVE  TypeOK'
<1> USE ConstantsAssumption, NoDraftAssumption
<1>0. ArtifactTypes /\ Processes /\ VersionInv /\ ArtifactInv /\ PlaceInv /\ FinalizedIsBacked
  BY TypesSplit DEF Inv
<1>h. /\ me[u].request \in Request \union {NoRequest} /\ me[u].seen \in Context
      /\ me[u].draft \in Draft \union {NoDraft} /\ me[u].state \in RunState
      /\ me[u].version \in 0 .. MaxAttempts /\ me[u].loaded \in 0 .. MaxAttempts
      /\ MyStep(u) \in AnyStep
  BY <1>0, Holds
<1>r. Recovered \in RunState
  BY RecoveredType DEF Inv
<1>1. CASE Complete(u)
  <2>r. MyStep(u) \in Step /\ MyStep(u).version = spec.version
    BY <1>0, <1>1, RealStep DEF Complete, At, MustHaveDraft, Delegating, Writing, Recorded, Concluding
  <2>1. /\ Processes' /\ Keeps(u)
        /\ \/ me'[u].pc = "verify" /\ ~Reviewed
           \/ me'[u].pc = "inspect" /\ reviews[MyStep(u)] = "none"
           \/ me'[u].pc = "record_reviewed" /\ reviews[MyStep(u)] = "passed"
           \/ me'[u].pc = "record_vetoed"
    BY <1>0, <1>1, <2>r, ReloadMoves DEF Complete, Label, ArtifactTypes
  <2>2. ArtifactTypes'
    BY <1>0, <1>h, <1>r, <1>1, <2>1, <2>r DEF Complete, ArtifactTypes, artifacts, runtime, counters, Terminal
  <2> QED
    BY <2>1, <2>2, TypesSplit
<1>2. CASE \E v \in {"passed", "failed"} : Inspect(u, v)
  <2>r. MyStep(u) \in Step /\ MyStep(u).version = spec.version
    BY <1>0, <1>2, RealStep DEF Inspect, At, MustHaveDraft, Delegating, Writing, Recorded, Concluding
  <2>1. /\ Processes' /\ Keeps(u)
        /\ \/ me'[u].pc = "record_reviewed" /\ reviews'[MyStep(u)] = "passed"
           \/ me'[u].pc = "record_vetoed"
        /\ \A s \in Step : s # MyStep(u) => reviews'[s] = reviews[s]
    BY <1>0, <1>2, <2>r, GotoMoves DEF Inspect, Label, ArtifactTypes, PlaceInv, PlaceOf, At
  <2>2. ArtifactTypes'
    BY <1>0, <1>h, <1>r, <1>2, <2>1, <2>r DEF Inspect, ArtifactTypes, artifacts, runtime, counters, Terminal
  <2> QED
    BY <2>1, <2>2, TypesSplit
<1>3. CASE InspectRaises(u)
  <2>1. /\ Processes' /\ Keeps(u)
        /\ me'[u].pc = "fail"
        /\ me'[u].state = me[u].state
    BY <1>0, <1>3, GotoMoves DEF InspectRaises, Label, RunState
  <2>2. ArtifactTypes'
    BY <1>0, <1>h, <1>r, <1>3, <2>1 DEF InspectRaises, ArtifactTypes, artifacts, runtime, counters, Terminal
  <2> QED
    BY <2>1, <2>2, TypesSplit
<1>4. CASE RecordReviewed(u)
  <2>r. MyStep(u) \in Step /\ MyStep(u).version = spec.version
    BY <1>0, <1>4, RealStep DEF RecordReviewed, At, MustHaveDraft, Delegating, Writing, Recorded, Concluding
  <2>1. /\ Processes' /\ me'[u].pc \in {"verify", "fail"} /\ Keeps(u)
    BY <1>0, <1>4, GotoMoves DEF RecordReviewed, Label
  <2>3. /\ runState'.state \in RunState /\ runState'.version \in 0 .. MaxAttempts
        /\ runState'.step \in AnyStep
    BY <1>0, <1>4, RecordTypes DEF RecordReviewed, RunState, ArtifactTypes
  <2>2. ArtifactTypes'
    BY <1>0, <1>h, <1>r, <1>4, <2>1, <2>3, <2>r DEF RecordReviewed, ArtifactTypes, artifacts, runtime, counters, Terminal
  <2> QED
    BY <2>1, <2>2, TypesSplit
<1>5. CASE RecordVetoed(u)
  <2>r. MyStep(u) \in Step /\ MyStep(u).version = spec.version
    BY <1>0, <1>5, RealStep DEF RecordVetoed, At, MustHaveDraft, Delegating, Writing, Recorded, Concluding
  <2>1. /\ Processes' /\ me'[u].version = me[u].version
        /\ me'[u].request = me[u].request /\ me'[u].draft = me[u].draft
        /\ \/ me'[u].pc = "verify" /\ me'[u].vetoed
           \/ me'[u].pc = "fail" /\ me'[u].vetoed = me[u].vetoed
    BY <1>0, <1>5, GotoMoves DEF RecordVetoed, Processes, Process, Label, Keeps
  <2>3. /\ runState'.state \in RunState /\ runState'.version \in 0 .. MaxAttempts
        /\ runState'.step \in AnyStep
    BY <1>0, <1>5, RecordTypes DEF RecordVetoed, RunState, ArtifactTypes
  <2>2. ArtifactTypes'
    BY <1>0, <1>h, <1>r, <1>5, <2>1, <2>3, <2>r DEF RecordVetoed, ArtifactTypes, artifacts, runtime, counters, Terminal
  <2> QED
    BY <2>1, <2>2, TypesSplit
<1>6. CASE Verify(u)
  <2>r. MyStep(u) \in Step /\ MyStep(u).version = spec.version
    BY <1>0, <1>6, RealStep DEF Verify, At, MustHaveDraft, Delegating, Writing, Recorded, Concluding
  <2>1. /\ Processes' /\ Keeps(u)
        /\ me'[u].pc = (IF me[u].vetoed THEN "output_blocked" ELSE "conclude")
        /\ me'[u].state = Recovered
    BY <1>0, <1>6, ReloadMoves DEF Verify, Label, RunState
  <2>2. ArtifactTypes'
    BY <1>0, <1>h, <1>r, <1>6, <2>1, <2>r DEF Verify, ArtifactTypes, artifacts, runtime, counters, Terminal
  <2> QED
    BY <2>1, <2>2, TypesSplit
<1>7. CASE RecordVerified(u)
  <2>r. MyStep(u) \in Step /\ MyStep(u).version = spec.version
    BY <1>0, <1>7, RealStep DEF RecordVerified, At, MustHaveDraft, Delegating, Writing, Recorded, Concluding
  <2>1. /\ Processes'
        /\ \/ me'[u] = Idle
           \/ me'[u].pc = "output_finalized" /\ Keeps(u)
    BY <1>0, <1>7, VerifiedMoves
  <2>3. /\ runState'.state \in RunState /\ runState'.version \in 0 .. MaxAttempts
        /\ runState'.step \in AnyStep
    BY <1>0, <1>7, RecordTypes DEF RecordVerified, RunState, ArtifactTypes
  <2>4. answer' \in Answers
    BY <1>0, <1>7, ReturnTypes DEF RecordVerified, ArtifactTypes, Terminal, PlaceInv, PlaceOf, At
  <2>2. ArtifactTypes'
    BY <1>0, <1>h, <1>r, <1>7, <2>1, <2>3, <2>4, <2>r DEF RecordVerified, ArtifactTypes, artifacts, runtime, counters, Terminal
  <2> QED
    BY <2>1, <2>2, TypesSplit
<1>8. CASE OutputFinalized(u)
  <2>r. MyStep(u) \in Step /\ MyStep(u).version = spec.version
    BY <1>0, <1>8, RealStep DEF OutputFinalized, At, MustHaveDraft, Delegating, Writing, Recorded, Concluding
  <2>1. /\ Processes' /\ Keeps(u)
        /\ me'[u].pc = "record_finalized"
        /\ me'[u].state = me[u].state
    BY <1>0, <1>8, GotoMoves DEF OutputFinalized, Label, RunState
  <2>2. ArtifactTypes'
    BY <1>0, <1>h, <1>r, <1>8, <2>1, <2>r DEF OutputFinalized, ArtifactTypes, artifacts, runtime, counters, Terminal
  <2> QED
    BY <2>1, <2>2, TypesSplit
<1>9. CASE RecordFinalized(u)
  <2>r. MyStep(u) \in Step /\ MyStep(u).version = spec.version
    BY <1>0, <1>9, RealStep DEF RecordFinalized, At, MustHaveDraft, Delegating, Writing, Recorded, Concluding
  <2>1. Processes' /\ me'[u] = Idle
    BY <1>0, <1>9, ReturnMoves DEF RecordFinalized
  <2>3. /\ runState'.state \in RunState /\ runState'.version \in 0 .. MaxAttempts
        /\ runState'.step \in AnyStep
    BY <1>0, <1>9, RecordTypes DEF RecordFinalized, RunState, ArtifactTypes
  <2>4. answer' \in Answers
    BY <1>0, <1>9, ReturnTypes DEF RecordFinalized, ArtifactTypes, Terminal, PlaceInv, PlaceOf, At
  <2>2. ArtifactTypes'
    BY <1>0, <1>h, <1>r, <1>9, <2>1, <2>3, <2>4, <2>r DEF RecordFinalized, ArtifactTypes, artifacts, runtime, counters, Terminal
  <2> QED
    BY <2>1, <2>2, TypesSplit
<1>10. CASE OutputBlocked(u)
  <2>1. /\ Processes' /\ Keeps(u)
        /\ me'[u].pc = "record_blocked"
        /\ me'[u].state = me[u].state
    BY <1>0, <1>10, GotoMoves DEF OutputBlocked, Label, RunState
  <2>2. ArtifactTypes'
    BY <1>0, <1>h, <1>r, <1>10, <2>1 DEF OutputBlocked, ArtifactTypes, artifacts, runtime, counters, Terminal
  <2> QED
    BY <2>1, <2>2, TypesSplit
<1>11. CASE RecordBlocked(u)
  <2>1. Processes' /\ me'[u] = Idle
    BY <1>0, <1>11, ReturnMoves DEF RecordBlocked
  <2>3. /\ runState'.state \in RunState /\ runState'.version \in 0 .. MaxAttempts
        /\ runState'.step \in AnyStep
    BY <1>0, <1>11, RecordTypes DEF RecordBlocked, RunState, ArtifactTypes
  <2>4. answer' \in Answers
    BY <1>0, <1>11, ReturnTypes DEF RecordBlocked, ArtifactTypes, Terminal, PlaceInv, PlaceOf, At
  <2>2. ArtifactTypes'
    BY <1>0, <1>h, <1>r, <1>11, <2>1, <2>3, <2>4 DEF RecordBlocked, ArtifactTypes, artifacts, runtime, counters, Terminal
  <2> QED
    BY <2>1, <2>2, TypesSplit
<1>12. CASE Fail(u)
  <2>1. /\ Processes' /\ Keeps(u)
        /\ me'[u].pc = "output_failed"
        /\ me'[u].state = me[u].state
    BY <1>0, <1>12, GotoMoves DEF Fail, Label, RunState
  <2>2. ArtifactTypes'
    BY <1>0, <1>h, <1>r, <1>12, <2>1 DEF Fail, ArtifactTypes, artifacts, runtime, counters, Terminal
  <2> QED
    BY <2>1, <2>2, TypesSplit
<1>13. CASE OutputFailed(u)
  <2>1. /\ Processes' /\ Keeps(u)
        /\ me'[u].pc = "record_failed"
        /\ me'[u].state = me[u].state
    BY <1>0, <1>13, GotoMoves DEF OutputFailed, Label, RunState
  <2>2. ArtifactTypes'
    BY <1>0, <1>h, <1>r, <1>13, <2>1 DEF OutputFailed, ArtifactTypes, artifacts, runtime, counters, Terminal
  <2> QED
    BY <2>1, <2>2, TypesSplit
<1>14. CASE RecordFailed(u)
  <2>1. Processes' /\ me'[u] = Idle
    BY <1>0, <1>14, ReturnMoves DEF RecordFailed
  <2>3. /\ runState'.state \in RunState /\ runState'.version \in 0 .. MaxAttempts
        /\ runState'.step \in AnyStep
    BY <1>0, <1>14, RecordTypes DEF RecordFailed, RunState, ArtifactTypes
  <2>4. answer' \in Answers
    BY <1>0, <1>14, ReturnTypes DEF RecordFailed, ArtifactTypes, Terminal, PlaceInv, PlaceOf, At
  <2>2. ArtifactTypes'
    BY <1>0, <1>h, <1>r, <1>14, <2>1, <2>3, <2>4 DEF RecordFailed, ArtifactTypes, artifacts, runtime, counters, Terminal
  <2> QED
    BY <2>1, <2>2, TypesSplit
<1> QED
  BY <1>0, <1>1, <1>2, <1>3, <1>4, <1>5, <1>6, <1>7, <1>8, <1>9, <1>10, <1>11, <1>12, <1>13, <1>14 DEF Conclude

LEMMA CompileKeeps ==
  ASSUME OneAtATime, Inv, TypeOK', NEW u \in Owner, Compile(u)
  PROVE  VersionInv' /\ ArtifactInv' /\ PlaceInv' /\ FinalizedIsBacked'
<1> USE ConstantsAssumption, NoDraftAssumption
<1>0. ArtifactTypes /\ Processes /\ VersionInv /\ ArtifactInv /\ PlaceInv /\ FinalizedIsBacked
  BY TypesSplit DEF Inv
<1>h. /\ me[u].request \in Request \union {NoRequest} /\ me[u].seen \in Context
      /\ me[u].draft \in Draft \union {NoDraft} /\ me[u].state \in RunState
      /\ me[u].version \in 0 .. MaxAttempts /\ me[u].loaded \in 0 .. MaxAttempts
      /\ MyStep(u) \in AnyStep
  BY <1>0, Holds
<1>r. Recovered \in RunState
  BY RecoveredType DEF Inv
<1> USE DEF Compiling, Opening, Writing, Failing, Blocking, Recorded, Concluding, Ending,
  Delegating, Unconcluded, Opened, MustHaveDraft
<1>o. \A o \in Owner : o = u
  BY DEF OneAtATime
<1>a. ArtifactTypes'
  BY TypesSplit
<1>1. CASE WriteInput(u)
  <2>1. /\ Processes' /\ Keeps(u)
        /\ me'[u].pc = "write_prompt"
        /\ me'[u].state = me[u].state
    BY <1>0, <1>1, GotoMoves DEF WriteInput, Label, RunState
  <2>3. VersionOf(u)' /\ spec'.version <= attempts'
        /\ (spec'.version = 0 => spec'.request = NoRequest /\ finalOutput' = "none")
    BY <1>0, <1>h, <1>a, <1>1, <2>1 DEF WriteInput, ArtifactTypes, artifacts, runtime, counters, Keeps, At, VersionInv, VersionOf, Idle
  <2>4. ArtifactInv'
    BY <1>0, <1>h, <1>a, <1>1, <2>1 DEF WriteInput, ArtifactTypes, artifacts, runtime, counters, Keeps, At, ArtifactInv, VersionInv, PlaceInv, PlaceOf, Backed, RecordedIn, MyStep, Ingested, Context
  <2>5. PlaceOf(u)'
    BY <1>0, <1>h, <1>a, <1>1, <2>1 DEF WriteInput, ArtifactTypes, artifacts, runtime, counters, Keeps, At, ArtifactInv, VersionInv, VersionOf, PlaceInv, PlaceOf, RecordedIn, MyStep, Backed, Idle, Legal, Allowed
  <2>6. FinalizedIsBacked'
    BY <1>0, <1>h, <1>a, <1>1, <2>1, <1>o DEF WriteInput, ArtifactTypes, artifacts, runtime, counters, Keeps, At, FinalizedIsBacked, PlaceInv, PlaceOf, Concluding, RecordedIn, Backed
  <2> QED
    BY <1>o, <2>3, <2>4, <2>5, <2>6 DEF VersionInv, PlaceInv
<1>2. CASE WritePrompt(u)
  <2>1. Processes' /\ me'[u].pc = "write_output" /\ Keeps(u)
    BY <1>0, <1>2, PromptMoves
  <2>3. VersionOf(u)' /\ spec'.version <= attempts'
        /\ (spec'.version = 0 => spec'.request = NoRequest /\ finalOutput' = "none")
    BY <1>0, <1>h, <1>a, <1>2, <2>1 DEF WritePrompt, ArtifactTypes, artifacts, runtime, counters, Keeps, At, VersionInv, VersionOf, Idle
  <2>4. ArtifactInv'
    BY <1>0, <1>h, <1>a, <1>2, <2>1 DEF WritePrompt, ArtifactTypes, artifacts, runtime, counters, Keeps, At, ArtifactInv, VersionInv, PlaceInv, PlaceOf, Backed, RecordedIn, MyStep, Ingested, Context
  <2>5. PlaceOf(u)'
    BY <1>0, <1>h, <1>a, <1>2, <2>1 DEF WritePrompt, ArtifactTypes, artifacts, runtime, counters, Keeps, At, ArtifactInv, VersionInv, VersionOf, PlaceInv, PlaceOf, RecordedIn, MyStep, Backed, Idle, Legal, Allowed
  <2>6. FinalizedIsBacked'
    BY <1>0, <1>h, <1>a, <1>2, <2>1, <1>o DEF WritePrompt, ArtifactTypes, artifacts, runtime, counters, Keeps, At, FinalizedIsBacked, PlaceInv, PlaceOf, Concluding, RecordedIn, Backed
  <2> QED
    BY <1>o, <2>3, <2>4, <2>5, <2>6 DEF VersionInv, PlaceInv
<1>3. CASE WriteOutput(u)
  <2>1. /\ Processes' /\ Keeps(u)
        /\ me'[u].pc = (IF me[u].draft = NoDraft THEN "load" ELSE "write_draft")
        /\ me'[u].state = me[u].state
    BY <1>0, <1>3, GotoMoves DEF WriteOutput, Label, RunState
  <2>3. VersionOf(u)' /\ spec'.version <= attempts'
        /\ (spec'.version = 0 => spec'.request = NoRequest /\ finalOutput' = "none")
    BY <1>0, <1>h, <1>a, <1>3, <2>1 DEF WriteOutput, ArtifactTypes, artifacts, runtime, counters, Keeps, At, VersionInv, VersionOf, Idle
  <2>4. ArtifactInv'
    BY <1>0, <1>h, <1>a, <1>3, <2>1 DEF WriteOutput, ArtifactTypes, artifacts, runtime, counters, Keeps, At, ArtifactInv, VersionInv, PlaceInv, PlaceOf, Backed, RecordedIn, MyStep, Ingested, Context
  <2>5. PlaceOf(u)'
    BY <1>0, <1>h, <1>a, <1>3, <2>1 DEF WriteOutput, ArtifactTypes, artifacts, runtime, counters, Keeps, At, ArtifactInv, VersionInv, VersionOf, PlaceInv, PlaceOf, RecordedIn, MyStep, Backed, Idle, Legal, Allowed
  <2>6. FinalizedIsBacked'
    BY <1>0, <1>h, <1>a, <1>3, <2>1, <1>o DEF WriteOutput, ArtifactTypes, artifacts, runtime, counters, Keeps, At, FinalizedIsBacked, PlaceInv, PlaceOf, Concluding, RecordedIn, Backed
  <2> QED
    BY <1>o, <2>3, <2>4, <2>5, <2>6 DEF VersionInv, PlaceInv
<1>4. CASE WriteDraft(u)
  <2>1. /\ Processes' /\ Keeps(u)
        /\ me'[u].pc = "load"
        /\ me'[u].state = me[u].state
    BY <1>0, <1>4, GotoMoves DEF WriteDraft, Label, RunState
  <2>3. VersionOf(u)' /\ spec'.version <= attempts'
        /\ (spec'.version = 0 => spec'.request = NoRequest /\ finalOutput' = "none")
    BY <1>0, <1>h, <1>a, <1>4, <2>1 DEF WriteDraft, ArtifactTypes, artifacts, runtime, counters, Keeps, At, VersionInv, VersionOf, Idle
  <2>4. ArtifactInv'
    BY <1>0, <1>h, <1>a, <1>4, <2>1 DEF WriteDraft, ArtifactTypes, artifacts, runtime, counters, Keeps, At, ArtifactInv, VersionInv, PlaceInv, PlaceOf, Backed, RecordedIn, MyStep, Ingested, Context
  <2>5. PlaceOf(u)'
    BY <1>0, <1>h, <1>a, <1>4, <2>1 DEF WriteDraft, ArtifactTypes, artifacts, runtime, counters, Keeps, At, ArtifactInv, VersionInv, VersionOf, PlaceInv, PlaceOf, RecordedIn, MyStep, Backed, Idle, Legal, Allowed
  <2>6. FinalizedIsBacked'
    BY <1>0, <1>h, <1>a, <1>4, <2>1, <1>o DEF WriteDraft, ArtifactTypes, artifacts, runtime, counters, Keeps, At, FinalizedIsBacked, PlaceInv, PlaceOf, Concluding, RecordedIn, Backed
  <2> QED
    BY <1>o, <2>3, <2>4, <2>5, <2>6 DEF VersionInv, PlaceInv
<1>5. CASE \E r \in Request :
             \/ BeginWithout(u, r) \/ Begin(u, r, NoDraft)
             \/ \E t \in Take : Begin(u, r, [of |-> r, take |-> t])
  <2>1. /\ Processes' /\ me'[u].request \in Request /\ ~me'[u].vetoed
        /\ me'[u].pc \in {"load", "write_input"} /\ me'[u].version = 0
        /\ attempts' = attempts + 1 /\ attempts < MaxAttempts
    <3>1. ASSUME NEW r \in Request, BeginWithout(u, r)
          PROVE  /\ Processes' /\ me'[u].request \in Request /\ ~me'[u].vetoed
                 /\ me'[u].pc = "load" /\ me'[u].version = 0
                 /\ attempts' = attempts + 1 /\ attempts < MaxAttempts
      BY <1>0, <3>1, IdleType DEF BeginWithout, Idle, Processes, Process, Label
    <3>2. ASSUME NEW r \in Request, NEW d \in Draft \union {NoDraft}, Begin(u, r, d)
          PROVE  /\ Processes' /\ me'[u].request \in Request /\ ~me'[u].vetoed
                 /\ me'[u].pc \in {"load", "write_input"} /\ me'[u].version = 0
                 /\ attempts' = attempts + 1 /\ attempts < MaxAttempts
      BY <1>0, <3>2, IdleType DEF Begin, Idle, Processes, Process, Label, ArtifactTypes
    <3>3. \A r \in Request, t \in Take : [of |-> r, take |-> t] \in Draft
      BY DEF Draft
    <3> QED
      BY <1>5, <3>1, <3>2, <3>3
  <2>2. UNCHANGED <<artifacts, runtime, answer, deaths>>
    BY <1>5 DEF Begin, BeginWithout
  <2>3. VersionOf(u)' /\ spec'.version <= attempts'
        /\ (spec'.version = 0 => spec'.request = NoRequest /\ finalOutput' = "none")
    BY <1>0, <1>h, <1>a, <2>1, <2>2 DEF ArtifactTypes, artifacts, VersionInv, VersionOf, Idle
  <2>4. ArtifactInv'
    BY <1>0, <1>h, <1>a, <2>1, <2>2 DEF ArtifactTypes, artifacts, runtime, ArtifactInv, VersionInv, PlaceInv, PlaceOf, Backed, RecordedIn, MyStep, Context
  <2>5. PlaceOf(u)'
    BY <1>0, <1>h, <1>a, <2>1, <2>2 DEF ArtifactTypes, artifacts, runtime, ArtifactInv, VersionInv, VersionOf, PlaceInv, PlaceOf, RecordedIn, MyStep, Backed, Idle, Legal, Allowed
  <2>6. FinalizedIsBacked'
    BY <1>0, <1>h, <1>a, <2>1, <2>2, <1>o DEF ArtifactTypes, artifacts, runtime, FinalizedIsBacked, PlaceInv, PlaceOf, Concluding, RecordedIn, Backed
  <2> QED
    BY <1>o, <2>3, <2>4, <2>5, <2>6 DEF VersionInv, PlaceInv
<1> QED
  BY <1>0, <1>1, <1>2, <1>3, <1>4, <1>5 DEF Compile

LEMMA RestoreKeeps ==
  ASSUME OneAtATime, Inv, TypeOK', NEW u \in Owner, Restore(u)
  PROVE  VersionInv' /\ ArtifactInv' /\ PlaceInv' /\ FinalizedIsBacked'
<1> USE ConstantsAssumption, NoDraftAssumption
<1>0. ArtifactTypes /\ Processes /\ VersionInv /\ ArtifactInv /\ PlaceInv /\ FinalizedIsBacked
  BY TypesSplit DEF Inv
<1>h. /\ me[u].request \in Request \union {NoRequest} /\ me[u].seen \in Context
      /\ me[u].draft \in Draft \union {NoDraft} /\ me[u].state \in RunState
      /\ me[u].version \in 0 .. MaxAttempts /\ me[u].loaded \in 0 .. MaxAttempts
      /\ MyStep(u) \in AnyStep
  BY <1>0, Holds
<1>r. Recovered \in RunState
  BY RecoveredType DEF Inv
<1> USE DEF Compiling, Opening, Writing, Failing, Blocking, Recorded, Concluding, Ending,
  Delegating, Unconcluded, Opened, MustHaveDraft
<1>o. \A o \in Owner : o = u
  BY DEF OneAtATime
<1>a. ArtifactTypes'
  BY TypesSplit
<1>1. CASE Load(u)
  <2>1. /\ Processes' /\ me'[u].request = me[u].request /\ me'[u].vetoed = me[u].vetoed
        /\ \/ /\ me'[u].pc = "plan" /\ me'[u].version = spec.version
              /\ me'[u].state = Recovered /\ spec.request = me[u].request
           \/ /\ me'[u].pc = "write_spec" /\ me'[u].version = spec.version + 1
    BY <1>0, <1>1, <1>r DEF Load, Processes, Process, Label, ArtifactTypes, VersionInv, VersionOf, At, Compiling
  <2>2. /\ finalOutput # "none" => Recovered = finalOutput \/ Recovered = "FAILED"
        /\ Recovered = "FINALIZED" => RecordedIn(spec.version) # {} /\ finalOutput = "FINALIZED"
        /\ RecordedIn(spec.version) # {} =>
             Recovered \notin {"INIT", "SPECIFIED", "PLANNED", "DELEGATED"}
    BY <1>0 DEF Recovered, ArtifactTypes, Terminal
  <2>3. VersionOf(u)' /\ spec'.version <= attempts'
        /\ (spec'.version = 0 => spec'.request = NoRequest /\ finalOutput' = "none")
    BY <1>0, <1>h, <1>a, <1>1, <2>1, <2>2 DEF Load, ArtifactTypes, artifacts, runtime, counters, Keeps, At, VersionInv, VersionOf, Idle
  <2>4. ArtifactInv'
    BY <1>0, <1>h, <1>a, <1>1, <2>1, <2>2 DEF Load, ArtifactTypes, artifacts, runtime, counters, Keeps, At, ArtifactInv, VersionInv, PlaceInv, PlaceOf, Backed, RecordedIn, MyStep, Ingested, Context
  <2>5. PlaceOf(u)'
    BY <1>0, <1>h, <1>a, <1>1, <2>1, <2>2 DEF Load, ArtifactTypes, artifacts, runtime, counters, Keeps, At, ArtifactInv, VersionInv, VersionOf, PlaceInv, PlaceOf, RecordedIn, MyStep, Backed, Idle, Legal, Allowed
  <2>6. FinalizedIsBacked'
    BY <1>0, <1>h, <1>a, <1>1, <2>1, <2>2, <1>o DEF Load, ArtifactTypes, artifacts, runtime, counters, Keeps, At, FinalizedIsBacked, PlaceInv, PlaceOf, Concluding, RecordedIn, Backed
  <2> QED
    BY <1>o, <2>3, <2>4, <2>5, <2>6 DEF VersionInv, PlaceInv
<1>2. CASE WriteSpec(u)
  <2>1. /\ Processes' /\ Keeps(u)
        /\ me'[u].pc = (IF me[u].version > 1 THEN "clear_plan" ELSE "specify")
        /\ me'[u].state = me[u].state
    BY <1>0, <1>2, GotoMoves DEF WriteSpec, Label, RunState
  <2>2. RecordedIn(spec.version + 1) = {} /\ spec'.version = spec.version + 1
    BY <1>0, <1>2 DEF WriteSpec, At, ArtifactTypes, ArtifactInv, VersionInv, VersionOf, RecordedIn, Step, Version
  <2>3. VersionOf(u)' /\ spec'.version <= attempts'
        /\ (spec'.version = 0 => spec'.request = NoRequest /\ finalOutput' = "none")
    BY <1>0, <1>h, <1>a, <1>2, <2>1, <2>2 DEF WriteSpec, ArtifactTypes, artifacts, runtime, counters, Keeps, At, VersionInv, VersionOf, Idle
  <2>4. ArtifactInv'
    <3>1. UNCHANGED <<written, context, delegates, finalOutput>>
      BY <1>2 DEF WriteSpec, runtime
    <3>2. RecordedIn(spec.version)' = {}
      BY <2>2, <3>1 DEF RecordedIn
    <3>3. \A s \in delegates : s.version <= spec'.version
      BY <1>0, <2>2 DEF ArtifactInv, ArtifactTypes, Step, Version
    <3> QED
      BY <1>0, <3>1, <3>2, <3>3 DEF ArtifactInv
  <2>5. PlaceOf(u)'
    BY <1>0, <1>h, <1>a, <1>2, <2>1, <2>2 DEF WriteSpec, ArtifactTypes, artifacts, runtime, counters, Keeps, At, ArtifactInv, VersionInv, VersionOf, PlaceInv, PlaceOf, RecordedIn, MyStep, Backed, Idle, Legal, Allowed
  <2>6. FinalizedIsBacked'
    BY <1>0, <1>h, <1>a, <1>2, <2>1, <2>2, <1>o DEF WriteSpec, ArtifactTypes, artifacts, runtime, counters, Keeps, At, FinalizedIsBacked, PlaceInv, PlaceOf, Concluding, RecordedIn, Backed
  <2> QED
    BY <1>o, <2>3, <2>4, <2>5, <2>6 DEF VersionInv, PlaceInv
<1>3. CASE ClearPlan(u)
  <2>1. /\ Processes' /\ Keeps(u)
        /\ me'[u].pc = "clear_verification"
        /\ me'[u].state = me[u].state
    BY <1>0, <1>3, GotoMoves DEF ClearPlan, Label, RunState
  <2>3. VersionOf(u)' /\ spec'.version <= attempts'
        /\ (spec'.version = 0 => spec'.request = NoRequest /\ finalOutput' = "none")
    BY <1>0, <1>h, <1>a, <1>3, <2>1 DEF ClearPlan, ArtifactTypes, artifacts, runtime, counters, Keeps, At, VersionInv, VersionOf, Idle
  <2>4. ArtifactInv'
    BY <1>0, <1>h, <1>a, <1>3, <2>1 DEF ClearPlan, ArtifactTypes, artifacts, runtime, counters, Keeps, At, ArtifactInv, VersionInv, PlaceInv, PlaceOf, Backed, RecordedIn, MyStep, Ingested, Context
  <2>5. PlaceOf(u)'
    BY <1>0, <1>h, <1>a, <1>3, <2>1 DEF ClearPlan, ArtifactTypes, artifacts, runtime, counters, Keeps, At, ArtifactInv, VersionInv, VersionOf, PlaceInv, PlaceOf, RecordedIn, MyStep, Backed, Idle, Legal, Allowed
  <2>6. FinalizedIsBacked'
    BY <1>0, <1>h, <1>a, <1>3, <2>1, <1>o DEF ClearPlan, ArtifactTypes, artifacts, runtime, counters, Keeps, At, FinalizedIsBacked, PlaceInv, PlaceOf, Concluding, RecordedIn, Backed
  <2> QED
    BY <1>o, <2>3, <2>4, <2>5, <2>6 DEF VersionInv, PlaceInv
<1>7. CASE ClearVerification(u)
  <2>1. /\ Processes' /\ Keeps(u)
        /\ me'[u].pc = "clear_output"
        /\ me'[u].state = me[u].state
    BY <1>0, <1>7, GotoMoves DEF ClearVerification, Label, RunState
  <2>3. VersionOf(u)' /\ spec'.version <= attempts'
        /\ (spec'.version = 0 => spec'.request = NoRequest /\ finalOutput' = "none")
    BY <1>0, <1>h, <1>a, <1>7, <2>1 DEF ClearVerification, ArtifactTypes, artifacts, runtime, counters, Keeps, At, VersionInv, VersionOf, Idle
  <2>4. ArtifactInv'
    BY <1>0, <1>h, <1>a, <1>7, <2>1 DEF ClearVerification, ArtifactTypes, artifacts, runtime, counters, Keeps, At, ArtifactInv, VersionInv, PlaceInv, PlaceOf, Backed, RecordedIn, MyStep, Ingested, Context
  <2>5. PlaceOf(u)'
    BY <1>0, <1>h, <1>a, <1>7, <2>1 DEF ClearVerification, ArtifactTypes, artifacts, runtime, counters, Keeps, At, ArtifactInv, VersionInv, VersionOf, PlaceInv, PlaceOf, RecordedIn, MyStep, Backed, Idle, Legal, Allowed
  <2>6. FinalizedIsBacked'
    BY <1>0, <1>h, <1>a, <1>7, <2>1, <1>o DEF ClearVerification, ArtifactTypes, artifacts, runtime, counters, Keeps, At, FinalizedIsBacked, PlaceInv, PlaceOf, Concluding, RecordedIn, Backed
  <2> QED
    BY <1>o, <2>3, <2>4, <2>5, <2>6 DEF VersionInv, PlaceInv
<1>4. CASE ClearOutput(u)
  <2>1. /\ Processes' /\ Keeps(u)
        /\ me'[u].pc = "clear_execution"
        /\ me'[u].state = me[u].state
    BY <1>0, <1>4, GotoMoves DEF ClearOutput, Label, RunState
  <2>3. VersionOf(u)' /\ spec'.version <= attempts'
        /\ (spec'.version = 0 => spec'.request = NoRequest /\ finalOutput' = "none")
    BY <1>0, <1>h, <1>a, <1>4, <2>1 DEF ClearOutput, ArtifactTypes, artifacts, runtime, counters, Keeps, At, VersionInv, VersionOf, Idle
  <2>4. ArtifactInv'
    BY <1>0, <1>h, <1>a, <1>4, <2>1 DEF ClearOutput, ArtifactTypes, artifacts, runtime, counters, Keeps, At, ArtifactInv, VersionInv, PlaceInv, PlaceOf, Backed, RecordedIn, MyStep, Ingested, Context
  <2>5. PlaceOf(u)'
    BY <1>0, <1>h, <1>a, <1>4, <2>1 DEF ClearOutput, ArtifactTypes, artifacts, runtime, counters, Keeps, At, ArtifactInv, VersionInv, VersionOf, PlaceInv, PlaceOf, RecordedIn, MyStep, Backed, Idle, Legal, Allowed
  <2>6. FinalizedIsBacked'
    BY <1>0, <1>h, <1>a, <1>4, <2>1, <1>o DEF ClearOutput, ArtifactTypes, artifacts, runtime, counters, Keeps, At, FinalizedIsBacked, PlaceInv, PlaceOf, Concluding, RecordedIn, Backed
  <2> QED
    BY <1>o, <2>3, <2>4, <2>5, <2>6 DEF VersionInv, PlaceInv
<1>5. CASE ClearExecution(u)
  <2>1. /\ Processes' /\ Keeps(u) /\ me'[u].state = me[u].state /\ me[u].pc = "clear_execution"
        /\ me'[u].pc \in {"clear_execution", "stale"}
    BY <1>0, <1>5, ClearingMoves DEF ClearExecution, At
  <2>3. VersionOf(u)' /\ spec'.version <= attempts'
        /\ (spec'.version = 0 => spec'.request = NoRequest /\ finalOutput' = "none")
    BY <1>0, <1>h, <1>a, <1>5, <2>1 DEF ClearExecution, ArtifactTypes, artifacts, runtime, counters, Keeps, At, VersionInv, VersionOf, Idle
  <2>4. ArtifactInv'
    BY <1>0, <1>h, <1>a, <1>5, <2>1 DEF ClearExecution, ArtifactTypes, artifacts, runtime, counters, Keeps, At, ArtifactInv, VersionInv, PlaceInv, PlaceOf, Backed, RecordedIn, MyStep, Ingested, Context
  <2>5. PlaceOf(u)'
    BY <1>0, <1>h, <1>a, <1>5, <2>1 DEF ClearExecution, ArtifactTypes, artifacts, runtime, counters, Keeps, At, ArtifactInv, VersionInv, VersionOf, PlaceInv, PlaceOf, RecordedIn, MyStep, Backed, Idle, Legal, Allowed
  <2>6. FinalizedIsBacked'
    BY <1>0, <1>h, <1>a, <1>5, <2>1, <1>o DEF ClearExecution, ArtifactTypes, artifacts, runtime, counters, Keeps, At, FinalizedIsBacked, PlaceInv, PlaceOf, Concluding, RecordedIn, Backed
  <2> QED
    BY <1>o, <2>3, <2>4, <2>5, <2>6 DEF VersionInv, PlaceInv
<1>8. CASE StaleCapability(u)
  <2>1. /\ Processes' /\ Keeps(u) /\ me'[u].state = me[u].state /\ me[u].pc = "stale"
        /\ me'[u].pc \in {"stale", "specify"}
    BY <1>0, <1>8, StaleMoves DEF StaleCapability, At
  <2>3. VersionOf(u)' /\ spec'.version <= attempts'
        /\ (spec'.version = 0 => spec'.request = NoRequest /\ finalOutput' = "none")
    BY <1>0, <1>h, <1>a, <1>8, <2>1 DEF StaleCapability, ArtifactTypes, artifacts, runtime, counters, Keeps, At, VersionInv, VersionOf, Idle
  <2>4. ArtifactInv'
    BY <1>0, <1>h, <1>a, <1>8, <2>1 DEF StaleCapability, ArtifactTypes, artifacts, runtime, counters, Keeps, At, ArtifactInv, VersionInv, PlaceInv, PlaceOf, Backed, RecordedIn, MyStep, Ingested, Context
  <2>5. PlaceOf(u)'
    BY <1>0, <1>h, <1>a, <1>8, <2>1 DEF StaleCapability, ArtifactTypes, artifacts, runtime, counters, Keeps, At, ArtifactInv, VersionInv, VersionOf, PlaceInv, PlaceOf, RecordedIn, MyStep, Backed, Idle, Legal, Allowed
  <2>6. FinalizedIsBacked'
    BY <1>0, <1>h, <1>a, <1>8, <2>1, <1>o DEF StaleCapability, ArtifactTypes, artifacts, runtime, counters, Keeps, At, FinalizedIsBacked, PlaceInv, PlaceOf, Concluding, RecordedIn, Backed
  <2> QED
    BY <1>o, <2>3, <2>4, <2>5, <2>6 DEF VersionInv, PlaceInv
<1>6. CASE Specify(u)
  <2>1. /\ Processes' /\ Keeps(u)
        /\ me'[u].pc = "plan"
        /\ me'[u].state = "SPECIFIED"
    BY <1>0, <1>6, GotoAsMoves DEF Specify, Label, RunState
  <2>3. VersionOf(u)' /\ spec'.version <= attempts'
        /\ (spec'.version = 0 => spec'.request = NoRequest /\ finalOutput' = "none")
    BY <1>0, <1>h, <1>a, <1>6, <2>1 DEF Specify, ArtifactTypes, artifacts, runtime, counters, Keeps, At, VersionInv, VersionOf, Idle
  <2>4. ArtifactInv'
    BY <1>0, <1>h, <1>a, <1>6, <2>1 DEF Specify, ArtifactTypes, artifacts, runtime, counters, Keeps, At, ArtifactInv, VersionInv, PlaceInv, PlaceOf, Backed, RecordedIn, MyStep, Ingested, Context
  <2>5. PlaceOf(u)'
    BY <1>0, <1>h, <1>a, <1>6, <2>1 DEF Specify, ArtifactTypes, artifacts, runtime, counters, Keeps, At, ArtifactInv, VersionInv, VersionOf, PlaceInv, PlaceOf, RecordedIn, MyStep, Backed, Idle, Legal, Allowed
  <2>6. FinalizedIsBacked'
    BY <1>0, <1>h, <1>a, <1>6, <2>1, <1>o DEF Specify, ArtifactTypes, artifacts, runtime, counters, Keeps, At, FinalizedIsBacked, PlaceInv, PlaceOf, Concluding, RecordedIn, Backed
  <2> QED
    BY <1>o, <2>3, <2>4, <2>5, <2>6 DEF VersionInv, PlaceInv
<1> QED
  BY <1>0, <1>1, <1>2, <1>3, <1>4, <1>5, <1>6, <1>7, <1>8 DEF Restore

LEMMA ExecuteKeeps ==
  ASSUME OneAtATime, Inv, TypeOK', NEW u \in Owner, Execute(u)
  PROVE  VersionInv' /\ ArtifactInv' /\ PlaceInv' /\ FinalizedIsBacked'
<1> USE ConstantsAssumption, NoDraftAssumption
<1>0. ArtifactTypes /\ Processes /\ VersionInv /\ ArtifactInv /\ PlaceInv /\ FinalizedIsBacked
  BY TypesSplit DEF Inv
<1>h. /\ me[u].request \in Request \union {NoRequest} /\ me[u].seen \in Context
      /\ me[u].draft \in Draft \union {NoDraft} /\ me[u].state \in RunState
      /\ me[u].version \in 0 .. MaxAttempts /\ me[u].loaded \in 0 .. MaxAttempts
      /\ MyStep(u) \in AnyStep
  BY <1>0, Holds
<1>r. Recovered \in RunState
  BY RecoveredType DEF Inv
<1> USE DEF Compiling, Opening, Writing, Failing, Blocking, Recorded, Concluding, Ending,
  Delegating, Unconcluded, Opened, MustHaveDraft
<1>o. \A o \in Owner : o = u
  BY DEF OneAtATime
<1>a. ArtifactTypes'
  BY TypesSplit
<1>1. CASE Replay(u)
  <2>1. Processes' /\ me'[u] = Idle
    BY <1>0, <1>1, ReturnMoves DEF Replay
  <2>2. /\ answer'[u].version = spec.version
        /\ answer'[u].result = "FINALIZED" => Backed(spec.version)
    BY <1>0, <1>1, ReturnAnswers DEF Replay, At, ArtifactTypes, VersionInv, VersionOf, Opened, PlaceInv, PlaceOf
  <2>3. VersionOf(u)' /\ spec'.version <= attempts'
        /\ (spec'.version = 0 => spec'.request = NoRequest /\ finalOutput' = "none")
    BY <1>0, <1>h, <1>a, <1>1, <2>1, <2>2 DEF Replay, ArtifactTypes, artifacts, runtime, counters, Keeps, At, VersionInv, VersionOf, Idle
  <2>4. ArtifactInv'
    BY <1>0, <1>h, <1>a, <1>1, <2>1, <2>2 DEF Replay, ArtifactTypes, artifacts, runtime, counters, Keeps, At, ArtifactInv, VersionInv, PlaceInv, PlaceOf, Backed, RecordedIn, MyStep, Ingested, Context
  <2>5. PlaceOf(u)'
    BY <1>0, <1>h, <1>a, <1>1, <2>1, <2>2 DEF Replay, ArtifactTypes, artifacts, runtime, counters, Keeps, At, ArtifactInv, VersionInv, VersionOf, PlaceInv, PlaceOf, RecordedIn, MyStep, Backed, Idle, Legal, Allowed
  <2>6. FinalizedIsBacked'
    BY <1>0, <1>h, <1>a, <1>1, <2>1, <2>2, <1>o DEF Replay, ArtifactTypes, artifacts, runtime, counters, Keeps, At, FinalizedIsBacked, PlaceInv, PlaceOf, Concluding, RecordedIn, Backed
  <2> QED
    BY <1>o, <2>3, <2>4, <2>5, <2>6 DEF VersionInv, PlaceInv
<1>2. CASE Planned(u)
  <2>1. /\ Processes' /\ Keeps(u)
        /\ me'[u].pc = "write_backlog"
        /\ me'[u].state = (IF me[u].state \in {"INIT", "SPECIFIED"} THEN "PLANNED" ELSE me[u].state)
    BY <1>0, <1>2, GotoMoves, GotoAsMoves DEF Planned, Label, RunState
  <2>2. /\ finalOutput = "none"
        /\ me[u].state \in {"INIT", "SPECIFIED"} => RecordedIn(spec.version) = {}
    BY <1>0, <1>2 DEF Planned, At, ArtifactTypes, PlaceInv, PlaceOf, Terminal
  <2>3. VersionOf(u)' /\ spec'.version <= attempts'
        /\ (spec'.version = 0 => spec'.request = NoRequest /\ finalOutput' = "none")
    BY <1>0, <1>h, <1>a, <1>2, <2>1, <2>2 DEF Planned, ArtifactTypes, artifacts, runtime, counters, Keeps, At, VersionInv, VersionOf, Idle
  <2>4. ArtifactInv'
    BY <1>0, <1>h, <1>a, <1>2, <2>1, <2>2 DEF Planned, ArtifactTypes, artifacts, runtime, counters, Keeps, At, ArtifactInv, VersionInv, PlaceInv, PlaceOf, Backed, RecordedIn, MyStep, Ingested, Context
  <2>5. PlaceOf(u)'
    BY <1>0, <1>h, <1>a, <1>2, <2>1, <2>2 DEF Planned, ArtifactTypes, artifacts, runtime, counters, Keeps, At, ArtifactInv, VersionInv, VersionOf, PlaceInv, PlaceOf, RecordedIn, MyStep, Backed, Idle, Legal, Allowed
  <2>6. FinalizedIsBacked'
    BY <1>0, <1>h, <1>a, <1>2, <2>1, <2>2, <1>o DEF Planned, ArtifactTypes, artifacts, runtime, counters, Keeps, At, FinalizedIsBacked, PlaceInv, PlaceOf, Concluding, RecordedIn, Backed
  <2> QED
    BY <1>o, <2>3, <2>4, <2>5, <2>6 DEF VersionInv, PlaceInv
<1>3. CASE WriteBacklog(u)
  <2>1. /\ Processes' /\ Keeps(u)
        /\ me'[u].pc = (IF me[u].draft = NoDraft THEN "refuse"
                        ELSE IF MyStep(u) \in delegates THEN "complete" ELSE "delegate")
        /\ me'[u].state = me[u].state
    BY <1>0, <1>3, GotoMoves DEF WriteBacklog, Label, RunState
  <2>3. VersionOf(u)' /\ spec'.version <= attempts'
        /\ (spec'.version = 0 => spec'.request = NoRequest /\ finalOutput' = "none")
    BY <1>0, <1>h, <1>a, <1>3, <2>1 DEF WriteBacklog, ArtifactTypes, artifacts, runtime, counters, Keeps, At, VersionInv, VersionOf, Idle
  <2>4. ArtifactInv'
    BY <1>0, <1>h, <1>a, <1>3, <2>1 DEF WriteBacklog, ArtifactTypes, artifacts, runtime, counters, Keeps, At, ArtifactInv, VersionInv, PlaceInv, PlaceOf, Backed, RecordedIn, MyStep, Ingested, Context
  <2>5. PlaceOf(u)'
    BY <1>0, <1>h, <1>a, <1>3, <2>1 DEF WriteBacklog, ArtifactTypes, artifacts, runtime, counters, Keeps, At, ArtifactInv, VersionInv, VersionOf, PlaceInv, PlaceOf, RecordedIn, MyStep, Backed, Idle, Legal, Allowed
  <2>6. FinalizedIsBacked'
    BY <1>0, <1>h, <1>a, <1>3, <2>1, <1>o DEF WriteBacklog, ArtifactTypes, artifacts, runtime, counters, Keeps, At, FinalizedIsBacked, PlaceInv, PlaceOf, Concluding, RecordedIn, Backed
  <2> QED
    BY <1>o, <2>3, <2>4, <2>5, <2>6 DEF VersionInv, PlaceInv
<1>4. CASE Refuse(u)
  <2>1. /\ Processes' /\ Keeps(u)
        /\ me'[u].pc = "output_blocked"
        /\ me'[u].state = me[u].state
    BY <1>0, <1>4, GotoMoves DEF Refuse, Label, RunState
  <2>3. VersionOf(u)' /\ spec'.version <= attempts'
        /\ (spec'.version = 0 => spec'.request = NoRequest /\ finalOutput' = "none")
    BY <1>0, <1>h, <1>a, <1>4, <2>1 DEF Refuse, ArtifactTypes, artifacts, runtime, counters, Keeps, At, VersionInv, VersionOf, Idle
  <2>4. ArtifactInv'
    BY <1>0, <1>h, <1>a, <1>4, <2>1 DEF Refuse, ArtifactTypes, artifacts, runtime, counters, Keeps, At, ArtifactInv, VersionInv, PlaceInv, PlaceOf, Backed, RecordedIn, MyStep, Ingested, Context
  <2>5. PlaceOf(u)'
    BY <1>0, <1>h, <1>a, <1>4, <2>1 DEF Refuse, ArtifactTypes, artifacts, runtime, counters, Keeps, At, ArtifactInv, VersionInv, VersionOf, PlaceInv, PlaceOf, RecordedIn, MyStep, Backed, Idle, Legal, Allowed
  <2>6. FinalizedIsBacked'
    BY <1>0, <1>h, <1>a, <1>4, <2>1, <1>o DEF Refuse, ArtifactTypes, artifacts, runtime, counters, Keeps, At, FinalizedIsBacked, PlaceInv, PlaceOf, Concluding, RecordedIn, Backed
  <2> QED
    BY <1>o, <2>3, <2>4, <2>5, <2>6 DEF VersionInv, PlaceInv
<1>5. CASE Delegate(u)
  <2>1. /\ Processes'
        /\ \/ me'[u] = Idle
           \/ /\ me'[u].pc = "issue" /\ Keeps(u) /\ me'[u].state = "DELEGATED"
              /\ Legal(me[u].state, "DELEGATED")
    BY <1>0, <1>5, GotoAsMoves, ReturnMoves DEF Delegate, Label, RunState
  <2>2. Legal(me[u].state, "DELEGATED") => me[u].state \in {"PLANNED", "DELEGATED"}
    BY <1>h DEF Legal, Allowed, RunState
  <2>3. VersionOf(u)' /\ spec'.version <= attempts'
        /\ (spec'.version = 0 => spec'.request = NoRequest /\ finalOutput' = "none")
    BY <1>0, <1>h, <1>a, <1>5, <2>1, <2>2 DEF Delegate, ArtifactTypes, artifacts, runtime, counters, Keeps, At, VersionInv, VersionOf, Idle
  <2>4. ArtifactInv'
    BY <1>0, <1>h, <1>a, <1>5, <2>1, <2>2 DEF Delegate, ArtifactTypes, artifacts, runtime, counters, Keeps, At, ArtifactInv, VersionInv, PlaceInv, PlaceOf, Backed, RecordedIn, MyStep, Ingested, Context
  <2>5. PlaceOf(u)'
    BY <1>0, <1>h, <1>a, <1>5, <2>1, <2>2 DEF Delegate, ArtifactTypes, artifacts, runtime, counters, Keeps, At, ArtifactInv, VersionInv, VersionOf, PlaceInv, PlaceOf, RecordedIn, MyStep, Backed, Idle, Legal, Allowed
  <2>7. answer' = answer \/ answer'[u].result = "raised"
    BY <1>0, <1>5, ReturnAnswers DEF Delegate, ArtifactTypes
  <2>6. FinalizedIsBacked'
    BY <1>0, <1>h, <1>a, <1>5, <2>1, <2>2, <1>o, <2>7 DEF Delegate, ArtifactTypes, artifacts, runtime, counters, Keeps, At, FinalizedIsBacked, PlaceInv, PlaceOf, Concluding, RecordedIn, Backed
  <2> QED
    BY <1>o, <2>3, <2>4, <2>5, <2>6 DEF VersionInv, PlaceInv
<1>6. CASE IssueCapability(u)
  <2>r. MyStep(u) \in Step /\ MyStep(u).version = spec.version
    BY <1>0, <1>6, RealStep DEF IssueCapability, At, MustHaveDraft, Delegating, Writing, Recorded, Concluding
  <2>1. /\ Processes' /\ Keeps(u)
        /\ me'[u].pc = "check"
        /\ me'[u].state = me[u].state
    BY <1>0, <1>6, GotoMoves DEF IssueCapability, Label, RunState
  <2>3. VersionOf(u)' /\ spec'.version <= attempts'
        /\ (spec'.version = 0 => spec'.request = NoRequest /\ finalOutput' = "none")
    BY <1>0, <1>h, <1>a, <1>6, <2>1, <2>r DEF IssueCapability, ArtifactTypes, artifacts, runtime, counters, Keeps, At, VersionInv, VersionOf, Idle
  <2>4. ArtifactInv'
    BY <1>0, <1>h, <1>a, <1>6, <2>1, <2>r DEF IssueCapability, ArtifactTypes, artifacts, runtime, counters, Keeps, At, ArtifactInv, VersionInv, PlaceInv, PlaceOf, Backed, RecordedIn, MyStep, Ingested, Context
  <2>5. PlaceOf(u)'
    BY <1>0, <1>h, <1>a, <1>6, <2>1, <2>r DEF IssueCapability, ArtifactTypes, artifacts, runtime, counters, Keeps, At, ArtifactInv, VersionInv, VersionOf, PlaceInv, PlaceOf, RecordedIn, MyStep, Backed, Idle, Legal, Allowed
  <2>6. FinalizedIsBacked'
    BY <1>0, <1>h, <1>a, <1>6, <2>1, <2>r, <1>o DEF IssueCapability, ArtifactTypes, artifacts, runtime, counters, Keeps, At, FinalizedIsBacked, PlaceInv, PlaceOf, Concluding, RecordedIn, Backed
  <2> QED
    BY <1>o, <2>3, <2>4, <2>5, <2>6 DEF VersionInv, PlaceInv
<1>7. CASE CheckCapability(u)
  <2>r. MyStep(u) \in Step /\ MyStep(u).version = spec.version
    BY <1>0, <1>7, RealStep DEF CheckCapability, At, MustHaveDraft, Delegating, Writing, Recorded, Concluding
  <2>1. /\ Processes' /\ me'[u].pc \in {"write", "fail_capability"}
        /\ Keeps(u) /\ me'[u].state = me[u].state
    BY <1>0, <1>7, GotoMoves DEF CheckCapability, Label
  <2>3. VersionOf(u)' /\ spec'.version <= attempts'
        /\ (spec'.version = 0 => spec'.request = NoRequest /\ finalOutput' = "none")
    BY <1>0, <1>h, <1>a, <1>7, <2>1, <2>r DEF CheckCapability, ArtifactTypes, artifacts, runtime, counters, Keeps, At, VersionInv, VersionOf, Idle
  <2>4. ArtifactInv'
    BY <1>0, <1>h, <1>a, <1>7, <2>1, <2>r DEF CheckCapability, ArtifactTypes, artifacts, runtime, counters, Keeps, At, ArtifactInv, VersionInv, PlaceInv, PlaceOf, Backed, RecordedIn, MyStep, Ingested, Context
  <2>5. PlaceOf(u)'
    BY <1>0, <1>h, <1>a, <1>7, <2>1, <2>r DEF CheckCapability, ArtifactTypes, artifacts, runtime, counters, Keeps, At, ArtifactInv, VersionInv, VersionOf, PlaceInv, PlaceOf, RecordedIn, MyStep, Backed, Idle, Legal, Allowed
  <2>6. FinalizedIsBacked'
    BY <1>0, <1>h, <1>a, <1>7, <2>1, <2>r, <1>o DEF CheckCapability, ArtifactTypes, artifacts, runtime, counters, Keeps, At, FinalizedIsBacked, PlaceInv, PlaceOf, Concluding, RecordedIn, Backed
  <2> QED
    BY <1>o, <2>3, <2>4, <2>5, <2>6 DEF VersionInv, PlaceInv
<1>8. CASE Write(u)
  <2>r. MyStep(u) \in Step /\ MyStep(u).version = spec.version
    BY <1>0, <1>8, RealStep DEF Write, At, MustHaveDraft, Delegating, Writing, Recorded, Concluding
  <2>1. /\ Processes' /\ Keeps(u)
        /\ me'[u].pc = "record"
        /\ me'[u].state = me[u].state
    BY <1>0, <1>8, GotoMoves DEF Write, Label, RunState
  <2>2. /\ \A s \in Step : written'[s] >= written[s]
        /\ written'[MyStep(u)] > 0
    BY <1>0, <1>8, <2>r DEF Write, Ingested, ArtifactTypes, Context
  <2>3. VersionOf(u)' /\ spec'.version <= attempts'
        /\ (spec'.version = 0 => spec'.request = NoRequest /\ finalOutput' = "none")
    BY <1>0, <1>h, <1>a, <1>8, <2>1, <2>r, <2>2 DEF Write, ArtifactTypes, artifacts, runtime, counters, Keeps, At, VersionInv, VersionOf, Idle
  <2>4. ArtifactInv'
    BY <1>0, <1>h, <1>a, <1>8, <2>1, <2>r, <2>2 DEF Write, ArtifactTypes, artifacts, runtime, counters, Keeps, At, ArtifactInv, VersionInv, PlaceInv, PlaceOf, Backed, RecordedIn, MyStep, Ingested, Context
  <2>5. PlaceOf(u)'
    BY <1>0, <1>h, <1>a, <1>8, <2>1, <2>r, <2>2 DEF Write, ArtifactTypes, artifacts, runtime, counters, Keeps, At, ArtifactInv, VersionInv, VersionOf, PlaceInv, PlaceOf, RecordedIn, MyStep, Backed, Idle, Legal, Allowed
  <2>b. \A v : Backed(v) => Backed(v)'
    BY <1>0, <1>a, <2>2, <1>8, BackedStays DEF Write, artifacts
  <2>6. FinalizedIsBacked'
    BY <1>0, <1>8, <2>b DEF Write, FinalizedIsBacked, Backed
  <2> QED
    BY <1>o, <2>3, <2>4, <2>5, <2>6 DEF VersionInv, PlaceInv
<1>9. CASE WriteRaises(u)
  <2>r. MyStep(u) \in Step /\ MyStep(u).version = spec.version
    BY <1>0, <1>9, RealStep DEF WriteRaises, At, MustHaveDraft, Delegating, Writing, Recorded, Concluding
  <2>1. /\ Processes' /\ Keeps(u)
        /\ me'[u].pc = "fail_capability"
        /\ me'[u].state = me[u].state
    BY <1>0, <1>9, GotoMoves DEF WriteRaises, Label, RunState
  <2>2. \A s \in Step : written'[s] >= written[s] /\ written'[s] <= context'
    BY <1>0, <1>9, <2>r DEF WriteRaises, Ingested, ArtifactTypes, ArtifactInv, Context, runtime
  <2>3. VersionOf(u)' /\ spec'.version <= attempts'
        /\ (spec'.version = 0 => spec'.request = NoRequest /\ finalOutput' = "none")
    BY <1>0, <1>h, <1>a, <1>9, <2>1, <2>r, <2>2 DEF WriteRaises, ArtifactTypes, artifacts, runtime, counters, Keeps, At, VersionInv, VersionOf, Idle
  <2>4. ArtifactInv'
    BY <1>0, <1>h, <1>a, <1>9, <2>1, <2>r, <2>2 DEF WriteRaises, ArtifactTypes, artifacts, runtime, counters, Keeps, At, ArtifactInv, VersionInv, PlaceInv, PlaceOf, Backed, RecordedIn, MyStep, Ingested, Context
  <2>5. PlaceOf(u)'
    BY <1>0, <1>h, <1>a, <1>9, <2>1, <2>r, <2>2 DEF WriteRaises, ArtifactTypes, artifacts, runtime, counters, Keeps, At, ArtifactInv, VersionInv, VersionOf, PlaceInv, PlaceOf, RecordedIn, MyStep, Backed, Idle, Legal, Allowed
  <2>b. \A v : Backed(v) => Backed(v)'
    BY <1>0, <1>a, <2>2, <1>9, BackedStays DEF WriteRaises, artifacts
  <2>6. FinalizedIsBacked'
    BY <1>0, <1>9, <2>b DEF WriteRaises, FinalizedIsBacked, Backed
  <2> QED
    BY <1>o, <2>3, <2>4, <2>5, <2>6 DEF VersionInv, PlaceInv
<1>10. CASE AppendDelegate(u)
  <2>r. MyStep(u) \in Step /\ MyStep(u).version = spec.version
    BY <1>0, <1>10, RealStep DEF AppendDelegate, At, MustHaveDraft, Delegating, Writing, Recorded, Concluding
  <2>1. /\ Processes' /\ Keeps(u)
        /\ me'[u].pc = "consume"
        /\ me'[u].state = me[u].state
    BY <1>0, <1>10, GotoMoves DEF AppendDelegate, Label, RunState
  <2>3. VersionOf(u)' /\ spec'.version <= attempts'
        /\ (spec'.version = 0 => spec'.request = NoRequest /\ finalOutput' = "none")
    BY <1>0, <1>h, <1>a, <1>10, <2>1, <2>r DEF AppendDelegate, ArtifactTypes, artifacts, runtime, counters, Keeps, At, VersionInv, VersionOf, Idle
  <2>4. ArtifactInv'
    BY <1>0, <1>h, <1>a, <1>10, <2>1, <2>r DEF AppendDelegate, ArtifactTypes, artifacts, runtime, counters, Keeps, At, ArtifactInv, VersionInv, PlaceInv, PlaceOf, Backed, RecordedIn, MyStep, Ingested, Context
  <2>5. PlaceOf(u)'
    BY <1>0, <1>h, <1>a, <1>10, <2>1, <2>r DEF AppendDelegate, ArtifactTypes, artifacts, runtime, counters, Keeps, At, ArtifactInv, VersionInv, VersionOf, PlaceInv, PlaceOf, RecordedIn, MyStep, Backed, Idle, Legal, Allowed
  <2>6. FinalizedIsBacked'
    BY <1>0, <1>h, <1>a, <1>10, <2>1, <2>r, <1>o DEF AppendDelegate, ArtifactTypes, artifacts, runtime, counters, Keeps, At, FinalizedIsBacked, PlaceInv, PlaceOf, Concluding, RecordedIn, Backed
  <2> QED
    BY <1>o, <2>3, <2>4, <2>5, <2>6 DEF VersionInv, PlaceInv
<1>11. CASE ConsumeCapability(u)
  <2>r. MyStep(u) \in Step /\ MyStep(u).version = spec.version
    BY <1>0, <1>11, RealStep DEF ConsumeCapability, At, MustHaveDraft, Delegating, Writing, Recorded, Concluding
  <2>1. /\ Processes' /\ Keeps(u)
        /\ me'[u].pc = "written"
        /\ me'[u].state = me[u].state
    BY <1>0, <1>11, GotoMoves DEF ConsumeCapability, Label, RunState
  <2>3. VersionOf(u)' /\ spec'.version <= attempts'
        /\ (spec'.version = 0 => spec'.request = NoRequest /\ finalOutput' = "none")
    BY <1>0, <1>h, <1>a, <1>11, <2>1, <2>r DEF ConsumeCapability, ArtifactTypes, artifacts, runtime, counters, Keeps, At, VersionInv, VersionOf, Idle
  <2>4. ArtifactInv'
    BY <1>0, <1>h, <1>a, <1>11, <2>1, <2>r DEF ConsumeCapability, ArtifactTypes, artifacts, runtime, counters, Keeps, At, ArtifactInv, VersionInv, PlaceInv, PlaceOf, Backed, RecordedIn, MyStep, Ingested, Context
  <2>5. PlaceOf(u)'
    BY <1>0, <1>h, <1>a, <1>11, <2>1, <2>r DEF ConsumeCapability, ArtifactTypes, artifacts, runtime, counters, Keeps, At, ArtifactInv, VersionInv, VersionOf, PlaceInv, PlaceOf, RecordedIn, MyStep, Backed, Idle, Legal, Allowed
  <2>6. FinalizedIsBacked'
    BY <1>0, <1>h, <1>a, <1>11, <2>1, <2>r, <1>o DEF ConsumeCapability, ArtifactTypes, artifacts, runtime, counters, Keeps, At, FinalizedIsBacked, PlaceInv, PlaceOf, Concluding, RecordedIn, Backed
  <2> QED
    BY <1>o, <2>3, <2>4, <2>5, <2>6 DEF VersionInv, PlaceInv
<1>12. CASE RecordWritten(u)
  <2>1. /\ Processes' /\ Keeps(u)
        /\ me'[u].pc = "complete"
        /\ me'[u].state = "WRITTEN"
    BY <1>0, <1>12, GotoAsMoves DEF RecordWritten, Label, RunState
  <2>3. VersionOf(u)' /\ spec'.version <= attempts'
        /\ (spec'.version = 0 => spec'.request = NoRequest /\ finalOutput' = "none")
    BY <1>0, <1>h, <1>a, <1>12, <2>1 DEF RecordWritten, ArtifactTypes, artifacts, runtime, counters, Keeps, At, VersionInv, VersionOf, Idle
  <2>4. ArtifactInv'
    BY <1>0, <1>h, <1>a, <1>12, <2>1 DEF RecordWritten, ArtifactTypes, artifacts, runtime, counters, Keeps, At, ArtifactInv, VersionInv, PlaceInv, PlaceOf, Backed, RecordedIn, MyStep, Ingested, Context
  <2>5. PlaceOf(u)'
    BY <1>0, <1>h, <1>a, <1>12, <2>1 DEF RecordWritten, ArtifactTypes, artifacts, runtime, counters, Keeps, At, ArtifactInv, VersionInv, VersionOf, PlaceInv, PlaceOf, RecordedIn, MyStep, Backed, Idle, Legal, Allowed
  <2>6. FinalizedIsBacked'
    BY <1>0, <1>h, <1>a, <1>12, <2>1, <1>o DEF RecordWritten, ArtifactTypes, artifacts, runtime, counters, Keeps, At, FinalizedIsBacked, PlaceInv, PlaceOf, Concluding, RecordedIn, Backed
  <2> QED
    BY <1>o, <2>3, <2>4, <2>5, <2>6 DEF VersionInv, PlaceInv
<1>13. CASE FailCapability(u)
  <2>r. MyStep(u) \in Step /\ MyStep(u).version = spec.version
    BY <1>0, <1>13, RealStep DEF FailCapability, At, MustHaveDraft, Delegating, Writing, Recorded, Concluding
  <2>1. /\ Processes' /\ Keeps(u)
        /\ me'[u].pc = "fail"
        /\ me'[u].state = me[u].state
    BY <1>0, <1>13, GotoMoves DEF FailCapability, Label, RunState
  <2>3. VersionOf(u)' /\ spec'.version <= attempts'
        /\ (spec'.version = 0 => spec'.request = NoRequest /\ finalOutput' = "none")
    BY <1>0, <1>h, <1>a, <1>13, <2>1, <2>r DEF FailCapability, ArtifactTypes, artifacts, runtime, counters, Keeps, At, VersionInv, VersionOf, Idle
  <2>4. ArtifactInv'
    BY <1>0, <1>h, <1>a, <1>13, <2>1, <2>r DEF FailCapability, ArtifactTypes, artifacts, runtime, counters, Keeps, At, ArtifactInv, VersionInv, PlaceInv, PlaceOf, Backed, RecordedIn, MyStep, Ingested, Context
  <2>5. PlaceOf(u)'
    BY <1>0, <1>h, <1>a, <1>13, <2>1, <2>r DEF FailCapability, ArtifactTypes, artifacts, runtime, counters, Keeps, At, ArtifactInv, VersionInv, VersionOf, PlaceInv, PlaceOf, RecordedIn, MyStep, Backed, Idle, Legal, Allowed
  <2>6. FinalizedIsBacked'
    BY <1>0, <1>h, <1>a, <1>13, <2>1, <2>r, <1>o DEF FailCapability, ArtifactTypes, artifacts, runtime, counters, Keeps, At, FinalizedIsBacked, PlaceInv, PlaceOf, Concluding, RecordedIn, Backed
  <2> QED
    BY <1>o, <2>3, <2>4, <2>5, <2>6 DEF VersionInv, PlaceInv
<1> QED
  BY <1>0, <1>1, <1>2, <1>3, <1>4, <1>5, <1>6, <1>7, <1>8, <1>9, <1>10, <1>11, <1>12, <1>13 DEF Execute

LEMMA ConcludeKeeps ==
  ASSUME OneAtATime, Inv, TypeOK', NEW u \in Owner, Conclude(u)
  PROVE  VersionInv' /\ ArtifactInv' /\ PlaceInv' /\ FinalizedIsBacked'
<1> USE ConstantsAssumption, NoDraftAssumption
<1>0. ArtifactTypes /\ Processes /\ VersionInv /\ ArtifactInv /\ PlaceInv /\ FinalizedIsBacked
  BY TypesSplit DEF Inv
<1>h. /\ me[u].request \in Request \union {NoRequest} /\ me[u].seen \in Context
      /\ me[u].draft \in Draft \union {NoDraft} /\ me[u].state \in RunState
      /\ me[u].version \in 0 .. MaxAttempts /\ me[u].loaded \in 0 .. MaxAttempts
      /\ MyStep(u) \in AnyStep
  BY <1>0, Holds
<1>r. Recovered \in RunState
  BY RecoveredType DEF Inv
<1> USE DEF Compiling, Opening, Writing, Failing, Blocking, Recorded, Concluding, Ending,
  Delegating, Unconcluded, Opened, MustHaveDraft
<1>o. \A o \in Owner : o = u
  BY DEF OneAtATime
<1>a. ArtifactTypes'
  BY TypesSplit
<1>1. CASE Complete(u)
  <2>r. MyStep(u) \in Step /\ MyStep(u).version = spec.version
    BY <1>0, <1>1, RealStep DEF Complete, At, MustHaveDraft, Delegating, Writing, Recorded, Concluding
  <2>1. /\ Processes' /\ Keeps(u)
        /\ \/ me'[u].pc = "verify" /\ ~Reviewed
           \/ me'[u].pc = "inspect" /\ reviews[MyStep(u)] = "none"
           \/ me'[u].pc = "record_reviewed" /\ reviews[MyStep(u)] = "passed"
           \/ me'[u].pc = "record_vetoed"
    BY <1>0, <1>1, <2>r, ReloadMoves DEF Complete, Label, ArtifactTypes
  <2>3. VersionOf(u)' /\ spec'.version <= attempts'
        /\ (spec'.version = 0 => spec'.request = NoRequest /\ finalOutput' = "none")
    BY <1>0, <1>h, <1>a, <1>1, <2>1, <2>r DEF Complete, ArtifactTypes, artifacts, runtime, counters, Keeps, At, VersionInv, VersionOf, Idle
  <2>4. ArtifactInv'
    BY <1>0, <1>h, <1>a, <1>1, <2>1, <2>r DEF Complete, ArtifactTypes, artifacts, runtime, counters, Keeps, At, ArtifactInv, VersionInv, PlaceInv, PlaceOf, Backed, RecordedIn, MyStep, Ingested, Context
  <2>5. PlaceOf(u)'
    BY <1>0, <1>h, <1>a, <1>1, <2>1, <2>r DEF Complete, ArtifactTypes, artifacts, runtime, counters, Keeps, At, ArtifactInv, VersionInv, VersionOf, PlaceInv, PlaceOf, RecordedIn, MyStep, Backed, Idle, Legal, Allowed
  <2>6. FinalizedIsBacked'
    BY <1>0, <1>h, <1>a, <1>1, <2>1, <2>r, <1>o DEF Complete, ArtifactTypes, artifacts, runtime, counters, Keeps, At, FinalizedIsBacked, PlaceInv, PlaceOf, Concluding, RecordedIn, Backed
  <2> QED
    BY <1>o, <2>3, <2>4, <2>5, <2>6 DEF VersionInv, PlaceInv
<1>2. CASE \E v \in {"passed", "failed"} : Inspect(u, v)
  <2>r. MyStep(u) \in Step /\ MyStep(u).version = spec.version
    BY <1>0, <1>2, RealStep DEF Inspect, At, MustHaveDraft, Delegating, Writing, Recorded, Concluding
  <2>1. /\ Processes' /\ Keeps(u)
        /\ \/ me'[u].pc = "record_reviewed" /\ reviews'[MyStep(u)] = "passed"
           \/ me'[u].pc = "record_vetoed"
        /\ \A s \in Step : s # MyStep(u) => reviews'[s] = reviews[s]
    BY <1>0, <1>2, <2>r, GotoMoves DEF Inspect, Label, ArtifactTypes, PlaceInv, PlaceOf, At
  <2>3. VersionOf(u)' /\ spec'.version <= attempts'
        /\ (spec'.version = 0 => spec'.request = NoRequest /\ finalOutput' = "none")
    BY <1>0, <1>h, <1>a, <1>2, <2>1, <2>r DEF Inspect, ArtifactTypes, artifacts, runtime, counters, Keeps, At, VersionInv, VersionOf, Idle
  <2>4. ArtifactInv'
    BY <1>0, <1>h, <1>a, <1>2, <2>1, <2>r DEF Inspect, ArtifactTypes, artifacts, runtime, counters, Keeps, At, ArtifactInv, VersionInv, PlaceInv, PlaceOf, Backed, RecordedIn, MyStep, Ingested, Context
  <2>5. PlaceOf(u)'
    BY <1>0, <1>h, <1>a, <1>2, <2>1, <2>r DEF Inspect, ArtifactTypes, artifacts, runtime, counters, Keeps, At, ArtifactInv, VersionInv, VersionOf, PlaceInv, PlaceOf, RecordedIn, MyStep, Backed, Idle, Legal, Allowed
  <2>6. FinalizedIsBacked'
    BY <1>0, <1>h, <1>a, <1>2, <2>1, <2>r, <1>o DEF Inspect, ArtifactTypes, artifacts, runtime, counters, Keeps, At, FinalizedIsBacked, PlaceInv, PlaceOf, Concluding, RecordedIn, Backed
  <2> QED
    BY <1>o, <2>3, <2>4, <2>5, <2>6 DEF VersionInv, PlaceInv
<1>3. CASE InspectRaises(u)
  <2>1. /\ Processes' /\ Keeps(u)
        /\ me'[u].pc = "fail"
        /\ me'[u].state = me[u].state
    BY <1>0, <1>3, GotoMoves DEF InspectRaises, Label, RunState
  <2>3. VersionOf(u)' /\ spec'.version <= attempts'
        /\ (spec'.version = 0 => spec'.request = NoRequest /\ finalOutput' = "none")
    BY <1>0, <1>h, <1>a, <1>3, <2>1 DEF InspectRaises, ArtifactTypes, artifacts, runtime, counters, Keeps, At, VersionInv, VersionOf, Idle
  <2>4. ArtifactInv'
    BY <1>0, <1>h, <1>a, <1>3, <2>1 DEF InspectRaises, ArtifactTypes, artifacts, runtime, counters, Keeps, At, ArtifactInv, VersionInv, PlaceInv, PlaceOf, Backed, RecordedIn, MyStep, Ingested, Context
  <2>5. PlaceOf(u)'
    BY <1>0, <1>h, <1>a, <1>3, <2>1 DEF InspectRaises, ArtifactTypes, artifacts, runtime, counters, Keeps, At, ArtifactInv, VersionInv, VersionOf, PlaceInv, PlaceOf, RecordedIn, MyStep, Backed, Idle, Legal, Allowed
  <2>6. FinalizedIsBacked'
    BY <1>0, <1>h, <1>a, <1>3, <2>1, <1>o DEF InspectRaises, ArtifactTypes, artifacts, runtime, counters, Keeps, At, FinalizedIsBacked, PlaceInv, PlaceOf, Concluding, RecordedIn, Backed
  <2> QED
    BY <1>o, <2>3, <2>4, <2>5, <2>6 DEF VersionInv, PlaceInv
<1>4. CASE RecordReviewed(u)
  <2>r. MyStep(u) \in Step /\ MyStep(u).version = spec.version
    BY <1>0, <1>4, RealStep DEF RecordReviewed, At, MustHaveDraft, Delegating, Writing, Recorded, Concluding
  <2>1. /\ Processes' /\ me'[u].pc \in {"verify", "fail"} /\ Keeps(u)
    BY <1>0, <1>4, GotoMoves DEF RecordReviewed, Label
  <2>3. VersionOf(u)' /\ spec'.version <= attempts'
        /\ (spec'.version = 0 => spec'.request = NoRequest /\ finalOutput' = "none")
    BY <1>0, <1>h, <1>a, <1>4, <2>1, <2>r DEF RecordReviewed, ArtifactTypes, artifacts, runtime, counters, Keeps, At, VersionInv, VersionOf, Idle
  <2>4. ArtifactInv'
    BY <1>0, <1>h, <1>a, <1>4, <2>1, <2>r DEF RecordReviewed, ArtifactTypes, artifacts, runtime, counters, Keeps, At, ArtifactInv, VersionInv, PlaceInv, PlaceOf, Backed, RecordedIn, MyStep, Ingested, Context
  <2>5. PlaceOf(u)'
    BY <1>0, <1>h, <1>a, <1>4, <2>1, <2>r DEF RecordReviewed, ArtifactTypes, artifacts, runtime, counters, Keeps, At, ArtifactInv, VersionInv, VersionOf, PlaceInv, PlaceOf, RecordedIn, MyStep, Backed, Idle, Legal, Allowed
  <2>6. FinalizedIsBacked'
    BY <1>0, <1>h, <1>a, <1>4, <2>1, <2>r, <1>o DEF RecordReviewed, ArtifactTypes, artifacts, runtime, counters, Keeps, At, FinalizedIsBacked, PlaceInv, PlaceOf, Concluding, RecordedIn, Backed
  <2> QED
    BY <1>o, <2>3, <2>4, <2>5, <2>6 DEF VersionInv, PlaceInv
<1>5. CASE RecordVetoed(u)
  <2>r. MyStep(u) \in Step /\ MyStep(u).version = spec.version
    BY <1>0, <1>5, RealStep DEF RecordVetoed, At, MustHaveDraft, Delegating, Writing, Recorded, Concluding
  <2>1. /\ Processes' /\ me'[u].version = me[u].version
        /\ me'[u].request = me[u].request /\ me'[u].draft = me[u].draft
        /\ \/ me'[u].pc = "verify" /\ me'[u].vetoed
           \/ me'[u].pc = "fail" /\ me'[u].vetoed = me[u].vetoed
    BY <1>0, <1>5, GotoMoves DEF RecordVetoed, Processes, Process, Label, Keeps
  <2>3. VersionOf(u)' /\ spec'.version <= attempts'
        /\ (spec'.version = 0 => spec'.request = NoRequest /\ finalOutput' = "none")
    BY <1>0, <1>h, <1>a, <1>5, <2>1, <2>r DEF RecordVetoed, ArtifactTypes, artifacts, runtime, counters, Keeps, At, VersionInv, VersionOf, Idle
  <2>4. ArtifactInv'
    BY <1>0, <1>h, <1>a, <1>5, <2>1, <2>r DEF RecordVetoed, ArtifactTypes, artifacts, runtime, counters, Keeps, At, ArtifactInv, VersionInv, PlaceInv, PlaceOf, Backed, RecordedIn, MyStep, Ingested, Context
  <2>5. PlaceOf(u)'
    BY <1>0, <1>h, <1>a, <1>5, <2>1, <2>r DEF RecordVetoed, ArtifactTypes, artifacts, runtime, counters, Keeps, At, ArtifactInv, VersionInv, VersionOf, PlaceInv, PlaceOf, RecordedIn, MyStep, Backed, Idle, Legal, Allowed
  <2>6. FinalizedIsBacked'
    BY <1>0, <1>h, <1>a, <1>5, <2>1, <2>r, <1>o DEF RecordVetoed, ArtifactTypes, artifacts, runtime, counters, Keeps, At, FinalizedIsBacked, PlaceInv, PlaceOf, Concluding, RecordedIn, Backed
  <2> QED
    BY <1>o, <2>3, <2>4, <2>5, <2>6 DEF VersionInv, PlaceInv
<1>6. CASE Verify(u)
  <2>r. MyStep(u) \in Step /\ MyStep(u).version = spec.version
    BY <1>0, <1>6, RealStep DEF Verify, At, MustHaveDraft, Delegating, Writing, Recorded, Concluding
  <2>1. /\ Processes' /\ Keeps(u)
        /\ me'[u].pc = (IF me[u].vetoed THEN "output_blocked" ELSE "conclude")
        /\ me'[u].state = Recovered
    BY <1>0, <1>6, ReloadMoves DEF Verify, Label, RunState
  <2>3. VersionOf(u)' /\ spec'.version <= attempts'
        /\ (spec'.version = 0 => spec'.request = NoRequest /\ finalOutput' = "none")
    BY <1>0, <1>h, <1>a, <1>6, <2>1, <2>r DEF Verify, ArtifactTypes, artifacts, runtime, counters, Keeps, At, VersionInv, VersionOf, Idle
  <2>4. ArtifactInv'
    BY <1>0, <1>h, <1>a, <1>6, <2>1, <2>r DEF Verify, ArtifactTypes, artifacts, runtime, counters, Keeps, At, ArtifactInv, VersionInv, PlaceInv, PlaceOf, Backed, RecordedIn, MyStep, Ingested, Context
  <2>5. PlaceOf(u)'
    BY <1>0, <1>h, <1>a, <1>6, <2>1, <2>r DEF Verify, ArtifactTypes, artifacts, runtime, counters, Keeps, At, ArtifactInv, VersionInv, VersionOf, PlaceInv, PlaceOf, RecordedIn, MyStep, Backed, Idle, Legal, Allowed
  <2>6. FinalizedIsBacked'
    BY <1>0, <1>h, <1>a, <1>6, <2>1, <2>r, <1>o DEF Verify, ArtifactTypes, artifacts, runtime, counters, Keeps, At, FinalizedIsBacked, PlaceInv, PlaceOf, Concluding, RecordedIn, Backed
  <2> QED
    BY <1>o, <2>3, <2>4, <2>5, <2>6 DEF VersionInv, PlaceInv
<1>7. CASE RecordVerified(u)
  <2>r. MyStep(u) \in Step /\ MyStep(u).version = spec.version
    BY <1>0, <1>7, RealStep DEF RecordVerified, At, MustHaveDraft, Delegating, Writing, Recorded, Concluding
  <2>1. /\ Processes'
        /\ \/ me'[u] = Idle
           \/ me'[u].pc = "output_finalized" /\ Keeps(u)
    BY <1>0, <1>7, VerifiedMoves
  <2>2. answer'[u].result = "raised" \/ answer' = answer
    BY <1>0, <1>7, ReturnAnswers DEF RecordVerified, ArtifactTypes
  <2>3. VersionOf(u)' /\ spec'.version <= attempts'
        /\ (spec'.version = 0 => spec'.request = NoRequest /\ finalOutput' = "none")
    BY <1>0, <1>h, <1>a, <1>7, <2>1, <2>r, <2>2 DEF RecordVerified, ArtifactTypes, artifacts, runtime, counters, Keeps, At, VersionInv, VersionOf, Idle
  <2>4. ArtifactInv'
    BY <1>0, <1>h, <1>a, <1>7, <2>1, <2>r, <2>2 DEF RecordVerified, ArtifactTypes, artifacts, runtime, counters, Keeps, At, ArtifactInv, VersionInv, PlaceInv, PlaceOf, Backed, RecordedIn, MyStep, Ingested, Context
  <2>5. PlaceOf(u)'
    BY <1>0, <1>h, <1>a, <1>7, <2>1, <2>r, <2>2 DEF RecordVerified, ArtifactTypes, artifacts, runtime, counters, Keeps, At, ArtifactInv, VersionInv, VersionOf, PlaceInv, PlaceOf, RecordedIn, MyStep, Backed, Idle, Legal, Allowed
  <2>6. FinalizedIsBacked'
    BY <1>0, <1>h, <1>a, <1>7, <2>1, <2>r, <2>2, <1>o DEF RecordVerified, ArtifactTypes, artifacts, runtime, counters, Keeps, At, FinalizedIsBacked, PlaceInv, PlaceOf, Concluding, RecordedIn, Backed
  <2> QED
    BY <1>o, <2>3, <2>4, <2>5, <2>6 DEF VersionInv, PlaceInv
<1>8. CASE OutputFinalized(u)
  <2>r. MyStep(u) \in Step /\ MyStep(u).version = spec.version
    BY <1>0, <1>8, RealStep DEF OutputFinalized, At, MustHaveDraft, Delegating, Writing, Recorded, Concluding
  <2>1. /\ Processes' /\ Keeps(u)
        /\ me'[u].pc = "record_finalized"
        /\ me'[u].state = me[u].state
    BY <1>0, <1>8, GotoMoves DEF OutputFinalized, Label, RunState
  <2>3. VersionOf(u)' /\ spec'.version <= attempts'
        /\ (spec'.version = 0 => spec'.request = NoRequest /\ finalOutput' = "none")
    BY <1>0, <1>h, <1>a, <1>8, <2>1, <2>r DEF OutputFinalized, ArtifactTypes, artifacts, runtime, counters, Keeps, At, VersionInv, VersionOf, Idle
  <2>4. ArtifactInv'
    BY <1>0, <1>h, <1>a, <1>8, <2>1, <2>r DEF OutputFinalized, ArtifactTypes, artifacts, runtime, counters, Keeps, At, ArtifactInv, VersionInv, PlaceInv, PlaceOf, Backed, RecordedIn, MyStep, Ingested, Context
  <2>5. PlaceOf(u)'
    BY <1>0, <1>h, <1>a, <1>8, <2>1, <2>r DEF OutputFinalized, ArtifactTypes, artifacts, runtime, counters, Keeps, At, ArtifactInv, VersionInv, VersionOf, PlaceInv, PlaceOf, RecordedIn, MyStep, Backed, Idle, Legal, Allowed
  <2>6. FinalizedIsBacked'
    BY <1>0, <1>h, <1>a, <1>8, <2>1, <2>r, <1>o DEF OutputFinalized, ArtifactTypes, artifacts, runtime, counters, Keeps, At, FinalizedIsBacked, PlaceInv, PlaceOf, Concluding, RecordedIn, Backed
  <2> QED
    BY <1>o, <2>3, <2>4, <2>5, <2>6 DEF VersionInv, PlaceInv
<1>9. CASE RecordFinalized(u)
  <2>r. MyStep(u) \in Step /\ MyStep(u).version = spec.version
    BY <1>0, <1>9, RealStep DEF RecordFinalized, At, MustHaveDraft, Delegating, Writing, Recorded, Concluding
  <2>1. Processes' /\ me'[u] = Idle
    BY <1>0, <1>9, ReturnMoves DEF RecordFinalized
  <2>2. answer'[u].version = spec.version
    BY <1>0, <1>9, ReturnAnswers DEF RecordFinalized, At, ArtifactTypes, VersionInv, VersionOf, Opened, Ending
  <2>3. VersionOf(u)' /\ spec'.version <= attempts'
        /\ (spec'.version = 0 => spec'.request = NoRequest /\ finalOutput' = "none")
    BY <1>0, <1>h, <1>a, <1>9, <2>1, <2>r, <2>2 DEF RecordFinalized, ArtifactTypes, artifacts, runtime, counters, Keeps, At, VersionInv, VersionOf, Idle
  <2>4. ArtifactInv'
    BY <1>0, <1>h, <1>a, <1>9, <2>1, <2>r, <2>2 DEF RecordFinalized, ArtifactTypes, artifacts, runtime, counters, Keeps, At, ArtifactInv, VersionInv, PlaceInv, PlaceOf, Backed, RecordedIn, MyStep, Ingested, Context
  <2>5. PlaceOf(u)'
    BY <1>0, <1>h, <1>a, <1>9, <2>1, <2>r, <2>2 DEF RecordFinalized, ArtifactTypes, artifacts, runtime, counters, Keeps, At, ArtifactInv, VersionInv, VersionOf, PlaceInv, PlaceOf, RecordedIn, MyStep, Backed, Idle, Legal, Allowed
  <2>7. MyStep(u) \in RecordedIn(spec.version) /\ written[MyStep(u)] > 0
        /\ (Reviewed => reviews[MyStep(u)] = "passed")
    BY <1>0, <1>9, <2>r DEF RecordFinalized, At, PlaceInv, PlaceOf, ArtifactInv, RecordedIn
  <2>6. FinalizedIsBacked'
    BY <1>0, <1>h, <1>a, <1>9, <2>1, <2>r, <2>2, <1>o, <2>7 DEF RecordFinalized, ArtifactTypes, artifacts, runtime, counters, Keeps, At, FinalizedIsBacked, PlaceInv, PlaceOf, Concluding, RecordedIn, Backed
  <2> QED
    BY <1>o, <2>3, <2>4, <2>5, <2>6 DEF VersionInv, PlaceInv
<1>10. CASE OutputBlocked(u)
  <2>1. /\ Processes' /\ Keeps(u)
        /\ me'[u].pc = "record_blocked"
        /\ me'[u].state = me[u].state
    BY <1>0, <1>10, GotoMoves DEF OutputBlocked, Label, RunState
  <2>3. VersionOf(u)' /\ spec'.version <= attempts'
        /\ (spec'.version = 0 => spec'.request = NoRequest /\ finalOutput' = "none")
    BY <1>0, <1>h, <1>a, <1>10, <2>1 DEF OutputBlocked, ArtifactTypes, artifacts, runtime, counters, Keeps, At, VersionInv, VersionOf, Idle
  <2>4. ArtifactInv'
    BY <1>0, <1>h, <1>a, <1>10, <2>1 DEF OutputBlocked, ArtifactTypes, artifacts, runtime, counters, Keeps, At, ArtifactInv, VersionInv, PlaceInv, PlaceOf, Backed, RecordedIn, MyStep, Ingested, Context
  <2>5. PlaceOf(u)'
    BY <1>0, <1>h, <1>a, <1>10, <2>1 DEF OutputBlocked, ArtifactTypes, artifacts, runtime, counters, Keeps, At, ArtifactInv, VersionInv, VersionOf, PlaceInv, PlaceOf, RecordedIn, MyStep, Backed, Idle, Legal, Allowed
  <2>6. FinalizedIsBacked'
    BY <1>0, <1>h, <1>a, <1>10, <2>1, <1>o DEF OutputBlocked, ArtifactTypes, artifacts, runtime, counters, Keeps, At, FinalizedIsBacked, PlaceInv, PlaceOf, Concluding, RecordedIn, Backed
  <2> QED
    BY <1>o, <2>3, <2>4, <2>5, <2>6 DEF VersionInv, PlaceInv
<1>11. CASE RecordBlocked(u)
  <2>1. Processes' /\ me'[u] = Idle
    BY <1>0, <1>11, ReturnMoves DEF RecordBlocked
  <2>2. answer'[u].result \in {"BLOCKED", "raised"}
    BY <1>0, <1>11, ReturnAnswers DEF RecordBlocked, ArtifactTypes
  <2>3. VersionOf(u)' /\ spec'.version <= attempts'
        /\ (spec'.version = 0 => spec'.request = NoRequest /\ finalOutput' = "none")
    BY <1>0, <1>h, <1>a, <1>11, <2>1, <2>2 DEF RecordBlocked, ArtifactTypes, artifacts, runtime, counters, Keeps, At, VersionInv, VersionOf, Idle
  <2>4. ArtifactInv'
    BY <1>0, <1>h, <1>a, <1>11, <2>1, <2>2 DEF RecordBlocked, ArtifactTypes, artifacts, runtime, counters, Keeps, At, ArtifactInv, VersionInv, PlaceInv, PlaceOf, Backed, RecordedIn, MyStep, Ingested, Context
  <2>5. PlaceOf(u)'
    BY <1>0, <1>h, <1>a, <1>11, <2>1, <2>2 DEF RecordBlocked, ArtifactTypes, artifacts, runtime, counters, Keeps, At, ArtifactInv, VersionInv, VersionOf, PlaceInv, PlaceOf, RecordedIn, MyStep, Backed, Idle, Legal, Allowed
  <2>6. FinalizedIsBacked'
    BY <1>0, <1>h, <1>a, <1>11, <2>1, <2>2, <1>o DEF RecordBlocked, ArtifactTypes, artifacts, runtime, counters, Keeps, At, FinalizedIsBacked, PlaceInv, PlaceOf, Concluding, RecordedIn, Backed
  <2> QED
    BY <1>o, <2>3, <2>4, <2>5, <2>6 DEF VersionInv, PlaceInv
<1>12. CASE Fail(u)
  <2>1. /\ Processes' /\ Keeps(u)
        /\ me'[u].pc = "output_failed"
        /\ me'[u].state = me[u].state
    BY <1>0, <1>12, GotoMoves DEF Fail, Label, RunState
  <2>3. VersionOf(u)' /\ spec'.version <= attempts'
        /\ (spec'.version = 0 => spec'.request = NoRequest /\ finalOutput' = "none")
    BY <1>0, <1>h, <1>a, <1>12, <2>1 DEF Fail, ArtifactTypes, artifacts, runtime, counters, Keeps, At, VersionInv, VersionOf, Idle
  <2>4. ArtifactInv'
    BY <1>0, <1>h, <1>a, <1>12, <2>1 DEF Fail, ArtifactTypes, artifacts, runtime, counters, Keeps, At, ArtifactInv, VersionInv, PlaceInv, PlaceOf, Backed, RecordedIn, MyStep, Ingested, Context
  <2>5. PlaceOf(u)'
    BY <1>0, <1>h, <1>a, <1>12, <2>1 DEF Fail, ArtifactTypes, artifacts, runtime, counters, Keeps, At, ArtifactInv, VersionInv, VersionOf, PlaceInv, PlaceOf, RecordedIn, MyStep, Backed, Idle, Legal, Allowed
  <2>6. FinalizedIsBacked'
    BY <1>0, <1>h, <1>a, <1>12, <2>1, <1>o DEF Fail, ArtifactTypes, artifacts, runtime, counters, Keeps, At, FinalizedIsBacked, PlaceInv, PlaceOf, Concluding, RecordedIn, Backed
  <2> QED
    BY <1>o, <2>3, <2>4, <2>5, <2>6 DEF VersionInv, PlaceInv
<1>13. CASE OutputFailed(u)
  <2>1. /\ Processes' /\ Keeps(u)
        /\ me'[u].pc = "record_failed"
        /\ me'[u].state = me[u].state
    BY <1>0, <1>13, GotoMoves DEF OutputFailed, Label, RunState
  <2>3. VersionOf(u)' /\ spec'.version <= attempts'
        /\ (spec'.version = 0 => spec'.request = NoRequest /\ finalOutput' = "none")
    BY <1>0, <1>h, <1>a, <1>13, <2>1 DEF OutputFailed, ArtifactTypes, artifacts, runtime, counters, Keeps, At, VersionInv, VersionOf, Idle
  <2>4. ArtifactInv'
    BY <1>0, <1>h, <1>a, <1>13, <2>1 DEF OutputFailed, ArtifactTypes, artifacts, runtime, counters, Keeps, At, ArtifactInv, VersionInv, PlaceInv, PlaceOf, Backed, RecordedIn, MyStep, Ingested, Context
  <2>5. PlaceOf(u)'
    BY <1>0, <1>h, <1>a, <1>13, <2>1 DEF OutputFailed, ArtifactTypes, artifacts, runtime, counters, Keeps, At, ArtifactInv, VersionInv, VersionOf, PlaceInv, PlaceOf, RecordedIn, MyStep, Backed, Idle, Legal, Allowed
  <2>6. FinalizedIsBacked'
    BY <1>0, <1>h, <1>a, <1>13, <2>1, <1>o DEF OutputFailed, ArtifactTypes, artifacts, runtime, counters, Keeps, At, FinalizedIsBacked, PlaceInv, PlaceOf, Concluding, RecordedIn, Backed
  <2> QED
    BY <1>o, <2>3, <2>4, <2>5, <2>6 DEF VersionInv, PlaceInv
<1>14. CASE RecordFailed(u)
  <2>1. Processes' /\ me'[u] = Idle
    BY <1>0, <1>14, ReturnMoves DEF RecordFailed
  <2>2. answer'[u].result \in {"FAILED", "raised"}
    BY <1>0, <1>14, ReturnAnswers DEF RecordFailed, ArtifactTypes
  <2>3. VersionOf(u)' /\ spec'.version <= attempts'
        /\ (spec'.version = 0 => spec'.request = NoRequest /\ finalOutput' = "none")
    BY <1>0, <1>h, <1>a, <1>14, <2>1, <2>2 DEF RecordFailed, ArtifactTypes, artifacts, runtime, counters, Keeps, At, VersionInv, VersionOf, Idle
  <2>4. ArtifactInv'
    BY <1>0, <1>h, <1>a, <1>14, <2>1, <2>2 DEF RecordFailed, ArtifactTypes, artifacts, runtime, counters, Keeps, At, ArtifactInv, VersionInv, PlaceInv, PlaceOf, Backed, RecordedIn, MyStep, Ingested, Context
  <2>5. PlaceOf(u)'
    BY <1>0, <1>h, <1>a, <1>14, <2>1, <2>2 DEF RecordFailed, ArtifactTypes, artifacts, runtime, counters, Keeps, At, ArtifactInv, VersionInv, VersionOf, PlaceInv, PlaceOf, RecordedIn, MyStep, Backed, Idle, Legal, Allowed
  <2>6. FinalizedIsBacked'
    BY <1>0, <1>h, <1>a, <1>14, <2>1, <2>2, <1>o DEF RecordFailed, ArtifactTypes, artifacts, runtime, counters, Keeps, At, FinalizedIsBacked, PlaceInv, PlaceOf, Concluding, RecordedIn, Backed
  <2> QED
    BY <1>o, <2>3, <2>4, <2>5, <2>6 DEF VersionInv, PlaceInv
<1> QED
  BY <1>0, <1>1, <1>2, <1>3, <1>4, <1>5, <1>6, <1>7, <1>8, <1>9, <1>10, <1>11, <1>12, <1>13, <1>14 DEF Conclude

-----------------------------------------------------------------------------
LEMMA InitKeeps == ASSUME OneAtATime, Init PROVE Inv
<1> USE ConstantsAssumption
<1>1. Processes
  BY IdleType DEF Init, Processes
<1>2. ArtifactTypes
  <2>1. 0 \in 0 .. MaxAttempts /\ 0 \in 0 .. MaxDeaths /\ 0 \in Context /\ 0 \in Nat
    BY DEF Context
  <2>2. /\ NoSpec \in [version : 0 .. MaxAttempts, request : Request \union {NoRequest}]
        /\ NoStep \in AnyStep /\ "INIT" \in RunState
    BY <2>1 DEF NoSpec, NoStep, AnyStep, RunState
  <2>3. NoExecution \in [input : Request \union {NoRequest}, prompt : Request \union {NoRequest},
                         seen : Context, output : BOOLEAN, draft : Draft \union {NoDraft}]
    BY <2>1 DEF NoExecution
  <2>4. answer \in Answers
    BY <2>1 DEF Init, NoAnswer, Answers
  <2>5. /\ reviews \in [Step -> {"none", "passed", "failed"}] /\ written \in [Step -> Context]
        /\ capability \in [Step -> {"none", "ACTIVE", "CONSUMED", "FAILED", "STALE"}]
    BY <2>1 DEF Init
  <2> QED
    BY <2>1, <2>2, <2>3, <2>4, <2>5 DEF Init, ArtifactTypes
<1>3. VersionInv
  BY DEF Init, VersionInv, VersionOf, NoSpec, Idle, Compiling, Opened, Opening, Unconcluded,
     MustHaveDraft, Delegating, Writing, Recorded, Concluding, Failing, Blocking, Ending
<1>4. ArtifactInv
  BY DEF Init, ArtifactInv, Context
<1>5. PlaceInv
  BY DEF Init, PlaceInv, PlaceOf, Idle, Opening, Unconcluded, Delegating, Writing, Recorded,
     Concluding, Failing, Blocking
<1>6. FinalizedIsBacked
  BY DEF Init, FinalizedIsBacked, NoAnswer
<1> QED
  BY <1>1, <1>2, <1>3, <1>4, <1>5, <1>6, TypesSplit DEF Inv

\* A death forgets the process and nothing else.
LEMMA DieKeeps ==
  ASSUME OneAtATime, Inv, NEW u \in Owner, Die(u)
  PROVE  Inv'
<1> USE ConstantsAssumption
<1>0. ArtifactTypes /\ Processes /\ VersionInv /\ ArtifactInv /\ PlaceInv /\ FinalizedIsBacked
  BY TypesSplit DEF Inv
<1>1. Processes' /\ me'[u] = Idle
  BY <1>0, IdleType DEF Die, Processes
<1>2. /\ UNCHANGED <<artifacts, runtime, answer, attempts>>
      /\ deaths' \in 0 .. MaxDeaths
  BY <1>0 DEF Die, ArtifactTypes
<1>3. ArtifactTypes'
  BY <1>0, <1>2 DEF ArtifactTypes, artifacts, runtime
<1>4. VersionInv'
  BY <1>0, <1>1, <1>2 DEF OneAtATime, VersionInv, VersionOf, Idle, artifacts, ArtifactTypes, Compiling,
     Opened, Opening, Unconcluded, MustHaveDraft, Delegating, Writing, Recorded, Concluding, Failing,
     Blocking, Ending
<1>5. ArtifactInv' /\ FinalizedIsBacked'
  BY <1>0, <1>2 DEF ArtifactInv, FinalizedIsBacked, Backed, RecordedIn, artifacts, runtime
<1>6. PlaceInv'
  BY <1>1 DEF OneAtATime, PlaceInv, PlaceOf, Idle, Opening, Unconcluded, Delegating, Writing, Recorded,
     Concluding, Failing, Blocking
<1> QED
  BY <1>1, <1>3, <1>4, <1>5, <1>6, TypesSplit DEF Inv

LEMMA ObjectKeeps ==
  ASSUME Inv, ObjectChanges
  PROVE  Inv'
<1> USE ConstantsAssumption
<1>0. ArtifactTypes /\ Processes /\ VersionInv /\ ArtifactInv /\ PlaceInv /\ FinalizedIsBacked
  BY TypesSplit DEF Inv
<1>1. UNCHANGED <<artifacts, written, me, answer, counters>> /\ context' = context + 1
  BY DEF ObjectChanges
<1>2. ArtifactTypes' /\ Processes'
  BY <1>0 DEF ObjectChanges, ArtifactTypes, Processes, artifacts, counters, Context
<1>3. VersionInv' /\ PlaceInv' /\ FinalizedIsBacked'
  BY <1>0, <1>1 DEF VersionInv, VersionOf, PlaceInv, PlaceOf, FinalizedIsBacked, Backed, RecordedIn,
     MyStep, artifacts, counters
<1>4. ArtifactInv'
  BY <1>0, <1>1 DEF ArtifactInv, ArtifactTypes, Context, Backed, RecordedIn, artifacts
<1> QED
  BY <1>2, <1>3, <1>4, TypesSplit DEF Inv

LEMMA StutterKeeps == ASSUME Inv, UNCHANGED vars PROVE Inv'
<1>1. UNCHANGED <<spec, runState, backlog, verification, finalOutput, delegates, reviews, capability,
                  execution, context, written, me, answer, attempts, deaths>>
  BY DEF vars, artifacts, runtime, counters
<1>2. TypeOK'
  BY <1>1 DEF Inv, TypeOK
<1> QED
  BY <1>1, <1>2 DEF Inv, VersionInv, VersionOf, ArtifactInv, PlaceInv, PlaceOf, FinalizedIsBacked, Backed,
     RecordedIn, MyStep

LEMMA NextKeeps == ASSUME OneAtATime, Inv, [Next]_vars PROVE Inv'
<1>1. ASSUME NEW u \in Owner, Compile(u) PROVE Inv'
  BY <1>1, CompileTypes, CompileKeeps DEF Inv
<1>2. ASSUME NEW u \in Owner, Restore(u) PROVE Inv'
  BY <1>2, RestoreTypes, RestoreKeeps DEF Inv
<1>3. ASSUME NEW u \in Owner, Execute(u) PROVE Inv'
  BY <1>3, ExecuteTypes, ExecuteKeeps DEF Inv
<1>4. ASSUME NEW u \in Owner, Conclude(u) PROVE Inv'
  BY <1>4, ConcludeTypes, ConcludeKeeps DEF Inv
<1> QED
  BY <1>1, <1>2, <1>3, <1>4, DieKeeps, ObjectKeeps, StutterKeeps DEF Next

LEMMA AlwaysInv == ASSUME OneAtATime PROVE Spec => []Inv
<1>1. Init => Inv
  BY InitKeeps
<1>2. Inv /\ [Next]_vars => Inv'
  BY NextKeeps
<1> QED
  BY <1>1, <1>2, PTL DEF Spec

\* The artifacts and the processes of an owner run keep their types, for any
\* observations, drafts and bounds.
THEOREM TypeCorrect == ASSUME OneAtATime PROVE Spec => []TypeOK
<1>1. Inv => TypeOK
  BY DEF Inv
<1> QED
  BY <1>1, AlwaysInv, PTL

\* Whoever is told FINALIZED can rely on it: the version has a delegate artifact,
\* the runtime ingested it and a required review passed, whatever died in between.
THEOREM FinalizedRunsAreBacked == ASSUME OneAtATime PROVE Spec => []FinalizedIsBacked
<1>1. Inv => FinalizedIsBacked
  BY DEF Inv
<1> QED
  BY <1>1, AlwaysInv, PTL

\* The runtime is asked to ingest a step only by a process at "write", and there
\* the version has no delegate artifact.
LEMMA WritesUnrecorded ==
  ASSUME OneAtATime, Inv, [Next]_vars
  PROVE  \A s \in Step : written'[s] > written[s] => RecordedIn(s.version) = {}
<1> SUFFICES ASSUME NEW s \in Step, written'[s] > written[s] PROVE RecordedIn(s.version) = {}
  OBVIOUS
<1>0. ArtifactTypes /\ Processes /\ VersionInv /\ PlaceInv /\ written[s] \in Nat
  BY TypesSplit, ConstantsAssumption DEF Inv, ArtifactTypes, Context
<1>1. PICK u \in Owner : Write(u) \/ WriteRaises(u)
  <2>1. written' # written
    BY <1>0
  <2>2. PICK u \in Owner : Compile(u) \/ Restore(u) \/ Execute(u) \/ Conclude(u)
    BY <2>1 DEF Next, Die, ObjectChanges, vars, runtime
  <2>3. ~Compile(u) /\ ~Restore(u)
    BY <2>1 DEF Compile, BeginWithout, Begin, WriteInput, WritePrompt, WriteOutput, WriteDraft, Restore,
       Load, WriteSpec, ClearPlan, ClearVerification, ClearOutput, ClearExecution,
       StaleCapability, Specify, runtime
  <2>4. ~Conclude(u)
    BY <2>1 DEF Conclude, Complete, Inspect, InspectRaises, RecordReviewed, RecordVetoed, Verify,
       RecordVerified, OutputFinalized, RecordFinalized, OutputBlocked, RecordBlocked, Fail,
       OutputFailed, RecordFailed, runtime
  <2>5. Execute(u) => Write(u) \/ WriteRaises(u)
    BY <2>1 DEF Execute, Replay, Planned, WriteBacklog, Refuse, Delegate, IssueCapability,
       CheckCapability, AppendDelegate, ConsumeCapability, RecordWritten, FailCapability, runtime
  <2> QED
    BY <2>2, <2>3, <2>4, <2>5
<1>2. me[u].pc = "write"
  BY <1>1 DEF Write, WriteRaises, At
<1>3. RecordedIn(spec.version) = {} /\ MyStep(u) \in Step /\ MyStep(u).version = spec.version
  BY <1>0, <1>2, RealStep DEF PlaceInv, PlaceOf, Writing, MustHaveDraft, Delegating
<1>4. s = MyStep(u)
  BY <1>0, <1>1, <1>3 DEF Write, WriteRaises, Ingested, ArtifactTypes, runtime
<1> QED
  BY <1>3, <1>4

\* No retry asks the runtime for a second write of a version that has a delegate
\* artifact, whatever its compiler made of the observation this time.
THEOREM RecordedStepsStay == ASSUME OneAtATime PROVE Spec => RecordedIsNotRewritten
<1>1. Inv /\ [Next]_vars =>
        [\A s \in Step : written'[s] > written[s] => RecordedIn(s.version) = {}]_vars
  BY WritesUnrecorded
<1> QED
  BY <1>1, AlwaysInv, PTL DEF Spec, RecordedIsNotRewritten

LEMMA OutputsStand ==
  ASSUME OneAtATime, Inv, [Next]_vars
  PROVE  finalOutput # "none" => finalOutput' \in {finalOutput, "none"}
<1> SUFFICES ASSUME finalOutput # "none", finalOutput' # finalOutput PROVE finalOutput' = "none"
  OBVIOUS
<1>0. PlaceInv
  BY DEF Inv
<1>1. PICK u \in Owner : Compile(u) \/ Restore(u) \/ Execute(u) \/ Conclude(u)
  BY DEF Next, Die, ObjectChanges, vars, artifacts
<1>2. ~Compile(u) /\ ~Execute(u)
  BY DEF Compile, BeginWithout, Begin, WriteInput, WritePrompt, WriteOutput, WriteDraft, Execute, Replay,
     Planned, WriteBacklog, Refuse, Delegate, IssueCapability, CheckCapability, Write, WriteRaises,
     AppendDelegate, ConsumeCapability, RecordWritten, FailCapability, artifacts
<1>3. Restore(u) => finalOutput' = "none"
  BY DEF Restore, Load, WriteSpec, ClearPlan, ClearVerification, ClearOutput, ClearExecution,
     StaleCapability, Specify
<1>4. ~Conclude(u)
  <2>1. ~At(u, "output_finalized") /\ ~At(u, "output_blocked") /\ ~At(u, "output_failed")
    BY <1>0 DEF PlaceInv, PlaceOf, At, Unconcluded, Concluding, Blocking, Failing
  <2> QED
    BY <2>1 DEF Conclude, Complete, Inspect, InspectRaises, RecordReviewed, RecordVetoed, Verify,
       RecordVerified, OutputFinalized, RecordFinalized, OutputBlocked, RecordBlocked, Fail,
       OutputFailed, RecordFailed, artifacts
<1> QED
  BY <1>1, <1>2, <1>3, <1>4

\* A conclusion on disk is never replaced by another one of the same version.
THEOREM ConclusionsStand == ASSUME OneAtATime PROVE Spec => ConclusionStands
<1>1. Inv /\ [Next]_vars => [finalOutput # "none" => finalOutput' \in {finalOutput, "none"}]_vars
  BY OutputsStand
<1> QED
  BY <1>1, AlwaysInv, PTL DEF Spec, ConclusionStands
-----------------------------------------------------------------------------
(* Without a death the input and the draft on disk are of the observation of   *)
(* the spec, or of the one just compiled, which becomes the spec's unless the   *)
(* new version clears them first.                                               *)

NewOnDisk == {"write_prompt", "write_output", "write_draft", "load", "write_spec"}
Clearing == {"clear_plan", "clear_verification", "clear_output", "clear_execution"}
Settled == Label \ (NewOnDisk \cup Clearing \cup {"write_input"})

Observed(o) ==
  IF me[o].pc \in NewOnDisk THEN {spec.request, me[o].request} ELSE {spec.request}

FitsOf(o) ==
  /\ me[o].draft # NoDraft => me[o].draft.of = me[o].request
  /\ me[o].pc \notin Clearing =>
       /\ execution.input \in {NoRequest} \cup Observed(o)
       /\ execution.draft # NoDraft => execution.draft.of \in Observed(o)

Fits ==
  deaths = 0 =>
    \A o \in Owner :
      /\ FitsOf(o)
      /\ answer[o].draft # NoDraft => answer[o].draft.of = answer[o].request

\* Everything after the spec: the process goes on with what it compiled, or
\* returns it.
Goes(u) ==
  /\ UNCHANGED <<spec, execution, deaths>>
  /\ me[u].pc \in Settled
  /\ \/ /\ me'[u].pc \in Settled /\ answer' = answer
        /\ me'[u].request = me[u].request /\ me'[u].draft = me[u].draft
     \/ \E r : Return(u, r)

LEMMA GoesOn ==
  ASSUME Inv, NEW u \in Owner, Execute(u) \/ Conclude(u)
  PROVE  Goes(u)
<1>0. ArtifactTypes /\ Processes
  BY TypesSplit DEF Inv
<1> USE DEF Settled, Label, NewOnDisk, Clearing
<1>goto. ASSUME NEW l \in Settled, NEW s \in RunState, Goto(u, l) \/ GotoAs(u, l, s) \/ Reload(u, l)
         PROVE  me'[u].pc = l /\ me'[u].request = me[u].request /\ me'[u].draft = me[u].draft
  BY <1>0, <1>goto, GotoMoves, GotoAsMoves, ReloadMoves DEF Keeps
<1>s. "INIT" \in RunState /\ "PLANNED" \in RunState /\ "DELEGATED" \in RunState /\ "WRITTEN" \in RunState
      /\ "VERIFIED" \in RunState
  BY DEF RunState
<1>1. CASE Replay(u)
  BY <1>1 DEF Replay, Goes, At, artifacts, counters
<1>2. CASE Planned(u)
  BY <1>goto, <1>s, <1>2 DEF Planned, Goes, At, artifacts, counters
<1>3. CASE WriteBacklog(u)
  BY <1>goto, <1>s, <1>3 DEF WriteBacklog, Goes, At, artifacts, counters
<1>4. CASE Refuse(u)
  BY <1>goto, <1>s, <1>4 DEF Refuse, Goes, At, artifacts, counters
<1>5. CASE Delegate(u)
  BY <1>goto, <1>s, <1>5 DEF Delegate, Goes, At, artifacts, counters
<1>6. CASE IssueCapability(u)
  BY <1>goto, <1>s, <1>6 DEF IssueCapability, Goes, At, artifacts, counters
<1>7. CASE CheckCapability(u)
  BY <1>goto, <1>s, <1>7 DEF CheckCapability, Goes, At, artifacts, counters
<1>8. CASE Write(u)
  BY <1>goto, <1>s, <1>8 DEF Write, Goes, At, artifacts, counters
<1>9. CASE WriteRaises(u)
  BY <1>goto, <1>s, <1>9 DEF WriteRaises, Goes, At, artifacts, counters
<1>10. CASE AppendDelegate(u)
  BY <1>goto, <1>s, <1>10 DEF AppendDelegate, Goes, At, artifacts, counters
<1>11. CASE ConsumeCapability(u)
  BY <1>goto, <1>s, <1>11 DEF ConsumeCapability, Goes, At, artifacts, counters
<1>12. CASE RecordWritten(u)
  BY <1>goto, <1>s, <1>12 DEF RecordWritten, Goes, At, artifacts, counters
<1>13. CASE FailCapability(u)
  BY <1>goto, <1>s, <1>13 DEF FailCapability, Goes, At, artifacts, counters
<1>14. CASE Complete(u)
  <2>1. PICK l \in {"verify", "inspect", "record_reviewed", "record_vetoed"} : Reload(u, l)
    <3>1. MyStep(u) \in Step
      BY <1>0, <1>14, RealStep DEF Complete, At, Inv, MustHaveDraft, Recorded
    <3> QED
      BY <1>0, <1>14, <3>1 DEF Complete, ArtifactTypes
  <2> QED
    BY <1>goto, <1>s, <1>14, <2>1 DEF Complete, Goes, At, artifacts, counters
<1>15. ASSUME NEW v \in {"passed", "failed"}, Inspect(u, v) PROVE Goes(u)
  BY <1>goto, <1>s, <1>15 DEF Inspect, Goes, At, artifacts, counters
<1>16. CASE InspectRaises(u)
  BY <1>goto, <1>s, <1>16 DEF InspectRaises, Goes, At, artifacts, counters
<1>17. CASE RecordReviewed(u)
  BY <1>goto, <1>s, <1>17 DEF RecordReviewed, Goes, At, artifacts, counters
<1>18. CASE RecordVetoed(u)
  BY <1>0, <1>goto, <1>s, <1>18 DEF RecordVetoed, Goes, At, counters, Processes, Process
<1>19. CASE Verify(u)
  BY <1>0, <1>goto, <1>s, <1>19 DEF Verify, Goes, At, artifacts, counters
<1>20. CASE RecordVerified(u)
  BY <1>goto, <1>s, <1>20 DEF RecordVerified, Goes, At, artifacts, counters
<1>21. CASE OutputFinalized(u)
  BY <1>goto, <1>s, <1>21 DEF OutputFinalized, Goes, At, artifacts, counters
<1>22. CASE RecordFinalized(u)
  BY <1>22 DEF RecordFinalized, Goes, At, artifacts, counters
<1>23. CASE OutputBlocked(u)
  BY <1>goto, <1>s, <1>23 DEF OutputBlocked, Goes, At, artifacts, counters
<1>24. CASE RecordBlocked(u)
  BY <1>24 DEF RecordBlocked, Goes, At, artifacts, counters
<1>25. CASE Fail(u)
  BY <1>goto, <1>s, <1>25 DEF Fail, Goes, At, artifacts, counters
<1>26. CASE OutputFailed(u)
  BY <1>goto, <1>s, <1>26 DEF OutputFailed, Goes, At, artifacts, counters
<1>27. CASE RecordFailed(u)
  BY <1>27 DEF RecordFailed, Goes, At, artifacts, counters
<1> QED
  BY <1>1, <1>2, <1>3, <1>4, <1>5, <1>6, <1>7, <1>8, <1>9, <1>10, <1>11, <1>12, <1>13, <1>14, <1>15, <1>16, <1>17, <1>18, <1>19, <1>20, <1>21, <1>22, <1>23, <1>24, <1>25, <1>26, <1>27 DEF Execute, Conclude

LEMMA GoesFits ==
  ASSUME OneAtATime, Inv, Fits, NEW u \in Owner, Goes(u)
  PROVE  Fits'
<1> SUFFICES ASSUME deaths' = 0 PROVE Fits'
  BY DEF Fits
<1>0. ArtifactTypes /\ Processes
  BY TypesSplit DEF Inv
<1>1. FitsOf(u) /\ (answer[u].draft # NoDraft => answer[u].draft.of = answer[u].request)
  BY DEF Fits, Goes
<1>2. ASSUME answer' = answer, me'[u].pc \in Settled,
             me'[u].request = me[u].request, me'[u].draft = me[u].draft
      PROVE  Fits'
  <2>1. FitsOf(u)'
    BY <1>1, <1>2 DEF FitsOf, Observed, Goes, Settled
  <2> QED
    BY <1>1, <1>2, <2>1 DEF Fits, OneAtATime
<1>3. ASSUME NEW r, Return(u, r)
      PROVE  Fits'
  <2>1. me'[u] = Idle /\ answer'[u].request = me[u].request /\ answer'[u].draft = me[u].draft
    BY <1>0, <1>3 DEF Return, Processes, ArtifactTypes, Answers
  <2>2. FitsOf(u)'
    BY <1>1, <2>1 DEF FitsOf, Observed, Goes, Settled, Idle, NewOnDisk
  <2> QED
    BY <1>1, <2>1, <2>2 DEF Fits, FitsOf, OneAtATime
<1> QED
  BY <1>2, <1>3 DEF Goes

LEMMA CompileFits ==
  ASSUME OneAtATime, Inv, Fits, NEW u \in Owner, Compile(u)
  PROVE  Fits'
<1> USE ConstantsAssumption, NoDraftAssumption
<1> SUFFICES ASSUME deaths' = 0 PROVE Fits'
  BY DEF Fits
<1>0. ArtifactTypes /\ Processes
  BY TypesSplit DEF Inv
<1>1. UNCHANGED <<spec, answer, deaths>>
  BY DEF Compile, Begin, BeginWithout, WriteInput, WritePrompt, WriteOutput, WriteDraft, artifacts, counters
<1>2. FitsOf(u) /\ (answer[u].draft # NoDraft => answer[u].draft.of = answer[u].request)
  BY <1>1 DEF Fits
<1>3. SUFFICES FitsOf(u)'
  BY <1>1, <1>2 DEF Fits, OneAtATime
<1> USE DEF NewOnDisk, Clearing
<1>4. ASSUME NEW r \in Request, BeginWithout(u, r)
      PROVE  FitsOf(u)'
  <2>1. me'[u].pc = "load" /\ me'[u].draft = NoDraft /\ me[u].pc = "idle" /\ execution' = execution
    BY <1>0, <1>4 DEF BeginWithout, Idle, Processes, At, artifacts
  <2> QED
    BY <1>1, <1>2, <2>1 DEF FitsOf, Observed
<1>5. ASSUME NEW r \in Request, NEW d, Begin(u, r, d), d # NoDraft => d.of = r
      PROVE  FitsOf(u)'
  <2>1. /\ me'[u].pc = (IF Reusable(r) THEN "load" ELSE "write_input")
        /\ me'[u].draft = (IF Reusable(r) THEN execution.draft ELSE d)
        /\ me'[u].request = r /\ me[u].pc = "idle" /\ execution' = execution
    BY <1>0, <1>5 DEF Begin, Idle, Processes, At, artifacts
  <2>2. Reusable(r) => r = spec.request
    BY <1>2, <2>1 DEF Reusable, FitsOf, Observed
  <2> QED
    BY <1>1, <1>2, <1>5, <2>1, <2>2 DEF FitsOf, Observed
<1>6. CASE WriteInput(u)
  <2>1. me'[u].pc = "write_prompt" /\ Keeps(u) /\ me[u].pc = "write_input"
    BY <1>0, <1>6, GotoMoves DEF WriteInput, At, Label
  <2>2. execution'.input = me[u].request /\ execution'.draft = execution.draft
    BY <1>0, <1>6 DEF WriteInput, ArtifactTypes
  <2> QED
    BY <1>1, <1>2, <2>1, <2>2 DEF FitsOf, Observed, Keeps
<1>7. CASE WritePrompt(u)
  <2>1. me'[u].pc = "write_output" /\ Keeps(u) /\ me[u].pc = "write_prompt"
    BY <1>0, <1>7, PromptMoves DEF WritePrompt, At
  <2>2. execution'.input = execution.input /\ execution'.draft = execution.draft
    BY <1>0, <1>7 DEF WritePrompt, ArtifactTypes
  <2> QED
    BY <1>1, <1>2, <2>1, <2>2 DEF FitsOf, Observed, Keeps
<1>8. CASE WriteOutput(u)
  <2>1. me'[u].pc \in {"load", "write_draft"} /\ Keeps(u) /\ me[u].pc = "write_output"
    BY <1>0, <1>8, GotoMoves DEF WriteOutput, At, Label
  <2>2. execution'.input = execution.input /\ execution'.draft = execution.draft
    BY <1>0, <1>8 DEF WriteOutput, ArtifactTypes
  <2> QED
    BY <1>1, <1>2, <2>1, <2>2 DEF FitsOf, Observed, Keeps
<1>9. CASE WriteDraft(u)
  <2>1. me'[u].pc = "load" /\ Keeps(u) /\ me[u].pc = "write_draft"
    BY <1>0, <1>9, GotoMoves DEF WriteDraft, At, Label
  <2>2. execution'.input = execution.input /\ execution'.draft = me[u].draft
    BY <1>0, <1>9 DEF WriteDraft, ArtifactTypes
  <2> QED
    BY <1>1, <1>2, <2>1, <2>2 DEF FitsOf, Observed, Keeps
<1> QED
  BY <1>4, <1>5, <1>6, <1>7, <1>8, <1>9 DEF Compile

LEMMA RestoreFits ==
  ASSUME OneAtATime, Inv, Fits, NEW u \in Owner, Restore(u)
  PROVE  Fits'
<1> USE ConstantsAssumption, NoDraftAssumption
<1> SUFFICES ASSUME deaths' = 0 PROVE Fits'
  BY DEF Fits
<1>0. ArtifactTypes /\ Processes /\ VersionInv
  BY TypesSplit DEF Inv
<1>1. UNCHANGED <<answer, deaths>>
  BY DEF Restore, Load, WriteSpec, ClearPlan, ClearVerification, ClearOutput, ClearExecution,
     StaleCapability, Specify, counters
<1>2. FitsOf(u) /\ (answer[u].draft # NoDraft => answer[u].draft.of = answer[u].request)
  BY <1>1 DEF Fits
<1>3. SUFFICES FitsOf(u)'
  BY <1>1, <1>2 DEF Fits, OneAtATime
<1> USE DEF NewOnDisk, Clearing
<1>4. CASE Load(u)
  <2>1. /\ me'[u].request = me[u].request /\ me'[u].draft = me[u].draft /\ me[u].pc = "load"
        /\ \/ me'[u].pc = "plan" /\ spec.request = me[u].request
           \/ me'[u].pc = "write_spec"
    BY <1>0, <1>4 DEF Load, Processes, Process, At
  <2>2. UNCHANGED <<spec, execution>>
    BY <1>4 DEF Load
  <2> QED
    BY <1>2, <2>1, <2>2 DEF FitsOf, Observed
<1>5. CASE WriteSpec(u)
  <2>1. /\ me'[u].pc = (IF me[u].version > 1 THEN "clear_plan" ELSE "specify")
        /\ Keeps(u) /\ me[u].pc = "write_spec"
    BY <1>0, <1>5, GotoMoves DEF WriteSpec, At, Label
  <2>2. spec'.request = me[u].request /\ execution' = execution
    BY <1>5 DEF WriteSpec
  <2>3. CASE me[u].version > 1
    BY <1>2, <2>1, <2>2, <2>3 DEF FitsOf, Keeps
  <2>4. CASE ~(me[u].version > 1)
    <3>1. spec.version = 0 /\ spec.request = NoRequest
      BY <1>0, <2>1, <2>4 DEF VersionInv, VersionOf, ArtifactTypes
    <3>2. execution.draft # NoDraft => execution.draft.of \in Request
      BY <1>0 DEF ArtifactTypes, Draft
    <3>3. execution.draft # NoDraft => execution.draft.of = me[u].request
      BY <1>2, <2>1, <3>1, <3>2 DEF FitsOf, Observed
    <3> QED
      BY <1>2, <2>1, <2>2, <2>4, <3>1, <3>3 DEF FitsOf, Observed, Keeps
  <2> QED
    BY <2>3, <2>4
<1>6. CASE ClearPlan(u) \/ ClearVerification(u) \/ ClearOutput(u)
  <2>1. me'[u].pc \in {"clear_verification", "clear_output", "clear_execution"} /\ Keeps(u)
    BY <1>0, <1>6, GotoMoves DEF ClearPlan, ClearVerification, ClearOutput, Label
  <2> QED
    BY <1>2, <2>1 DEF FitsOf, Keeps
<1>7. CASE ClearExecution(u)
  <2>1. Keeps(u) /\ me'[u].pc \in {"clear_execution", "stale"}
        /\ (me'[u].pc = "stale" => execution' = NoExecution)
    BY <1>0, <1>7, ClearingMoves
  <2> QED
    BY <1>2, <2>1 DEF FitsOf, Keeps, NoExecution
<1>9. CASE StaleCapability(u)
  <2>1. me'[u].pc \in {"stale", "specify"} /\ Keeps(u) /\ me[u].pc = "stale"
        /\ UNCHANGED <<spec, execution>>
    BY <1>0, <1>9, StaleMoves DEF StaleCapability, At
  <2> QED
    BY <1>2, <2>1 DEF FitsOf, Observed, Keeps
<1>8. CASE Specify(u)
  <2>1. me'[u].pc = "plan" /\ Keeps(u) /\ me[u].pc = "specify" /\ UNCHANGED <<spec, execution>>
    BY <1>0, <1>8, GotoAsMoves DEF Specify, At, Label, RunState
  <2> QED
    BY <1>2, <2>1 DEF FitsOf, Observed, Keeps
<1> QED
  BY <1>4, <1>5, <1>6, <1>7, <1>8, <1>9 DEF Restore

LEMMA AlwaysFits == ASSUME OneAtATime PROVE Spec => []Fits
<1>1. Init => Fits
  BY DEF Init, Fits, FitsOf, Observed, Idle, NoAnswer, NoExecution, NoSpec, NewOnDisk
<1>2. Inv /\ Fits /\ [Next]_vars => Fits'
  <2> SUFFICES ASSUME Inv, Fits, [Next]_vars PROVE Fits'
    OBVIOUS
  <2>1. ASSUME NEW u \in Owner, Execute(u) \/ Conclude(u) PROVE Fits'
    BY <2>1, GoesOn, GoesFits
  <2>2. ASSUME NEW u \in Owner, Die(u) PROVE Fits'
    <3>1. deaths' > 0
      BY <2>2, TypesSplit DEF Die, Inv, ArtifactTypes
    <3> QED
      BY <3>1 DEF Fits
  <2>3. CASE ObjectChanges \/ UNCHANGED vars
    BY <2>3 DEF ObjectChanges, vars, artifacts, counters, Fits, FitsOf, Observed
  <2> QED
    BY <2>1, <2>2, <2>3, CompileFits, RestoreFits DEF Next
<1> QED
  BY <1>1, <1>2, AlwaysInv, PTL DEF Spec

\* As long as no process dies, the draft that was written is of the observation
\* that was asked for, through refusals, retries and reuse of what is on disk.
THEOREM DraftsFit == ASSUME OneAtATime PROVE Spec => []DraftFitsUnlessOneDied
<1>1. Fits => DraftFitsUnlessOneDied
  BY DEF Fits, DraftFitsUnlessOneDied
<1> QED
  BY <1>1, AlwaysFits, PTL
-----------------------------------------------------------------------------
(* The run keeps the ledger.  What is on disk answers for a process that       *)
(* restores it, and every process is about the observation of the spec it      *)
(* works on.                                                                   *)

\* What the artifacts answer: the conclusion, unless it is of an older version.
Told ==
  IF finalOutput = "FINALIZED" /\ RecordedIn(spec.version) = {} THEN "FAILED" ELSE finalOutput

Filed ==
  /\ \A s \in Step : reviews[s] # "none" => s \in delegates
  /\ verification = "passed" => finalOutput \in {"none", "FINALIZED"}

About(o) ==
  /\ me[o].pc = "write_spec" => me[o].request # spec.request
  /\ me[o].pc \in Opened => me[o].request = spec.request

Landed(o) ==
  /\ me[o].pc = "record" => RecordedIn(spec.version) = {}
  /\ me[o].pc \in {"output_blocked", "output_failed"} => verification # "passed"
  /\ me[o].pc = "record_blocked" => finalOutput = "BLOCKED"
  /\ me[o].pc = "record_failed" => finalOutput = "FAILED"
  /\ me[o].pc = "record_finalized" => finalOutput = "FINALIZED"

Books ==
  /\ Filed
  /\ \A o \in Owner :
       /\ About(o) /\ Landed(o)
       /\ me[o].pc = "plan" /\ finalOutput # "none" => me[o].state = Told

LEMMA RecoveredTold ==
  ASSUME TypeOK, Filed, finalOutput # "none"
  PROVE  Recovered = Told
<1> DEFINE wrote == RecordedIn(spec.version) # {}
           reviewed == \E s \in Step : s.version = spec.version /\ reviews[s] # "none"
           contradiction == ~wrote /\ (reviewed \/ verification = "passed" \/ finalOutput = "FINALIZED")
<1>1. reviewed => wrote
  BY DEF Filed, RecordedIn
<1>2. contradiction <=> ~wrote /\ finalOutput = "FINALIZED"
  BY <1>1 DEF Filed
<1>3. Recovered = IF contradiction THEN "FAILED" ELSE finalOutput
  BY DEF Recovered
<1> QED
  BY <1>2, <1>3 DEF Told

\* Compiling concerns nobody but the compiler.
LEMMA CompileLeaves ==
  ASSUME Inv, NEW u \in Owner, Compile(u)
  PROVE  /\ me'[u].pc \in Compiling
         /\ UNCHANGED <<spec, verification, finalOutput, delegates, reviews, written, answer>>
<1>0. Processes
  BY TypesSplit DEF Inv
<1> USE DEF Compiling, Label
<1>1. CASE WriteInput(u) \/ WriteOutput(u) \/ WriteDraft(u)
  BY <1>0, <1>1, GotoMoves DEF WriteInput, WriteOutput, WriteDraft, runtime
<1>2. CASE WritePrompt(u)
  BY <1>0, <1>2, PromptMoves DEF WritePrompt, runtime
<1>3. ASSUME NEW r \in Request, BeginWithout(u, r) PROVE me'[u].pc \in Compiling
  BY <1>0, <1>3 DEF BeginWithout, Idle, Processes
<1>4. ASSUME NEW r \in Request, NEW d, Begin(u, r, d) PROVE me'[u].pc \in Compiling
  BY <1>0, <1>4 DEF Begin, Idle, Processes
<1>5. ASSUME NEW r \in Request, NEW d, BeginWithout(u, r) \/ Begin(u, r, d)
      PROVE  UNCHANGED <<artifacts, runtime, answer>>
  BY <1>5 DEF BeginWithout, Begin
<1> QED
  BY <1>1, <1>2, <1>3, <1>4, <1>5 DEF Compile, artifacts, runtime

LEMMA CompileBooks ==
  ASSUME OneAtATime, Inv, Books, NEW u \in Owner, Compile(u)
  PROVE  Books'
<1>1. /\ me'[u].pc \in Compiling
      /\ UNCHANGED <<spec, verification, finalOutput, delegates, reviews>>
  BY CompileLeaves
<1>2. me'[u].pc \notin {"write_spec", "plan"} \cup Opened /\ Landed(u)'
  BY <1>1 DEF Compiling, Opened, Opening, Unconcluded, Delegating, Writing, Recorded, Concluding,
     Failing, Blocking, Ending, Landed
<1> QED
  BY <1>1, <1>2 DEF Books, Filed, About, OneAtATime

LEMMA RestoreBooks ==
  ASSUME OneAtATime, Inv, Books, NEW u \in Owner, Restore(u)
  PROVE  Books'
<1>0. ArtifactTypes /\ Processes /\ PlaceInv /\ TypeOK /\ Filed
  BY TypesSplit DEF Inv, Books
<1> USE DEF Label
<1>1. CASE Load(u)
  <2>1. UNCHANGED <<spec, verification, finalOutput, delegates, reviews>>
    BY <1>1 DEF Load
  <2>2. CASE /\ spec.request = me[u].request
             /\ me' = [me EXCEPT ![u].pc = "plan", ![u].version = spec.version,
                                 ![u].loaded = spec.version, ![u].state = Recovered]
    <3>1. me'[u].pc = "plan" /\ me'[u].request = spec.request /\ me'[u].state = Recovered
      BY <1>0, <2>2 DEF Processes, Process
    <3>2. Told' = Told /\ (finalOutput # "none" => Recovered = Told)
      BY <1>0, <2>1, RecoveredTold DEF Told, RecordedIn
    <3> QED
      BY <2>1, <3>1, <3>2 DEF Books, Filed, About, Landed, OneAtATime
  <2>3. CASE /\ spec.request # me[u].request
             /\ me' = [me EXCEPT ![u].pc = "write_spec", ![u].version = spec.version + 1,
                                 ![u].loaded = spec.version + 1]
    <3>1. me'[u].pc = "write_spec" /\ me'[u].request # spec.request
      BY <1>0, <2>3 DEF Processes, Process
    <3>2. me'[u].pc \notin Opened
      BY <3>1 DEF Opened, Opening, Unconcluded, Delegating, Writing, Recorded, Concluding,
         Failing, Blocking, Ending
    <3> QED
      BY <2>1, <3>1, <3>2 DEF Books, Filed, About, Landed, OneAtATime
  <2> QED
    BY <1>1, <2>2, <2>3 DEF Load
<1>2. CASE WriteSpec(u)
  <2>1. me'[u].pc \in {"clear_plan", "specify"} /\ me'[u].request = me[u].request
    BY <1>0, <1>2, GotoMoves DEF WriteSpec, Keeps
  <2>2. /\ UNCHANGED <<verification, finalOutput, delegates, reviews>>
        /\ spec'.request = me[u].request
    BY <1>2 DEF WriteSpec
  <2> QED
    BY <2>1, <2>2 DEF Books, Filed, About, Landed, OneAtATime
<1>3. CASE \/ ClearPlan(u) \/ ClearVerification(u) \/ ClearOutput(u)
         \/ ClearExecution(u) \/ StaleCapability(u)
  <2>1. /\ me'[u].pc \in Opening /\ me[u].pc \in Opening
        /\ me'[u].request = me[u].request
    <3>1. CASE ClearPlan(u) \/ ClearVerification(u) \/ ClearOutput(u)
      BY <1>0, <3>1, GotoMoves
         DEF ClearPlan, ClearVerification, ClearOutput, Keeps, At, Opening, Label
    <3>2. CASE ClearExecution(u)
      BY <1>0, <3>2, ClearingMoves DEF ClearExecution, Keeps, At, Opening
    <3>3. CASE StaleCapability(u)
      BY <1>0, <3>3, StaleMoves DEF StaleCapability, Keeps, At, Opening
    <3> QED
      BY <1>3, <3>1, <3>2, <3>3
  <2>2. /\ UNCHANGED <<spec, delegates, reviews>>
        /\ verification' \in {verification, "none"} /\ finalOutput' \in {finalOutput, "none"}
    BY <1>3 DEF ClearPlan, ClearVerification, ClearOutput, ClearExecution, StaleCapability
  <2>3. me[u].request = spec.request
    BY <2>1 DEF Books, About, Opened
  <2> QED
    BY <2>1, <2>2, <2>3 DEF Books, Filed, About, Landed, Opening, OneAtATime
<1>4. CASE Specify(u)
  <2>1. me'[u].pc = "plan" /\ me'[u].request = me[u].request /\ me[u].pc = "specify"
    BY <1>0, <1>4, GotoAsMoves DEF Specify, Keeps, At, RunState
  <2>2. UNCHANGED <<spec, verification, finalOutput, delegates, reviews>> /\ finalOutput = "none"
    BY <1>0, <1>4, <2>1 DEF Specify, PlaceInv, PlaceOf
  <2>3. me[u].request = spec.request
    BY <2>1 DEF Books, About, Opened, Opening
  <2> QED
    BY <2>1, <2>2, <2>3 DEF Books, Filed, About, Landed, OneAtATime
<1> QED
  BY <1>1, <1>2, <1>3, <1>4 DEF Restore

\* After the restoration the observation stays, so what remains to see of a step
\* is what it files and where it lands.
LEMMA GoesBooks ==
  ASSUME OneAtATime, Inv, Books, NEW u \in Owner, Goes(u), me[u].pc \in Opened,
         Filed', Landed(u)', me'[u].pc # "plan"
  PROVE  Books'
<1>0. Processes
  BY TypesSplit DEF Inv
<1>1. me[u].request = spec.request /\ spec' = spec
  BY DEF Books, About, Goes
<1>2. About(u)'
  <2>1. CASE me'[u].pc \in Settled /\ me'[u].request = me[u].request
    BY <1>1, <2>1 DEF About, Settled, NewOnDisk
  <2>2. ASSUME NEW r, Return(u, r) PROVE About(u)'
    <3>1. me'[u].pc = "idle"
      BY <1>0, <2>2, ReturnMoves DEF Idle
    <3> QED
      BY <3>1 DEF About, Opened, Opening, Unconcluded, Delegating, Writing, Recorded, Concluding,
         Failing, Blocking, Ending
  <2> QED
    BY <2>1, <2>2 DEF Goes
<1> QED
  BY <1>2 DEF Books, OneAtATime

LEMMA ExecuteBooks ==
  ASSUME OneAtATime, Inv, Books, NEW u \in Owner, Execute(u)
  PROVE  Books'
<1>0. ArtifactTypes /\ Processes /\ PlaceInv /\ Filed /\ Goes(u)
  BY TypesSplit, GoesOn DEF Inv, Books
<1> USE DEF Label, RunState
<1>1. me[u].pc \in Opened
  BY DEF Execute, Replay, Planned, WriteBacklog, Refuse, Delegate, IssueCapability, CheckCapability,
     Write, WriteRaises, AppendDelegate, ConsumeCapability, RecordWritten, FailCapability, At, Opened,
     Unconcluded, Delegating, Writing, Recorded, Failing, Blocking
<1>2. /\ UNCHANGED <<spec, finalOutput, reviews>> /\ delegates \subseteq delegates'
      /\ verification' \in {verification, "failed"}
  BY DEF Execute, Replay, Planned, WriteBacklog, Refuse, Delegate, IssueCapability, CheckCapability,
     Write, WriteRaises, AppendDelegate, ConsumeCapability, RecordWritten, FailCapability, artifacts
<1>3. Filed'
  BY <1>0, <1>2 DEF Filed
<1>4. me'[u].pc # "plan" /\ Landed(u)'
  <2>1. ASSUME NEW r, Return(u, r) PROVE me'[u].pc # "plan" /\ Landed(u)'
    BY <1>0, <2>1, ReturnMoves DEF Idle, Landed
  <2>2. CASE Write(u)
    <3>1. me'[u].pc = "record" /\ me[u].pc = "write" /\ UNCHANGED <<spec, delegates>>
      BY <1>0, <2>2, GotoMoves DEF Write, At, artifacts
    <3> QED
      BY <1>0, <3>1 DEF PlaceInv, PlaceOf, Writing, RecordedIn, Landed
  <2>3. CASE Refuse(u)
    BY <1>0, <2>3, GotoMoves DEF Refuse, Landed
  <2>4. CASE Replay(u)
    BY <2>1, <2>4 DEF Replay
  <2>5. CASE Planned(u)
    BY <1>0, <2>5, GotoMoves, GotoAsMoves DEF Planned, Landed
  <2>6. CASE Delegate(u)
    BY <1>0, <2>1, <2>6, GotoAsMoves DEF Delegate, Landed
  <2>7. CASE WriteBacklog(u) \/ IssueCapability(u) \/ CheckCapability(u) \/ WriteRaises(u)
    BY <1>0, <2>7, GotoMoves DEF WriteBacklog, IssueCapability, CheckCapability, WriteRaises, Landed
  <2>8. CASE AppendDelegate(u) \/ ConsumeCapability(u) \/ FailCapability(u)
    BY <1>0, <2>8, GotoMoves DEF AppendDelegate, ConsumeCapability, FailCapability, Landed
  <2>9. CASE RecordWritten(u)
    BY <1>0, <2>9, GotoAsMoves DEF RecordWritten, Landed
  <2> QED
    BY <2>2, <2>3, <2>4, <2>5, <2>6, <2>7, <2>8, <2>9 DEF Execute
<1> QED
  BY <1>0, <1>1, <1>3, <1>4, GoesBooks

LEMMA ConcludeBooks ==
  ASSUME OneAtATime, Inv, Books, NEW u \in Owner, Conclude(u)
  PROVE  Books'
<1>0. ArtifactTypes /\ Processes /\ VersionInv /\ PlaceInv /\ PlaceOf(u) /\ Filed /\ Landed(u) /\ Goes(u)
  BY TypesSplit, GoesOn DEF Inv, Books, PlaceInv
<1> USE DEF Label, RunState
<1>1. me[u].pc \in Opened
  BY DEF Conclude, Complete, Inspect, InspectRaises, RecordReviewed, RecordVetoed, Verify, RecordVerified,
     OutputFinalized, RecordFinalized, OutputBlocked, RecordBlocked, Fail, OutputFailed, RecordFailed, At,
     Opened, Unconcluded, Recorded, Concluding, Failing, Blocking, Ending
<1>r. ASSUME NEW r, Return(u, r) PROVE me'[u].pc # "plan" /\ Landed(u)'
  BY <1>0, <1>r, ReturnMoves DEF Idle, Landed
<1> SUFFICES Filed' /\ Landed(u)' /\ me'[u].pc # "plan"
  BY <1>0, <1>1, GoesBooks
<1>2. CASE Complete(u)
  <2>1. MyStep(u) \in Step
    BY <1>0, <1>2, RealStep DEF Complete, At, MustHaveDraft, Recorded
  <2>2. PICK l \in {"verify", "inspect", "record_reviewed", "record_vetoed"} : Reload(u, l)
    BY <1>0, <1>2, <2>1 DEF Complete, ArtifactTypes
  <2>3. me'[u].pc = l
    BY <1>0, <2>2, ReloadMoves
  <2> QED
    BY <1>0, <1>2, <2>3 DEF Complete, artifacts, Filed, Landed
<1>3. ASSUME NEW v \in {"passed", "failed"}, Inspect(u, v) PROVE Filed' /\ Landed(u)' /\ me'[u].pc # "plan"
  <2>1. me'[u].pc \in {"record_reviewed", "record_vetoed"}
    BY <1>0, <1>3, GotoMoves DEF Inspect
  <2>2. MyStep(u) \in delegates /\ MyStep(u) \in Step
    BY <1>0, <1>3, RealStep DEF Inspect, At, PlaceOf, Recorded, MustHaveDraft
  <2>3. \A s \in Step : reviews'[s] # "none" => reviews[s] # "none" \/ s = MyStep(u)
    BY <1>0, <1>3, <2>2 DEF Inspect, ArtifactTypes
  <2>4. Filed'
    BY <1>0, <1>3, <2>2, <2>3 DEF Inspect, Filed
  <2> QED
    BY <2>1, <2>4 DEF Landed
<1>4. CASE InspectRaises(u)
  BY <1>0, <1>4, GotoMoves DEF InspectRaises, artifacts, Filed, Landed
<1>5. CASE RecordReviewed(u)
  BY <1>0, <1>5, GotoMoves DEF RecordReviewed, Filed, Landed
<1>6. CASE RecordVetoed(u)
  <2>1. me'[u].pc \in {"verify", "fail"}
    BY <1>0, <1>6, GotoMoves DEF RecordVetoed, Processes, Process
  <2> QED
    BY <1>0, <1>6, <2>1 DEF RecordVetoed, Filed, Landed
<1>7. CASE Verify(u)
  <2>1. me'[u].pc = (IF me[u].vetoed THEN "output_blocked" ELSE "conclude")
    BY <1>0, <1>7, ReloadMoves DEF Verify
  <2>2. finalOutput = "none"
    BY <1>0, <1>7 DEF Verify, At, PlaceOf, Unconcluded, Recorded
  <2> QED
    BY <1>0, <1>7, <2>1, <2>2 DEF Verify, Filed, Landed
<1>8. CASE RecordVerified(u)
  <2>1. me'[u].pc \in {"idle", "output_finalized"}
    BY <1>0, <1>8, VerifiedMoves DEF Idle
  <2> QED
    BY <1>0, <1>8, <2>1 DEF RecordVerified, Filed, Landed
<1>9. CASE OutputFinalized(u)
  BY <1>0, <1>9, GotoMoves DEF OutputFinalized, Filed, Landed
<1>10. CASE OutputBlocked(u) \/ OutputFailed(u)
  BY <1>0, <1>10, GotoMoves DEF OutputBlocked, OutputFailed, At, Filed, Landed
<1>11. CASE Fail(u)
  BY <1>0, <1>11, GotoMoves DEF Fail, Filed, Landed
<1>12. CASE RecordBlocked(u) \/ RecordFailed(u) \/ RecordFinalized(u)
  <2>1. PICK r : Return(u, r)
    BY <1>12 DEF RecordBlocked, RecordFailed, RecordFinalized
  <2> QED
    BY <1>0, <1>r, <1>12, <2>1 DEF RecordBlocked, RecordFailed, RecordFinalized, Filed
<1> QED
  BY <1>2, <1>3, <1>4, <1>5, <1>6, <1>7, <1>8, <1>9, <1>10, <1>11, <1>12 DEF Conclude

LEMMA AlwaysBooks == ASSUME OneAtATime PROVE Spec => []Books
<1>1. Init => Books
  BY DEF Init, Books, Filed, About, Landed, Idle, Opened, Opening, Unconcluded, Delegating, Writing,
     Recorded, Concluding, Failing, Blocking, Ending
<1>2. Inv /\ Books /\ [Next]_vars => Books'
  <2> SUFFICES ASSUME Inv, Books, [Next]_vars PROVE Books'
    OBVIOUS
  <2>1. ASSUME NEW u \in Owner, Die(u) PROVE Books'
    <3>1. me'[u] = Idle /\ UNCHANGED artifacts
      BY <2>1, TypesSplit DEF Die, Inv, Processes
    <3> QED
      BY <3>1 DEF artifacts, Books, Filed, About, Landed, OneAtATime, Idle, Opened, Opening, Unconcluded,
         Delegating, Writing, Recorded, Concluding, Failing, Blocking, Ending
  <2>2. CASE ObjectChanges \/ UNCHANGED vars
    BY <2>2 DEF ObjectChanges, vars, artifacts, Books, Filed, About, Landed, Told, RecordedIn
  <2> QED
    BY <2>1, <2>2, CompileBooks, RestoreBooks, ExecuteBooks, ConcludeBooks DEF Next
<1> QED
  BY <1>1, <1>2, AlwaysInv, PTL DEF Spec

(* Steps of the run as entries in the ledger.                                   *)

Page == <<spec, written, delegates, reviews, finalOutput>>

LEMMA SamePage ==
  ASSUME UNCHANGED <<Page, answer>> PROVE UNCHANGED Ledger!lvars
  BY DEF Page, Answered, Ledger!lvars, Ledger!observation, Ledger!record

\* A process returns: it answers for the observation it was about.
LEMMA AnswerEntry ==
  ASSUME Inv, Books, NEW u \in Owner, NEW r, Return(u, r), UNCHANGED Page, me[u].pc \in Opened,
         r = "raised" \/ (finalOutput # "none" /\ r = Told)
  PROVE  Ledger!LNext
<1>0. ArtifactTypes /\ Processes
  BY TypesSplit DEF Inv
<1>1. me[u].request = spec.request /\ me[u].version = spec.version
  BY DEF Inv, VersionInv, VersionOf, Books, About
<1>2. answer' = [answer EXCEPT ![u] = [result |-> r, request |-> spec.request,
                                       version |-> spec.version, draft |-> me[u].draft]]
  BY <1>1 DEF Return
<1>3. Answered' = [Answered EXCEPT ![u] =
                     [result |-> r, request |-> spec.request, version |-> spec.version]]
  BY <1>0, <1>2 DEF Answered, ArtifactTypes, Answers
<1>4. Answered'[u].result = r
  BY <1>3 DEF Answered
<1>5. UNCHANGED <<Ledger!observation, Ledger!record, finalOutput>>
  BY DEF Page, Ledger!observation, Ledger!record
<1>6. r = "raised" \/ (r # "none" /\ r = IF Ledger!Stale THEN "FAILED" ELSE finalOutput)
  BY DEF Told, Ledger!Stale, Ledger!OnRecord, RecordedIn
<1>7. Ledger!Answer(u, Answered'[u].result)
  BY <1>3, <1>4, <1>5, <1>6 DEF Ledger!Answer
<1> QED
  BY <1>7 DEF Ledger!LNext

LEMMA RestoreEntry ==
  ASSUME Inv, Books, NEW u \in Owner, Restore(u)
  PROVE  Ledger!LNext \/ UNCHANGED Ledger!lvars
<1>0. ArtifactTypes /\ Processes /\ VersionOf(u) /\ PlaceOf(u) /\ About(u)
  BY TypesSplit DEF Inv, VersionInv, PlaceInv, Books
<1>1. CASE WriteSpec(u)
  <2>1. /\ me[u].request \in Request /\ me[u].request # spec.request
        /\ me[u].version = spec.version + 1
    BY <1>0, <1>1 DEF WriteSpec, At, VersionOf, About
  <2>2. spec'.request = me[u].request /\ spec'.version = spec.version + 1
    BY <1>1, <2>1 DEF WriteSpec
  <2>3. UNCHANGED <<Ledger!record, finalOutput, Answered>>
    BY <1>1 DEF WriteSpec, runtime, Answered, Ledger!record
  <2>4. Ledger!Observe(me[u].request)
    BY <2>1, <2>2, <2>3 DEF Ledger!Observe
  <2> QED
    BY <2>1, <2>4 DEF Ledger!LNext
<1>2. CASE ClearOutput(u)
  <2>1. RecordedIn(spec.version) = {}
    BY <1>0, <1>2 DEF ClearOutput, At, PlaceOf, Opening
  <2>2. Ledger!Withdraw
    BY <1>2, <2>1 DEF ClearOutput, runtime, Answered, RecordedIn, Ledger!Withdraw, Ledger!OnRecord,
       Ledger!observation, Ledger!record
  <2> QED
    BY <2>2 DEF Ledger!LNext
<1>3. CASE \/ Load(u) \/ ClearPlan(u) \/ ClearVerification(u) \/ ClearExecution(u)
         \/ StaleCapability(u) \/ Specify(u)
  BY <1>3, SamePage
     DEF Load, ClearPlan, ClearVerification, ClearExecution, StaleCapability, Specify, runtime, Page
<1> QED
  BY <1>1, <1>2, <1>3 DEF Restore

LEMMA ExecuteEntry ==
  ASSUME Inv, Books, NEW u \in Owner, Execute(u)
  PROVE  Ledger!LNext \/ UNCHANGED Ledger!lvars
<1>0. ArtifactTypes /\ Processes /\ VersionInv /\ ArtifactInv /\ PlaceOf(u) /\ Landed(u)
  BY TypesSplit DEF Inv, PlaceInv, Books
<1>r. me[u].pc \in Opened
  BY DEF Execute, Replay, Planned, WriteBacklog, Refuse, Delegate, IssueCapability, CheckCapability,
     Write, WriteRaises, AppendDelegate, ConsumeCapability, RecordWritten, FailCapability, At, Opened,
     Unconcluded, Delegating, Writing, Recorded, Failing, Blocking
<1>1. ASSUME Write(u) \/ WriteRaises(u), Ingested(u) PROVE Ledger!LNext
  <2>1. me[u].pc = "write"
    BY <1>1 DEF Write, WriteRaises, At
  <2>2. /\ MyStep(u) \in Step /\ MyStep(u).version = spec.version
        /\ RecordedIn(spec.version) = {} /\ finalOutput = "none"
    BY <1>0, <2>1, RealStep DEF MustHaveDraft, Delegating, Writing, PlaceOf, Unconcluded
  <2>3. Ledger!Write(MyStep(u))
    BY <1>1, <2>2 DEF Write, WriteRaises, Ingested, artifacts, Answered, RecordedIn, Ledger!Write,
       Ledger!Open, Ledger!OnRecord, Ledger!observation
  <2> QED
    BY <2>2, <2>3 DEF Ledger!LNext
<1>2. CASE AppendDelegate(u)
  <2>1. me[u].pc = "record"
    BY <1>2 DEF AppendDelegate, At
  <2>2. /\ MyStep(u) \in Step /\ MyStep(u).version = spec.version /\ written[MyStep(u)] > 0
        /\ RecordedIn(spec.version) = {} /\ finalOutput = "none"
    BY <1>0, <2>1, RealStep DEF MustHaveDraft, Delegating, PlaceOf, Unconcluded, Landed
  <2>3. Ledger!Register(MyStep(u))
    BY <1>2, <2>2 DEF AppendDelegate, runtime, Answered, RecordedIn, Ledger!Register,
       Ledger!Open, Ledger!OnRecord, Ledger!observation
  <2> QED
    BY <2>2, <2>3 DEF Ledger!LNext
<1>3. CASE Replay(u)
  <2>1. me[u].pc = "plan" /\ finalOutput # "none" /\ Return(u, me[u].state) /\ UNCHANGED Page
    BY <1>3 DEF Replay, At, artifacts, runtime, Page
  <2>2. me[u].state = Told
    BY <2>1 DEF Books
  <2> QED
    BY <1>r, <2>1, <2>2, AnswerEntry
<1>4. CASE Delegate(u)
  <2>1. UNCHANGED Page /\ (Return(u, "raised") \/ answer' = answer)
    BY <1>4 DEF Delegate, runtime, Page
  <2> QED
    BY <1>r, <2>1, AnswerEntry, SamePage
<1>5. ASSUME Write(u) \/ WriteRaises(u), ~Ingested(u) PROVE UNCHANGED Ledger!lvars
  BY <1>5, SamePage DEF Write, WriteRaises, artifacts, runtime, Page
<1>6. CASE Planned(u) \/ WriteBacklog(u) \/ Refuse(u) \/ IssueCapability(u) \/ CheckCapability(u)
  BY <1>6, SamePage DEF Planned, WriteBacklog, Refuse, IssueCapability, CheckCapability,
     artifacts, runtime, Page
<1>7. CASE ConsumeCapability(u) \/ RecordWritten(u) \/ FailCapability(u)
  BY <1>7, SamePage DEF ConsumeCapability, RecordWritten, FailCapability, runtime, Page
<1> QED
  BY <1>1, <1>2, <1>3, <1>4, <1>5, <1>6, <1>7 DEF Execute

LEMMA ConcludeEntry ==
  ASSUME Inv, Books, NEW u \in Owner, Conclude(u)
  PROVE  Ledger!LNext \/ UNCHANGED Ledger!lvars
<1>0. ArtifactTypes /\ Processes /\ VersionInv /\ ArtifactInv /\ PlaceOf(u) /\ Landed(u)
  BY TypesSplit DEF Inv, PlaceInv, Books
<1>1. CASE \E v \in {"passed", "failed"} : Inspect(u, v)
  <2>1. PICK v \in {"passed", "failed"} : Inspect(u, v)
    BY <1>1
  <2>2. me[u].pc = "inspect"
    BY <2>1 DEF Inspect, At
  <2>3. /\ MyStep(u) \in Step /\ MyStep(u).version = spec.version /\ MyStep(u) \in delegates
        /\ reviews[MyStep(u)] = "none" /\ finalOutput = "none"
    BY <1>0, <2>2, RealStep DEF MustHaveDraft, Recorded, PlaceOf, Unconcluded
  <2>4. Ledger!Review(MyStep(u), v)
    BY <2>1, <2>3 DEF Inspect, runtime, Answered, Ledger!Review, Ledger!Open, Ledger!observation
  <2> QED
    BY <2>3, <2>4 DEF Ledger!LNext
<1>2. CASE OutputFinalized(u)
  <2>1. me[u].pc = "output_finalized"
    BY <1>2 DEF OutputFinalized, At
  <2>2. /\ MyStep(u) \in delegates /\ MyStep(u).version = spec.version /\ finalOutput = "none"
        /\ Reviewed => reviews[MyStep(u)] = "passed"
    BY <1>0, <2>1, RealStep DEF MustHaveDraft, Concluding, PlaceOf, Unconcluded
  <2>3. written[MyStep(u)] > 0
    BY <1>0, <2>2 DEF ArtifactInv
  <2>4. \E s \in Ledger!OnRecord : Ledger!Bears(s)
    BY <2>2, <2>3 DEF Ledger!OnRecord, Ledger!Bears
  <2>5. Ledger!Finish("FINALIZED")
    BY <1>2, <2>2, <2>4 DEF OutputFinalized, runtime, Answered, Ledger!Finish, Ledger!observation,
       Ledger!record
  <2> QED
    BY <2>5 DEF Ledger!LNext
<1>3. CASE OutputBlocked(u)
  <2>1. finalOutput = "none"
    BY <1>0, <1>3 DEF OutputBlocked, At, PlaceOf, Unconcluded, Blocking
  <2>2. Ledger!Finish("BLOCKED")
    BY <1>3, <2>1 DEF OutputBlocked, runtime, Answered, Ledger!Finish, Ledger!observation, Ledger!record
  <2> QED
    BY <2>2 DEF Ledger!LNext
<1>4. CASE OutputFailed(u)
  <2>1. finalOutput = "none"
    BY <1>0, <1>4 DEF OutputFailed, At, PlaceOf, Unconcluded, Failing
  <2>2. Ledger!Finish("FAILED")
    BY <1>4, <2>1 DEF OutputFailed, runtime, Answered, Ledger!Finish, Ledger!observation, Ledger!record
  <2> QED
    BY <2>2 DEF Ledger!LNext
<1>5. CASE RecordBlocked(u) \/ RecordFailed(u) \/ RecordFinalized(u)
  <2>1. me[u].pc \in Ending /\ UNCHANGED Page
    BY <1>5 DEF RecordBlocked, RecordFailed, RecordFinalized, At, Ending, runtime, Page
  <2>2. me[u].pc = "record_finalized" => RecordedIn(spec.version) # {}
    <3>1. me[u].pc = "record_finalized" => MyStep(u) \in RecordedIn(spec.version)
      BY <1>0, RealStep DEF MustHaveDraft, PlaceOf, RecordedIn
    <3> QED
      BY <3>1
  <2>3. \/ Return(u, "raised")
        \/ finalOutput # "none" /\ Return(u, Told)
    BY <1>0, <1>5, <2>2 DEF RecordBlocked, RecordFailed, RecordFinalized, At, Landed, Told
  <2>4. me[u].pc \in Opened
    BY <2>1 DEF Opened
  <2> QED
    BY <2>1, <2>3, <2>4, AnswerEntry
<1>6. CASE RecordVerified(u)
  <2>1. me[u].pc \in Opened /\ UNCHANGED Page /\ (Return(u, "raised") \/ answer' = answer)
    BY <1>6 DEF RecordVerified, At, Opened, Unconcluded, Concluding, runtime, Page
  <2> QED
    BY <2>1, AnswerEntry, SamePage
<1>7. CASE Complete(u) \/ InspectRaises(u) \/ RecordReviewed(u) \/ RecordVetoed(u) \/ Verify(u) \/ Fail(u)
  BY <1>7, SamePage DEF Complete, InspectRaises, RecordReviewed, RecordVetoed, Verify, Fail,
     artifacts, runtime, Page
<1> QED
  BY <1>1, <1>2, <1>3, <1>4, <1>5, <1>6, <1>7 DEF Conclude

\* The processes together, dying anywhere, keep a ledger: what is on record is
\* reviewed and concluded once, and callers are told of nothing that is not in it.
THEOREM RunKeepsLedger == ASSUME OneAtATime PROVE Spec => KeepsLedger
<1>1. Init => Ledger!LInit
  BY DEF Init, Answered, NoSpec, NoAnswer, Ledger!LInit
<1>2. Inv /\ Books /\ [Next]_vars => [Ledger!LNext]_(Ledger!lvars)
  <2> SUFFICES ASSUME Inv, Books, [Next]_vars
               PROVE  Ledger!LNext \/ UNCHANGED Ledger!lvars
    OBVIOUS
  <2>1. ASSUME NEW u \in Owner, Compile(u) PROVE UNCHANGED Ledger!lvars
    BY <2>1, CompileLeaves, SamePage DEF Page
  <2>2. CASE ObjectChanges \/ (\E u \in Owner : Die(u)) \/ UNCHANGED vars
    BY <2>2, SamePage DEF ObjectChanges, Die, vars, artifacts, runtime, Page
  <2> QED
    BY <2>1, <2>2, RestoreEntry, ExecuteEntry, ConcludeEntry DEF Next
<1> QED
  BY <1>1, <1>2, AlwaysInv, AlwaysBooks, PTL DEF Spec, KeepsLedger, Ledger!LSpec
=============================================================================
