------------------------------ MODULE OwnerRun ------------------------------
(***************************************************************************)
(* One owner run: the artifacts of one (delegate, object) pair on disk, and *)
(* the processes that are asked to bring it to a final output.  A process   *)
(* compiles a draft (or reuses the one on disk), loads the run, records the *)
(* spec, delegates one runtime write under a capability, has it reviewed,   *)
(* verifies and concludes.  Every file is written by itself, a process may  *)
(* die between two of them, and the next process rebuilds the state of the  *)
(* run from whatever is on disk.                                            *)
(***************************************************************************)
EXTENDS Naturals, FiniteSets

CONSTANTS
  Owner,        \* processes that call run_governed_write for this run
  Request,      \* observations; each has a fingerprint of its own
  Take,         \* what a compiler may make of the same observation
  NoRequest, NoDraft,
  Reviewed,     \* whether the delegate's contract requires a review
  MaxAttempts, MaxDeaths, MaxContext  \* bounds of the exploration

ASSUME ConstantsAssumption ==
  /\ Reviewed \in BOOLEAN
  /\ MaxAttempts \in Nat /\ MaxDeaths \in Nat /\ MaxContext \in Nat
  /\ NoRequest \notin Request

Draft == [of : Request, take : Take]
ASSUME NoDraftAssumption == NoDraft \notin Draft

Version == 1 .. MaxAttempts
Context == 0 .. MaxContext
Step == [version : Version, draft : Draft]

RunState == {"INIT", "SPECIFIED", "PLANNED", "DELEGATED", "WRITTEN",
             "REVIEWED", "VERIFIED", "FINALIZED", "BLOCKED", "FAILED"}
Terminal == {"FINALIZED", "BLOCKED", "FAILED"}

\* The transitions a run may record; a state may always be recorded again.
Allowed ==
  [INIT      |-> {"SPECIFIED", "FAILED"},
   SPECIFIED |-> {"PLANNED", "BLOCKED", "FAILED"},
   PLANNED   |-> {"DELEGATED", "BLOCKED", "FAILED"},
   DELEGATED |-> {"WRITTEN", "BLOCKED", "FAILED"},
   WRITTEN   |-> {"REVIEWED", "VERIFIED", "BLOCKED", "FAILED"},
   REVIEWED  |-> {"VERIFIED", "BLOCKED", "FAILED"},
   VERIFIED  |-> {"FINALIZED", "BLOCKED", "FAILED"},
   FINALIZED |-> {}, BLOCKED |-> {}, FAILED |-> {}]

Legal(from, to) == from = to \/ to \in Allowed[from]

VARIABLES
  \* the artifacts
  spec,          \* spec.json: the version and the observation
  runState,      \* run_state.json: what the capability check reads
  backlog,       \* backlog.json exists
  verification,  \* verification.json
  finalOutput,   \* final_output.json
  delegates,     \* steps with a delegate artifact
  reviews,       \* the review artifact of each step
  capability,    \* the capability of each step
  execution,     \* agent_execution/: input, prompt context, compiler output, parsed draft
  \* the runtime
  context,       \* the object's session, as the fingerprint of a prompt sees it
  written,       \* how often each step was ingested by the runtime
  \* the processes
  me,            \* where each process is, and what it holds in memory
  answer,        \* what each process returned last
  attempts, deaths

artifacts == <<spec, runState, backlog, verification, finalOutput, delegates,
               reviews, capability, execution>>
runtime == <<context, written>>
counters == <<attempts, deaths>>
vars == <<artifacts, runtime, me, answer, counters>>

NoSpec == [version |-> 0, request |-> NoRequest]
NoStep == [version |-> 0, draft |-> NoDraft]
NoExecution == [input |-> NoRequest, prompt |-> NoRequest, seen |-> 0,
                output |-> FALSE, draft |-> NoDraft]
Idle == [pc |-> "idle", request |-> NoRequest, seen |-> 0, draft |-> NoDraft,
         version |-> 0, loaded |-> 0, state |-> "INIT", vetoed |-> FALSE]
NoAnswer == [result |-> "none", request |-> NoRequest, version |-> 0, draft |-> NoDraft]

Init ==
  /\ spec = NoSpec
  /\ runState = [state |-> "INIT", version |-> 0, step |-> NoStep]
  /\ backlog = FALSE
  /\ verification = "none"
  /\ finalOutput = "none"
  /\ delegates = {}
  /\ reviews = [s \in Step |-> "none"]
  /\ capability = [s \in Step |-> "none"]
  /\ execution = NoExecution
  /\ context = 0
  /\ written = [s \in Step |-> 0]
  /\ me = [o \in Owner |-> Idle]
  /\ answer = [o \in Owner |-> NoAnswer]
  /\ attempts = 0
  /\ deaths = 0

-----------------------------------------------------------------------------
\* Helpers.

MyStep(o) == [version |-> me[o].version, draft |-> me[o].draft]
At(o, label) == me[o].pc = label
Goto(o, label) == me' = [me EXCEPT ![o].pc = label]
GotoAs(o, label, state) == me' = [me EXCEPT ![o].pc = label, ![o].state = state]

\* The process returns, or raises, and forgets everything.
Return(o, result) ==
  /\ me' = [me EXCEPT ![o] = Idle]
  /\ answer' = [answer EXCEPT ![o] =
       [result |-> result, request |-> me[o].request,
        version |-> me[o].version, draft |-> me[o].draft]]

\* _transition writes run_state.json from the record in memory.
Record(o, state) ==
  runState' = [state |-> state, version |-> me[o].loaded, step |-> MyStep(o)]

RecordedIn(version) == {s \in delegates : s.version = version}

Recovered_NoContradiction ==
  IF finalOutput # "none" THEN finalOutput
  ELSE IF verification = "passed" THEN "VERIFIED"
  ELSE IF RecordedIn(spec.version) # {} THEN "WRITTEN"
  ELSE IF backlog THEN "PLANNED" ELSE "SPECIFIED"

Recovered_WithoutDelegates ==
  IF finalOutput # "none" THEN finalOutput
  ELSE IF verification = "passed" THEN "VERIFIED"
  ELSE IF backlog THEN "PLANNED" ELSE "SPECIFIED"

\* recover_run_record: the state of the run is derived from its artifacts.
Recovered ==
  LET wrote == RecordedIn(spec.version) # {}
      reviewed == \E s \in Step : s.version = spec.version /\ reviews[s] # "none"
      contradiction == /\ ~wrote
                       /\ reviewed \/ verification = "passed" \/ finalOutput = "FINALIZED"
  IN CASE contradiction            -> "FAILED"
       [] ~contradiction /\ finalOutput # "none" -> finalOutput
       [] ~contradiction /\ finalOutput = "none" /\ verification = "passed" -> "VERIFIED"
       [] ~contradiction /\ finalOutput = "none" /\ verification # "passed" ->
            IF reviewed THEN "REVIEWED"
            ELSE IF wrote THEN "WRITTEN"
            ELSE IF backlog THEN "PLANNED" ELSE "SPECIFIED"

\* load_run_record replaces the record in memory by what is on disk.
Reload(o, label) ==
  me' = [me EXCEPT ![o].pc = label, ![o].state = Recovered, ![o].loaded = spec.version]

-----------------------------------------------------------------------------
\* The execution pipeline: compile a draft, or reuse the one on disk.

Reusable_SameContext(r) == execution.seen = context /\ execution.output

Reusable(r) ==
  /\ execution.input = r
  /\ execution.prompt = r /\ execution.seen = context
  /\ execution.output

\* A compilation ends with a draft of the observation, or is refused.
Begin(o, r, draft) ==
  /\ At(o, "idle")
  /\ attempts < MaxAttempts
  /\ attempts' = attempts + 1
  /\ me' = [me EXCEPT ![o] =
       [Idle EXCEPT !.request = r, !.seen = context,
                    !.pc = IF Reusable(r) THEN "load" ELSE "write_input",
                    !.draft = IF Reusable(r) THEN execution.draft ELSE draft]]
  /\ UNCHANGED <<artifacts, runtime, answer, deaths>>

\* The object has no session, or its context cannot be built: nothing is compiled.
BeginWithout(o, r) ==
  /\ At(o, "idle")
  /\ attempts < MaxAttempts
  /\ attempts' = attempts + 1
  /\ me' = [me EXCEPT ![o] = [Idle EXCEPT !.request = r, !.pc = "load"]]
  /\ UNCHANGED <<artifacts, runtime, answer, deaths>>

WriteInput(o) ==
  /\ At(o, "write_input")
  /\ execution' = [execution EXCEPT !.input = me[o].request]
  /\ Goto(o, "write_prompt")
  /\ UNCHANGED <<spec, runState, backlog, verification, finalOutput, delegates,
                 reviews, capability, runtime, answer, counters>>

WritePrompt(o) ==
  /\ At(o, "write_prompt")
  /\ execution' = [execution EXCEPT !.prompt = me[o].request, !.seen = me[o].seen]
  /\ me' = [me EXCEPT ![o].pc = "write_output", ![o].seen = 0]
  /\ UNCHANGED <<spec, runState, backlog, verification, finalOutput, delegates,
                 reviews, capability, runtime, answer, counters>>

\* A refusal writes no draft, and leaves the draft of an earlier compilation.
WriteOutput(o) ==
  /\ At(o, "write_output")
  /\ execution' = [execution EXCEPT !.output = TRUE]
  /\ Goto(o, IF me[o].draft = NoDraft THEN "load" ELSE "write_draft")
  /\ UNCHANGED <<spec, runState, backlog, verification, finalOutput, delegates,
                 reviews, capability, runtime, answer, counters>>

WriteDraft(o) ==
  /\ At(o, "write_draft")
  /\ execution' = [execution EXCEPT !.draft = me[o].draft]
  /\ Goto(o, "load")
  /\ UNCHANGED <<spec, runState, backlog, verification, finalOutput, delegates,
                 reviews, capability, runtime, answer, counters>>

-----------------------------------------------------------------------------
\* Initialise the run, or restore it.

\* The same observation continues the run; another opens the next version.
Load(o) ==
  /\ At(o, "load")
  /\ \/ /\ spec.request = me[o].request
        /\ me' = [me EXCEPT ![o].pc = "plan", ![o].version = spec.version,
                            ![o].loaded = spec.version, ![o].state = Recovered]
        /\ UNCHANGED runState
     \/ /\ spec.request # me[o].request
        /\ me' = [me EXCEPT ![o].pc = "write_spec", ![o].version = spec.version + 1,
                            ![o].loaded = spec.version + 1]
        /\ runState' = [state |-> "INIT", version |-> spec.version + 1, step |-> NoStep]
  /\ UNCHANGED <<spec, backlog, verification, finalOutput, delegates, reviews,
                 capability, execution, runtime, answer, counters>>

WriteSpec(o) ==
  /\ At(o, "write_spec")
  /\ spec' = [version |-> me[o].version, request |-> me[o].request]
  /\ Goto(o, IF me[o].version > 1 THEN "clear_plan" ELSE "specify")
  /\ UNCHANGED <<runState, backlog, verification, finalOutput, delegates, reviews,
                 capability, execution, runtime, answer, counters>>

ClearPlan(o) ==
  /\ At(o, "clear_plan")
  /\ backlog' = FALSE
  /\ Goto(o, "clear_verification")
  /\ UNCHANGED <<spec, runState, verification, finalOutput, delegates, reviews,
                 capability, execution, runtime, answer, counters>>

ClearVerification(o) ==
  /\ At(o, "clear_verification")
  /\ verification' = "none"
  /\ Goto(o, "clear_output")
  /\ UNCHANGED <<spec, runState, backlog, finalOutput, delegates, reviews,
                 capability, execution, runtime, answer, counters>>

ClearOutput(o) ==
  /\ At(o, "clear_output")
  /\ finalOutput' = "none"
  /\ Goto(o, "clear_execution")
  /\ UNCHANGED <<spec, runState, backlog, verification, delegates, reviews,
                 capability, execution, runtime, answer, counters>>

\* The files of agent_execution/ go one by one, in the order of a glob.
Unlinked ==
  {[execution EXCEPT !.input = NoRequest], [execution EXCEPT !.prompt = NoRequest, !.seen = 0],
   [execution EXCEPT !.output = FALSE], [execution EXCEPT !.draft = NoDraft]}

ClearExecution(o) ==
  /\ At(o, "clear_execution")
  /\ \/ execution # NoExecution /\ execution' \in Unlinked \ {execution} /\ UNCHANGED me
     \/ execution = NoExecution /\ Goto(o, "stale") /\ UNCHANGED execution
  /\ UNCHANGED <<spec, runState, backlog, verification, finalOutput, delegates,
                 reviews, capability, runtime, answer, counters>>

\* The capabilities of older versions become STALE, one file after another.
StaleCapability(o) ==
  LET older == {s \in Step : capability[s] \notin {"none", "STALE"} /\ s.version < me[o].version}
  IN
  /\ At(o, "stale")
  /\ \/ /\ \E s \in older : capability' = [capability EXCEPT ![s] = "STALE"]
        /\ UNCHANGED me
     \/ older = {} /\ Goto(o, "specify") /\ UNCHANGED capability
  /\ UNCHANGED <<spec, runState, backlog, verification, finalOutput, delegates,
                 reviews, execution, runtime, answer, counters>>

Specify(o) ==
  /\ At(o, "specify")
  /\ runState' = [state |-> "SPECIFIED", version |-> me[o].version, step |-> NoStep]
  /\ GotoAs(o, "plan", "SPECIFIED")
  /\ UNCHANGED <<spec, backlog, verification, finalOutput, delegates, reviews,
                 capability, execution, runtime, answer, counters>>

-----------------------------------------------------------------------------
\* Plan and delegate.

\* A concluded run answers again with what it concluded.
Replay(o) ==
  /\ At(o, "plan")
  /\ me[o].state \in Terminal /\ finalOutput # "none"
  /\ Return(o, me[o].state)
  /\ UNCHANGED <<artifacts, runtime, counters>>

Planned_WithoutReplay(o) ==
  /\ At(o, "plan")
  /\ Goto(o, "write_backlog")
  /\ UNCHANGED <<artifacts, runtime, answer, counters>>

Planned(o) ==
  /\ At(o, "plan")
  /\ ~(me[o].state \in Terminal /\ finalOutput # "none")
  /\ IF me[o].state \in {"INIT", "SPECIFIED"}
     THEN /\ Record(o, "PLANNED")
          /\ GotoAs(o, "write_backlog", "PLANNED")
     ELSE /\ Goto(o, "write_backlog")
          /\ UNCHANGED runState
  /\ UNCHANGED <<spec, backlog, verification, finalOutput, delegates, reviews,
                 capability, execution, runtime, answer, counters>>

WriteBacklog(o) ==
  /\ At(o, "write_backlog")
  /\ backlog' = TRUE
  /\ Goto(o, IF me[o].draft = NoDraft THEN "refuse"
             ELSE IF MyStep(o) \in delegates THEN "complete" ELSE "delegate")
  /\ UNCHANGED <<spec, runState, verification, finalOutput, delegates, reviews,
                 capability, execution, runtime, answer, counters>>

\* A refused admission ends in the same three writes as a vetoed review.
Refuse(o) ==
  /\ At(o, "refuse")
  /\ verification' = "failed"
  /\ Goto(o, "output_blocked")
  /\ UNCHANGED <<spec, runState, backlog, finalOutput, delegates, reviews,
                 capability, execution, runtime, answer, counters>>

OutputBlocked(o) ==
  /\ At(o, "output_blocked")
  /\ finalOutput' = "BLOCKED"
  /\ Goto(o, "record_blocked")
  /\ UNCHANGED <<spec, runState, backlog, verification, delegates, reviews,
                 capability, execution, runtime, answer, counters>>

RecordBlocked(o) ==
  /\ At(o, "record_blocked")
  /\ IF Legal(me[o].state, "BLOCKED")
     THEN Record(o, "BLOCKED") /\ Return(o, "BLOCKED")
     ELSE Return(o, "raised") /\ UNCHANGED runState
  /\ UNCHANGED <<spec, backlog, verification, finalOutput, delegates, reviews,
                 capability, execution, runtime, counters>>

Delegate(o) ==
  /\ At(o, "delegate")
  /\ IF Legal(me[o].state, "DELEGATED")
     THEN /\ Record(o, "DELEGATED")
          /\ GotoAs(o, "issue", "DELEGATED")
          /\ UNCHANGED answer
     ELSE Return(o, "raised") /\ UNCHANGED runState
  /\ UNCHANGED <<spec, backlog, verification, finalOutput, delegates, reviews,
                 capability, execution, runtime, counters>>

IssueCapability(o) ==
  /\ At(o, "issue")
  /\ capability' = [capability EXCEPT ![MyStep(o)] = "ACTIVE"]
  /\ Goto(o, "check")
  /\ UNCHANGED <<spec, runState, backlog, verification, finalOutput, delegates,
                 reviews, execution, runtime, answer, counters>>

\* The submitter accepts the capability only while the run is delegated to it.
CheckCapability(o) ==
  /\ At(o, "check")
  /\ Goto(o, IF /\ capability[MyStep(o)] = "ACTIVE"
                /\ runState = [state |-> "DELEGATED", version |-> me[o].version,
                               step |-> MyStep(o)]
             THEN "write" ELSE "fail_capability")
  /\ UNCHANGED <<artifacts, runtime, answer, counters>>

Ingested(o) ==
  /\ context < MaxContext
  /\ context' = context + 1
  /\ written' = [written EXCEPT ![MyStep(o)] = @ + 1]

Write(o) ==
  /\ At(o, "write")
  /\ Ingested(o)
  /\ Goto(o, "record")
  /\ UNCHANGED <<artifacts, answer, counters>>

\* The runtime raises, before the session is saved or after it.
WriteRaises(o) ==
  /\ At(o, "write")
  /\ Ingested(o) \/ UNCHANGED runtime
  /\ Goto(o, "fail_capability")
  /\ UNCHANGED <<artifacts, answer, counters>>

AppendDelegate(o) ==
  /\ At(o, "record")
  /\ delegates' = delegates \union {MyStep(o)}
  /\ Goto(o, "consume")
  /\ UNCHANGED <<spec, runState, backlog, verification, finalOutput, reviews,
                 capability, execution, runtime, answer, counters>>

ConsumeCapability(o) ==
  /\ At(o, "consume")
  /\ capability' = [capability EXCEPT ![MyStep(o)] = "CONSUMED"]
  /\ Goto(o, "written")
  /\ UNCHANGED <<spec, runState, backlog, verification, finalOutput, delegates,
                 reviews, execution, runtime, answer, counters>>

RecordWritten(o) ==
  /\ At(o, "written")
  /\ Record(o, "WRITTEN")
  /\ GotoAs(o, "complete", "WRITTEN")
  /\ UNCHANGED <<spec, backlog, verification, finalOutput, delegates, reviews,
                 capability, execution, runtime, answer, counters>>

FailCapability(o) ==
  /\ At(o, "fail_capability")
  /\ capability' = [capability EXCEPT ![MyStep(o)] = "FAILED"]
  /\ Goto(o, "fail")
  /\ UNCHANGED <<spec, runState, backlog, verification, finalOutput, delegates,
                 reviews, execution, runtime, answer, counters>>

-----------------------------------------------------------------------------
\* Fail closed: verification, final output, state.

Fail(o) ==
  /\ At(o, "fail")
  /\ verification' = "failed"
  /\ Goto(o, "output_failed")
  /\ UNCHANGED <<spec, runState, backlog, finalOutput, delegates, reviews,
                 capability, execution, runtime, answer, counters>>

OutputFailed(o) ==
  /\ At(o, "output_failed")
  /\ finalOutput' = "FAILED"
  /\ Goto(o, "record_failed")
  /\ UNCHANGED <<spec, runState, backlog, verification, delegates, reviews,
                 capability, execution, runtime, answer, counters>>

\* What the runtime raised is raised again once the run is recorded FAILED; a
\* failed review is answered.
RecordFailed(o) ==
  /\ At(o, "record_failed")
  /\ IF Legal(me[o].state, "FAILED")
     THEN Record(o, "FAILED") /\ Return(o, IF me[o].state = "DELEGATED" THEN "raised" ELSE "FAILED")
     ELSE Return(o, "raised") /\ UNCHANGED runState
  /\ UNCHANGED <<spec, backlog, verification, finalOutput, delegates, reviews,
                 capability, execution, runtime, counters>>

-----------------------------------------------------------------------------
\* Review, verify, conclude.

Complete_AsksAgain(o) ==
  /\ At(o, "complete")
  /\ Reload(o, IF Reviewed THEN "inspect" ELSE "verify")
  /\ UNCHANGED <<artifacts, runtime, answer, counters>>

\* The run is loaded again; a review already on disk is not asked for twice.
Complete(o) ==
  /\ At(o, "complete")
  /\ Reload(o, IF ~Reviewed THEN "verify"
               ELSE CASE reviews[MyStep(o)] = "none"   -> "inspect"
                      [] reviews[MyStep(o)] = "passed" -> "record_reviewed"
                      [] reviews[MyStep(o)] = "failed" -> "record_vetoed")
  /\ UNCHANGED <<artifacts, runtime, answer, counters>>

\* Another process may have appended a review of this step: which of the two
\* files is read from then on depends on their sequence numbers.
Inspect(o, verdict) ==
  /\ At(o, "inspect")
  /\ \/ reviews' = [reviews EXCEPT ![MyStep(o)] = verdict]
     \/ reviews[MyStep(o)] # "none" /\ UNCHANGED reviews
  /\ Goto(o, IF verdict = "passed" THEN "record_reviewed" ELSE "record_vetoed")
  /\ UNCHANGED <<spec, runState, backlog, verification, finalOutput, delegates,
                 capability, execution, runtime, answer, counters>>

InspectRaises(o) ==
  /\ At(o, "inspect")
  /\ Goto(o, "fail")
  /\ UNCHANGED <<artifacts, runtime, answer, counters>>

\* An illegal transition here is caught, and the run fails closed.
RecordReviewed(o) ==
  /\ At(o, "record_reviewed")
  /\ IF Legal(me[o].state, "REVIEWED")
     THEN Record(o, "REVIEWED") /\ Goto(o, "verify")
     ELSE Goto(o, "fail") /\ UNCHANGED runState
  /\ UNCHANGED <<spec, backlog, verification, finalOutput, delegates, reviews,
                 capability, execution, runtime, answer, counters>>

RecordVetoed(o) ==
  /\ At(o, "record_vetoed")
  /\ IF Legal(me[o].state, "BLOCKED")
     THEN /\ Record(o, "BLOCKED")
          /\ me' = [me EXCEPT ![o].pc = "verify", ![o].vetoed = TRUE]
     ELSE Goto(o, "fail") /\ UNCHANGED runState
  /\ UNCHANGED <<spec, backlog, verification, finalOutput, delegates, reviews,
                 capability, execution, runtime, answer, counters>>

\* The state is loaded, then the verification written.  It is complete whenever
\* no review blocks: the artifact exists, the reviews are there, and a write that
\* accepted no signal raised (runtime_runner.py:1356, 1502), so the BLOCKED of an
\* incomplete verification is never reached.
Verify(o) ==
  /\ At(o, "verify")
  /\ verification' = IF me[o].vetoed THEN "failed" ELSE "passed"
  /\ Reload(o, IF me[o].vetoed THEN "output_blocked" ELSE "conclude")
  /\ UNCHANGED <<spec, runState, backlog, finalOutput, delegates, reviews,
                 capability, execution, runtime, answer, counters>>

\* REVIEWED and VERIFIED are recorded, one from the other; an illegal first one
\* raises, with the verification on disk and no final output.
RecordVerified(o) ==
  /\ At(o, "conclude")
  /\ IF Legal(me[o].state, IF Reviewed THEN "REVIEWED" ELSE "VERIFIED")
     THEN /\ Record(o, "VERIFIED")
          /\ GotoAs(o, "output_finalized", "VERIFIED")
          /\ UNCHANGED answer
     ELSE Return(o, "raised") /\ UNCHANGED runState
  /\ UNCHANGED <<spec, backlog, verification, finalOutput, delegates, reviews,
                 capability, execution, runtime, counters>>

OutputFinalized(o) ==
  /\ At(o, "output_finalized")
  /\ finalOutput' = "FINALIZED"
  /\ Goto(o, "record_finalized")
  /\ UNCHANGED <<spec, runState, backlog, verification, delegates, reviews,
                 capability, execution, runtime, answer, counters>>

RecordFinalized(o) ==
  /\ At(o, "record_finalized")
  /\ Record(o, "FINALIZED")
  /\ Return(o, "FINALIZED")
  /\ UNCHANGED <<spec, backlog, verification, finalOutput, delegates, reviews,
                 capability, execution, runtime, counters>>

-----------------------------------------------------------------------------
\* The environment.

\* Another delegate's run writes to the same object.
ObjectChanges ==
  /\ context < MaxContext
  /\ context' = context + 1
  /\ UNCHANGED <<artifacts, written, me, answer, counters>>

Die(o) ==
  /\ ~At(o, "idle")
  /\ deaths < MaxDeaths
  /\ deaths' = deaths + 1
  /\ me' = [me EXCEPT ![o] = Idle]
  /\ UNCHANGED <<artifacts, runtime, answer, attempts>>

Compile(o) ==
  \/ \E r \in Request :
       \/ BeginWithout(o, r) \/ Begin(o, r, NoDraft)
       \/ \E t \in Take : Begin(o, r, [of |-> r, take |-> t])
  \/ WriteInput(o) \/ WritePrompt(o) \/ WriteOutput(o) \/ WriteDraft(o)

Restore(o) ==
  \/ Load(o) \/ WriteSpec(o) \/ ClearPlan(o) \/ ClearVerification(o)
  \/ ClearOutput(o) \/ ClearExecution(o) \/ StaleCapability(o) \/ Specify(o)

Execute(o) ==
  \/ Replay(o) \/ Planned(o) \/ WriteBacklog(o) \/ Refuse(o) \/ Delegate(o)
  \/ IssueCapability(o) \/ CheckCapability(o) \/ Write(o) \/ WriteRaises(o)
  \/ AppendDelegate(o) \/ ConsumeCapability(o) \/ RecordWritten(o) \/ FailCapability(o)

Conclude(o) ==
  \/ Complete(o) \/ (\E v \in {"passed", "failed"} : Inspect(o, v))
  \/ InspectRaises(o) \/ RecordReviewed(o) \/ RecordVetoed(o) \/ Verify(o)
  \/ RecordVerified(o) \/ OutputFinalized(o) \/ RecordFinalized(o)
  \/ OutputBlocked(o) \/ RecordBlocked(o) \/ Fail(o) \/ OutputFailed(o) \/ RecordFailed(o)

Next ==
  \/ \E o \in Owner : Compile(o) \/ Restore(o) \/ Execute(o) \/ Conclude(o) \/ Die(o)
  \/ ObjectChanges

Spec == Init /\ [][Next]_vars
-----------------------------------------------------------------------------
\* Properties.

Label == {"idle", "write_input", "write_prompt", "write_output", "write_draft",
          "load", "write_spec", "clear_plan", "clear_verification", "clear_output",
          "clear_execution", "stale", "specify", "plan", "write_backlog", "refuse", "delegate", "issue", "check",
          "write", "record", "consume", "written", "complete", "inspect",
          "record_reviewed", "record_vetoed", "verify", "conclude",
          "output_finalized", "record_finalized", "output_blocked",
          "record_blocked", "fail_capability", "fail", "output_failed", "record_failed"}

AnyStep == [version : Nat, draft : Draft \union {NoDraft}]

\* The artifacts and the processes keep their types.
TypeOK ==
  /\ spec \in [version : 0 .. MaxAttempts, request : Request \union {NoRequest}]
  /\ runState.state \in RunState /\ runState.version \in 0 .. MaxAttempts
  /\ runState.step \in AnyStep
  /\ backlog \in BOOLEAN
  /\ verification \in {"none", "failed", "passed"}
  /\ finalOutput \in {"none"} \union Terminal
  /\ delegates \subseteq Step
  /\ reviews \in [Step -> {"none", "passed", "failed"}]
  /\ capability \in [Step -> {"none", "ACTIVE", "CONSUMED", "FAILED", "STALE"}]
  /\ execution \in [input : Request \union {NoRequest}, prompt : Request \union {NoRequest},
                    seen : Context, output : BOOLEAN, draft : Draft \union {NoDraft}]
  /\ context \in Context
  /\ written \in [Step -> Context]
  /\ me \in [Owner -> [pc : Label, request : Request \union {NoRequest}, seen : Context,
                       draft : Draft \union {NoDraft}, version : 0 .. MaxAttempts,
                       loaded : 0 .. MaxAttempts, state : RunState, vetoed : BOOLEAN]]
  /\ answer \in [Owner -> [result : Terminal \union {"none", "raised"},
                           request : Request \union {NoRequest},
                           version : 0 .. MaxAttempts, draft : Draft \union {NoDraft}]]
  /\ attempts \in 0 .. MaxAttempts
  /\ deaths \in 0 .. MaxDeaths

\* A run that answers FINALIZED, at once or again after a death, has a delegate
\* artifact of its own version, the runtime ingested it, and a required review passed.
FinalizedIsBacked ==
  \A o \in Owner : answer[o].result = "FINALIZED" =>
    \E s \in RecordedIn(answer[o].version) :
      written[s] > 0 /\ (Reviewed => reviews[s] = "passed")

\* Once a version has a delegate artifact the runtime is not asked again for that
\* version, whatever the retry compiles.
RecordedIsNotRewritten ==
  [][\A s \in Step : written'[s] > written[s] => RecordedIn(s.version) = {}]_vars

\* A final output stays until a new observation supersedes its version.
ConclusionStands ==
  [][finalOutput # "none" => finalOutput' \in {finalOutput, "none"}]_vars

\* What a finalized request wrote was compiled from its own observation, unless
\* a process died: input, prompt and draft on disk are then of one compilation
\* (continue_existing_slice.py, _reuse_existing_result).
DraftFitsUnlessOneDied ==
  deaths = 0 =>
    \A o \in Owner : answer[o].result = "FINALIZED" /\ answer[o].draft # NoDraft =>
      answer[o].draft.of = answer[o].request

\* An answer, without the draft it came from.
Answered ==
  [o \in Owner |-> [result |-> answer[o].result, request |-> answer[o].request,
                    version |-> answer[o].version]]

\* The processes together, over deaths, retries and new observations, do with the
\* run what RunLedger allows: above all, what is on record is reviewed and
\* concluded once, and no observation is answered with the FINALIZED of another
\* (governed_agent_orchestrator.py, _run and _complete_run).
Ledger == INSTANCE RunLedger WITH
  Caller <- Owner, version <- spec.version, request <- spec.request,
  recorded <- delegates, verdict <- reviews, conclusion <- finalOutput,
  answered <- Answered

KeepsLedger == Ledger!LSpec
=============================================================================
