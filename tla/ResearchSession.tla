---------------------------- MODULE ResearchSession ----------------------------
(***************************************************************************)
(* The session files of the research kernel (core/session.py,               *)
(* FileObjectStore) and the worker processes that run batches over them     *)
(* (RuntimeOrchestrator.run_batch inside runtime_worker).                   *)
(*                                                                         *)
(* A batch is known by its business request id.  Its worker takes the       *)
(* requests in turn, creating an object or continuing one; at the end it    *)
(* reads every session there is and writes each of them back with its new   *)
(* resource slot.  A batch that failed may be sent again, from its first    *)
(* request.  The task lock keeps the workers of one batch apart             *)
(* (WorkerDispatch); nothing keeps apart the workers of different batches.  *)
(*                                                                         *)
(* A save truncates the file and then writes it, so a reader may come in    *)
(* between and a writer may die in between.  Two writers of one file may    *)
(* leave either text or a mixture of both.                                  *)
(***************************************************************************)
EXTENDS ResearchRules

CONSTANTS
  Batch,        \* business request ids
  Plans,        \* what the batches may ask: Batch -> sequence of requests
  FileName,     \* the place of each object's file in the order of the listing
  MaxAttempts,  \* bound on the workers of one batch
  MaxDeaths     \* bound on workers that die

Request == [mode : {"create", "continue"}, object : Object, signals : Seq(Signal),
            terms : Terms]

ASSUME SessionAssumption ==
  /\ Plans \subseteq [Batch -> Seq(Request)]
  /\ FileName \in [Object -> Nat]
  /\ \A o, p \in Object : FileName[o] = FileName[p] => o = p
  /\ MaxAttempts \in Nat /\ MaxDeaths \in Nat

VARIABLES
  plan,        \* what each batch asks
  store,       \* the session file of each object
  worker,      \* the worker of each batch
  deaths,      \* workers that died
  overlapped   \* (history) two workers were at work at the same time

vars == <<plan, store, worker, deaths, overlapped>>

\* In place of the session of a file that does not exist.
NoSession == [state |-> "candidate", risk |-> "normal", claims |-> <<>>, terms |-> DefaultTerms]

\* session: the last text written as a whole; torn: the file does not parse;
\* mixed: two writers have had it open together.
File == [exists : BOOLEAN, torn : BOOLEAN, mixed : BOOLEAN, session : Session]
Place == {"idle", "request", "loaded", "writing", "listing", "rewrite", "rewriting",
          "completed", "failed"}
Worker == [pc : Place, next : Nat \ {0}, memory : Session, files : SUBSET Object,
           todo : SUBSET Object, read : [Object -> Session], attempts : 0..MaxAttempts]

\* A worker that holds nothing.
Empty(pc, attempts) ==
  [pc |-> pc, next |-> 1, memory |-> NoSession, files |-> {}, todo |-> {},
   read |-> [o \in Object |-> NoSession], attempts |-> attempts]

TypeOK ==
  /\ plan \in Plans
  /\ store \in [Object -> File]
  /\ worker \in [Batch -> Worker]
  /\ deaths \in 0..MaxDeaths
  /\ overlapped \in BOOLEAN

Init ==
  /\ plan \in Plans
  /\ store = [o \in Object |->
                [exists |-> FALSE, torn |-> FALSE, mixed |-> FALSE, session |-> NoSession]]
  /\ worker = [b \in Batch |-> Empty("idle", 0)]
  /\ deaths = 0
  /\ overlapped = FALSE

Running == {b \in Batch : worker[b].pc \notin {"idle", "completed", "failed"}}
Current(b) == plan[b][worker[b].next]
NextFile(b, o) ==
  o \in worker[b].todo /\ \A p \in worker[b].todo : FileName[o] <= FileName[p]
Requesting(b, mode) ==
  worker[b].pc = "request" /\ worker[b].next <= Len(plan[b]) /\ Current(b).mode = mode

SignalsOf(claims) == {claims[i].signal : i \in DOMAIN claims}

-----------------------------------------------------------------------------
(* The file of a session. *)

Writers(o) ==
  {b \in Batch : \/ worker[b].pc = "writing" /\ Current(b).object = o
                 \/ worker[b].pc = "rewriting" /\ NextFile(b, o)}

Truncate(o) ==
  store' = [store EXCEPT ![o].exists = TRUE, ![o].torn = TRUE, ![o].mixed = Writers(o) # {}]

Write(b, o, session) ==
  \E torn \in (IF store[o].mixed THEN BOOLEAN ELSE {FALSE}) :
    store' = [store EXCEPT ![o] = [exists |-> TRUE, torn |-> torn, session |-> session,
                                   mixed |-> store[o].mixed /\ Writers(o) # {b}]]

Readable(o) == store[o].exists /\ ~store[o].torn

-----------------------------------------------------------------------------
(* The worker. *)

Failed(b) ==
  worker' = [worker EXCEPT ![b] = Empty("failed", worker[b].attempts)]

\* A completed batch is answered from its record (WorkerDispatch).
Begin(b) ==
  /\ worker[b].pc \in {"idle", "failed"} /\ worker[b].attempts < MaxAttempts
  /\ plan[b] # <<>>
  /\ worker' = [worker EXCEPT ![b] = Empty("request", worker[b].attempts + 1)]
  /\ overlapped' = (overlapped \/ Running # {})
  /\ UNCHANGED <<plan, store, deaths>>

\* The pass ends in a save, unless it raises.
Save(b, session) ==
  IF Current(b).signals = <<>> \/ session.state = "raised"
  THEN Failed(b) /\ UNCHANGED store
  ELSE /\ Truncate(Current(b).object)
       /\ worker' = [worker EXCEPT ![b].pc = "writing", ![b].memory = session]

\* run_new does not look whether the object exists.
RunNew(b) ==
  /\ Requesting(b, "create")
  /\ Save(b, Created(Current(b)))
  /\ UNCHANGED <<plan, deaths, overlapped>>

Load(b) ==
  /\ Requesting(b, "continue")
  /\ IF Readable(Current(b).object)
     THEN worker' = [worker EXCEPT ![b].pc = "loaded",
                                   ![b].memory = store[Current(b).object].session]
     ELSE Failed(b)
  /\ UNCHANGED <<plan, store, deaths, overlapped>>

ContinueExisting(b) ==
  /\ worker[b].pc = "loaded"
  /\ Save(b, Continued(Current(b), worker[b].memory))
  /\ UNCHANGED <<plan, deaths, overlapped>>

FinishSave(b) ==
  /\ worker[b].pc = "writing"
  /\ Write(b, Current(b).object, worker[b].memory)
  /\ worker' = [worker EXCEPT ![b].pc = "request", ![b].next = @ + 1]
  /\ UNCHANGED <<plan, deaths, overlapped>>

\* _reallocate_store_sessions: list_sessions, first the names, then file by file,
ListSessions(b) ==
  LET names == {o \in Object : store[o].exists} IN
  /\ worker[b].pc = "request" /\ worker[b].next > Len(plan[b])
  /\ worker' = [worker EXCEPT ![b].pc = "listing", ![b].files = names, ![b].todo = names]
  /\ UNCHANGED <<plan, store, deaths, overlapped>>

ReadListed(b) ==
  /\ worker[b].pc = "listing"
  /\ \E o \in Object :
       /\ NextFile(b, o)
       /\ IF Readable(o)
          THEN worker' = [worker EXCEPT ![b].read[o] = store[o].session, ![b].todo = @ \ {o}]
          ELSE Failed(b)
  /\ UNCHANGED <<plan, store, deaths, overlapped>>

AllRead(b) ==
  /\ worker[b].pc = "listing" /\ worker[b].todo = {}
  /\ worker' = [worker EXCEPT ![b].pc = "rewrite", ![b].todo = worker[b].files]
  /\ UNCHANGED <<plan, store, deaths, overlapped>>

\* then every session is saved as it was read, with its slot.
Rewrite(b) ==
  /\ worker[b].pc = "rewrite"
  /\ \E o \in Object : NextFile(b, o) /\ Truncate(o)
  /\ worker' = [worker EXCEPT ![b].pc = "rewriting"]
  /\ UNCHANGED <<plan, deaths, overlapped>>

FinishRewrite(b) ==
  /\ worker[b].pc = "rewriting"
  /\ \E o \in Object :
       /\ NextFile(b, o) /\ Write(b, o, worker[b].read[o])
       /\ worker' = [worker EXCEPT ![b].pc = "rewrite", ![b].todo = @ \ {o}]
  /\ UNCHANGED <<plan, deaths, overlapped>>

Complete(b) ==
  /\ worker[b].pc = "rewrite" /\ worker[b].todo = {}
  /\ worker' = [worker EXCEPT ![b] = Empty("completed", worker[b].attempts)]
  /\ UNCHANGED <<plan, store, deaths, overlapped>>

\* The process dies, or its lease is taken away and the next guard raises.
Die(b) ==
  /\ b \in Running /\ deaths < MaxDeaths
  /\ Failed(b)
  /\ deaths' = deaths + 1
  /\ UNCHANGED <<plan, store, overlapped>>

\* Every batch has been answered or given up.
Terminated ==
  /\ \A b \in Batch : \/ worker[b].pc = "completed" \/ plan[b] = <<>>
                      \/ worker[b].pc = "failed" /\ worker[b].attempts = MaxAttempts
  /\ UNCHANGED vars

Next ==
  \/ \E b \in Batch :
       \/ Begin(b) \/ RunNew(b) \/ Load(b) \/ ContinueExisting(b) \/ FinishSave(b)
       \/ ListSessions(b) \/ ReadListed(b) \/ AllRead(b)
       \/ Rewrite(b) \/ FinishRewrite(b) \/ Complete(b) \/ Die(b)
  \/ Terminated

Spec == Init /\ [][Next]_vars

-----------------------------------------------------------------------------
\* A pass leaves its object in a state from which continue_existing can go on,
\* or blocked: an object is never stuck between two states.
AtRest(session) == session.state \in Resumable \cup {"blocked"}

\* The risk on file is the one the claims on file say, although it is derived
\* before they are refreshed, regrouped and promoted, and in passes that end
\* early.
RiskIsOfClaims(session) == session.risk = Risk(session.claims)

\* A publication can be checked again from its file and the profile of the request
\* that published it: three promoted claims of one direction that may anchor a
\* thesis, anchors of two families with strong evidence, the attention that the
\* request asked for, and a risk that allows it.
Earned(o, session) ==
  LET claims == session.claims
      D == Dominant(claims)
  IN /\ session.risk \in {"normal", "caution"}
     /\ Cardinality({i \in D : claims[i].status = "promoted"}) >= 3
     /\ Cardinality({F(claims[i]).family : i \in Anchors(D, claims)}) >= 2
     /\ BestLevel(D, claims) >= 4
     /\ Attention(o, session.terms, claims, session.risk) >= session.terms.threshold

\* What can be read of an object agrees with its own claims, whichever worker
\* wrote it, after deaths, retries and overlapping batches
\* (_process_from_active_research, _finalize, _reallocate_store_sessions).
SavedIsSound ==
  \A o \in Object : Readable(o) =>
    /\ AtRest(store[o].session)
    /\ RiskIsOfClaims(store[o].session)
    /\ store[o].session.state = "published" => Earned(o, store[o].session)

\* Until two workers overlap or the object is created anew: no claim is lost, by
\* passes, by deaths and retries or by the rewrite of all files; and a blocked
\* object stays as it is ("blocked objects require forced review, not normal
\* resume").
CreatedAnew(o) ==
  \E b \in Batch : worker[b].pc = "writing" /\ Current(b).mode = "create" /\ Current(b).object = o
NothingUndone ==
  [][\A o \in Object : \/ overlapped \/ CreatedAnew(o)
                       \/ /\ SignalsOf(store[o].session.claims) \subseteq
                               SignalsOf(store'[o].session.claims)
                          /\ store[o].session.state = "blocked" =>
                               store'[o].session = store[o].session]_vars

\* A worker that is not killed fails because a file is missing or does not parse,
\* or because a request has no signals: never because a pass asks for a move that
\* the state machine refuses, or finds a session it cannot resume.
FailsOnlyOnTheStore ==
  [][\A b \in Batch :
       b \in Running /\ worker'[b].pc = "failed" /\ deaths' = deaths =>
         \/ worker[b].pc = "request" /\ ~Readable(Current(b).object)
         \/ worker[b].pc \in {"request", "loaded"} /\ Current(b).signals = <<>>
         \/ worker[b].pc = "listing" /\ \E o \in Object : NextFile(b, o) /\ ~Readable(o)]_vars
=============================================================================
