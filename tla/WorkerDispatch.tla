---------------------------- MODULE WorkerDispatch ----------------------------
(***************************************************************************)
(* Dispatch of batch requests by the agent runtime: RuntimeOrchestrator.   *)
(* _dispatch_worker (the controller), runtime_worker.main (the worker it   *)
(* spawns), the file lock of the task (worker_operations), the record of   *)
(* the business intent, and the execution leases of execution_control.     *)
(*                                                                         *)
(* A run is one call of run_batch by one controller process, and the one   *)
(* worker process it may spawn.  All runs carry the same business request  *)
(* id, hence share one lock file and one intent record; they may differ in *)
(* payload and in permit.  The other methods take the same path without    *)
(* the intent record.                                                      *)
(*                                                                         *)
(* A process may die between any two steps, a lock or a lease may become   *)
(* stale while its owner lives (a stalled process, a heartbeat that waits  *)
(* for the database), a permit may expire, a stored response may be lost.  *)
(***************************************************************************)
EXTENDS Naturals, FiniteSets

CONSTANTS
  Runs,        \* controller processes
  Permits,     \* execution permits
  Payloads,    \* fingerprints of a batch
  NoRun,       \* no process id, no response
  NoPayload,   \* the intent record does not exist
  Calls,       \* the permits and payloads the runs may carry
  Steps,       \* guarded kernel steps of a batch; one more is not guarded
  Expiring,    \* permits that may expire during the behaviour
  MaxFaults    \* bound on crashes, stalls, losses and expiries together

ASSUME ConstantsAssumption ==
  /\ NoRun \notin Runs /\ NoPayload \notin Payloads
  /\ Calls \subseteq [Runs -> [permit : Permits, payload : Payloads]]
  /\ Steps \in Nat \ {0}
  /\ Expiring \subseteq Permits
  /\ MaxFaults \in Nat

VARIABLES
  call,        \* what each run was called with
  ctl,         \* where each controller stands
  doomed,      \* the leases its cleanup has judged dead
  wkr,         \* the main thread of each worker: place, steps done, final status
  beat,        \* the heartbeat thread of each worker
  lock,        \* the lock file of the task
  intent,      \* the record of the business request
  leases,      \* the lease registry, a row per permit
  responses,   \* runs whose stored response.json exists
  expired,     \* permits past their expiry
  faults,      \* faults so far
  answer,      \* (history) the run whose response a caller was given
  worked,      \* (history) the runs that did kernel work under a permit
  late,        \* (history) kernel steps a worker did after losing its lease
  reclaimed    \* (history) the lock was taken over by replacement

ctlVars == <<call, ctl, doomed, answer>>
wkrVars == <<wkr, beat, worked, late>>
lockVars == <<lock, reclaimed>>
storeVars == <<intent, responses>>
vars == <<ctlVars, wkrVars, lockVars, storeVars, leases, expired, faults>>

Holding == {"creating", "mark", "spawn", "wait", "store", "complete", "release",
            "spawnFailed", "failed", "releaseFailed"}
Ended == {"answered", "raised"}
CtlBusy == {"cleanup", "cleaning", "read", "lock", "reclaim"} \cup Holding
WkrBusy == {"boot", "permit", "leased", "guard", "work", "reallocate",
            "respond", "close", "failing", "unlock", "exiting"}

(* A controller process may outlive its call, so its pid stays alive. *)
ControllerAlive(r) == r \in Runs /\ ctl[r] \in CtlBusy \cup Ended
WorkerAlive(r) == r \in Runs /\ wkr[r].pc \in WkrBusy

LockFields == [status : {"absent", "empty", "active", "completed", "failed", "interrupted"},
               controller : Runs \cup {NoRun}, worker : Runs \cup {NoRun}, fresh : BOOLEAN]
LeaseFields == [status : {"none", "active", "completed", "failed", "interrupted", "orphaned"},
                run : Runs \cup {NoRun}, fresh : BOOLEAN]
IntentFields == [status : {"none", "active", "failed", "interrupted", "completed"},
                 payload : Payloads \cup {NoPayload}, response : Runs \cup {NoRun}]

TypeOK ==
  /\ call \in [Runs -> [permit : Permits, payload : Payloads]]
  /\ ctl \in [Runs -> CtlBusy \cup Ended \cup {"idle", "gone", "dead"}]
  /\ doomed \in [Runs -> SUBSET Permits]
  /\ wkr \in [Runs -> [pc : WkrBusy \cup {"none", "done", "dead"}, steps : 0..(Steps + 1),
                       final : {"failed", "interrupted", "completed"}]]
  /\ beat \in [Runs -> {"off", "on", "beating", "broken"}]
  /\ lock \in LockFields
  /\ intent \in IntentFields
  /\ leases \in [Permits -> LeaseFields]
  /\ responses \subseteq Runs
  /\ expired \subseteq Expiring
  /\ faults \in 0..MaxFaults
  /\ answer \in [Runs -> Runs \cup {NoRun}]
  /\ worked \in [Permits -> SUBSET Runs]
  /\ late \in [Runs -> Nat]
  /\ reclaimed \in BOOLEAN

Init ==
  /\ call \in Calls
  /\ ctl = [r \in Runs |-> "idle"]
  /\ doomed = [r \in Runs |-> {}]
  /\ wkr = [r \in Runs |-> [pc |-> "none", steps |-> 0, final |-> "failed"]]
  /\ beat = [r \in Runs |-> "off"]
  /\ lock = [status |-> "absent", controller |-> NoRun, worker |-> NoRun, fresh |-> FALSE]
  /\ intent = [status |-> "none", payload |-> NoPayload, response |-> NoRun]
  /\ leases = [p \in Permits |-> [status |-> "none", run |-> NoRun, fresh |-> FALSE]]
  /\ responses = {}
  /\ expired = {}
  /\ faults = 0
  /\ answer = [r \in Runs |-> NoRun]
  /\ worked = [p \in Permits |-> {}]
  /\ late = [r \in Runs |-> 0]
  /\ reclaimed = FALSE

-----------------------------------------------------------------------------
(* The lock file.  A heartbeat and a release read the record and write it  *)
(* back whole; every field this model keeps is overwritten, so what they   *)
(* read is not used and each is one replacement of the file.               *)

LockActive_ByAgeOnly == lock.status = "active" /\ lock.fresh

LockActive ==
  /\ lock.status = "active" /\ lock.fresh
  /\ WorkerAlive(lock.worker) \/ ControllerAlive(lock.controller)

NewRecord(r) == [status |-> "active", controller |-> r, worker |-> NoRun, fresh |-> TRUE]

HeartbeatLock(r) ==
  lock' = [status |-> "active", controller |-> r, worker |-> r, fresh |-> TRUE]

ReleaseLock(status, w) ==
  lock' = [lock EXCEPT !.status = status, !.worker = w, !.fresh = TRUE]

-----------------------------------------------------------------------------
(* The lease registry. *)

PermitValid(p) == p \notin expired

PermitOf(r) == call[r].permit
PayloadOf(r) == call[r].payload
LeaseOf(r) == leases[PermitOf(r)]
HasLease(r) == LeaseOf(r).run = r

MayAcquire_AfterRelease(r) == PermitValid(PermitOf(r)) /\ LeaseOf(r).status # "active"

(* acquire_execution_lease refuses a permit that has a row in any status. *)
MayAcquire(r) == PermitValid(PermitOf(r)) /\ LeaseOf(r).status = "none"

LeaseInForce_FlagOnly(r) == beat[r] # "broken" /\ HasLease(r)

(* require_active_worker_lease: not interrupted, the row active and not expired. *)
LeaseInForce(r) ==
  /\ beat[r] # "broken"
  /\ HasLease(r) /\ LeaseOf(r).status = "active" /\ PermitValid(PermitOf(r))

(* heartbeat_execution_lease updates an active row only. *)
HeartbeatLease(r) ==
  leases' = IF LeaseOf(r).status = "active"
            THEN [leases EXCEPT ![PermitOf(r)].fresh = TRUE]
            ELSE leases

(* release_execution_lease writes the status whatever the row says. *)
ReleaseLease(r, status) ==
  leases' = [leases EXCEPT ![PermitOf(r)].status = status, ![PermitOf(r)].fresh = TRUE]

LeaseDead(p) ==
  /\ leases[p].status = "active"
  /\ ~PermitValid(p) \/ ~WorkerAlive(leases[p].run) \/ ~leases[p].fresh

-----------------------------------------------------------------------------
(* The controller: _dispatch_worker for run_batch. *)

Goto(r, from, to) == ctl[r] = from /\ ctl' = [ctl EXCEPT ![r] = to]

Start(r) ==
  /\ Goto(r, "idle", "cleanup")
  /\ UNCHANGED <<call, doomed, answer, wkrVars, lockVars, storeVars, leases, expired, faults>>

CleanupRead(r) ==
  /\ Goto(r, "cleanup", "cleaning")
  /\ doomed' = [doomed EXCEPT ![r] = {p \in Permits : LeaseDead(p)}]
  /\ UNCHANGED <<call, answer, wkrVars, lockVars, storeVars, leases, expired, faults>>

(* A lease that is no longer active is left alone; one that has beaten since *)
(* it was judged is not.  "orphaned" stands for orphaned and expired.        *)
CleanupWrite(r) ==
  /\ Goto(r, "cleaning", "read")
  /\ leases' = [p \in Permits |->
                  IF p \in doomed[r] /\ leases[p].status = "active"
                  THEN [leases[p] EXCEPT !.status = "orphaned", !.fresh = TRUE]
                  ELSE leases[p]]
  /\ doomed' = [doomed EXCEPT ![r] = {}]
  /\ UNCHANGED <<call, answer, wkrVars, lockVars, storeVars, expired, faults>>

PayloadConflicts_WhileActive(r) ==
  intent.status = "active" /\ intent.payload # PayloadOf(r)

PayloadConflicts(r) == intent.payload # NoPayload /\ intent.payload # PayloadOf(r)

ReadIntent(r) ==
  /\ \/ /\ PayloadConflicts(r)
        /\ Goto(r, "read", "raised") /\ UNCHANGED answer
     \/ /\ ~PayloadConflicts(r) /\ intent.status = "completed"
        /\ IF intent.response \in responses
           THEN Goto(r, "read", "answered")
                /\ answer' = [answer EXCEPT ![r] = intent.response]
           ELSE Goto(r, "read", "raised") /\ UNCHANGED answer
     \/ /\ ~PayloadConflicts(r) /\ intent.status # "completed"
        /\ Goto(r, "read", "lock") /\ UNCHANGED answer
  /\ UNCHANGED <<call, doomed, wkrVars, lockVars, storeVars, leases, expired, faults>>

TryLock_NotExclusive(r) ==
  /\ \/ /\ lock.status \in {"absent", "empty"}
        /\ Goto(r, "lock", "creating")
        /\ lock' = [lock EXCEPT !.status = "empty"]
     \/ /\ lock.status \notin {"absent", "empty"} /\ LockActive
        /\ Goto(r, "lock", "raised") /\ UNCHANGED lock
     \/ /\ lock.status \notin {"absent", "empty"} /\ ~LockActive
        /\ Goto(r, "lock", "reclaim") /\ UNCHANGED lock
  /\ UNCHANGED <<call, doomed, answer, reclaimed, wkrVars, storeVars, leases, expired, faults>>

(* acquire_task_lock creates the file, finds it active, or finds it dead. *)
TryLock(r) ==
  /\ \/ /\ lock.status = "absent"
        /\ Goto(r, "lock", "creating")
        /\ lock' = [lock EXCEPT !.status = "empty"]
     \/ /\ lock.status # "absent" /\ LockActive
        /\ Goto(r, "lock", "raised") /\ UNCHANGED lock
     \/ /\ lock.status # "absent" /\ ~LockActive
        /\ Goto(r, "lock", "reclaim") /\ UNCHANGED lock
  /\ UNCHANGED <<call, doomed, answer, reclaimed, wkrVars, storeVars, leases, expired, faults>>

(* The creator writes through its descriptor: if the empty file has been *)
(* replaced meanwhile, the record goes to a file nobody can see.         *)
WriteCreated(r) ==
  /\ Goto(r, "creating", "mark")
  /\ lock' = IF lock.status = "empty" THEN NewRecord(r) ELSE lock
  /\ UNCHANGED <<call, doomed, answer, reclaimed, wkrVars, storeVars, leases, expired, faults>>

Reclaim(r) ==
  /\ Goto(r, "reclaim", "mark")
  /\ lock' = NewRecord(r)
  /\ reclaimed' = TRUE
  /\ UNCHANGED <<call, doomed, answer, wkrVars, storeVars, leases, expired, faults>>

(* update_business_intent_record keeps what it is not given. *)
SetIntent(r, status) ==
  intent' = [intent EXCEPT !.status = status, !.payload = PayloadOf(r)]

MarkActive(r) ==
  /\ Goto(r, "mark", "spawn")
  /\ SetIntent(r, "active")
  /\ UNCHANGED <<call, doomed, answer, responses, wkrVars, lockVars, leases, expired, faults>>

Spawn(r) ==
  /\ Goto(r, "spawn", "wait")
  /\ wkr' = [wkr EXCEPT ![r].pc = "boot"]
  /\ UNCHANGED <<call, doomed, answer, beat, worked, late, lockVars, storeVars, leases, expired, faults>>

(* Both attempts to create the process raised OSError. *)
SpawnFails(r) ==
  /\ Goto(r, "spawn", "spawnFailed")
  /\ UNCHANGED <<call, doomed, answer, wkrVars, lockVars, storeVars, leases, expired, faults>>

(* process.wait returns: the exit status is 0 only after a completed run. *)
WorkerEnded(r) ==
  /\ \/ /\ wkr[r].pc = "done" /\ wkr[r].final = "completed"
        /\ Goto(r, "wait", "store")
     \/ /\ \/ wkr[r].pc = "dead"
           \/ wkr[r].pc = "done" /\ wkr[r].final # "completed"
        /\ Goto(r, "wait", "failed")
  /\ UNCHANGED <<call, doomed, answer, wkrVars, lockVars, storeVars, leases, expired, faults>>

StoreResponse(r) ==
  /\ Goto(r, "store", "complete")
  /\ responses' = responses \cup {r}
  /\ UNCHANGED <<call, doomed, answer, intent, wkrVars, lockVars, leases, expired, faults>>

MarkCompleted(r) ==
  /\ Goto(r, "complete", "release")
  /\ intent' = [status |-> "completed", payload |-> PayloadOf(r), response |-> r]
  /\ UNCHANGED <<call, doomed, answer, responses, wkrVars, lockVars, leases, expired, faults>>

(* The caller gets the payload read from the response of its own worker. *)
ReleaseCompleted(r) ==
  /\ Goto(r, "release", "answered")
  /\ ReleaseLock("completed", r)
  /\ answer' = [answer EXCEPT ![r] = r]
  /\ UNCHANGED <<call, doomed, reclaimed, wkrVars, storeVars, leases, expired, faults>>

(* The status of a failed run is the worker's own word, if it left one. *)
FailureStatus(r) == IF wkr[r].final = "interrupted" THEN "interrupted" ELSE "failed"

MarkFailed(r) ==
  /\ \/ Goto(r, "failed", "releaseFailed") /\ SetIntent(r, FailureStatus(r))
     \/ Goto(r, "spawnFailed", "releaseFailed") /\ SetIntent(r, "failed")
  /\ UNCHANGED <<call, doomed, answer, responses, wkrVars, lockVars, leases, expired, faults>>

ReleaseFailed_WorkerOnly(r) ==
  /\ Goto(r, "releaseFailed", "raised")
  /\ IF wkr[r].pc = "none" THEN UNCHANGED lock ELSE ReleaseLock("failed", r)
  /\ UNCHANGED <<call, doomed, answer, reclaimed, wkrVars, storeVars, leases, expired, faults>>

ReleaseFailed(r) ==
  /\ Goto(r, "releaseFailed", "raised")
  /\ ReleaseLock("failed", IF wkr[r].pc = "none" THEN NoRun ELSE r)
  /\ UNCHANGED <<call, doomed, answer, reclaimed, wkrVars, storeVars, leases, expired, faults>>

(* The process ends after its call. *)
Quit(r) ==
  /\ ctl[r] \in Ended
  /\ ctl' = [ctl EXCEPT ![r] = "gone"]
  /\ UNCHANGED <<call, doomed, answer, wkrVars, lockVars, storeVars, leases, expired, faults>>

Controller(r) ==
  \/ CleanupRead(r) \/ CleanupWrite(r) \/ ReadIntent(r)
  \/ TryLock(r) \/ WriteCreated(r) \/ Reclaim(r) \/ MarkActive(r)
  \/ Spawn(r) \/ SpawnFails(r) \/ WorkerEnded(r)
  \/ StoreResponse(r) \/ MarkCompleted(r) \/ ReleaseCompleted(r)
  \/ MarkFailed(r) \/ ReleaseFailed(r)

-----------------------------------------------------------------------------
(* The worker: runtime_worker.main. *)

WGoto(r, from, to) == wkr[r].pc = from /\ wkr' = [wkr EXCEPT ![r].pc = to]

Boot(r) ==
  /\ WGoto(r, "boot", "permit")
  /\ HeartbeatLock(r)
  /\ UNCHANGED <<beat, worked, late, reclaimed, ctlVars, storeVars, leases, expired, faults>>

AcquireLease(r) ==
  /\ \/ /\ MayAcquire(r)
        /\ WGoto(r, "permit", "leased")
        /\ leases' = [leases EXCEPT ![PermitOf(r)] =
                        [status |-> "active", run |-> r, fresh |-> TRUE]]
     \/ /\ ~MayAcquire(r)
        /\ WGoto(r, "permit", "failing") /\ UNCHANGED leases
  /\ UNCHANGED <<beat, worked, late, ctlVars, lockVars, storeVars, expired, faults>>

StartHeartbeat(r) ==
  /\ WGoto(r, "leased", "guard")
  /\ HeartbeatLock(r)
  /\ beat' = [beat EXCEPT ![r] = "on"]
  /\ UNCHANGED <<worked, late, reclaimed, ctlVars, storeVars, leases, expired, faults>>

(* _kernel_guard, before every step of the kernel but the last one. *)
Guard(r) ==
  /\ \/ LeaseInForce(r) /\ WGoto(r, "guard", "work")
     \/ ~LeaseInForce(r) /\ WGoto(r, "guard", "failing")
  /\ UNCHANGED <<beat, worked, late, ctlVars, lockVars, storeVars, leases, expired, faults>>

(* A step of the kernel, whether or not the worker still has its lease. *)
KernelStep(r, from, to) ==
  /\ wkr[r].pc = from
  /\ wkr' = [wkr EXCEPT ![r].steps = @ + 1, ![r].pc = to]
  /\ worked' = [worked EXCEPT ![PermitOf(r)] = @ \cup {r}]
  /\ late' = [late EXCEPT ![r] = IF LeaseOf(r).status = "active" THEN @ ELSE @ + 1]
  /\ UNCHANGED <<beat, ctlVars, lockVars, storeVars, leases, expired, faults>>

Work_OneTooMany(r) ==
  KernelStep(r, "work", IF wkr[r].steps = Steps THEN "reallocate" ELSE "guard")

Work(r) ==
  KernelStep(r, "work", IF wkr[r].steps + 1 = Steps THEN "reallocate" ELSE "guard")

(* The last step of run_batch, _reallocate_store_sessions, reads every       *)
(* session of the store and writes it back.  Nothing on that way calls       *)
(* _kernel_guard: a worker that did its guarded steps takes this one whatever *)
(* became of its lease.                                                      *)
Reallocate(r) == KernelStep(r, "reallocate", "respond")

(* The kernel, or the rewrite, raises of its own. *)
WorkRaises(r) ==
  /\ WGoto(r, "work", "failing") \/ WGoto(r, "reallocate", "failing")
  /\ UNCHANGED <<beat, worked, late, ctlVars, lockVars, storeVars, leases, expired, faults>>

Respond(r) ==
  /\ WGoto(r, "respond", "close")
  /\ UNCHANGED <<beat, worked, late, ctlVars, lockVars, storeVars, leases, expired, faults>>

Close(r) ==
  /\ wkr[r].pc = "close"
  /\ wkr' = [wkr EXCEPT ![r].pc = "unlock", ![r].final = "completed"]
  /\ ReleaseLease(r, "completed")
  /\ UNCHANGED <<beat, worked, late, ctlVars, lockVars, storeVars, expired, faults>>

Fail(r) ==
  LET status == IF HasLease(r) /\ beat[r] = "broken" THEN "interrupted" ELSE "failed" IN
  /\ wkr[r].pc = "failing"
  /\ wkr' = [wkr EXCEPT ![r].pc = "unlock", ![r].final = status]
  /\ IF HasLease(r) THEN ReleaseLease(r, status) ELSE UNCHANGED leases
  /\ UNCHANGED <<beat, worked, late, ctlVars, lockVars, storeVars, expired, faults>>

(* The finally clause.  The join of the heartbeat thread has a timeout, so  *)
(* a heartbeat under way may still be running when the lock is released.    *)
Unlock(r) ==
  /\ WGoto(r, "unlock", "exiting")
  /\ ReleaseLock(wkr[r].final, r)
  /\ beat' = [beat EXCEPT ![r] = IF @ = "on" THEN "off" ELSE @]
  /\ UNCHANGED <<worked, late, reclaimed, ctlVars, storeVars, leases, expired, faults>>

Exit(r) ==
  /\ WGoto(r, "exiting", "done")
  /\ beat' = [beat EXCEPT ![r] = "off"]
  /\ UNCHANGED <<worked, late, ctlVars, lockVars, storeVars, leases, expired, faults>>

Worker(r) ==
  \/ Boot(r) \/ AcquireLease(r) \/ StartHeartbeat(r)
  \/ Guard(r) \/ Work(r) \/ Reallocate(r) \/ WorkRaises(r) \/ Respond(r)
  \/ Close(r) \/ Fail(r) \/ Unlock(r) \/ Exit(r)

(* The heartbeat thread: the lease and its check, then the lock. *)
BeatLease(r) ==
  /\ beat[r] = "on"
  /\ HeartbeatLease(r)
  /\ beat' = [beat EXCEPT ![r] = IF LeaseInForce(r) THEN "beating" ELSE "broken"]
  /\ UNCHANGED <<wkr, worked, late, ctlVars, lockVars, storeVars, expired, faults>>

BeatLock(r) ==
  /\ beat[r] = "beating"
  /\ HeartbeatLock(r)
  /\ beat' = [beat EXCEPT ![r] = IF wkr[r].pc = "exiting" THEN "off" ELSE "on"]
  /\ UNCHANGED <<wkr, worked, late, reclaimed, ctlVars, storeVars, leases, expired, faults>>

-----------------------------------------------------------------------------
(* The faults. *)

CrashController(r) ==
  /\ ctl[r] \in CtlBusy /\ faults < MaxFaults
  /\ ctl' = [ctl EXCEPT ![r] = "dead"]
  /\ faults' = faults + 1
  /\ UNCHANGED <<call, doomed, answer, wkrVars, lockVars, storeVars, leases, expired>>

CrashWorker(r) ==
  /\ WorkerAlive(r) /\ faults < MaxFaults
  /\ wkr' = [wkr EXCEPT ![r].pc = "dead"]
  /\ beat' = [beat EXCEPT ![r] = "off"]
  /\ faults' = faults + 1
  /\ UNCHANGED <<worked, late, ctlVars, lockVars, storeVars, leases, expired>>

LockGoesStale ==
  /\ lock.status = "active" /\ lock.fresh /\ faults < MaxFaults
  /\ lock' = [lock EXCEPT !.fresh = FALSE]
  /\ faults' = faults + 1
  /\ UNCHANGED <<reclaimed, ctlVars, wkrVars, storeVars, leases, expired>>

LeaseGoesStale(p) ==
  /\ leases[p].status = "active" /\ leases[p].fresh /\ faults < MaxFaults
  /\ leases' = [leases EXCEPT ![p].fresh = FALSE]
  /\ faults' = faults + 1
  /\ UNCHANGED <<ctlVars, wkrVars, lockVars, storeVars, expired>>

PermitExpires(p) ==
  /\ p \in Expiring \ expired /\ faults < MaxFaults
  /\ expired' = expired \cup {p}
  /\ faults' = faults + 1
  /\ UNCHANGED <<ctlVars, wkrVars, lockVars, storeVars, leases>>

ResponseIsLost(r) ==
  /\ r \in responses /\ faults < MaxFaults
  /\ responses' = responses \ {r}
  /\ faults' = faults + 1
  /\ UNCHANGED <<intent, ctlVars, wkrVars, lockVars, leases, expired>>

Faults ==
  \/ LockGoesStale
  \/ \E r \in Runs : CrashController(r) \/ CrashWorker(r) \/ ResponseIsLost(r)
  \/ \E p \in Permits : LeaseGoesStale(p) \/ PermitExpires(p)

(* All calls are over and no worker is left: the only state to stop in, so  *)
(* that a call nobody can move any more shows as a deadlock.                *)
Terminated ==
  /\ \A r \in Runs : ctl[r] \in {"gone", "dead"} /\ ~WorkerAlive(r)
  /\ UNCHANGED vars

Next ==
  \/ \E r \in Runs : Start(r) \/ Controller(r) \/ Quit(r)
  \/ \E r \in Runs : Worker(r) \/ BeatLease(r) \/ BeatLock(r)
  \/ Faults
  \/ Terminated

Spec == Init /\ [][Next]_vars

-----------------------------------------------------------------------------
(* A permit is single-use: whatever dies, expires or is cleaned up, kernel   *)
(* work under one permit is the work of one worker, because a row of the     *)
(* lease registry in any status consumes the permit.                         *)
PermitWorksOnce == \A p \in Permits : \A r, q \in worked[p] : r = q

(* A response handed to a caller, fresh or replayed, comes from a run of the *)
(* same payload whose worker did every step of the batch and ended well,     *)
(* whoever overwrote the intent record in between.                           *)
AnswersAreOfPayload ==
  \A r \in Runs : answer[r] # NoRun =>
    /\ PayloadOf(answer[r]) = PayloadOf(r)
    /\ wkr[answer[r]].pc = "done" /\ wkr[answer[r]].steps = Steps + 1

(* A worker whose lease was taken away, as orphaned or by anybody's release, *)
(* does at most the one guarded kernel step it had already been let into.    *)
(* Only when that was the last guarded one, or none was left, does it go on: *)
(* to _reallocate_store_sessions, which has no guard, so an evicted worker    *)
(* may still rewrite every session of the store.                             *)
EvictedWorkerStops ==
  \A r \in Runs : late[r] <= IF wkr[r].steps = Steps + 1 THEN 2 ELSE 1

(* As long as no lock was taken over by replacement, the exclusive creation  *)
(* of the file keeps all other runs out of the task: out of the controller's *)
(* critical part and out of the worker.                                      *)
ExclusiveUntilReclaim ==
  \A r, q \in Runs :
    /\ ~reclaimed
    /\ ctl[r] \in Holding \/ WorkerAlive(r)
    /\ ctl[q] \in Holding \/ WorkerAlive(q)
    => r = q

(* When every call has ended and no controller died in its call, the lock is *)
(* not left active: late heartbeats that revived a released record are       *)
(* always followed by a controller's release.                                *)
EndedCallsLeaveNoLock ==
  (\A r \in Runs : ctl[r] \in Ended \cup {"idle", "gone"}) => lock.status # "active"

(* What dead processes left behind never turns a caller away: with no other  *)
(* process alive, an attempt at the lock is not refused.                     *)
DeadNeverBlock ==
  [][\A r \in Runs :
       /\ ctl[r] = "lock" /\ ~WorkerAlive(r)
       /\ \A q \in Runs \ {r} : ~WorkerAlive(q) /\ ~ControllerAlive(q)
       => ctl'[r] # "raised"]_vars

(* Both processes of every run together, over crashes, stalls, expiries,      *)
(* cleanups and lost responses, do with permits, steps and answers what       *)
(* PermitDesk allows (execution_control.py, runtime_worker.main and           *)
(* _dispatch_worker).                                                         *)
Granted == [p \in Permits |-> leases[p].run]
Standing == {p \in Permits : leases[p].status = "active"}
Admitted == {r \in Runs : wkr[r].pc = "work"}
Taken == [r \in Runs |-> wkr[r].steps]
Completed == {r \in Runs : wkr[r].pc = "done" /\ wkr[r].final = "completed"}
Desk == INSTANCE PermitDesk WITH
  granted <- Granted, standing <- Standing, admitted <- Admitted, taken <- Taken,
  finished <- Completed
KeepsDesk == Desk!DSpec

(* Two workers are never inside the kernel for the same task. *)
OneWorkerAtATime ==
  \A r, q \in Runs : wkr[r].pc = "work" /\ wkr[q].pc = "work" => r = q
=============================================================================
