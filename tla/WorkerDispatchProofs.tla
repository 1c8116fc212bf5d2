------------------------ MODULE WorkerDispatchProofs ------------------------
(***************************************************************************)
(* The properties of WorkerDispatch for any number of runs, permits and    *)
(* payloads, any number of kernel steps and any number of faults.          *)
(***************************************************************************)
EXTENDS WorkerDispatch, TLAPS

CtlPlace == CtlBusy \cup Ended \cup {"idle", "gone", "dead"}
WkrPlace == WkrBusy \cup {"none", "done", "dead"}
Controllers == ctl \in [Runs -> CtlPlace]
Workers == wkr \in [Runs -> [pc : WkrPlace, steps : 0..(Steps + 1),
                             final : {"failed", "interrupted", "completed"}]]

\* How far a worker is in its batch.
StepsOf(r) ==
  /\ wkr[r].pc \in {"none", "boot", "permit", "leased"} => wkr[r].steps = 0
  /\ wkr[r].pc \in {"guard", "work"} => wkr[r].steps < Steps
  /\ wkr[r].pc = "reallocate" => wkr[r].steps = Steps
  /\ wkr[r].pc \in {"respond", "close"} => wkr[r].steps = Steps + 1
  /\ wkr[r].final = "completed" => wkr[r].steps = Steps + 1
StepInv == \A r \in Runs : StepsOf(r)

\* Where a controller, its worker and the heartbeat thread may stand together.
Spawned == {"wait", "store", "complete", "release", "failed", "releaseFailed",
            "answered", "raised", "gone", "dead"}
Beating == {"guard", "work", "reallocate", "respond", "close", "failing", "unlock", "exiting"}
PlaceOf(r) ==
  /\ wkr[r].pc # "none" => ctl[r] \in Spawned
  /\ WorkerAlive(r) => ctl[r] \in {"wait", "dead"}
  /\ ctl[r] \in {"store", "complete", "release"} =>
       wkr[r].pc = "done" /\ wkr[r].final = "completed"
  /\ beat[r] # "off" => wkr[r].pc \in Beating
PlaceInv == \A r \in Runs : PlaceOf(r)

LEMMA CtlMoves ==
  ASSUME Controllers, NEW r \in Runs, NEW from, NEW to \in CtlPlace, Goto(r, from, to)
  PROVE  /\ Controllers' /\ ctl[r] = from /\ ctl'[r] = to
         /\ \A q \in Runs \ {r} : ctl'[q] = ctl[q]
  BY DEF Controllers, Goto

LEMMA WkrMoves ==
  ASSUME Workers, StepInv, NEW r \in Runs, NEW from, NEW to \in WkrPlace, WGoto(r, from, to)
  PROVE  /\ Workers' /\ wkr[r].pc = from /\ wkr'[r].pc = to
         /\ wkr'[r].steps = wkr[r].steps /\ wkr'[r].final = wkr[r].final
         /\ \A q \in Runs \ {r} : wkr'[q] = wkr[q]
  BY DEF Workers, WGoto

(* A step of the kernel, guarded or the last one. *)
Works(r) == Work(r) \/ Reallocate(r)

LEMMA WorkMoves ==
  ASSUME Workers, StepInv, NEW r \in Runs, Works(r)
  PROVE  /\ Workers' /\ wkr'[r].steps = wkr[r].steps + 1 /\ wkr'[r].final = wkr[r].final
         /\ Work(r) => /\ wkr[r].pc = "work"
                       /\ wkr'[r].pc = IF wkr'[r].steps = Steps THEN "reallocate" ELSE "guard"
         /\ Reallocate(r) => /\ wkr[r].pc = "reallocate" /\ wkr[r].steps = Steps
                             /\ wkr'[r].pc = "respond"
         /\ wkr[r].pc \in {"work", "reallocate"}
         /\ wkr'[r].pc \in {"guard", "reallocate", "respond"}
         /\ \A q \in Runs \ {r} : wkr'[q] = wkr[q]
<1>1. \A pc \in {"guard", "reallocate", "respond"} : pc \in WkrPlace
  BY DEF WkrPlace, WkrBusy
<1>2. CASE Work(r)
  <2>1. wkr[r].pc = "work" /\ wkr[r].steps \in 0..(Steps + 1) /\ wkr[r].steps < Steps
    BY <1>2 DEF Workers, Work, KernelStep, StepInv, StepsOf
  <2>2. wkr[r].steps + 1 \in 0..(Steps + 1)
    BY <2>1, ConstantsAssumption
  <2> QED
    BY <1>1, <1>2, <2>1, <2>2 DEF Work, Reallocate, KernelStep, Workers
<1>3. CASE Reallocate(r)
  <2>1. wkr[r].pc = "reallocate" /\ wkr[r].steps = Steps
    BY <1>3 DEF Reallocate, KernelStep, StepInv, StepsOf
  <2>2. wkr[r].steps + 1 \in 0..(Steps + 1)
    BY <2>1, ConstantsAssumption
  <2> QED
    BY <1>1, <1>3, <2>1, <2>2 DEF Work, Reallocate, KernelStep, Workers
<1> QED
  BY <1>2, <1>3 DEF Works

LEMMA FinalMoves ==
  ASSUME Workers, NEW r \in Runs, Close(r) \/ Fail(r)
  PROVE  /\ Workers' /\ wkr'[r].pc = "unlock" /\ wkr'[r].steps = wkr[r].steps
         /\ Close(r) => wkr[r].pc = "close" /\ wkr'[r].final = "completed"
         /\ Fail(r) => wkr[r].pc = "failing" /\ wkr'[r].final \in {"failed", "interrupted"}
         /\ \A q \in Runs \ {r} : wkr'[q] = wkr[q]
<1>1. "unlock" \in WkrPlace
  BY DEF WkrPlace, WkrBusy
<1> QED
  BY <1>1 DEF Close, Fail, Workers

LEMMA SpawnMoves ==
  ASSUME Workers, NEW r \in Runs, NEW to \in WkrPlace, wkr' = [wkr EXCEPT ![r].pc = to]
  PROVE  /\ Workers' /\ wkr'[r].pc = to
         /\ wkr'[r].steps = wkr[r].steps /\ wkr'[r].final = wkr[r].final
         /\ \A q \in Runs \ {r} : wkr'[q] = wkr[q]
  BY DEF Workers

Leases == leases \in [Permits -> LeaseFields]

LEMMA Typed ==
  ASSUME TypeOK PROVE Controllers /\ Workers /\ Leases
  BY DEF TypeOK, Controllers, Workers, Leases, CtlPlace, WkrPlace

LEMMA PermitTyped ==
  ASSUME TypeOK, NEW r \in Runs PROVE PermitOf(r) \in Permits
  BY DEF TypeOK, PermitOf

LEMMA ReleaseLeaseTyped ==
  ASSUME TypeOK, NEW r \in Runs,
         NEW status \in {"completed", "failed", "interrupted"}, ReleaseLease(r, status)
  PROVE  Leases'
<1> DEFINE row == [leases[PermitOf(r)] EXCEPT !.status = status, !.fresh = TRUE]
<1>1. PermitOf(r) \in Permits /\ Leases
  BY PermitTyped, Typed
<1>2. row \in LeaseFields
  BY <1>1 DEF Leases, LeaseFields
<1>3. leases' = [leases EXCEPT ![PermitOf(r)] = row]
  BY DEF ReleaseLease
<1> HIDE DEF row
<1> QED
  BY <1>1, <1>2, <1>3 DEF Leases

LEMMA AcquireTyped ==
  ASSUME TypeOK, NEW r \in Runs, AcquireLease(r)
  PROVE  Leases'
<1> DEFINE row == [status |-> "active", run |-> r, fresh |-> TRUE]
<1>1. row \in LeaseFields
  BY DEF LeaseFields
<1>2. leases' = leases \/ leases' = [leases EXCEPT ![PermitOf(r)] = row]
  BY DEF AcquireLease
<1> QED
  BY <1>1, <1>2 DEF TypeOK, Leases

LEMMA SetIntentTyped ==
  ASSUME TypeOK, NEW r \in Runs,
         NEW status \in {"active", "failed", "interrupted"}, SetIntent(r, status)
  PROVE  intent' \in IntentFields
  BY DEF SetIntent, TypeOK, IntentFields, PayloadOf

LEMMA FailureTyped ==
  ASSUME NEW r PROVE FailureStatus(r) \in {"failed", "interrupted"}
  BY DEF FailureStatus

LEMMA TypeStep ==
  ASSUME TypeOK, StepInv, [Next]_vars
  PROVE  TypeOK'
<1>1. CASE UNCHANGED vars
  BY <1>1, Typed DEF TypeOK, vars, ctlVars, wkrVars, lockVars, storeVars
<1>2. CASE Terminated
  BY <1>2, Typed DEF Terminated, TypeOK, vars, ctlVars, wkrVars, lockVars, storeVars
<1>3. CASE LockGoesStale
  <2>1. lock' \in LockFields
    BY <1>3, Typed DEF LockGoesStale, TypeOK, LockFields
  <2>. QED
    BY <1>3, Typed, <2>1, ConstantsAssumption
      DEF LockGoesStale, Controllers, Workers, Leases, CtlPlace, WkrPlace, TypeOK, vars,
          ctlVars, wkrVars, lockVars, storeVars
<1>4. ASSUME NEW r \in Runs, Start(r) PROVE TypeOK'
  <2>1. Controllers'
    BY <1>4, Typed, CtlMoves DEF Start, CtlPlace, WkrPlace, CtlBusy, WkrBusy, Holding, Ended
  <2>2. Workers'
    BY <1>4, Typed DEF Start, Workers, wkrVars
  <2>. QED
    BY <1>4, Typed, <2>1, <2>2, ConstantsAssumption
      DEF Start, Controllers, Workers, Leases, CtlPlace, WkrPlace, TypeOK, vars, ctlVars,
          wkrVars, lockVars, storeVars
<1>5. ASSUME NEW r \in Runs, CleanupRead(r) PROVE TypeOK'
  <2>1. Controllers'
    BY <1>5, Typed, CtlMoves
      DEF CleanupRead, CtlPlace, WkrPlace, CtlBusy, WkrBusy, Holding, Ended
  <2>2. Workers'
    BY <1>5, Typed DEF CleanupRead, Workers, wkrVars
  <2>3. doomed' \in [Runs -> SUBSET Permits]
    BY <1>5, Typed DEF CleanupRead, TypeOK
  <2>. QED
    BY <1>5, Typed, <2>1, <2>2, <2>3, ConstantsAssumption
      DEF CleanupRead, Controllers, Workers, Leases, CtlPlace, WkrPlace, TypeOK, vars,
          ctlVars, wkrVars, lockVars, storeVars
<1>6. ASSUME NEW r \in Runs, CleanupWrite(r) PROVE TypeOK'
  <2>1. Controllers'
    BY <1>6, Typed, CtlMoves
      DEF CleanupWrite, CtlPlace, WkrPlace, CtlBusy, WkrBusy, Holding, Ended
  <2>2. Workers'
    BY <1>6, Typed DEF CleanupWrite, Workers, wkrVars
  <2>3. Leases'
    BY <1>6, Typed DEF CleanupWrite, Leases, LeaseFields
  <2>. QED
    BY <1>6, Typed, <2>1, <2>2, <2>3, ConstantsAssumption
      DEF CleanupWrite, Controllers, Workers, Leases, CtlPlace, WkrPlace, TypeOK, vars,
          ctlVars, wkrVars, lockVars, storeVars
<1>7. ASSUME NEW r \in Runs, ReadIntent(r) PROVE TypeOK'
  <2>1. Controllers'
    BY <1>7, Typed, CtlMoves
      DEF ReadIntent, CtlPlace, WkrPlace, CtlBusy, WkrBusy, Holding, Ended
  <2>2. Workers'
    BY <1>7, Typed DEF ReadIntent, Workers, wkrVars
  <2>3. answer' \in [Runs -> Runs \cup {NoRun}]
    BY <1>7, Typed DEF ReadIntent, TypeOK, IntentFields
  <2>. QED
    BY <1>7, Typed, <2>1, <2>2, <2>3, ConstantsAssumption
      DEF ReadIntent, Controllers, Workers, Leases, CtlPlace, WkrPlace, TypeOK, vars,
          ctlVars, wkrVars, lockVars, storeVars
<1>8. ASSUME NEW r \in Runs, TryLock(r) PROVE TypeOK'
  <2>1. Controllers'
    BY <1>8, Typed, CtlMoves DEF TryLock, CtlPlace, WkrPlace, CtlBusy, WkrBusy, Holding, Ended
  <2>2. Workers'
    BY <1>8, Typed DEF TryLock, Workers, wkrVars
  <2>3. lock' \in LockFields
    BY <1>8, Typed DEF TryLock, TypeOK, LockFields
  <2>. QED
    BY <1>8, Typed, <2>1, <2>2, <2>3, ConstantsAssumption
      DEF TryLock, Controllers, Workers, Leases, CtlPlace, WkrPlace, TypeOK, vars,
          ctlVars, wkrVars, lockVars, storeVars
<1>9. ASSUME NEW r \in Runs, WriteCreated(r) PROVE TypeOK'
  <2>1. Controllers'
    BY <1>9, Typed, CtlMoves
      DEF WriteCreated, CtlPlace, WkrPlace, CtlBusy, WkrBusy, Holding, Ended
  <2>2. Workers'
    BY <1>9, Typed DEF WriteCreated, Workers, wkrVars
  <2>. QED
    BY <1>9, Typed, <2>1, <2>2, ConstantsAssumption
      DEF WriteCreated, NewRecord, Controllers, Workers, Leases, CtlPlace, WkrPlace,
          TypeOK, LockFields, vars, ctlVars, wkrVars, lockVars, storeVars
<1>10. ASSUME NEW r \in Runs, Reclaim(r) PROVE TypeOK'
  <2>1. Controllers'
    BY <1>10, Typed, CtlMoves DEF Reclaim, CtlPlace, WkrPlace, CtlBusy, WkrBusy, Holding, Ended
  <2>2. Workers'
    BY <1>10, Typed DEF Reclaim, Workers, wkrVars
  <2>. QED
    BY <1>10, Typed, <2>1, <2>2, ConstantsAssumption
      DEF Reclaim, NewRecord, Controllers, Workers, Leases, CtlPlace, WkrPlace, TypeOK,
          LockFields, vars, ctlVars, wkrVars, lockVars, storeVars
<1>11. ASSUME NEW r \in Runs, MarkActive(r) PROVE TypeOK'
  <2>1. Controllers'
    BY <1>11, Typed, CtlMoves
      DEF MarkActive, CtlPlace, WkrPlace, CtlBusy, WkrBusy, Holding, Ended
  <2>2. Workers'
    BY <1>11, Typed DEF MarkActive, Workers, wkrVars
  <2>. QED
    BY <1>11, Typed, <2>1, <2>2, ConstantsAssumption
      DEF MarkActive, SetIntent, PayloadOf, Controllers, Workers, Leases, CtlPlace,
          WkrPlace, TypeOK, IntentFields, vars, ctlVars, wkrVars, lockVars, storeVars
<1>12. ASSUME NEW r \in Runs, Spawn(r) PROVE TypeOK'
  <2>1. Controllers'
    BY <1>12, Typed, CtlMoves DEF Spawn, CtlPlace, WkrPlace, CtlBusy, WkrBusy, Holding, Ended
  <2>2. Workers'
    BY <1>12, Typed, SpawnMoves DEF Spawn, CtlPlace, WkrPlace, CtlBusy, WkrBusy, Holding, Ended
  <2>. QED
    BY <1>12, Typed, <2>1, <2>2, ConstantsAssumption
      DEF Spawn, Controllers, Workers, Leases, CtlPlace, WkrPlace, TypeOK, vars, ctlVars,
          wkrVars, lockVars, storeVars
<1>13. ASSUME NEW r \in Runs, SpawnFails(r) PROVE TypeOK'
  <2>1. Controllers'
    BY <1>13, Typed, CtlMoves
      DEF SpawnFails, CtlPlace, WkrPlace, CtlBusy, WkrBusy, Holding, Ended
  <2>2. Workers'
    BY <1>13, Typed DEF SpawnFails, Workers, wkrVars
  <2>. QED
    BY <1>13, Typed, <2>1, <2>2, ConstantsAssumption
      DEF SpawnFails, Controllers, Workers, Leases, CtlPlace, WkrPlace, TypeOK, vars,
          ctlVars, wkrVars, lockVars, storeVars
<1>14. ASSUME NEW r \in Runs, WorkerEnded(r) PROVE TypeOK'
  <2>1. Controllers'
    BY <1>14, Typed, CtlMoves
      DEF WorkerEnded, CtlPlace, WkrPlace, CtlBusy, WkrBusy, Holding, Ended
  <2>2. Workers'
    BY <1>14, Typed DEF WorkerEnded, Workers, wkrVars
  <2>. QED
    BY <1>14, Typed, <2>1, <2>2, ConstantsAssumption
      DEF WorkerEnded, Controllers, Workers, Leases, CtlPlace, WkrPlace, TypeOK, vars,
          ctlVars, wkrVars, lockVars, storeVars
<1>15. ASSUME NEW r \in Runs, StoreResponse(r) PROVE TypeOK'
  <2>1. Controllers'
    BY <1>15, Typed, CtlMoves
      DEF StoreResponse, CtlPlace, WkrPlace, CtlBusy, WkrBusy, Holding, Ended
  <2>2. Workers'
    BY <1>15, Typed DEF StoreResponse, Workers, wkrVars
  <2>. QED
    BY <1>15, Typed, <2>1, <2>2, ConstantsAssumption
      DEF StoreResponse, Controllers, Workers, Leases, CtlPlace, WkrPlace, TypeOK, vars,
          ctlVars, wkrVars, lockVars, storeVars
<1>16. ASSUME NEW r \in Runs, MarkCompleted(r) PROVE TypeOK'
  <2>1. Controllers'
    BY <1>16, Typed, CtlMoves
      DEF MarkCompleted, CtlPlace, WkrPlace, CtlBusy, WkrBusy, Holding, Ended
  <2>2. Workers'
    BY <1>16, Typed DEF MarkCompleted, Workers, wkrVars
  <2>. QED
    BY <1>16, Typed, <2>1, <2>2, ConstantsAssumption
      DEF MarkCompleted, PayloadOf, Controllers, Workers, Leases, CtlPlace, WkrPlace,
          TypeOK, IntentFields, vars, ctlVars, wkrVars, lockVars, storeVars
<1>17. ASSUME NEW r \in Runs, ReleaseCompleted(r) PROVE TypeOK'
  <2>1. Controllers'
    BY <1>17, Typed, CtlMoves
      DEF ReleaseCompleted, CtlPlace, WkrPlace, CtlBusy, WkrBusy, Holding, Ended
  <2>2. Workers'
    BY <1>17, Typed DEF ReleaseCompleted, Workers, wkrVars
  <2>. QED
    BY <1>17, Typed, <2>1, <2>2, ConstantsAssumption
      DEF ReleaseCompleted, ReleaseLock, Controllers, Workers, Leases, CtlPlace, WkrPlace,
          TypeOK, LockFields, vars, ctlVars, wkrVars, lockVars, storeVars
<1>18. ASSUME NEW r \in Runs, MarkFailed(r) PROVE TypeOK'
  <2>1. Controllers'
    BY <1>18, Typed, CtlMoves
      DEF MarkFailed, CtlPlace, WkrPlace, CtlBusy, WkrBusy, Holding, Ended
  <2>2. Workers'
    BY <1>18, Typed DEF MarkFailed, Workers, wkrVars
  <2>3. intent' \in IntentFields
    BY <1>18, Typed, FailureTyped, SetIntentTyped DEF MarkFailed
  <2>. QED
    BY <1>18, Typed, <2>1, <2>2, <2>3, ConstantsAssumption
      DEF MarkFailed, Controllers, Workers, Leases, CtlPlace, WkrPlace, TypeOK, vars,
          ctlVars, wkrVars, lockVars, storeVars
<1>19. ASSUME NEW r \in Runs, ReleaseFailed(r) PROVE TypeOK'
  <2>1. Controllers'
    BY <1>19, Typed, CtlMoves
      DEF ReleaseFailed, CtlPlace, WkrPlace, CtlBusy, WkrBusy, Holding, Ended
  <2>2. Workers'
    BY <1>19, Typed DEF ReleaseFailed, Workers, wkrVars
  <2>. QED
    BY <1>19, Typed, <2>1, <2>2, ConstantsAssumption
      DEF ReleaseFailed, ReleaseLock, Controllers, Workers, Leases, CtlPlace, WkrPlace,
          TypeOK, LockFields, vars, ctlVars, wkrVars, lockVars, storeVars
<1>20. ASSUME NEW r \in Runs, Quit(r) PROVE TypeOK'
  <2>1. Controllers'
    BY <1>20, Typed DEF Quit, Controllers, CtlPlace
  <2>2. Workers'
    BY <1>20, Typed DEF Quit, Workers, wkrVars
  <2>. QED
    BY <1>20, Typed, <2>1, <2>2, ConstantsAssumption
      DEF Quit, Controllers, Workers, Leases, CtlPlace, WkrPlace, TypeOK, vars, ctlVars,
          wkrVars, lockVars, storeVars
<1>21. ASSUME NEW r \in Runs, Boot(r) PROVE TypeOK'
  <2>1. Controllers'
    BY <1>21, Typed DEF Boot, Controllers, ctlVars
  <2>2. Workers'
    BY <1>21, Typed, WkrMoves DEF Boot, CtlPlace, WkrPlace, CtlBusy, WkrBusy, Holding, Ended
  <2>. QED
    BY <1>21, Typed, <2>1, <2>2, ConstantsAssumption
      DEF Boot, HeartbeatLock, Controllers, Workers, Leases, CtlPlace, WkrPlace, TypeOK,
          LockFields, vars, ctlVars, wkrVars, lockVars, storeVars
<1>22. ASSUME NEW r \in Runs, AcquireLease(r) PROVE TypeOK'
  <2>1. Controllers'
    BY <1>22, Typed DEF AcquireLease, Controllers, ctlVars
  <2>2. Workers'
    BY <1>22, Typed, WkrMoves
      DEF AcquireLease, CtlPlace, WkrPlace, CtlBusy, WkrBusy, Holding, Ended
  <2>3. Leases'
    BY <1>22, Typed, AcquireTyped
  <2>. QED
    BY <1>22, Typed, <2>1, <2>2, <2>3, ConstantsAssumption
      DEF AcquireLease, Controllers, Workers, Leases, CtlPlace, WkrPlace, TypeOK, vars,
          ctlVars, wkrVars, lockVars, storeVars
<1>23. ASSUME NEW r \in Runs, StartHeartbeat(r) PROVE TypeOK'
  <2>1. Controllers'
    BY <1>23, Typed DEF StartHeartbeat, Controllers, ctlVars
  <2>2. Workers'
    BY <1>23, Typed, WkrMoves
      DEF StartHeartbeat, CtlPlace, WkrPlace, CtlBusy, WkrBusy, Holding, Ended
  <2>. QED
    BY <1>23, Typed, <2>1, <2>2, ConstantsAssumption
      DEF StartHeartbeat, HeartbeatLock, Controllers, Workers, Leases, CtlPlace, WkrPlace,
          TypeOK, LockFields, vars, ctlVars, wkrVars, lockVars, storeVars
<1>24. ASSUME NEW r \in Runs, Guard(r) PROVE TypeOK'
  <2>1. Controllers'
    BY <1>24, Typed DEF Guard, Controllers, ctlVars
  <2>2. Workers'
    BY <1>24, Typed, WkrMoves DEF Guard, CtlPlace, WkrPlace, CtlBusy, WkrBusy, Holding, Ended
  <2>. QED
    BY <1>24, Typed, <2>1, <2>2, ConstantsAssumption
      DEF Guard, Controllers, Workers, Leases, CtlPlace, WkrPlace, TypeOK, vars, ctlVars,
          wkrVars, lockVars, storeVars
<1>25. ASSUME NEW r \in Runs, Works(r) PROVE TypeOK'
  <2>1. Controllers'
    BY <1>25, Typed DEF Works, Work, Reallocate, KernelStep, Controllers, ctlVars
  <2>2. Workers'
    BY <1>25, Typed, WorkMoves
  <2>. QED
    BY <1>25, Typed, <2>1, <2>2, ConstantsAssumption
      DEF Works, Work, Reallocate, KernelStep, PermitOf, Controllers, Workers, Leases, CtlPlace, WkrPlace, TypeOK, vars,
          ctlVars, wkrVars, lockVars, storeVars
<1>26. ASSUME NEW r \in Runs, WorkRaises(r) PROVE TypeOK'
  <2>1. Controllers'
    BY <1>26, Typed DEF WorkRaises, Controllers, ctlVars
  <2>2. Workers'
    BY <1>26, Typed, WkrMoves
      DEF WorkRaises, CtlPlace, WkrPlace, CtlBusy, WkrBusy, Holding, Ended
  <2>. QED
    BY <1>26, Typed, <2>1, <2>2, ConstantsAssumption
      DEF WorkRaises, Controllers, Workers, Leases, CtlPlace, WkrPlace, TypeOK, vars,
          ctlVars, wkrVars, lockVars, storeVars
<1>27. ASSUME NEW r \in Runs, Respond(r) PROVE TypeOK'
  <2>1. Controllers'
    BY <1>27, Typed DEF Respond, Controllers, ctlVars
  <2>2. Workers'
    BY <1>27, Typed, WkrMoves DEF Respond, CtlPlace, WkrPlace, CtlBusy, WkrBusy, Holding, Ended
  <2>. QED
    BY <1>27, Typed, <2>1, <2>2, ConstantsAssumption
      DEF Respond, Controllers, Workers, Leases, CtlPlace, WkrPlace, TypeOK, vars,
          ctlVars, wkrVars, lockVars, storeVars
<1>28. ASSUME NEW r \in Runs, Close(r) PROVE TypeOK'
  <2>1. Controllers'
    BY <1>28, Typed DEF Close, Controllers, ctlVars
  <2>2. Workers'
    BY <1>28, Typed, FinalMoves
  <2>3. Leases'
    BY <1>28, Typed, ReleaseLeaseTyped DEF Close
  <2>. QED
    BY <1>28, Typed, <2>1, <2>2, <2>3, ConstantsAssumption
      DEF Close, Controllers, Workers, Leases, CtlPlace, WkrPlace, TypeOK, vars, ctlVars,
          wkrVars, lockVars, storeVars
<1>29. ASSUME NEW r \in Runs, Fail(r) PROVE TypeOK'
  <2>1. Controllers'
    BY <1>29, Typed DEF Fail, Controllers, ctlVars
  <2>2. Workers'
    BY <1>29, Typed, FinalMoves
  <2>3. Leases'
    BY <1>29, Typed, ReleaseLeaseTyped DEF Fail, Leases
  <2>. QED
    BY <1>29, Typed, <2>1, <2>2, <2>3, ConstantsAssumption
      DEF Fail, Controllers, Workers, Leases, CtlPlace, WkrPlace, TypeOK, vars, ctlVars,
          wkrVars, lockVars, storeVars
<1>30. ASSUME NEW r \in Runs, Unlock(r) PROVE TypeOK'
  <2>1. Controllers'
    BY <1>30, Typed DEF Unlock, Controllers, ctlVars
  <2>2. Workers'
    BY <1>30, Typed, WkrMoves DEF Unlock, CtlPlace, WkrPlace, CtlBusy, WkrBusy, Holding, Ended
  <2>. QED
    BY <1>30, Typed, <2>1, <2>2, ConstantsAssumption
      DEF Unlock, ReleaseLock, Controllers, Workers, Leases, CtlPlace, WkrPlace, TypeOK,
          LockFields, vars, ctlVars, wkrVars, lockVars, storeVars
<1>31. ASSUME NEW r \in Runs, Exit(r) PROVE TypeOK'
  <2>1. Controllers'
    BY <1>31, Typed DEF Exit, Controllers, ctlVars
  <2>2. Workers'
    BY <1>31, Typed, WkrMoves DEF Exit, CtlPlace, WkrPlace, CtlBusy, WkrBusy, Holding, Ended
  <2>. QED
    BY <1>31, Typed, <2>1, <2>2, ConstantsAssumption
      DEF Exit, Controllers, Workers, Leases, CtlPlace, WkrPlace, TypeOK, vars, ctlVars,
          wkrVars, lockVars, storeVars
<1>32. ASSUME NEW r \in Runs, BeatLease(r) PROVE TypeOK'
  <2>1. Controllers'
    BY <1>32, Typed DEF BeatLease, Controllers, ctlVars
  <2>2. Workers'
    BY <1>32, Typed DEF BeatLease, Workers, wkrVars
  <2>3. Leases'
    BY <1>32, Typed, PermitTyped DEF BeatLease, HeartbeatLease, Leases, LeaseFields
  <2>. QED
    BY <1>32, Typed, <2>1, <2>2, <2>3, ConstantsAssumption
      DEF BeatLease, Controllers, Workers, Leases, CtlPlace, WkrPlace, TypeOK, vars,
          ctlVars, wkrVars, lockVars, storeVars
<1>33. ASSUME NEW r \in Runs, BeatLock(r) PROVE TypeOK'
  <2>1. Controllers'
    BY <1>33, Typed DEF BeatLock, Controllers, ctlVars
  <2>2. Workers'
    BY <1>33, Typed DEF BeatLock, Workers, wkrVars
  <2>. QED
    BY <1>33, Typed, <2>1, <2>2, ConstantsAssumption
      DEF BeatLock, HeartbeatLock, Controllers, Workers, Leases, CtlPlace, WkrPlace,
          TypeOK, LockFields, vars, ctlVars, wkrVars, lockVars, storeVars
<1>34. ASSUME NEW r \in Runs, CrashController(r) PROVE TypeOK'
  <2>1. Controllers'
    BY <1>34, Typed DEF CrashController, Controllers, CtlPlace
  <2>2. Workers'
    BY <1>34, Typed DEF CrashController, Workers, wkrVars
  <2>. QED
    BY <1>34, Typed, <2>1, <2>2, ConstantsAssumption
      DEF CrashController, Controllers, Workers, Leases, CtlPlace, WkrPlace, TypeOK, vars,
          ctlVars, wkrVars, lockVars, storeVars
<1>35. ASSUME NEW r \in Runs, CrashWorker(r) PROVE TypeOK'
  <2>1. Controllers'
    BY <1>35, Typed DEF CrashWorker, Controllers, ctlVars
  <2>2. Workers'
    BY <1>35, Typed, SpawnMoves
      DEF CrashWorker, CtlPlace, WkrPlace, CtlBusy, WkrBusy, Holding, Ended
  <2>. QED
    BY <1>35, Typed, <2>1, <2>2, ConstantsAssumption
      DEF CrashWorker, Controllers, Workers, Leases, CtlPlace, WkrPlace, TypeOK, vars,
          ctlVars, wkrVars, lockVars, storeVars
<1>36. ASSUME NEW r \in Runs, ResponseIsLost(r) PROVE TypeOK'
  <2>1. Controllers'
    BY <1>36, Typed DEF ResponseIsLost, Controllers, ctlVars
  <2>2. Workers'
    BY <1>36, Typed DEF ResponseIsLost, Workers, wkrVars
  <2>. QED
    BY <1>36, Typed, <2>1, <2>2, ConstantsAssumption
      DEF ResponseIsLost, Controllers, Workers, Leases, CtlPlace, WkrPlace, TypeOK, vars,
          ctlVars, wkrVars, lockVars, storeVars
<1>37. ASSUME NEW p \in Permits, LeaseGoesStale(p) PROVE TypeOK'
  <2>1. Leases'
    BY <1>37, Typed DEF LeaseGoesStale, Leases, LeaseFields
  <2>. QED
    BY <1>37, Typed, <2>1, ConstantsAssumption
      DEF LeaseGoesStale, Controllers, Workers, Leases, CtlPlace, WkrPlace, TypeOK, vars,
          ctlVars, wkrVars, lockVars, storeVars
<1>38. ASSUME NEW p \in Permits, PermitExpires(p) PROVE TypeOK'
  <2>. QED
    BY <1>38, Typed, ConstantsAssumption
      DEF PermitExpires, Controllers, Workers, Leases, CtlPlace, WkrPlace, TypeOK, vars,
          ctlVars, wkrVars, lockVars, storeVars
<1>. QED
  BY <1>1, <1>2, <1>3, <1>4, <1>5, <1>6, <1>7, <1>8, <1>9, <1>10, <1>11, <1>12, <1>13,
     <1>14, <1>15, <1>16, <1>17, <1>18, <1>19, <1>20, <1>21, <1>22, <1>23, <1>24, <1>25,
     <1>26, <1>27, <1>28, <1>29, <1>30, <1>31, <1>32, <1>33, <1>34, <1>35, <1>36, <1>37,
     <1>38
    DEF Next, Controller, Worker, Works, Faults

-----------------------------------------------------------------------------
(* What each kind of step leaves alone. *)

LEMMA CallKept ==
  ASSUME [Next]_vars PROVE call' = call
<1>1. ASSUME NEW r \in Runs, Controller(r) PROVE call' = call
  BY <1>1
    DEF Controller, CleanupRead, CleanupWrite, ReadIntent, TryLock, WriteCreated, Reclaim,
        MarkActive, Spawn, SpawnFails, WorkerEnded, StoreResponse, MarkCompleted,
        ReleaseCompleted, MarkFailed, ReleaseFailed
<1>2. ASSUME NEW r \in Runs, Worker(r) PROVE call' = call
  BY <1>2
    DEF Worker, Boot, AcquireLease, StartHeartbeat, Guard, Work,
        Reallocate, KernelStep, WorkRaises, Respond,
        Close, Fail, Unlock, Exit, ctlVars
<1>3. ASSUME NEW r \in Runs, Start(r) \/ Quit(r) \/ BeatLease(r) \/ BeatLock(r) PROVE call' = call
  BY <1>3 DEF Start, Quit, BeatLease, BeatLock, ctlVars
<1>4. ASSUME Faults \/ Terminated \/ UNCHANGED vars PROVE call' = call
  BY <1>4
    DEF Faults, CrashController, CrashWorker, ResponseIsLost, LeaseGoesStale,
        PermitExpires, LockGoesStale, Terminated, vars, ctlVars, wkrVars, lockVars,
        storeVars
<1> QED
  BY <1>1, <1>2, <1>3, <1>4 DEF Next

LEMMA WhoMovesWorkers ==
  ASSUME [Next]_vars
  PROVE  \/ wkr' = wkr
         \/ \E r \in Runs : Spawn(r) \/ Worker(r) \/ CrashWorker(r)
<1>1. ASSUME NEW r \in Runs, Controller(r), ~Spawn(r) PROVE wkr' = wkr
  BY <1>1
    DEF Controller, CleanupRead, CleanupWrite, ReadIntent, TryLock, WriteCreated, Reclaim,
        MarkActive, Spawn, SpawnFails, WorkerEnded, StoreResponse, MarkCompleted,
        ReleaseCompleted, MarkFailed, ReleaseFailed, wkrVars
<1>2. ASSUME NEW r \in Runs, Start(r) \/ Quit(r) \/ BeatLease(r) \/ BeatLock(r) PROVE wkr' = wkr
  BY <1>2 DEF Start, Quit, BeatLease, BeatLock, wkrVars
<1>3. ASSUME Faults, \A r \in Runs : ~CrashWorker(r) PROVE wkr' = wkr
  BY <1>3
    DEF Faults, CrashController, ResponseIsLost, LeaseGoesStale, PermitExpires,
        LockGoesStale, wkrVars
<1>4. ASSUME Terminated \/ UNCHANGED vars PROVE wkr' = wkr
  BY <1>4 DEF Terminated, vars, wkrVars
<1> QED
  BY <1>1, <1>2, <1>3, <1>4 DEF Next

LEMMA WhoMovesControllers ==
  ASSUME [Next]_vars
  PROVE  \/ ctl' = ctl
         \/ \E r \in Runs : Start(r) \/ Controller(r) \/ Quit(r) \/ CrashController(r)
<1>1. ASSUME NEW r \in Runs, Worker(r) PROVE ctl' = ctl
  BY <1>1
    DEF Worker, Boot, AcquireLease, StartHeartbeat, Guard, Work,
        Reallocate, KernelStep, WorkRaises, Respond,
        Close, Fail, Unlock, Exit, ctlVars
<1>2. ASSUME NEW r \in Runs, BeatLease(r) \/ BeatLock(r) PROVE ctl' = ctl
  BY <1>2 DEF BeatLease, BeatLock, ctlVars
<1>3. ASSUME Faults, \A r \in Runs : ~CrashController(r) PROVE ctl' = ctl
  BY <1>3
    DEF Faults, CrashWorker, ResponseIsLost, LeaseGoesStale, PermitExpires, LockGoesStale,
        ctlVars
<1>4. ASSUME Terminated \/ UNCHANGED vars PROVE ctl' = ctl
  BY <1>4 DEF Terminated, vars, ctlVars
<1> QED
  BY <1>1, <1>2, <1>3, <1>4 DEF Next

LEMMA WhoMovesLeases ==
  ASSUME [Next]_vars
  PROVE  \/ leases' = leases
         \/ \E r \in Runs : CleanupWrite(r) \/ AcquireLease(r) \/ Close(r) \/ Fail(r) \/ BeatLease(r)
         \/ \E p \in Permits : LeaseGoesStale(p)
<1>1. ASSUME NEW r \in Runs, Controller(r), ~CleanupWrite(r) PROVE leases' = leases
  BY <1>1
    DEF Controller, CleanupRead, CleanupWrite, ReadIntent, TryLock, WriteCreated, Reclaim,
        MarkActive, Spawn, SpawnFails, WorkerEnded, StoreResponse, MarkCompleted,
        ReleaseCompleted, MarkFailed, ReleaseFailed
<1>2. ASSUME NEW r \in Runs, Worker(r), ~AcquireLease(r), ~Close(r), ~Fail(r) PROVE leases' = leases
  BY <1>2
    DEF Worker, Boot, AcquireLease, StartHeartbeat, Guard, Work,
        Reallocate, KernelStep, WorkRaises, Respond,
        Close, Fail, Unlock, Exit
<1>3. ASSUME NEW r \in Runs, Start(r) \/ Quit(r) \/ BeatLock(r) PROVE leases' = leases
  BY <1>3 DEF Start, Quit, BeatLock
<1>4. ASSUME Faults, \A p \in Permits : ~LeaseGoesStale(p) PROVE leases' = leases
  BY <1>4 DEF Faults, CrashController, CrashWorker, ResponseIsLost, PermitExpires, LockGoesStale
<1>5. ASSUME Terminated \/ UNCHANGED vars PROVE leases' = leases
  BY <1>5 DEF Terminated, vars
<1> QED
  BY <1>1, <1>2, <1>3, <1>4, <1>5 DEF Next

LEMMA WhoMovesLock ==
  ASSUME [Next]_vars
  PROVE  \/ lock' = lock /\ reclaimed' = reclaimed
         \/ \E r \in Runs : \/ TryLock(r) \/ WriteCreated(r) \/ Reclaim(r)
                           \/ ReleaseCompleted(r) \/ ReleaseFailed(r)
                           \/ Boot(r) \/ StartHeartbeat(r) \/ Unlock(r) \/ BeatLock(r)
         \/ LockGoesStale
<1>1. ASSUME NEW r \in Runs, Controller(r),
             ~TryLock(r), ~WriteCreated(r), ~Reclaim(r), ~ReleaseCompleted(r), ~ReleaseFailed(r)
      PROVE  lock' = lock /\ reclaimed' = reclaimed
  BY <1>1
    DEF Controller, CleanupRead, CleanupWrite, ReadIntent, TryLock, WriteCreated, Reclaim,
        MarkActive, Spawn, SpawnFails, WorkerEnded, StoreResponse, MarkCompleted,
        ReleaseCompleted, MarkFailed, ReleaseFailed, lockVars
<1>2. ASSUME NEW r \in Runs, Worker(r), ~Boot(r), ~StartHeartbeat(r), ~Unlock(r)
      PROVE  lock' = lock /\ reclaimed' = reclaimed
  BY <1>2
    DEF Worker, Boot, AcquireLease, StartHeartbeat, Guard, Work,
        Reallocate, KernelStep, WorkRaises, Respond,
        Close, Fail, Unlock, Exit, lockVars
<1>3. ASSUME NEW r \in Runs, Start(r) \/ Quit(r) \/ BeatLease(r)
      PROVE  lock' = lock /\ reclaimed' = reclaimed
  BY <1>3 DEF Start, Quit, BeatLease, lockVars
<1>4. ASSUME Faults, ~LockGoesStale PROVE lock' = lock /\ reclaimed' = reclaimed
  BY <1>4
    DEF Faults, CrashController, CrashWorker, ResponseIsLost, LeaseGoesStale,
        PermitExpires, lockVars
<1>5. ASSUME Terminated \/ UNCHANGED vars PROVE lock' = lock /\ reclaimed' = reclaimed
  BY <1>5 DEF Terminated, vars, lockVars
<1> QED
  BY <1>1, <1>2, <1>3, <1>4, <1>5 DEF Next

-----------------------------------------------------------------------------
(* Steps of the batch. *)

LEMMA StepStep ==
  ASSUME TypeOK, StepInv, PlaceInv, [Next]_vars PROVE StepInv'
<1>1. CASE wkr' = wkr
  BY <1>1 DEF StepInv, StepsOf
<1>2. ASSUME NEW r \in Runs, Spawn(r) \/ Worker(r) \/ CrashWorker(r) PROVE StepInv'
  <2>1. CASE Spawn(r)
    <3>1. ctl[r] = "spawn" /\ wkr' = [wkr EXCEPT ![r].pc = "boot"]
      BY <2>1 DEF Spawn, Goto
    <3>2. wkr[r].pc = "none"
      BY <3>1 DEF PlaceInv, PlaceOf, Spawned
    <3>3. /\ wkr'[r].pc = "boot" /\ wkr'[r].steps = wkr[r].steps /\ wkr'[r].final = wkr[r].final
          /\ \A q \in Runs \ {r} : wkr'[q] = wkr[q]
      BY <3>1, Typed, SpawnMoves DEF WkrPlace, WkrBusy
    <3> QED
      BY <3>2, <3>3 DEF StepInv, StepsOf
  <2>2. CASE CrashWorker(r)
    BY <2>2, Typed, SpawnMoves DEF CrashWorker, StepInv, StepsOf, WkrPlace, WkrBusy
  <2>3. CASE Works(r)
    <3>1. /\ wkr[r].steps \in Nat /\ wkr'[r].steps = wkr[r].steps + 1
          /\ wkr'[r].final = wkr[r].final /\ \A q \in Runs \ {r} : wkr'[q] = wkr[q]
      BY <2>3, Typed, WorkMoves, ConstantsAssumption DEF Workers
    <3>2. wkr[r].final # "completed"
      BY <2>3, Typed, WorkMoves, ConstantsAssumption DEF StepInv, StepsOf
    <3>3. StepsOf(r)'
      BY <2>3, <3>1, <3>2, Typed, WorkMoves, ConstantsAssumption DEF Works, StepInv, StepsOf
    <3> QED
      BY <3>1, <3>3 DEF StepInv, StepsOf
  <2>4. CASE Close(r) \/ Fail(r)
    BY <2>4, Typed, FinalMoves DEF StepInv, StepsOf
  <2>5. CASE Boot(r)
    BY <2>5, Typed, WkrMoves DEF Boot, StepInv, StepsOf, WkrPlace, WkrBusy
  <2>6. CASE AcquireLease(r)
    BY <2>6, Typed, WkrMoves DEF AcquireLease, StepInv, StepsOf, WkrPlace, WkrBusy
  <2>7. CASE StartHeartbeat(r)
    BY <2>7, Typed, WkrMoves, ConstantsAssumption
      DEF StartHeartbeat, StepInv, StepsOf, WkrPlace, WkrBusy
  <2>8. CASE Guard(r)
    BY <2>8, Typed, WkrMoves DEF Guard, StepInv, StepsOf, WkrPlace, WkrBusy
  <2>9. CASE WorkRaises(r)
    BY <2>9, Typed, WkrMoves DEF WorkRaises, StepInv, StepsOf, WkrPlace, WkrBusy
  <2>10. CASE Respond(r)
    BY <2>10, Typed, WkrMoves DEF Respond, StepInv, StepsOf, WkrPlace, WkrBusy
  <2>11. CASE Unlock(r)
    BY <2>11, Typed, WkrMoves DEF Unlock, StepInv, StepsOf, WkrPlace, WkrBusy
  <2>12. CASE Exit(r)
    BY <2>12, Typed, WkrMoves DEF Exit, StepInv, StepsOf, WkrPlace, WkrBusy
  <2> QED
    BY <1>2, <2>1, <2>2, <2>3, <2>4, <2>5, <2>6, <2>7, <2>8, <2>9, <2>10, <2>11, <2>12
      DEF Worker, Works
<1> QED
  BY <1>1, <1>2, WhoMovesWorkers

-----------------------------------------------------------------------------
(* Controllers and their workers. *)

LEMMA WhoMoves ==
  ASSUME [Next]_vars
  PROVE  \/ ctl' = ctl /\ wkr' = wkr /\ beat' = beat
         \/ \E r \in Runs : \/ Start(r) \/ Controller(r) \/ Quit(r) \/ CrashController(r)
                           \/ Worker(r) \/ CrashWorker(r) \/ BeatLease(r) \/ BeatLock(r)
<1>1. ASSUME Faults, \A r \in Runs : ~CrashController(r) /\ ~CrashWorker(r)
      PROVE  ctl' = ctl /\ wkr' = wkr /\ beat' = beat
  BY <1>1
    DEF Faults, ResponseIsLost, LeaseGoesStale, PermitExpires, LockGoesStale, ctlVars,
        wkrVars
<1>2. ASSUME Terminated \/ UNCHANGED vars PROVE ctl' = ctl /\ wkr' = wkr /\ beat' = beat
  BY <1>2 DEF Terminated, vars, ctlVars, wkrVars, lockVars, storeVars
<1> QED
  BY <1>1, <1>2 DEF Next

LEMMA WorkerGoes ==
  ASSUME PlaceInv, NEW r \in Runs, ctl' = ctl, beat' = beat,
         wkr[r].pc \in WkrBusy, wkr'[r].pc \in Beating \cup {"leased"},
         wkr'[r].pc = "leased" => wkr[r].pc = "permit",
         \A q \in Runs \ {r} : wkr'[q] = wkr[q]
  PROVE  PlaceInv'
  BY DEF PlaceInv, PlaceOf, Spawned, Beating, WorkerAlive, WkrBusy

LEMMA PlaceStep ==
  ASSUME TypeOK, StepInv, PlaceInv, [Next]_vars PROVE PlaceInv'
<1>1. CASE ctl' = ctl /\ wkr' = wkr /\ beat' = beat
  BY <1>1 DEF PlaceInv, PlaceOf, Spawned, Beating, WorkerAlive
<1>2. ASSUME NEW r \in Runs, Start(r) PROVE PlaceInv'
  BY <1>2, Typed, CtlMoves
    DEF Start, wkrVars, PlaceInv, PlaceOf, Spawned, Beating, WorkerAlive, CtlPlace,
        WkrPlace, CtlBusy, WkrBusy, Holding, Ended
<1>3. ASSUME NEW r \in Runs, CleanupRead(r) PROVE PlaceInv'
  BY <1>3, Typed, CtlMoves
    DEF CleanupRead, wkrVars, PlaceInv, PlaceOf, Spawned, Beating, WorkerAlive, CtlPlace,
        WkrPlace, CtlBusy, WkrBusy, Holding, Ended
<1>4. ASSUME NEW r \in Runs, CleanupWrite(r) PROVE PlaceInv'
  <2>1. Goto(r, "cleaning", "read") /\ wkr' = wkr /\ beat' = beat
    BY <1>4 DEF CleanupWrite, wkrVars
  <2> QED
    BY <2>1, Typed, CtlMoves
      DEF PlaceInv, PlaceOf, Spawned, Beating, WorkerAlive, CtlPlace, WkrPlace, CtlBusy,
          WkrBusy, Holding, Ended
<1>5. ASSUME NEW r \in Runs, ReadIntent(r) PROVE PlaceInv'
  BY <1>5, Typed, CtlMoves
    DEF ReadIntent, wkrVars, PlaceInv, PlaceOf, Spawned, Beating, WorkerAlive, CtlPlace,
        WkrPlace, CtlBusy, WkrBusy, Holding, Ended
<1>6. ASSUME NEW r \in Runs, TryLock(r) PROVE PlaceInv'
  BY <1>6, Typed, CtlMoves
    DEF TryLock, wkrVars, PlaceInv, PlaceOf, Spawned, Beating, WorkerAlive, CtlPlace,
        WkrPlace, CtlBusy, WkrBusy, Holding, Ended
<1>7. ASSUME NEW r \in Runs, WriteCreated(r) PROVE PlaceInv'
  BY <1>7, Typed, CtlMoves
    DEF WriteCreated, wkrVars, PlaceInv, PlaceOf, Spawned, Beating, WorkerAlive, CtlPlace,
        WkrPlace, CtlBusy, WkrBusy, Holding, Ended
<1>8. ASSUME NEW r \in Runs, Reclaim(r) PROVE PlaceInv'
  BY <1>8, Typed, CtlMoves
    DEF Reclaim, wkrVars, PlaceInv, PlaceOf, Spawned, Beating, WorkerAlive, CtlPlace,
        WkrPlace, CtlBusy, WkrBusy, Holding, Ended
<1>9. ASSUME NEW r \in Runs, MarkActive(r) PROVE PlaceInv'
  BY <1>9, Typed, CtlMoves
    DEF MarkActive, wkrVars, PlaceInv, PlaceOf, Spawned, Beating, WorkerAlive, CtlPlace,
        WkrPlace, CtlBusy, WkrBusy, Holding, Ended
<1>10. ASSUME NEW r \in Runs, Spawn(r) PROVE PlaceInv'
  <2>1. /\ ctl[r] = "spawn" /\ ctl'[r] = "wait" /\ beat' = beat
        /\ \A q \in Runs \ {r} : ctl'[q] = ctl[q]
    BY <1>10, Typed, CtlMoves DEF Spawn, CtlPlace, CtlBusy, Holding
  <2>2. wkr'[r].pc = "boot" /\ \A q \in Runs \ {r} : wkr'[q] = wkr[q]
    BY <1>10, Typed, SpawnMoves DEF Spawn, WkrPlace, WkrBusy
  <2>3. wkr[r].pc = "none" /\ beat[r] = "off"
    BY <2>1 DEF PlaceInv, PlaceOf, Spawned, Beating
  <2> QED
    BY <2>1, <2>2, <2>3 DEF PlaceInv, PlaceOf, Spawned, WorkerAlive
<1>11. ASSUME NEW r \in Runs, SpawnFails(r) PROVE PlaceInv'
  BY <1>11, Typed, CtlMoves
    DEF SpawnFails, wkrVars, PlaceInv, PlaceOf, Spawned, Beating, WorkerAlive, CtlPlace,
        WkrPlace, CtlBusy, WkrBusy, Holding, Ended
<1>12. ASSUME NEW r \in Runs, WorkerEnded(r) PROVE PlaceInv'
  BY <1>12, Typed, CtlMoves
    DEF WorkerEnded, wkrVars, PlaceInv, PlaceOf, Spawned, Beating, WorkerAlive, CtlPlace,
        WkrPlace, CtlBusy, WkrBusy, Holding, Ended
<1>13. ASSUME NEW r \in Runs, StoreResponse(r) PROVE PlaceInv'
  BY <1>13, Typed, CtlMoves
    DEF StoreResponse, wkrVars, PlaceInv, PlaceOf, Spawned, Beating, WorkerAlive,
        CtlPlace, WkrPlace, CtlBusy, WkrBusy, Holding, Ended
<1>14. ASSUME NEW r \in Runs, MarkCompleted(r) PROVE PlaceInv'
  BY <1>14, Typed, CtlMoves
    DEF MarkCompleted, wkrVars, PlaceInv, PlaceOf, Spawned, Beating, WorkerAlive,
        CtlPlace, WkrPlace, CtlBusy, WkrBusy, Holding, Ended
<1>15. ASSUME NEW r \in Runs, ReleaseCompleted(r) PROVE PlaceInv'
  BY <1>15, Typed, CtlMoves
    DEF ReleaseCompleted, wkrVars, PlaceInv, PlaceOf, Spawned, Beating, WorkerAlive,
        CtlPlace, WkrPlace, CtlBusy, WkrBusy, Holding, Ended
<1>16. ASSUME NEW r \in Runs, MarkFailed(r) PROVE PlaceInv'
  BY <1>16, Typed, CtlMoves
    DEF MarkFailed, wkrVars, PlaceInv, PlaceOf, Spawned, Beating, WorkerAlive, CtlPlace,
        WkrPlace, CtlBusy, WkrBusy, Holding, Ended
<1>17. ASSUME NEW r \in Runs, ReleaseFailed(r) PROVE PlaceInv'
  BY <1>17, Typed, CtlMoves
    DEF ReleaseFailed, wkrVars, PlaceInv, PlaceOf, Spawned, Beating, WorkerAlive,
        CtlPlace, WkrPlace, CtlBusy, WkrBusy, Holding, Ended
<1>18. ASSUME NEW r \in Runs, Quit(r) PROVE PlaceInv'
  BY <1>18, Typed, ConstantsAssumption
    DEF Quit, wkrVars, Controllers, PlaceInv, PlaceOf, Spawned, Beating, WorkerAlive,
        CtlPlace, WkrPlace, CtlBusy, WkrBusy, Holding, Ended
<1>19. ASSUME NEW r \in Runs, Boot(r) PROVE PlaceInv'
  BY <1>19, Typed, WkrMoves
    DEF Boot, ctlVars, TypeOK, PlaceInv, PlaceOf, Spawned, Beating, WorkerAlive, CtlPlace,
        WkrPlace, CtlBusy, WkrBusy, Holding, Ended
<1>20. ASSUME NEW r \in Runs, AcquireLease(r) PROVE PlaceInv'
  <2>1. ctl' = ctl /\ beat' = beat
    BY <1>20 DEF AcquireLease, ctlVars
  <2>2. /\ wkr[r].pc \in WkrBusy /\ wkr'[r].pc \in Beating \cup {"leased"}
        /\ wkr'[r].pc = "leased" => wkr[r].pc = "permit"
        /\ \A q \in Runs \ {r} : wkr'[q] = wkr[q]
    BY <1>20, Typed, WkrMoves DEF AcquireLease, Beating, WkrPlace, WkrBusy
  <2> QED
    BY <2>1, <2>2, WorkerGoes
<1>21. ASSUME NEW r \in Runs, StartHeartbeat(r) PROVE PlaceInv'
  BY <1>21, Typed, WkrMoves
    DEF StartHeartbeat, ctlVars, TypeOK, PlaceInv, PlaceOf, Spawned, Beating, WorkerAlive,
        CtlPlace, WkrPlace, CtlBusy, WkrBusy, Holding, Ended
<1>22. ASSUME NEW r \in Runs, Guard(r) PROVE PlaceInv'
  <2>1. ctl' = ctl /\ beat' = beat
    BY <1>22 DEF Guard, ctlVars
  <2>2. /\ wkr[r].pc \in WkrBusy /\ wkr'[r].pc \in Beating \cup {"leased"}
        /\ wkr'[r].pc = "leased" => wkr[r].pc = "permit"
        /\ \A q \in Runs \ {r} : wkr'[q] = wkr[q]
    BY <1>22, Typed, WkrMoves DEF Guard, Beating, WkrPlace, WkrBusy
  <2> QED
    BY <2>1, <2>2, WorkerGoes
<1>23. ASSUME NEW r \in Runs, Works(r) PROVE PlaceInv'
  <2>1. ctl' = ctl /\ beat' = beat
    BY <1>23 DEF Works, Work, Reallocate, KernelStep, ctlVars
  <2>2. /\ wkr[r].pc \in WkrBusy /\ wkr'[r].pc \in Beating \cup {"leased"}
        /\ wkr'[r].pc = "leased" => wkr[r].pc = "permit"
        /\ \A q \in Runs \ {r} : wkr'[q] = wkr[q]
    BY <1>23, Typed, WorkMoves DEF Beating, WkrBusy
  <2> QED
    BY <2>1, <2>2, WorkerGoes
<1>24. ASSUME NEW r \in Runs, WorkRaises(r) PROVE PlaceInv'
  <2>1. ctl' = ctl /\ beat' = beat
    BY <1>24 DEF WorkRaises, ctlVars
  <2>2. /\ wkr[r].pc \in WkrBusy /\ wkr'[r].pc \in Beating \cup {"leased"}
        /\ wkr'[r].pc = "leased" => wkr[r].pc = "permit"
        /\ \A q \in Runs \ {r} : wkr'[q] = wkr[q]
    BY <1>24, Typed, WkrMoves DEF WorkRaises, Beating, WkrPlace, WkrBusy
  <2> QED
    BY <2>1, <2>2, WorkerGoes
<1>25. ASSUME NEW r \in Runs, Respond(r) PROVE PlaceInv'
  <2>1. ctl' = ctl /\ beat' = beat
    BY <1>25 DEF Respond, ctlVars
  <2>2. /\ wkr[r].pc \in WkrBusy /\ wkr'[r].pc \in Beating \cup {"leased"}
        /\ wkr'[r].pc = "leased" => wkr[r].pc = "permit"
        /\ \A q \in Runs \ {r} : wkr'[q] = wkr[q]
    BY <1>25, Typed, WkrMoves DEF Respond, Beating, WkrPlace, WkrBusy
  <2> QED
    BY <2>1, <2>2, WorkerGoes
<1>26. ASSUME NEW r \in Runs, Close(r) PROVE PlaceInv'
  <2>1. ctl' = ctl /\ beat' = beat
    BY <1>26 DEF Close, ctlVars
  <2>2. /\ wkr[r].pc \in WkrBusy /\ wkr'[r].pc \in Beating \cup {"leased"}
        /\ wkr'[r].pc = "leased" => wkr[r].pc = "permit"
        /\ \A q \in Runs \ {r} : wkr'[q] = wkr[q]
    BY <1>26, Typed, FinalMoves DEF Close, Beating, WkrPlace, WkrBusy
  <2> QED
    BY <2>1, <2>2, WorkerGoes
<1>27. ASSUME NEW r \in Runs, Fail(r) PROVE PlaceInv'
  <2>1. ctl' = ctl /\ beat' = beat
    BY <1>27 DEF Fail, ctlVars
  <2>2. /\ wkr[r].pc \in WkrBusy /\ wkr'[r].pc \in Beating \cup {"leased"}
        /\ wkr'[r].pc = "leased" => wkr[r].pc = "permit"
        /\ \A q \in Runs \ {r} : wkr'[q] = wkr[q]
    BY <1>27, Typed, FinalMoves DEF Fail, Beating, WkrPlace, WkrBusy
  <2> QED
    BY <2>1, <2>2, WorkerGoes
<1>28. ASSUME NEW r \in Runs, Unlock(r) PROVE PlaceInv'
  BY <1>28, Typed, WkrMoves
    DEF Unlock, ctlVars, TypeOK, PlaceInv, PlaceOf, Spawned, Beating, WorkerAlive,
        CtlPlace, WkrPlace, CtlBusy, WkrBusy, Holding, Ended
<1>29. ASSUME NEW r \in Runs, Exit(r) PROVE PlaceInv'
  BY <1>29, Typed, WkrMoves
    DEF Exit, ctlVars, TypeOK, PlaceInv, PlaceOf, Spawned, Beating, WorkerAlive, CtlPlace,
        WkrPlace, CtlBusy, WkrBusy, Holding, Ended
<1>30. ASSUME NEW r \in Runs, CrashController(r) PROVE PlaceInv'
  BY <1>30, Typed
    DEF CrashController, ctlVars, wkrVars, TypeOK, PlaceInv, PlaceOf, Spawned, Beating,
        WorkerAlive, CtlPlace, WkrPlace, CtlBusy, WkrBusy, Holding, Ended
<1>31. ASSUME NEW r \in Runs, CrashWorker(r) PROVE PlaceInv'
  <2>1. ctl' = ctl /\ WorkerAlive(r) /\ beat'[r] = "off"
        /\ \A q \in Runs \ {r} : beat'[q] = beat[q]
    BY <1>31 DEF CrashWorker, ctlVars, TypeOK
  <2>2. wkr'[r].pc = "dead" /\ \A q \in Runs \ {r} : wkr'[q] = wkr[q]
    BY <1>31, Typed, SpawnMoves DEF CrashWorker, WkrPlace
  <2> QED
    BY <2>1, <2>2 DEF PlaceInv, PlaceOf, Spawned, WorkerAlive, WkrBusy
<1>32. ASSUME NEW r \in Runs, BeatLease(r) PROVE PlaceInv'
  BY <1>32, Typed
    DEF BeatLease, ctlVars, wkrVars, TypeOK, PlaceInv, PlaceOf, Spawned, Beating,
        WorkerAlive, CtlPlace, WkrPlace, CtlBusy, WkrBusy, Holding, Ended
<1>33. ASSUME NEW r \in Runs, BeatLock(r) PROVE PlaceInv'
  BY <1>33, Typed
    DEF BeatLock, ctlVars, wkrVars, TypeOK, PlaceInv, PlaceOf, Spawned, Beating,
        WorkerAlive, CtlPlace, WkrPlace, CtlBusy, WkrBusy, Holding, Ended
<1> QED
  BY <1>1, <1>2, <1>3, <1>4, <1>5, <1>6, <1>7, <1>8, <1>9, <1>10, <1>11, <1>12, <1>13,
     <1>14, <1>15, <1>16, <1>17, <1>18, <1>19, <1>20, <1>21, <1>22, <1>23, <1>24, <1>25,
     <1>26, <1>27, <1>28, <1>29, <1>30, <1>31, <1>32, <1>33, WhoMoves
    DEF Controller, Worker, Works

-----------------------------------------------------------------------------
(* The lease registry: a row keeps its worker and never comes back to life. *)

Leased == {"leased", "guard", "work", "reallocate", "respond", "close"}
LeaseOfRun(r) ==
  /\ wkr[r].pc \in Leased => HasLease(r)
  /\ \A p \in Permits : r \in worked[p] => leases[p].run = r
  /\ late[r] <= IF wkr[r].steps = Steps + 1 THEN 2 ELSE 1
  /\ late[r] > 0 => HasLease(r) /\ LeaseOf(r).status # "active" /\ wkr[r].pc # "work"
LeaseInv ==
  /\ \A p \in Permits : leases[p].run \in Runs => leases[p].status # "none"
  /\ \A r \in Runs : LeaseOfRun(r)

RowKept(p) ==
  leases[p].run \in Runs =>
    /\ leases'[p].run = leases[p].run /\ leases'[p].status # "none"
    /\ leases[p].status # "active" => leases'[p].status # "active"

LEMMA RowsKept ==
  ASSUME TypeOK, LeaseInv, [Next]_vars
  PROVE  \A p \in Permits : RowKept(p)
<1>1. CASE leases' = leases
  BY <1>1 DEF RowKept, LeaseInv
<1>2. ASSUME NEW r \in Runs, CleanupWrite(r) PROVE \A p \in Permits : RowKept(p)
  BY <1>2 DEF CleanupWrite, RowKept, LeaseInv, TypeOK, LeaseFields
<1>3. ASSUME NEW r \in Runs, AcquireLease(r) PROVE \A p \in Permits : RowKept(p)
  <2>1. CASE leases' = leases
    BY <2>1 DEF RowKept, LeaseInv
  <2>2. CASE /\ leases[PermitOf(r)].status = "none"
             /\ leases' = [leases EXCEPT ![PermitOf(r)] =
                             [status |-> "active", run |-> r, fresh |-> TRUE]]
    BY <2>2, Typed DEF RowKept, LeaseInv, Leases
  <2> QED
    BY <1>3, <2>1, <2>2 DEF AcquireLease, MayAcquire, LeaseOf
<1>4. ASSUME NEW r \in Runs, Close(r) \/ Fail(r) PROVE \A p \in Permits : RowKept(p)
  <2>1. CASE leases' = leases
    BY <2>1 DEF RowKept, LeaseInv
  <2>2. ASSUME NEW status \in {"completed", "failed", "interrupted"}, ReleaseLease(r, status)
        PROVE  \A p \in Permits : RowKept(p)
    BY <2>2, Typed, PermitTyped DEF ReleaseLease, RowKept, LeaseInv, Leases, LeaseFields
  <2> QED
    BY <1>4, <2>1, <2>2 DEF Close, Fail
<1>5. ASSUME NEW r \in Runs, BeatLease(r) PROVE \A p \in Permits : RowKept(p)
  BY <1>5, Typed, PermitTyped
    DEF BeatLease, HeartbeatLease, RowKept, LeaseInv, Leases, LeaseFields
<1>6. ASSUME NEW p \in Permits, LeaseGoesStale(p) PROVE \A q \in Permits : RowKept(q)
  BY <1>6, Typed DEF LeaseGoesStale, RowKept, LeaseInv, Leases, LeaseFields
<1> QED
  BY <1>1, <1>2, <1>3, <1>4, <1>5, <1>6, WhoMovesLeases

LEMMA LeaseStays ==
  ASSUME TypeOK, LeaseInv, [Next]_vars, NEW r \in Runs, HasLease(r)
  PROVE  /\ HasLease(r)'
         /\ LeaseOf(r).status # "active" => LeaseOf(r)'.status # "active"
BY RowsKept, CallKept, PermitTyped DEF RowKept, HasLease, LeaseOf, PermitOf

LEMMA LeaseOfRunKept ==
  ASSUME TypeOK, LeaseInv, [Next]_vars, NEW r \in Runs,
         worked' = worked, late'[r] = late[r], wkr'[r].steps = wkr[r].steps,
         wkr'[r].pc \in Leased => HasLease(r)',
         late[r] > 0 => wkr'[r].pc # "work"
  PROVE  LeaseOfRun(r)'
<1>1. \A p \in Permits : r \in worked'[p] => leases'[p].run = r
  BY RowsKept DEF RowKept, LeaseInv, LeaseOfRun
<1>2. late[r] <= IF wkr[r].steps = Steps + 1 THEN 2 ELSE 1
  BY DEF LeaseInv, LeaseOfRun
<1>3. ASSUME late[r] > 0 PROVE HasLease(r)' /\ LeaseOf(r)'.status # "active"
  BY <1>3, LeaseStays DEF LeaseInv, LeaseOfRun
<1> QED
  BY <1>1, <1>2, <1>3 DEF LeaseOfRun

LEMMA WhoWorks ==
  ASSUME [Next]_vars, \A q \in Runs : ~Works(q)
  PROVE  worked' = worked /\ late' = late
<1>1. ASSUME NEW r \in Runs, Controller(r) PROVE worked' = worked /\ late' = late
  BY <1>1 DEF Controller, CleanupRead, CleanupWrite, ReadIntent, TryLock, WriteCreated, Reclaim,
       MarkActive, Spawn, SpawnFails, WorkerEnded, StoreResponse, MarkCompleted, ReleaseCompleted,
       MarkFailed, ReleaseFailed, wkrVars
<1>2. ASSUME NEW r \in Runs, Worker(r) PROVE worked' = worked /\ late' = late
  BY <1>2
    DEF Works, Worker, Boot, AcquireLease, StartHeartbeat, Guard, WorkRaises, Respond,
        Close, Fail,
       Unlock, Exit
<1>3. ASSUME NEW r \in Runs, Start(r) \/ Quit(r) \/ BeatLease(r) \/ BeatLock(r)
      PROVE  worked' = worked /\ late' = late
  BY <1>3 DEF Start, Quit, BeatLease, BeatLock, wkrVars
<1>4. ASSUME Faults PROVE worked' = worked /\ late' = late
  BY <1>4
    DEF Faults, CrashController, CrashWorker, ResponseIsLost, LeaseGoesStale,
        PermitExpires,
       LockGoesStale, wkrVars
<1>5. ASSUME Terminated \/ UNCHANGED vars PROVE worked' = worked /\ late' = late
  BY <1>5 DEF Terminated, vars, wkrVars
<1> QED
  BY <1>1, <1>2, <1>3, <1>4, <1>5 DEF Next

LEMMA StepsKept ==
  ASSUME TypeOK, [Next]_vars, \A q \in Runs : ~Works(q), NEW r \in Runs
  PROVE  wkr'[r].steps = wkr[r].steps
<1>1. ASSUME NEW q \in Runs, Spawn(q) \/ Worker(q) \/ CrashWorker(q)
      PROVE  wkr'[r].steps = wkr[r].steps
  BY <1>1, Typed
    DEF Works, Worker, Spawn, Boot, AcquireLease, StartHeartbeat, Guard, WorkRaises,
        Respond, Close, Fail, Unlock, Exit, WGoto, CrashWorker, Workers
<1> QED
  BY <1>1, WhoMovesWorkers

LEMMA AcquiredLease ==
  ASSUME TypeOK, NEW r \in Runs, AcquireLease(r), wkr'[r].pc = "leased"
  PROVE  HasLease(r)'
<1>1. leases' = [leases EXCEPT ![PermitOf(r)] = [status |-> "active", run |-> r, fresh |-> TRUE]]
  BY Typed DEF AcquireLease, WGoto, Workers
<1>2. call' = call
  BY DEF AcquireLease, ctlVars
<1> QED
  BY <1>1, <1>2, Typed, PermitTyped DEF HasLease, LeaseOf, PermitOf, Leases

LEMMA WorkOfOthers ==
  ASSUME TypeOK, LeaseInv, [Next]_vars, NEW q \in Runs, Works(q), NEW r \in Runs \ {q}
  PROVE  LeaseOfRun(r)'
<1>1. wkr'[r] = wkr[r] /\ late'[r] = late[r]
  BY Typed DEF Works, Work, Reallocate, KernelStep, Workers, TypeOK
<1>2. \A p \in Permits : r \in worked'[p] => r \in worked[p]
  BY DEF Works, Work, Reallocate, KernelStep, TypeOK
<1>3. \A p \in Permits : r \in worked'[p] => leases'[p].run = r
  BY <1>2, RowsKept DEF RowKept, LeaseInv, LeaseOfRun
<1>4. late[r] > 0 => HasLease(r)' /\ LeaseOf(r)'.status # "active" /\ wkr'[r].pc # "work"
  BY <1>1, LeaseStays DEF LeaseInv, LeaseOfRun
<1>5. wkr'[r].pc \in Leased => HasLease(r)'
  BY <1>1, LeaseStays DEF LeaseInv, LeaseOfRun
<1> QED
  BY <1>1, <1>3, <1>4, <1>5 DEF LeaseInv, LeaseOfRun

(* The guarded step a worker is in is its first late one; the rewrite at the *)
(* end may add one to it.                                                    *)
LEMMA WorkOfOne ==
  ASSUME TypeOK, StepInv, LeaseInv, [Next]_vars, NEW r \in Runs, Works(r)
  PROVE  LeaseOfRun(r)'
<1>1. wkr[r].pc \in {"work", "reallocate"} /\ wkr'[r].pc # "work"
  BY Typed, WorkMoves
<1>2. HasLease(r)
  BY <1>1 DEF LeaseInv, LeaseOfRun, Leased
<1>3. leases' = leases /\ call' = call
  BY DEF Works, Work, Reallocate, KernelStep, ctlVars
<1>4. HasLease(r)'
  BY <1>2, <1>3 DEF HasLease, LeaseOf, PermitOf
<1>5. \A p \in Permits : r \in worked'[p] => leases'[p].run = r
  <2>1. \A p \in Permits : r \in worked'[p] => r \in worked[p] \/ p = PermitOf(r)
    BY DEF Works, Work, Reallocate, KernelStep, TypeOK
  <2> QED
    BY <1>2, <1>3, <2>1 DEF HasLease, LeaseOf, LeaseInv, LeaseOfRun
<1>6. late'[r] = IF LeaseOf(r).status = "active" THEN late[r] ELSE late[r] + 1
  BY DEF Works, Work, Reallocate, KernelStep, TypeOK
<1>7. late[r] \in Nat /\ (late[r] > 0 => LeaseOf(r).status # "active")
  BY DEF LeaseInv, LeaseOfRun, TypeOK
<1>8. late'[r] <= IF wkr'[r].steps = Steps + 1 THEN 2 ELSE 1
  <2>1. CASE Work(r)
    <3>1. wkr[r].pc = "work"
      BY <2>1, Typed, WorkMoves
    <3>2. late[r] = 0
      BY <1>7, <3>1 DEF LeaseInv, LeaseOfRun
    <3> QED
      BY <1>6, <3>2
  <2>2. CASE Reallocate(r)
    <3>1. wkr[r].steps = Steps /\ wkr'[r].steps = Steps + 1
      BY <2>2, Typed, WorkMoves
    <3>2. late[r] <= 1
      BY <3>1, ConstantsAssumption DEF LeaseInv, LeaseOfRun
    <3> QED
      BY <1>6, <1>7, <3>1, <3>2
  <2> QED
    BY <2>1, <2>2 DEF Works
<1>9. late'[r] > 0 => LeaseOf(r).status # "active"
  BY <1>6, <1>7
<1> QED
  BY <1>1, <1>3, <1>4, <1>5, <1>8, <1>9 DEF LeaseOfRun, LeaseOf, PermitOf

LEMMA OnlyAcquireLeases ==
  ASSUME TypeOK, StepInv, [Next]_vars, NEW r \in Runs,
         wkr[r].pc \notin Leased, wkr'[r].pc \in Leased
  PROVE  AcquireLease(r) /\ wkr'[r].pc = "leased"
<1>1. CASE wkr' = wkr
  BY <1>1 DEF LeaseInv, LeaseOfRun
<1>2. ASSUME NEW q \in Runs, Spawn(q) \/ Worker(q) \/ CrashWorker(q)
      PROVE  AcquireLease(r) /\ wkr'[r].pc = "leased"
  <2>1. CASE Spawn(q)
    BY <2>1, Typed, SpawnMoves DEF Spawn, Leased, WkrPlace, WkrBusy
  <2>2. CASE CrashWorker(q)
    BY <2>2, Typed, SpawnMoves DEF CrashWorker, Leased, WkrPlace, WkrBusy
  <2>3. CASE Works(q)
    BY <2>3, Typed, WorkMoves DEF Leased
  <2>4. CASE Close(q)
    BY <2>4, Typed, FinalMoves DEF Leased
  <2>5. CASE Fail(q)
    BY <2>5, Typed, FinalMoves DEF Leased
  <2>6. CASE Boot(q)
    BY <2>6, Typed, WkrMoves DEF Boot, Leased, WkrPlace, WkrBusy
  <2>7. CASE AcquireLease(q)
    BY <2>7, Typed, WkrMoves DEF AcquireLease, Leased, WkrPlace, WkrBusy
  <2>8. CASE StartHeartbeat(q)
    BY <2>8, Typed, WkrMoves DEF StartHeartbeat, Leased, WkrPlace, WkrBusy
  <2>9. CASE Guard(q)
    BY <2>9, Typed, WkrMoves DEF Guard, Leased, WkrPlace, WkrBusy
  <2>10. CASE WorkRaises(q)
    BY <2>10, Typed, WkrMoves DEF WorkRaises, Leased, WkrPlace, WkrBusy
  <2>11. CASE Respond(q)
    BY <2>11, Typed, WkrMoves DEF Respond, Leased, WkrPlace, WkrBusy
  <2>12. CASE Unlock(q)
    BY <2>12, Typed, WkrMoves DEF Unlock, Leased, WkrPlace, WkrBusy
  <2>13. CASE Exit(q)
    BY <2>13, Typed, WkrMoves DEF Exit, Leased, WkrPlace, WkrBusy
  <2> QED
    BY <1>2, <2>1, <2>2, <2>3, <2>4, <2>5, <2>6, <2>7, <2>8, <2>9, <2>10, <2>11, <2>12,
       <2>13
      DEF Worker, Works
<1> QED
  BY <1>1, <1>2, WhoMovesWorkers

LEMMA OnlyGuardAdmits ==
  ASSUME TypeOK, StepInv, [Next]_vars, NEW r \in Runs,
         LeaseOf(r).status # "active", wkr[r].pc # "work"
  PROVE  wkr'[r].pc # "work"
<1>1. CASE wkr' = wkr
  BY <1>1 DEF LeaseInv, LeaseOfRun
<1>2. ASSUME NEW q \in Runs, Spawn(q) \/ Worker(q) \/ CrashWorker(q)
      PROVE  wkr'[r].pc # "work"
  <2>1. CASE Spawn(q)
    BY <2>1, Typed, SpawnMoves DEF Spawn, Leased, WkrPlace, WkrBusy
  <2>2. CASE CrashWorker(q)
    BY <2>2, Typed, SpawnMoves DEF CrashWorker, Leased, WkrPlace, WkrBusy
  <2>3. CASE Works(q)
    BY <2>3, Typed, WorkMoves DEF Leased
  <2>4. CASE Close(q)
    BY <2>4, Typed, FinalMoves DEF Leased
  <2>5. CASE Fail(q)
    BY <2>5, Typed, FinalMoves DEF Leased
  <2>6. CASE Boot(q)
    BY <2>6, Typed, WkrMoves DEF Boot, Leased, WkrPlace, WkrBusy
  <2>7. CASE AcquireLease(q)
    BY <2>7, Typed, WkrMoves DEF AcquireLease, Leased, WkrPlace, WkrBusy
  <2>8. CASE StartHeartbeat(q)
    BY <2>8, Typed, WkrMoves DEF StartHeartbeat, Leased, WkrPlace, WkrBusy
  <2>9. CASE Guard(q)
    BY <2>9, Typed, WkrMoves DEF Guard, Leased, WkrPlace, WkrBusy, LeaseInForce
  <2>10. CASE WorkRaises(q)
    BY <2>10, Typed, WkrMoves DEF WorkRaises, Leased, WkrPlace, WkrBusy
  <2>11. CASE Respond(q)
    BY <2>11, Typed, WkrMoves DEF Respond, Leased, WkrPlace, WkrBusy
  <2>12. CASE Unlock(q)
    BY <2>12, Typed, WkrMoves DEF Unlock, Leased, WkrPlace, WkrBusy
  <2>13. CASE Exit(q)
    BY <2>13, Typed, WkrMoves DEF Exit, Leased, WkrPlace, WkrBusy
  <2> QED
    BY <1>2, <2>1, <2>2, <2>3, <2>4, <2>5, <2>6, <2>7, <2>8, <2>9, <2>10, <2>11, <2>12,
       <2>13
      DEF Worker, Works
<1> QED
  BY <1>1, <1>2, WhoMovesWorkers

LEMMA LeaseStep ==
  ASSUME TypeOK, StepInv, PlaceInv, LeaseInv, [Next]_vars PROVE LeaseInv'
<1>1. \A p \in Permits : leases'[p].run \in Runs => leases'[p].status # "none"
  <2>1. ASSUME NEW r \in Runs, AcquireLease(r), NEW p \in Permits, leases'[p].run \in Runs
        PROVE  leases'[p].status # "none"
    <3>1. CASE p = PermitOf(r) /\ leases' # leases
      BY <2>1, <3>1, Typed DEF AcquireLease, Leases
    <3>2. CASE ~(p = PermitOf(r) /\ leases' # leases)
      BY <2>1, <3>2, Typed DEF AcquireLease, Leases, LeaseInv
    <3> QED
      BY <3>1, <3>2
  <2>2. ASSUME \A r \in Runs : ~AcquireLease(r) PROVE \A p \in Permits : leases'[p].run = leases[p].run
    <3>1. ASSUME NEW r \in Runs, CleanupWrite(r) PROVE \A p \in Permits : leases'[p].run = leases[p].run
      BY <3>1, Typed DEF CleanupWrite, Leases, LeaseFields
    <3>2. ASSUME NEW r \in Runs, Close(r) \/ Fail(r) PROVE \A p \in Permits : leases'[p].run = leases[p].run
      BY <3>2, Typed DEF Close, Fail, ReleaseLease, Leases, LeaseFields
    <3>3. ASSUME NEW r \in Runs, BeatLease(r) PROVE \A p \in Permits : leases'[p].run = leases[p].run
      BY <3>3, Typed DEF BeatLease, HeartbeatLease, Leases, LeaseFields
    <3>4. ASSUME NEW p \in Permits, LeaseGoesStale(p) PROVE \A q \in Permits : leases'[q].run = leases[q].run
      BY <3>4, Typed DEF LeaseGoesStale, Leases, LeaseFields
    <3> QED
      BY <2>2, <3>1, <3>2, <3>3, <3>4, WhoMovesLeases
  <2> QED
    BY <2>1, <2>2, RowsKept DEF RowKept
<1>2. ASSUME NEW r \in Runs PROVE LeaseOfRun(r)'
  <2>1. CASE \E q \in Runs : Works(q)
    BY <2>1, WorkOfOne, WorkOfOthers
  <2>2. CASE \A q \in Runs : ~Works(q)
    <3>1. worked' = worked /\ late' = late
      BY <2>2, WhoWorks
    <3>2. ASSUME wkr'[r].pc \in Leased PROVE HasLease(r)'
      <4>1. CASE wkr[r].pc \in Leased
        BY <4>1, LeaseStays DEF LeaseInv, LeaseOfRun
      <4>2. CASE wkr[r].pc \notin Leased
        <5>1. AcquireLease(r) /\ wkr'[r].pc = "leased"
          BY <3>2, <4>2, OnlyAcquireLeases
        <5> QED
          BY <5>1, AcquiredLease
      <4> QED
        BY <4>1, <4>2
    <3>3. ASSUME late[r] > 0 PROVE wkr'[r].pc # "work"
      BY <3>3, OnlyGuardAdmits DEF LeaseInv, LeaseOfRun
    <3> QED
      BY <2>2, <3>1, <3>2, <3>3, StepsKept, LeaseOfRunKept
  <2> QED
    BY <2>1, <2>2
<1> QED
  BY <1>1, <1>2 DEF LeaseInv

-----------------------------------------------------------------------------
(* The intent record and the answers. *)

Finished(q) ==
  q \in Runs /\ wkr[q].pc = "done" /\ wkr[q].final = "completed" /\ wkr[q].steps = Steps + 1
AnswerOf(r) ==
  answer[r] # NoRun => Finished(answer[r]) /\ PayloadOf(answer[r]) = PayloadOf(r)
Backed ==
  intent.status = "completed" =>
    Finished(intent.response) /\ intent.payload = PayloadOf(intent.response)
AnswerInv ==
  /\ Backed
  /\ \A r \in Runs : AnswerOf(r)

LEMMA FinishedStays ==
  ASSUME TypeOK, StepInv, PlaceInv, [Next]_vars, NEW q, Finished(q)
  PROVE  Finished(q)'
<1>1. CASE wkr' = wkr
  BY <1>1 DEF Finished
<1>2. ASSUME NEW r \in Runs, Spawn(r) PROVE r # q
  BY <1>2 DEF Spawn, Goto, PlaceInv, PlaceOf, Spawned, Finished
<1>3. ASSUME NEW r \in Runs, Worker(r) \/ CrashWorker(r) PROVE r # q
  BY <1>3
    DEF Worker, Boot, AcquireLease, StartHeartbeat, Guard, Work,
        Reallocate, KernelStep, WorkRaises, Respond,
        Close,
       Fail, Unlock, Exit, WGoto, CrashWorker, WorkerAlive, WkrBusy, Finished
<1>4. ASSUME NEW r \in Runs, Spawn(r) \/ Worker(r) \/ CrashWorker(r), r # q
      PROVE  wkr'[q] = wkr[q]
  BY <1>4, Typed DEF Worker, Spawn, Boot, AcquireLease, StartHeartbeat, Guard, Work,
        Reallocate, KernelStep, WorkRaises,
       Respond, Close, Fail, Unlock, Exit, WGoto, CrashWorker, Workers, Finished
<1> QED
  BY <1>1, <1>2, <1>3, <1>4, WhoMovesWorkers DEF Finished

LEMMA WhoAnswers ==
  ASSUME [Next]_vars
  PROVE  \/ intent' = intent /\ answer' = answer
         \/ \E r \in Runs : \/ ReadIntent(r) \/ MarkActive(r) \/ MarkCompleted(r)
                            \/ ReleaseCompleted(r) \/ MarkFailed(r)
<1>1. ASSUME NEW r \in Runs, Controller(r),
             ~ReadIntent(r), ~MarkActive(r), ~MarkCompleted(r), ~ReleaseCompleted(r), ~MarkFailed(r)
      PROVE  intent' = intent /\ answer' = answer
  BY <1>1 DEF Controller, CleanupRead, CleanupWrite, TryLock, WriteCreated, Reclaim, Spawn,
       SpawnFails, WorkerEnded, StoreResponse, ReleaseFailed, storeVars
<1>2. ASSUME NEW r \in Runs, Worker(r) PROVE intent' = intent /\ answer' = answer
  BY <1>2
    DEF Worker, Boot, AcquireLease, StartHeartbeat, Guard, Work,
        Reallocate, KernelStep, WorkRaises, Respond,
        Close,
       Fail, Unlock, Exit, ctlVars, storeVars
<1>3. ASSUME NEW r \in Runs, Start(r) \/ Quit(r) \/ BeatLease(r) \/ BeatLock(r)
      PROVE  intent' = intent /\ answer' = answer
  BY <1>3 DEF Start, Quit, BeatLease, BeatLock, ctlVars, storeVars
<1>4. ASSUME Faults PROVE intent' = intent /\ answer' = answer
  BY <1>4
    DEF Faults, CrashController, CrashWorker, ResponseIsLost, LeaseGoesStale,
        PermitExpires,
       LockGoesStale, ctlVars, storeVars
<1>5. ASSUME Terminated \/ UNCHANGED vars PROVE intent' = intent /\ answer' = answer
  BY <1>5 DEF Terminated, vars, ctlVars, storeVars
<1> QED
  BY <1>1, <1>2, <1>3, <1>4, <1>5 DEF Next

LEMMA OwnWorkerFinished ==
  ASSUME TypeOK, StepInv, PlaceInv, NEW r \in Runs, ctl[r] \in {"complete", "release"}
  PROVE  Finished(r)
  BY DEF StepInv, StepsOf, PlaceInv, PlaceOf, Finished

LEMMA AnswerStep ==
  ASSUME TypeOK, StepInv, PlaceInv, AnswerInv, [Next]_vars PROVE AnswerInv'
<1>1. \A q, r : PayloadOf(q)' = PayloadOf(q)
  BY CallKept DEF PayloadOf
<1>2. ASSUME answer' = answer PROVE \A r \in Runs : AnswerOf(r)'
  BY <1>1, <1>2, FinishedStays DEF AnswerInv, AnswerOf
<1>3. ASSUME intent' = intent PROVE Backed'
  <2>1. ASSUME intent.status = "completed" PROVE Finished(intent.response)'
    BY <1>3, <2>1, FinishedStays DEF AnswerInv, Backed, Finished
  <2>2. intent.status = "completed" => intent.payload = PayloadOf(intent.response)
    BY DEF AnswerInv, Backed
  <2> QED
    BY <1>3, <2>1, <2>2, CallKept DEF Backed, PayloadOf
<1>4. CASE intent' = intent /\ answer' = answer
  BY <1>2, <1>3, <1>4 DEF AnswerInv
<1>5. ASSUME NEW r \in Runs, ReadIntent(r) PROVE AnswerInv'
  <2>1. intent' = intent
    BY <1>5 DEF ReadIntent, storeVars
  <2>2. CASE answer' = answer
    BY <2>1, <2>2, <1>4
  <2>3. CASE answer' # answer
    <3>1. /\ ~PayloadConflicts(r) /\ intent.status = "completed"
          /\ answer' = [answer EXCEPT ![r] = intent.response]
      BY <1>5, <2>3 DEF ReadIntent
    <3>2. Finished(intent.response) /\ intent.payload = PayloadOf(intent.response)
      BY <3>1 DEF AnswerInv, Backed
    <3>3. PayloadOf(intent.response) \in Payloads
      BY <3>2 DEF Finished, PayloadOf, TypeOK
    <3>4. PayloadOf(intent.response) = PayloadOf(r)
      BY <3>1, <3>2, <3>3, ConstantsAssumption DEF PayloadConflicts
    <3>5. \A q \in Runs : answer'[q] = IF q = r THEN intent.response ELSE answer[q]
      BY <3>1 DEF TypeOK
    <3>6. \A q \in Runs : AnswerOf(q)'
      BY <1>1, <3>2, <3>4, <3>5, FinishedStays DEF AnswerOf, AnswerInv
    <3> QED
      BY <1>3, <2>1, <3>6 DEF AnswerInv
  <2> QED
    BY <2>2, <2>3
<1>6. ASSUME NEW r \in Runs, MarkActive(r) \/ MarkFailed(r) PROVE AnswerInv'
  <2>1. answer' = answer
    BY <1>6 DEF MarkActive, MarkFailed
  <2>2. intent'.status # "completed"
    BY <1>6, FailureTyped DEF MarkActive, MarkFailed, SetIntent, TypeOK, IntentFields
  <2> QED
    BY <1>2, <2>1, <2>2 DEF AnswerInv, Backed
<1>7. ASSUME NEW r \in Runs, MarkCompleted(r) PROVE AnswerInv'
  <2>1. answer' = answer /\ ctl[r] = "complete"
    BY <1>7 DEF MarkCompleted, Goto
  <2>2. intent' = [status |-> "completed", payload |-> PayloadOf(r), response |-> r]
    BY <1>7 DEF MarkCompleted
  <2>3. Finished(r)'
    BY <2>1, OwnWorkerFinished, FinishedStays
  <2> QED
    BY <1>2, <2>1, <2>2, <2>3, CallKept DEF AnswerInv, Backed, PayloadOf
<1>8. ASSUME NEW r \in Runs, ReleaseCompleted(r) PROVE AnswerInv'
  <2>1. intent' = intent /\ ctl[r] = "release" /\ answer' = [answer EXCEPT ![r] = r]
    BY <1>8 DEF ReleaseCompleted, Goto, storeVars
  <2>2. Finished(r)'
    BY <2>1, OwnWorkerFinished, FinishedStays
  <2>3. \A q \in Runs : answer'[q] = IF q = r THEN r ELSE answer[q]
    BY <2>1 DEF TypeOK
  <2>4. \A q \in Runs : AnswerOf(q)'
    BY <1>1, <2>2, <2>3, FinishedStays DEF AnswerOf, AnswerInv
  <2> QED
    BY <1>3, <2>1, <2>4 DEF AnswerInv
<1> QED
  BY <1>4, <1>5, <1>6, <1>7, <1>8, WhoAnswers

-----------------------------------------------------------------------------
(* The lock file. *)

Inside(r) == ctl[r] \in Holding \/ WorkerAlive(r)
LockInv ==
  /\ \A r \in Runs : Inside(r) => lock.status # "absent"
  /\ ~reclaimed => \A r, q \in Runs : Inside(r) /\ Inside(q) => r = q
  /\ lock.status = "active" =>
       lock.controller \in Runs /\ ctl[lock.controller] \in Holding \cup {"dead"}

LEMMA WhoEnters ==
  ASSUME TypeOK, StepInv, PlaceInv, [Next]_vars, NEW r \in Runs, Inside(r)', ~Inside(r)
  PROVE  \/ TryLock(r) /\ lock.status = "absent"
         \/ Reclaim(r)
<1>1. CASE ctl' = ctl /\ wkr' = wkr /\ beat' = beat
  BY <1>1 DEF Inside, WorkerAlive
<1>2. ASSUME NEW q \in Runs, Worker(q) \/ CrashWorker(q) \/ BeatLease(q) \/ BeatLock(q)
      PROVE  FALSE
  <2>1. ctl' = ctl
    BY <1>2
      DEF Worker, Boot, AcquireLease, StartHeartbeat, Guard, Work,
        Reallocate, KernelStep, WorkRaises, Respond,
          Close,
         Fail, Unlock, Exit, CrashWorker, BeatLease, BeatLock, ctlVars
  <2>2. wkr'[r] = wkr[r] \/ wkr[r].pc \in WkrBusy
    BY <1>2, Typed
      DEF Worker, Boot, AcquireLease, StartHeartbeat, Guard, Work,
        Reallocate, KernelStep, WorkRaises, Respond,
         Close, Fail, Unlock, Exit, WGoto, CrashWorker, WorkerAlive, BeatLease, BeatLock, Workers, WkrBusy
  <2> QED
    BY <2>1, <2>2 DEF Inside, WorkerAlive
<1>3. ASSUME NEW q \in Runs, Start(q) \/ Quit(q) \/ CrashController(q) PROVE FALSE
  BY <1>3, Typed
    DEF Start, Quit, CrashController, Goto, Inside, WorkerAlive, wkrVars, Controllers,
       CtlPlace, CtlBusy, Ended, Holding
<1>4. ASSUME NEW q \in Runs, Spawn(q) PROVE FALSE
  BY <1>4, Typed DEF Spawn, Goto, Inside, WorkerAlive, Controllers, Workers, Holding
<1>5. ASSUME NEW q \in Runs, Controller(q), ~Spawn(q), ~TryLock(q), ~Reclaim(q) PROVE FALSE
  <2>1. wkr' = wkr
    BY <1>5
      DEF Controller, CleanupRead, CleanupWrite, ReadIntent, WriteCreated, MarkActive,
          SpawnFails,
       WorkerEnded, StoreResponse, MarkCompleted, ReleaseCompleted, MarkFailed, ReleaseFailed, wkrVars
  <2>2. ctl'[r] = ctl[r] \/ ctl[r] \in Holding \/ ctl'[r] \notin Holding
    BY <1>5, Typed
      DEF Controller, CleanupRead, CleanupWrite, ReadIntent, WriteCreated, MarkActive,
       SpawnFails, WorkerEnded, StoreResponse, MarkCompleted, ReleaseCompleted, MarkFailed,
       ReleaseFailed, Goto, Controllers, Holding
  <2> QED
    BY <2>1, <2>2 DEF Inside, WorkerAlive
<1>6. ASSUME NEW q \in Runs, TryLock(q) \/ Reclaim(q)
      PROVE  q = r /\ (TryLock(q) => lock.status = "absent")
  BY <1>6, Typed DEF TryLock, Reclaim, Goto, wkrVars, Inside, WorkerAlive, Controllers, Holding
<1> QED
  BY <1>1, <1>2, <1>3, <1>4, <1>5, <1>6, WhoMoves

LEMMA Released ==
  ASSUME TypeOK, NEW r \in Runs, ReleaseCompleted(r) \/ ReleaseFailed(r) \/ Unlock(r)
  PROVE  lock'.status \in {"completed", "failed", "interrupted"}
<1>1. ASSUME NEW status \in {"completed", "failed", "interrupted"}, NEW w, ReleaseLock(status, w)
      PROVE  lock'.status \in {"completed", "failed", "interrupted"}
  BY <1>1 DEF ReleaseLock, TypeOK, LockFields
<1>2. wkr[r].final \in {"completed", "failed", "interrupted"}
  BY Typed DEF Workers
<1> QED
  BY <1>1, <1>2 DEF ReleaseCompleted, ReleaseFailed, Unlock

LEMMA LeavingReleases ==
  ASSUME TypeOK, [Next]_vars, NEW q \in Runs,
         ctl[q] \in Holding \cup {"dead"}, ctl'[q] \notin Holding \cup {"dead"}
  PROVE  ReleaseCompleted(q) \/ ReleaseFailed(q)
<1>1. ASSUME NEW r \in Runs, Start(r) \/ Quit(r) \/ CrashController(r) PROVE FALSE
  BY <1>1, Typed DEF Start, Quit, CrashController, Goto, Controllers, Ended, Holding
<1>2. ASSUME NEW r \in Runs, Controller(r), ~ReleaseCompleted(r), ~ReleaseFailed(r) PROVE FALSE
  BY <1>2, Typed
    DEF Controller, CleanupRead, CleanupWrite, ReadIntent, TryLock, WriteCreated, Reclaim,
       MarkActive, Spawn, SpawnFails, WorkerEnded, StoreResponse, MarkCompleted, MarkFailed, Goto,
       Controllers, Holding
<1>3. ASSUME NEW r \in Runs, ReleaseCompleted(r) \/ ReleaseFailed(r) PROVE r = q
  BY <1>3, Typed DEF ReleaseCompleted, ReleaseFailed, Goto, Controllers
<1> QED
  BY <1>1, <1>2, <1>3, WhoMovesControllers

LEMMA LockStep ==
  ASSUME TypeOK, StepInv, PlaceInv, LockInv, [Next]_vars PROVE LockInv'
<1>1. lock.status # "absent" => lock'.status # "absent"
  <2>1. ASSUME NEW r \in Runs, Boot(r) \/ StartHeartbeat(r) \/ BeatLock(r) PROVE lock'.status # "absent"
    BY <2>1 DEF Boot, StartHeartbeat, BeatLock, HeartbeatLock
  <2>2. ASSUME NEW r \in Runs, ReleaseCompleted(r) \/ ReleaseFailed(r) \/ Unlock(r)
        PROVE  lock'.status # "absent"
    BY <2>2, Released
  <2>3. ASSUME NEW r \in Runs, TryLock(r) \/ WriteCreated(r) \/ Reclaim(r), lock.status # "absent"
        PROVE  lock'.status # "absent"
    BY <2>3 DEF TryLock, WriteCreated, Reclaim, NewRecord
  <2>4. ASSUME LockGoesStale PROVE lock'.status # "absent"
    BY <2>4 DEF LockGoesStale, TypeOK, LockFields
  <2> QED
    BY <2>1, <2>2, <2>3, <2>4, WhoMovesLock
<1>2. ASSUME NEW r \in Runs, Inside(r)' PROVE lock'.status # "absent"
  <2>1. ASSUME TryLock(r) /\ lock.status = "absent" PROVE lock'.status # "absent"
    BY <2>1 DEF TryLock, TypeOK, LockFields
  <2>2. ASSUME Reclaim(r) PROVE lock'.status # "absent"
    BY <2>2 DEF Reclaim, NewRecord
  <2> QED
    BY <1>1, <1>2, <2>1, <2>2, WhoEnters DEF LockInv
<1>3. ASSUME ~reclaimed', NEW r \in Runs, NEW q \in Runs, Inside(r)', Inside(q)' PROVE r = q
  <2>1. ~reclaimed
    BY <1>3, WhoMovesLock
      DEF TryLock, WriteCreated, Reclaim, ReleaseCompleted, ReleaseFailed, Boot,
         StartHeartbeat, Unlock, BeatLock, LockGoesStale
  <2>2. ASSUME NEW p \in Runs, Reclaim(p) PROVE FALSE
    BY <1>3, <2>2 DEF Reclaim
  <2>3. ASSUME NEW p \in Runs, TryLock(p), lock.status = "absent", NEW o \in Runs \ {p}
        PROVE  ~Inside(o)'
    <3>1. ~Inside(o)
      BY <2>3 DEF LockInv
    <3>2. ctl'[o] = ctl[o] /\ wkr' = wkr
      BY <2>3, Typed DEF TryLock, Goto, wkrVars, Controllers
    <3> QED
      BY <3>1, <3>2 DEF Inside, WorkerAlive
  <2> QED
    BY <1>3, <2>1, <2>2, <2>3, WhoEnters DEF LockInv
<1>4. ASSUME lock'.status = "active"
      PROVE  lock'.controller \in Runs /\ ctl'[lock'.controller] \in Holding \cup {"dead"}
  <2>1. ASSUME NEW r \in Runs, TryLock(r) \/ WriteCreated(r) \/ Reclaim(r)
        PROVE  lock'.controller \in Runs /\ ctl'[lock'.controller] \in Holding \cup {"dead"}
    <3>1. \A q \in Runs : ctl[q] \in Holding \cup {"dead"} => ctl'[q] \in Holding \cup {"dead"}
      BY <2>1, Typed DEF TryLock, WriteCreated, Reclaim, Goto, Controllers, Holding
    <3>2. CASE lock' = NewRecord(r) /\ (WriteCreated(r) \/ Reclaim(r))
      BY <3>2, Typed DEF NewRecord, WriteCreated, Reclaim, Goto, Controllers, Holding
    <3>3. CASE lock' = lock
      BY <1>4, <3>1, <3>3 DEF LockInv
    <3>4. CASE lock' = [lock EXCEPT !.status = "empty"]
      BY <1>4, <3>4 DEF TypeOK, LockFields
    <3> QED
      BY <2>1, <3>2, <3>3, <3>4 DEF TryLock, WriteCreated, Reclaim
  <2>2. ASSUME NEW r \in Runs, ReleaseCompleted(r) \/ ReleaseFailed(r) \/ Unlock(r) PROVE FALSE
    BY <1>4, <2>2, Released
  <2>3. ASSUME NEW r \in Runs, Boot(r) \/ StartHeartbeat(r) \/ BeatLock(r)
        PROVE  lock'.controller \in Runs /\ ctl'[lock'.controller] \in Holding \cup {"dead"}
    <3>1. ctl' = ctl /\ lock'.controller = r
      BY <2>3 DEF Boot, StartHeartbeat, BeatLock, HeartbeatLock, ctlVars
    <3>2. WorkerAlive(r)
      BY <2>3
        DEF Boot, StartHeartbeat, BeatLock, WGoto, WorkerAlive, WkrBusy, PlaceInv,
            PlaceOf, Beating
    <3> QED
      BY <3>1, <3>2 DEF PlaceInv, PlaceOf, Holding
  <2>4. CASE lock' = lock \/ LockGoesStale
    <3>1. lock.status = "active" /\ lock'.controller = lock.controller
      BY <1>4, <2>4 DEF LockGoesStale, TypeOK, LockFields
    <3>2. lock.controller \in Runs /\ ctl[lock.controller] \in Holding \cup {"dead"}
      BY <3>1 DEF LockInv
    <3>3. ASSUME NEW q \in Runs, ctl[q] \in Holding \cup {"dead"}, ctl'[q] \notin Holding \cup {"dead"}
          PROVE  ReleaseCompleted(q) \/ ReleaseFailed(q)
      BY <3>3, LeavingReleases
    <3>4. ASSUME NEW q \in Runs, ReleaseCompleted(q) \/ ReleaseFailed(q) PROVE lock'.status # "active"
      BY <3>4 DEF ReleaseCompleted, ReleaseFailed, ReleaseLock, TypeOK, LockFields
    <3> QED
      BY <1>4, <3>1, <3>2, <3>3, <3>4
  <2> QED
    BY <2>1, <2>2, <2>3, <2>4, WhoMovesLock
<1> QED
  BY <1>2, <1>3, <1>4 DEF LockInv

-----------------------------------------------------------------------------
(* The inductive invariant, and what follows from it. *)

Core == TypeOK /\ StepInv /\ PlaceInv
IInv == Core /\ LeaseInv /\ AnswerInv /\ LockInv

LEMMA InitInv == Init => IInv
<1> SUFFICES ASSUME Init PROVE IInv
  OBVIOUS
<1> USE ConstantsAssumption DEF Init
<1>1. TypeOK
  <2>1. lock \in LockFields
    BY DEF LockFields
  <2>2. intent \in IntentFields
    BY DEF IntentFields
  <2>3. leases \in [Permits -> LeaseFields]
    BY DEF LeaseFields
  <2>4. wkr \in [Runs -> [pc : WkrBusy \cup {"none", "done", "dead"}, steps : 0..(Steps + 1),
                          final : {"failed", "interrupted", "completed"}]]
    OBVIOUS
  <2>5. call \in [Runs -> [permit : Permits, payload : Payloads]]
    OBVIOUS
  <2>6. /\ ctl \in [Runs -> CtlBusy \cup Ended \cup {"idle", "gone", "dead"}]
        /\ beat \in [Runs -> {"off", "on", "beating", "broken"}]
        /\ late \in [Runs -> Nat] /\ answer \in [Runs -> Runs \cup {NoRun}]
    OBVIOUS
  <2>7. doomed \in [Runs -> SUBSET Permits]
    OBVIOUS
  <2>8. worked \in [Permits -> SUBSET Runs]
    OBVIOUS
  <2>9. responses \subseteq Runs /\ expired \subseteq Expiring
    BY ZenonT(30)
  <2>10. faults \in 0..MaxFaults
    OBVIOUS
  <2>11. reclaimed \in BOOLEAN
    BY Zenon
  <2> HIDE DEF Init
  <2> QED
    BY <2>1, <2>2, <2>3, <2>4, <2>5, <2>6, <2>7, <2>8, <2>9, <2>10, <2>11 DEF TypeOK
<1>2. StepInv /\ PlaceInv
  BY DEF StepInv, StepsOf, PlaceInv, PlaceOf, WorkerAlive, WkrBusy
<1>3. LeaseInv
  BY DEF LeaseInv, LeaseOfRun, Leased
<1>4. AnswerInv
  BY DEF AnswerInv, AnswerOf, Backed
<1>5. LockInv
  BY DEF LockInv, Inside, Holding, WorkerAlive, WkrBusy
<1> QED
  BY <1>1, <1>2, <1>3, <1>4, <1>5 DEF IInv, Core

LEMMA NextInv == IInv /\ [Next]_vars => IInv'
  BY TypeStep, StepStep, PlaceStep, LeaseStep, AnswerStep, LockStep DEF IInv, Core

LEMMA Invariance == Spec => []IInv
  BY InitInv, NextInv, PTL DEF Spec

-----------------------------------------------------------------------------
(* The two processes of every run, as seen over the desk.                    *)

(* A caller has its answer only after its call has ended. *)
Unanswered == \A r \in Runs : answer[r] # NoRun => ctl[r] \in {"answered", "gone"}

LEMMA UnansweredStep ==
  ASSUME TypeOK, Unanswered, [Next]_vars PROVE Unanswered'
<1>1. CASE answer' = answer /\ ctl' = ctl
  BY <1>1 DEF Unanswered
<1>2. ASSUME NEW r \in Runs, ReadIntent(r) PROVE Unanswered'
  BY <1>2, Typed DEF ReadIntent, Goto, Unanswered, Controllers, TypeOK
<1>3. ASSUME NEW r \in Runs, ReleaseCompleted(r) PROVE Unanswered'
  BY <1>3, Typed DEF ReleaseCompleted, Goto, Unanswered, Controllers, TypeOK
<1>4. ASSUME NEW r \in Runs, Controller(r), ~ReadIntent(r), ~ReleaseCompleted(r) PROVE Unanswered'
  <2>1. answer' = answer /\ \E from \in CtlBusy : \E to : Goto(r, from, to)
    BY <1>4 DEF Controller, CleanupRead, CleanupWrite, TryLock, WriteCreated, Reclaim, MarkActive,
       Spawn, SpawnFails, WorkerEnded, StoreResponse, MarkCompleted, MarkFailed, ReleaseFailed,
       CtlBusy, Holding
  <2> QED
    BY <2>1, Typed DEF Goto, Unanswered, Controllers, CtlBusy, Holding
<1>5. ASSUME NEW r \in Runs, Start(r) \/ Quit(r) \/ CrashController(r) PROVE Unanswered'
  BY <1>5, Typed DEF Start, Quit, CrashController, Goto, Unanswered, Controllers, CtlBusy, Holding, Ended
<1>6. ASSUME answer' # answer PROVE \E r \in Runs : Controller(r)
  BY <1>6, WhoAnswers DEF Controller
<1> QED
  BY <1>1, <1>2, <1>3, <1>4, <1>5, <1>6, WhoMovesControllers

(* What a step may change on the desk at all. *)
LEMMA SameDesk ==
  ASSUME UNCHANGED <<call, expired, answer>>, Granted' = Granted, Standing' = Standing,
         Admitted' = Admitted, Taken' = Taken, Completed' = Completed
  PROVE  UNCHANGED Desk!dvars
  BY DEF Desk!dvars, Desk!permits, Desk!grants, Desk!work

(* A worker that goes on outside of its kernel steps. *)
LEMMA SameWork ==
  ASSUME Workers, NEW r \in Runs,
         \A q \in Runs \ {r} : wkr'[q] = wkr[q],
         wkr'[r].steps = wkr[r].steps, wkr[r].pc \notin {"work", "done"}, wkr'[r].pc \notin {"work", "done"}
  PROVE  Admitted' = Admitted /\ Taken' = Taken /\ Completed' = Completed
<1>1. \A q \in Runs : wkr'[q].steps = wkr[q].steps
  OBVIOUS
<1> QED
  BY <1>1 DEF Admitted, Taken, Completed

LEMMA SameGrants ==
  ASSUME \A p \in Permits : leases'[p].run = leases[p].run /\ leases'[p].status = leases[p].status
  PROVE  Granted' = Granted /\ Standing' = Standing
  BY DEF Granted, Standing

(* A row that is released, whatever its status was. *)
LEMMA ReleaseWithdraws ==
  ASSUME TypeOK, NEW r \in Runs, NEW status \in {"completed", "failed", "interrupted"},
         ReleaseLease(r, status), Admitted' = Admitted, Taken' = Taken, Completed' = Completed,
         UNCHANGED <<call, expired, answer>>
  PROVE  Desk!DNext
<1>1. PermitOf(r) \in Permits /\ Leases
  BY Typed, PermitTyped
<1>2. Granted' = Granted
  BY <1>1 DEF Granted, ReleaseLease, Leases, LeaseFields
<1>3. Standing' = Standing \ {PermitOf(r)}
  BY <1>1 DEF Standing, ReleaseLease, Leases, LeaseFields
<1>4. Desk!Withdraw({PermitOf(r)})
  BY <1>2, <1>3 DEF Desk!Withdraw, Desk!permits, Desk!work
<1>5. {PermitOf(r)} \in SUBSET Permits
  BY <1>1
<1> QED
  BY <1>4, <1>5 DEF Desk!DNext

LEMMA ControllerAtDesk ==
  ASSUME IInv, Unanswered, [Next]_vars, NEW r \in Runs,
         Start(r) \/ Controller(r) \/ Quit(r) \/ CrashController(r)
  PROVE  Desk!DNext \/ UNCHANGED Desk!dvars
<1>0. TypeOK /\ StepInv /\ PlaceInv /\ AnswerInv /\ AnswerInv' /\ Workers
  BY NextInv, Typed DEF IInv, Core
<1>w. wkr' = wkr => Admitted' = Admitted /\ Taken' = Taken /\ Completed' = Completed
  BY DEF Admitted, Taken, Completed
<1>g. leases' = leases => Granted' = Granted /\ Standing' = Standing
  BY DEF Granted, Standing
<1>1. CASE CleanupWrite(r)
  <2>1. Granted' = Granted /\ \E revoked \in SUBSET Permits : Standing' = Standing \ revoked
    <3>1. Granted' = Granted
      BY <1>0, <1>1, Typed DEF CleanupWrite, Granted, Leases, LeaseFields
    <3>2. Standing' = Standing \ doomed[r]
      BY <1>0, <1>1, Typed DEF CleanupWrite, Standing, Leases, LeaseFields
    <3>3. doomed[r] \in SUBSET Permits
      BY <1>0 DEF TypeOK
    <3> QED
      BY <3>1, <3>2, <3>3
  <2>2. UNCHANGED <<call, expired, answer, wkr>>
    BY <1>1 DEF CleanupWrite, wkrVars
  <2>3. PICK revoked \in SUBSET Permits : Desk!Withdraw(revoked)
    BY <1>w, <2>1, <2>2 DEF Desk!Withdraw, Desk!permits, Desk!work
  <2> QED
    BY <2>3 DEF Desk!DNext
<1>2. ASSUME ReadIntent(r) \/ ReleaseCompleted(r), answer' # answer PROVE Desk!DNext
  <2>1. UNCHANGED <<call, expired, leases, wkr>>
    BY <1>2 DEF ReadIntent, ReleaseCompleted, wkrVars
  <2>2. ctl[r] \in {"read", "release"}
    BY <1>2 DEF ReadIntent, ReleaseCompleted, Goto
  <2>3. answer[r] = NoRun
    BY <2>2 DEF Unanswered
  <2>4. PICK q : /\ answer' = [answer EXCEPT ![r] = q]
                 /\ ctl[r] = "release" => q = r
                 /\ ctl[r] = "read" => q = intent.response /\ intent.status = "completed"
    BY <1>2 DEF ReadIntent, ReleaseCompleted, Goto
  <2>5. answer'[r] = q /\ answer' \in [Runs -> Runs \cup {NoRun}]
    BY <1>0, <2>4, NextInv DEF TypeOK, IInv, Core
  <2>6. q # NoRun
    BY <1>0, <1>2, <2>3, <2>4 DEF TypeOK
  <2>7. q \in Runs /\ PayloadOf(q) = PayloadOf(r)
    BY <1>0, <2>1, <2>5, <2>6 DEF AnswerInv, AnswerOf, Finished, PayloadOf
  <2>8. q \in Completed
    <3>1. CASE ctl[r] = "release"
      BY <1>0, <2>4, <3>1 DEF PlaceInv, PlaceOf, Completed
    <3>2. CASE ctl[r] = "read"
      BY <1>0, <2>4, <3>2 DEF AnswerInv, Backed, Finished, Completed
    <3> QED
      BY <2>2, <3>1, <3>2
  <2>9. Desk!Answer(r, q)
    BY <1>w, <1>g, <2>1, <2>3, <2>4, <2>7, <2>8
      DEF Desk!Answer, Desk!permits, Desk!grants, Desk!work, PayloadOf
  <2> QED
    BY <2>7, <2>9 DEF Desk!DNext
<1>3. CASE Spawn(r)
  <2>1. ctl[r] = "spawn" /\ wkr' = [wkr EXCEPT ![r].pc = "boot"]
    BY <1>3 DEF Spawn, Goto
  <2>2. wkr[r].pc = "none"
    BY <1>0, <2>1 DEF PlaceInv, PlaceOf, Spawned
  <2>3. /\ wkr'[r].pc = "boot" /\ wkr'[r].steps = wkr[r].steps
        /\ \A q \in Runs \ {r} : wkr'[q] = wkr[q]
    BY <1>0, <2>1, SpawnMoves DEF WkrPlace, WkrBusy
  <2>4. UNCHANGED <<call, expired, answer, leases>>
    BY <1>3 DEF Spawn
  <2> QED
    BY <1>0, <1>g, <2>2, <2>3, <2>4, SameWork, SameDesk
<1>4. ASSUME ~CleanupWrite(r), ~Spawn(r), answer' = answer PROVE UNCHANGED Desk!dvars
  <2>1. UNCHANGED <<call, expired, leases, wkr>>
    BY <1>4 DEF Controller, CleanupRead, ReadIntent, TryLock, WriteCreated, Reclaim, MarkActive,
       SpawnFails, WorkerEnded, StoreResponse, MarkCompleted, ReleaseCompleted, MarkFailed,
       ReleaseFailed, Start, Quit, CrashController, wkrVars
  <2> QED
    BY <1>4, <1>w, <1>g, <2>1, SameDesk
<1>5. ASSUME answer' # answer PROVE ReadIntent(r) \/ ReleaseCompleted(r)
  BY <1>5 DEF Controller, CleanupRead, CleanupWrite, TryLock, WriteCreated, Reclaim, MarkActive,
     Spawn, SpawnFails, WorkerEnded, StoreResponse, MarkCompleted, MarkFailed, ReleaseFailed,
     Start, Quit, CrashController
<1> QED
  BY <1>1, <1>2, <1>3, <1>4, <1>5

LEMMA WorkerAtDesk ==
  ASSUME IInv, [Next]_vars, NEW r \in Runs, Worker(r)
  PROVE  Desk!DNext \/ UNCHANGED Desk!dvars
<1>0. TypeOK /\ StepInv /\ LeaseInv /\ Workers /\ Leases /\ PermitOf(r) \in Permits
  BY Typed, PermitTyped DEF IInv, Core
<1>a. UNCHANGED <<call, expired, answer>>
  BY DEF Worker, Boot, AcquireLease, StartHeartbeat, Guard, Work,
        Reallocate, KernelStep, WorkRaises, Respond,
     Close, Fail, Unlock, Exit, ctlVars
<1>g. leases' = leases => Granted' = Granted /\ Standing' = Standing
  BY DEF Granted, Standing
<1>1. CASE Boot(r) \/ StartHeartbeat(r) \/ Respond(r) \/ Unlock(r)
  <2>1. leases' = leases
    BY <1>1 DEF Boot, StartHeartbeat, Respond, Unlock
  <2>2. PICK from, to \in WkrBusy \ {"work"} : WGoto(r, from, to) /\ from \notin {"work", "done"}
    BY <1>1 DEF Boot, StartHeartbeat, Respond, WkrBusy, Unlock, WGoto
  <2>3. /\ wkr'[r].steps = wkr[r].steps /\ \A q \in Runs \ {r} : wkr'[q] = wkr[q]
        /\ wkr[r].pc \notin {"work", "done"} /\ wkr'[r].pc \notin {"work", "done"}
    BY <1>0, <2>2, WkrMoves DEF WkrPlace, WkrBusy
  <2> QED
    BY <1>0, <1>a, <1>g, <2>1, <2>3, SameWork, SameDesk
<1>2. CASE AcquireLease(r)
  <2>1. /\ wkr'[r].steps = wkr[r].steps /\ \A q \in Runs \ {r} : wkr'[q] = wkr[q]
        /\ wkr[r].pc \notin {"work", "done"} /\ wkr'[r].pc \notin {"work", "done"}
    BY <1>0, <1>2, WkrMoves DEF AcquireLease, WkrPlace, WkrBusy
  <2>2. Admitted' = Admitted /\ Taken' = Taken /\ Completed' = Completed
    BY <1>0, <2>1, SameWork
  <2>3. CASE leases' = leases
    BY <1>a, <1>g, <2>2, <2>3, SameDesk
  <2>4. CASE leases' # leases
    <3>1. MayAcquire(r) /\ leases' = [leases EXCEPT ![PermitOf(r)] =
                                        [status |-> "active", run |-> r, fresh |-> TRUE]]
      BY <1>2, <2>4 DEF AcquireLease
    <3>2. leases[PermitOf(r)].run = NoRun
      BY <1>0, <3>1 DEF MayAcquire, LeaseOf, LeaseInv, Leases, LeaseFields
    <3>3. Granted' = [Granted EXCEPT ![PermitOf(r)] = r]
      BY <1>0, <3>1 DEF Granted, Leases
    <3>4. Standing' = Standing \cup {PermitOf(r)}
      BY <1>0, <3>1 DEF Standing, Leases
    <3>5. Granted[PermitOf(r)] = NoRun /\ PermitOf(r) \notin expired
      BY <1>0, <3>1, <3>2 DEF Granted, MayAcquire, PermitValid
    <3>6. Desk!Grant(r)
      BY <1>a, <2>2, <3>3, <3>4, <3>5
        DEF Desk!Grant, Desk!Mine, Desk!permits, Desk!work, PermitOf
    <3> QED
      BY <3>6 DEF Desk!DNext
  <2> QED
    BY <2>3, <2>4
<1>3. CASE Guard(r)
  <2>1. leases' = leases
    BY <1>3 DEF Guard
  <2>2. CASE ~LeaseInForce(r)
    <3>1. /\ wkr'[r].steps = wkr[r].steps /\ \A q \in Runs \ {r} : wkr'[q] = wkr[q]
          /\ wkr[r].pc \notin {"work", "done"} /\ wkr'[r].pc \notin {"work", "done"}
      BY <1>0, <1>3, <2>2, WkrMoves DEF Guard, WkrPlace, WkrBusy
    <3> QED
      BY <1>0, <1>a, <1>g, <2>1, <3>1, SameWork, SameDesk
  <2>3. CASE LeaseInForce(r)
    <3>1. /\ wkr[r].pc = "guard" /\ wkr'[r].pc = "work" /\ wkr'[r].steps = wkr[r].steps
          /\ \A q \in Runs \ {r} : wkr'[q] = wkr[q]
      BY <1>0, <1>3, <2>3, WkrMoves DEF Guard, WkrPlace, WkrBusy
    <3>2. Admitted' = Admitted \cup {r} /\ Taken' = Taken /\ Completed' = Completed
      BY <3>1 DEF Admitted, Taken, Completed
    <3>3. Taken[r] < Steps /\ r \notin Completed
      BY <1>0, <3>1 DEF Taken, Completed, StepInv, StepsOf
    <3>4. Granted[PermitOf(r)] = r /\ PermitOf(r) \in Standing \ expired
      BY <1>0, <2>3 DEF LeaseInForce, HasLease, LeaseOf, PermitValid, Granted, Standing
    <3>5. Desk!Admit(r)
      BY <1>a, <1>g, <2>1, <3>2, <3>3, <3>4
        DEF Desk!Admit, Desk!InForce, Desk!Mine, Desk!permits, Desk!grants, PermitOf
    <3> QED
      BY <3>5 DEF Desk!DNext
  <2> QED
    BY <2>2, <2>3
<1>4. CASE Work(r)
  <2>1. leases' = leases
    BY <1>4 DEF Work, KernelStep
  <2>2. /\ wkr[r].pc = "work" /\ wkr'[r].steps = wkr[r].steps + 1
        /\ wkr'[r].pc \in {"reallocate", "guard"} /\ \A q \in Runs \ {r} : wkr'[q] = wkr[q]
    BY <1>0, <1>4, WorkMoves DEF Works
  <2>3. r \in Admitted /\ Admitted' = Admitted \ {r} /\ Completed' = Completed
    BY <2>2 DEF Admitted, Completed
  <2>4. Taken' = [Taken EXCEPT ![r] = @ + 1]
    BY <2>2 DEF Taken
  <2>5. Desk!Take(r)
    BY <1>a, <1>g, <2>1, <2>3, <2>4 DEF Desk!Take, Desk!permits, Desk!grants
  <2> QED
    BY <2>5 DEF Desk!DNext
<1>5. CASE Reallocate(r)
  <2>1. leases' = leases
    BY <1>5 DEF Reallocate, KernelStep
  <2>2. /\ wkr[r].pc = "reallocate" /\ wkr[r].steps = Steps
        /\ wkr'[r].steps = wkr[r].steps + 1 /\ wkr'[r].pc = "respond"
        /\ \A q \in Runs \ {r} : wkr'[q] = wkr[q]
    BY <1>0, <1>5, WorkMoves DEF Works
  <2>3. Admitted' = Admitted /\ Completed' = Completed
    BY <2>2 DEF Admitted, Completed
  <2>4. Taken[r] = Steps /\ Taken' = [Taken EXCEPT ![r] = @ + 1]
    BY <2>2 DEF Taken
  <2>5. Desk!Rewrite(r)
    BY <1>a, <1>g, <2>1, <2>3, <2>4 DEF Desk!Rewrite, Desk!permits, Desk!grants
  <2> QED
    BY <2>5 DEF Desk!DNext
<1>8. CASE WorkRaises(r)
  <2>1. leases' = leases
    BY <1>8 DEF WorkRaises
  <2>2. /\ wkr[r].pc \in {"work", "reallocate"} /\ wkr'[r].steps = wkr[r].steps
        /\ wkr'[r].pc = "failing" /\ \A q \in Runs \ {r} : wkr'[q] = wkr[q]
    BY <1>0, <1>8, WkrMoves DEF WorkRaises, WkrPlace, WkrBusy
  <2>3. Admitted' = Admitted \ {r} /\ Taken' = Taken /\ Completed' = Completed
    BY <2>2 DEF Admitted, Taken, Completed
  <2>4. Desk!Drop(r)
    BY <1>a, <1>g, <2>1, <2>3 DEF Desk!Drop, Desk!permits, Desk!grants
  <2> QED
    BY <2>4 DEF Desk!DNext
<1>6. CASE Close(r) \/ Fail(r)
  <2>1. /\ wkr'[r].steps = wkr[r].steps /\ \A q \in Runs \ {r} : wkr'[q] = wkr[q]
        /\ wkr[r].pc \notin {"work", "done"} /\ wkr'[r].pc \notin {"work", "done"}
    BY <1>0, <1>6, FinalMoves
  <2>2. Admitted' = Admitted /\ Taken' = Taken /\ Completed' = Completed
    BY <1>0, <2>1, SameWork
  <2>3. CASE leases' = leases
    BY <1>a, <1>g, <2>2, <2>3, SameDesk
  <2>4. CASE leases' # leases
    <3>1. \E status \in {"completed", "failed", "interrupted"} : ReleaseLease(r, status)
      BY <1>6, <2>4 DEF Close, Fail
    <3> QED
      BY <1>0, <1>a, <2>2, <3>1, ReleaseWithdraws
  <2> QED
    BY <2>3, <2>4
<1>7. CASE Exit(r)
  <2>1. leases' = leases
    BY <1>7 DEF Exit
  <2>2. /\ wkr[r].pc = "exiting" /\ wkr'[r].pc = "done"
        /\ wkr'[r].steps = wkr[r].steps /\ wkr'[r].final = wkr[r].final
        /\ \A q \in Runs \ {r} : wkr'[q] = wkr[q]
    BY <1>0, <1>7, WkrMoves DEF Exit, WkrPlace
  <2>3. Admitted' = Admitted /\ Taken' = Taken
    BY <2>2 DEF Admitted, Taken
  <2>4. CASE wkr[r].final = "completed"
    <3>1. Completed' = Completed \cup {r} /\ Taken[r] = Steps + 1
      BY <1>0, <2>2, <2>4 DEF Completed, Taken, StepInv, StepsOf
    <3>2. Desk!Finish(r)
      BY <1>a, <1>g, <2>1, <2>3, <3>1 DEF Desk!Finish, Desk!permits, Desk!grants
    <3> QED
      BY <3>2 DEF Desk!DNext
  <2>5. CASE wkr[r].final # "completed"
    <3>1. Completed' = Completed
      BY <2>2, <2>5 DEF Completed
    <3> QED
      BY <1>a, <1>g, <2>1, <2>3, <3>1, SameDesk
  <2> QED
    BY <2>4, <2>5
<1> QED
  BY <1>1, <1>2, <1>3, <1>4, <1>5, <1>6, <1>7, <1>8 DEF Worker

LEMMA RestAtDesk ==
  ASSUME IInv, [Next]_vars,
         \A r \in Runs : ~(Start(r) \/ Controller(r) \/ Quit(r) \/ CrashController(r) \/ Worker(r))
  PROVE  Desk!DNext \/ UNCHANGED Desk!dvars
<1>0. TypeOK /\ Workers /\ Leases
  BY Typed DEF IInv, Core
<1>w. wkr' = wkr => Admitted' = Admitted /\ Taken' = Taken /\ Completed' = Completed
  BY DEF Admitted, Taken, Completed
<1>g. leases' = leases => Granted' = Granted /\ Standing' = Standing
  BY DEF Granted, Standing
<1>1. ASSUME NEW r \in Runs, BeatLease(r) PROVE UNCHANGED Desk!dvars
  <2>1. \A p \in Permits : leases'[p].run = leases[p].run /\ leases'[p].status = leases[p].status
    BY <1>0, <1>1 DEF BeatLease, HeartbeatLease, Leases, LeaseFields
  <2>2. UNCHANGED <<call, expired, answer, wkr>>
    BY <1>1 DEF BeatLease, ctlVars
  <2> QED
    BY <1>w, <2>1, <2>2, SameGrants, SameDesk
<1>2. ASSUME NEW p \in Permits, LeaseGoesStale(p) PROVE UNCHANGED Desk!dvars
  <2>1. \A q \in Permits : leases'[q].run = leases[q].run /\ leases'[q].status = leases[q].status
    BY <1>0, <1>2 DEF LeaseGoesStale, Leases, LeaseFields
  <2>2. UNCHANGED <<call, expired, answer, wkr>>
    BY <1>2 DEF LeaseGoesStale, ctlVars, wkrVars
  <2> QED
    BY <1>w, <2>1, <2>2, SameGrants, SameDesk
<1>3. ASSUME NEW r \in Runs, CrashWorker(r) PROVE Desk!DNext
  <2>1. UNCHANGED <<call, expired, answer, leases>>
    BY <1>3 DEF CrashWorker, ctlVars
  <2>2. /\ wkr'[r].pc = "dead" /\ wkr'[r].steps = wkr[r].steps /\ wkr[r].pc # "done"
        /\ \A q \in Runs \ {r} : wkr'[q] = wkr[q]
    BY <1>0, <1>3, SpawnMoves DEF CrashWorker, WorkerAlive, WkrPlace, WkrBusy
  <2>3. Admitted' = Admitted \ {r} /\ Taken' = Taken /\ Completed' = Completed
    BY <2>2 DEF Admitted, Taken, Completed
  <2>4. Desk!Drop(r)
    BY <1>g, <2>1, <2>3 DEF Desk!Drop, Desk!permits, Desk!grants
  <2> QED
    BY <2>4 DEF Desk!DNext
<1>4. ASSUME NEW p \in Permits, PermitExpires(p) PROVE Desk!DNext
  <2>1. UNCHANGED <<call, answer, leases, wkr>>
    BY <1>4 DEF PermitExpires, ctlVars, wkrVars
  <2>2. Desk!Expire(p)
    BY <1>4, <1>w, <1>g, <2>1 DEF PermitExpires, Desk!Expire, Desk!grants, Desk!work
  <2> QED
    BY <2>2 DEF Desk!DNext
<1>5. ASSUME NEW r \in Runs, BeatLock(r) \/ ResponseIsLost(r) PROVE UNCHANGED Desk!dvars
  <2>1. UNCHANGED <<call, expired, answer, leases, wkr>>
    BY <1>5 DEF BeatLock, ResponseIsLost, ctlVars, wkrVars
  <2> QED
    BY <1>w, <1>g, <2>1, SameDesk
<1>6. ASSUME LockGoesStale \/ Terminated \/ UNCHANGED vars PROVE UNCHANGED Desk!dvars
  <2>1. UNCHANGED <<call, expired, answer, leases, wkr>>
    BY <1>6 DEF LockGoesStale, Terminated, vars, ctlVars, wkrVars
  <2> QED
    BY <1>w, <1>g, <2>1, SameDesk
<1> QED
  BY <1>1, <1>2, <1>3, <1>4, <1>5, <1>6 DEF Next, Faults

LEMMA AlwaysUnanswered == Spec => []Unanswered
<1>1. Init => Unanswered
  BY DEF Init, Unanswered
<1>2. IInv /\ Unanswered /\ [Next]_vars => Unanswered'
  BY UnansweredStep DEF IInv, Core
<1> QED
  BY <1>1, <1>2, Invariance, PTL DEF Spec

-----------------------------------------------------------------------------
(* The types of the model, and no worker does more steps than its batch has: *)
(* the counter cannot pass the test that ends the kernel loop.               *)
THEOREM TypeCorrect == Spec => []TypeOK
<1>1. IInv => TypeOK
  BY DEF IInv, Core
<1> QED
  BY <1>1, Invariance, PTL

(* acquire_execution_lease makes a permit single-use, across crashes,        *)
(* expiries, cleanups and releases of its lease.                             *)
THEOREM PermitIsSingleUse == Spec => []PermitWorksOnce
<1>1. IInv => PermitWorksOnce
  <2> SUFFICES ASSUME IInv, NEW p \in Permits, NEW r \in worked[p], NEW q \in worked[p]
               PROVE  r = q
    BY DEF PermitWorksOnce
  <2>1. r \in Runs /\ q \in Runs
    BY DEF IInv, Core, TypeOK
  <2> QED
    BY <2>1 DEF IInv, LeaseInv, LeaseOfRun
<1> QED
  BY <1>1, Invariance, PTL

(* _dispatch_worker answers, or replays, only what a finished worker of the  *)
(* same payload produced.                                                    *)
THEOREM AnswersAreRight == Spec => []AnswersAreOfPayload
<1>1. IInv => AnswersAreOfPayload
  BY DEF IInv, AnswerInv, AnswerOf, Finished, AnswersAreOfPayload
<1> QED
  BY <1>1, Invariance, PTL

(* require_active_worker_lease before the guarded kernel steps bounds what a *)
(* worker does after its lease was cleaned up to the guarded step under way, *)
(* and to the rewrite of the sessions when no other step was left.           *)
THEOREM EvictionStops == Spec => []EvictedWorkerStops
<1>1. IInv => EvictedWorkerStops
  BY DEF IInv, LeaseInv, LeaseOfRun, EvictedWorkerStops
<1> QED
  BY <1>1, Invariance, PTL

(* The exclusive creation of the lock file is mutual exclusion until the     *)
(* first replacement of the lock.                                            *)
THEOREM CreationExcludes == Spec => []ExclusiveUntilReclaim
<1>1. IInv => ExclusiveUntilReclaim
  BY DEF IInv, LockInv, Inside, ExclusiveUntilReclaim
<1> QED
  BY <1>1, Invariance, PTL

(* Calls that ended, without the death of a controller inside its call, have *)
(* left no active lock.                                                      *)
THEOREM LockIsLeftInactive == Spec => []EndedCallsLeaveNoLock
<1>1. IInv => EndedCallsLeaveNoLock
  BY DEF IInv, LockInv, Ended, Holding, EndedCallsLeaveNoLock
<1> QED
  BY <1>1, Invariance, PTL

(* What dead processes left never turns a caller away.                       *)
THEOREM TheDeadDoNotBlock == Spec => DeadNeverBlock
<1> DEFINE A == \A r \in Runs :
                  /\ ctl[r] = "lock" /\ ~WorkerAlive(r)
                  /\ \A q \in Runs \ {r} : ~WorkerAlive(q) /\ ~ControllerAlive(q)
                  => ctl'[r] # "raised"
<1>1. IInv /\ [Next]_vars => [A]_vars
  <2> SUFFICES ASSUME IInv, [Next]_vars, NEW r \in Runs, ctl[r] = "lock", ~WorkerAlive(r),
                      \A q \in Runs \ {r} : ~WorkerAlive(q) /\ ~ControllerAlive(q)
               PROVE  ctl'[r] # "raised"
    OBVIOUS
  <2>1. ~LockActive
    <3>1. lock.status = "active" => lock.controller \in Runs \ {r}
      BY DEF IInv, LockInv, Holding
    <3>2. ~WorkerAlive(lock.worker)
      BY DEF WorkerAlive
    <3> QED
      BY <3>1, <3>2 DEF LockActive
  <2>2. ASSUME NEW q \in Runs, Start(q) \/ Quit(q) \/ CrashController(q) PROVE ctl'[r] # "raised"
    BY <2>2, Typed DEF Start, Quit, CrashController, Goto, IInv, Core, Controllers
  <2>3. ASSUME NEW q \in Runs \ {r}, Controller(q) PROVE ctl'[r] # "raised"
    BY <2>3, Typed
      DEF Controller, CleanupRead, CleanupWrite, ReadIntent, TryLock, WriteCreated,
          Reclaim,
       MarkActive, Spawn, SpawnFails, WorkerEnded, StoreResponse, MarkCompleted, ReleaseCompleted,
       MarkFailed, ReleaseFailed, Goto, IInv, Core, Controllers
  <2>4. ASSUME Controller(r) PROVE ctl'[r] # "raised"
    BY <2>1, <2>4, Typed
      DEF Controller, CleanupRead, CleanupWrite, ReadIntent, TryLock, WriteCreated,
       Reclaim, MarkActive, Spawn, SpawnFails, WorkerEnded, StoreResponse, MarkCompleted,
       ReleaseCompleted, MarkFailed, ReleaseFailed, Goto, IInv, Core, Controllers
  <2> QED
    BY <2>2, <2>3, <2>4, WhoMovesControllers
<1> QED
  BY <1>1, Invariance, PTL DEF Spec, DeadNeverBlock

(* runtime_worker.main and execution_control over _dispatch_worker: seen     *)
(* without locks, processes and files, the dispatch of a batch does what     *)
(* PermitDesk allows, for any runs, permits, payloads, steps and faults.     *)
THEOREM DispatchKeepsDesk == Spec => KeepsDesk
<1>1. Init => Desk!DInit
  BY DEF Init, Desk!DInit, Granted, Standing, Admitted, Taken, Completed
<1>2. IInv /\ Unanswered /\ [Next]_vars => [Desk!DNext]_(Desk!dvars)
  BY ControllerAtDesk, WorkerAtDesk, RestAtDesk
<1> QED
  BY <1>1, <1>2, Invariance, AlwaysUnanswered, PTL DEF Spec, KeepsDesk, Desk!DSpec
=============================================================================
