------------------------- MODULE RunnerHeartbeatsProofs -------------------------
(***************************************************************************)
(* For every set of runners and orchestrators: the types, and, when no       *)
(* submitting run outlasts max_heartbeat_age_seconds, that one run submits   *)
(* at a time and that none submits past another's plan.                      *)
(***************************************************************************)
EXTENDS RunnerHeartbeats, TLAPS

LEMMA InitTypes == Init => TypeOK
  BY HeartbeatAssumption DEF Init, TypeOK, IdleRun, NoRows, Run, Pc, Layer, Age, WatchAge

LEMMA IdleType ==
  ASSUME NEW r \in Runners
  PROVE  IdleRun(r) \in Run
  BY HeartbeatAssumption DEF IdleRun, Run, Pc, Layer

LEMMA StartTypes ==
  ASSUME TypeOK, NEW r \in Runners, Start(r)
  PROVE  TypeOK'
<1>1. run' \in [Runners -> Run]
  <2>1. [IdleRun(r) EXCEPT !.pc = "enter", !.live = First[r] = 3] \in Run
    BY IdleType DEF Run, Pc, IdleRun
  <2> QED
    BY <2>1 DEF Start, TypeOK
<1>2. row' \in [Runners -> [Layer -> Age]] /\ watch' \in [Orchestrators -> WatchAge]
  BY DEF Start, TypeOK, Fresh, Age, WatchAge
<1>3. residue' \subseteq Residue
  BY DEF Start, TypeOK, Recovered
<1> QED
  BY <1>1, <1>2, <1>3 DEF Start, TypeOK

LEMMA EnterTypes ==
  ASSUME TypeOK, NEW r \in Runners, Enter(r)
  PROVE  TypeOK'
<1>1. PICK blocked : /\ blocked \in {Checks(r) /\ EntryBlocked(r), Checks(r)}
                     /\ run' = [run EXCEPT ![r].pc = "announce", ![r].blocked = blocked]
  BY DEF Enter
<1>2. blocked \in BOOLEAN
  BY <1>1 DEF Checks, EntryBlocked
<1>3. run' \in [Runners -> Run]
  BY <1>1, <1>2 DEF TypeOK, Run, Pc
<1> QED
  BY <1>3 DEF Enter, TypeOK

LEMMA AnnounceTypes ==
  ASSUME TypeOK, NEW r \in Runners, Announce(r)
  PROVE  TypeOK'
<1>1. row' \in [Runners -> [Layer -> Age]]
  BY DEF Announce, TypeOK, Run, Age
<1>2. run' \in [Runners -> Run]
  <2>1. CASE run' = [run EXCEPT ![r].pc = "leave"]
    BY <2>1 DEF TypeOK, Run, Pc
  <2>2. CASE run[r].layer < 3 /\ run' = [run EXCEPT ![r].pc = "enter", ![r].layer = @ + 1]
    <3>1. run[r] \in Run /\ run[r].layer + 1 \in Layer
      BY <2>2 DEF TypeOK, Run, Layer
    <3>2. [run[r] EXCEPT !.pc = "enter", !.layer = @ + 1] \in Run
      BY <3>1 DEF Run, Pc
    <3> QED
      BY <2>2, <3>2 DEF TypeOK
  <2>3. CASE run' = [run EXCEPT ![r].pc = "recheck"]
    <3>1. [run[r] EXCEPT !.pc = "recheck"] \in Run
      BY DEF TypeOK, Run, Pc
    <3> QED
      BY <2>3, <3>1 DEF TypeOK
  <2> QED
    BY <2>1, <2>2, <2>3, Zenon DEF Announce
<1> QED
  BY <1>1, <1>2 DEF Announce, TypeOK

LEMMA DeltaTypes ==
  ASSUME TypeOK, NEW r \in Runners, Recheck(r) \/ Submit(r)
  PROVE  TypeOK'
<1>1. run' \in [Runners -> Run]
  <2>1. ASSUME NEW blocked \in BOOLEAN, run' = [run EXCEPT ![r].pc = "leave", ![r].blocked = blocked]
        PROVE  run' \in [Runners -> Run]
    BY <2>1 DEF TypeOK, Run, Pc
  <2>2. CASE run' = [run EXCEPT ![r].pc = "submit"]
    BY <2>2 DEF TypeOK, Run, Pc
  <2> QED
    BY <2>1, <2>2, Zenon DEF Recheck, Submit
<1> QED
  BY <1>1 DEF Recheck, Submit, TypeOK

LEMMA LeaveTypes ==
  ASSUME TypeOK, NEW r \in Runners, Leave(r)
  PROVE  TypeOK'
<1>1. row' \in [Runners -> [Layer -> Age]]
  BY DEF Leave, TypeOK, Run, Age
<1>2. run' \in [Runners -> Run]
  <2>1. CASE run' = [run EXCEPT ![r] = IdleRun(r)]
    BY <2>1, IdleType DEF TypeOK
  <2>2. CASE run[r].layer > First[r] /\ run' = [run EXCEPT ![r].layer = @ - 1]
    <3> run[r] \in Run /\ First[r] \in 1..3
      BY HeartbeatAssumption DEF TypeOK
    <3>1. run[r].layer - 1 \in Layer
      BY <2>2 DEF Run, Layer
    <3>2. [run[r] EXCEPT !.layer = @ - 1] \in Run
      BY <3>1 DEF Run
    <3> QED
      BY <2>2, <3>2 DEF TypeOK
  <2>3. CASE run' = [run EXCEPT ![r].pc = "enter", ![r].live = TRUE]
    BY <2>3 DEF TypeOK, Run, Pc
  <2> QED
    BY <2>1, <2>2, <2>3 DEF Leave
<1> QED
  BY <1>1, <1>2 DEF Leave, TypeOK

LEMMA FailureTypes ==
  ASSUME TypeOK, NEW r \in Runners, Raise(r) \/ Crash(r)
  PROVE  TypeOK'
<1>1. residue' \subseteq Residue
  BY DEF Raise, Crash, TypeOK, LeftBehind
<1>2. crashes' \in 0..MaxCrashes
  BY HeartbeatAssumption DEF Raise, Crash, TypeOK
<1>3. row' \in [Runners -> [Layer -> Age]] /\ watch' \in [Orchestrators -> WatchAge]
  BY DEF Raise, Crash, TypeOK, NoRows, Age
<1>4. run' \in [Runners -> Run]
  <2>1. CASE Raise(r)
    <3>1. run[r] \in Run /\ 1 \in Layer /\ "leave" \in Pc
      BY DEF TypeOK, Layer, Pc
    <3>2. [run[r] EXCEPT !.pc = "leave", !.layer = 1, !.blocked = TRUE] \in Run
      BY <3>1 DEF Run
    <3> QED
      BY <2>1, <3>2 DEF Raise, TypeOK
  <2>2. CASE Crash(r)
    BY <2>2, IdleType DEF Crash, TypeOK
  <2> QED
    BY <2>1, <2>2
<1> QED
  BY <1>1, <1>2, <1>3, <1>4 DEF TypeOK

LEMMA OtherTypes ==
  ASSUME TypeOK,
         \/ \E r \in Runners : RowAges(r)
         \/ \E o \in Orchestrators :
              OrchestratorStarts(o) \/ OrchestratorEnds(o) \/ OrchestratorDies(o) \/ WatchAges(o)
         \/ ResidueAges
  PROVE  TypeOK'
<1>1. ASSUME NEW r \in Runners, RowAges(r)
      PROVE  TypeOK'
  BY <1>1 DEF RowAges, TypeOK, Old, Age
<1>2. ASSUME NEW o \in Orchestrators, OrchestratorStarts(o) \/ OrchestratorEnds(o) \/ WatchAges(o)
      PROVE  TypeOK'
  BY <1>2 DEF OrchestratorStarts, OrchestratorEnds, WatchAges, TypeOK, Old, Age, WatchAge
<1>3. ASSUME NEW o \in Orchestrators, OrchestratorDies(o)
      PROVE  TypeOK'
  <2>1. <<"orchestrator", IF watch[o] = "new" THEN "active" ELSE watch[o]>> \in Residue
    BY <1>3 DEF OrchestratorDies, TypeOK, Age, WatchAge, Residue
  <2> QED
    BY <1>3, <2>1, HeartbeatAssumption DEF OrchestratorDies, TypeOK, Age, WatchAge
<1>4. CASE ResidueAges
  BY <1>4 DEF ResidueAges, TypeOK, Residue
<1> QED
  BY <1>1, <1>2, <1>3, <1>4

LEMMA NextTypes == TypeOK /\ [Next]_vars => TypeOK'
<1> SUFFICES ASSUME TypeOK, [Next]_vars
             PROVE  TypeOK'
  OBVIOUS
<1>1. CASE UNCHANGED vars
  BY <1>1 DEF vars, TypeOK
<1>2. CASE Next
  BY <1>2, StartTypes, EnterTypes, AnnounceTypes, DeltaTypes, LeaveTypes, FailureTypes, OtherTypes
     DEF Next, Runs
<1> QED
  BY <1>1, <1>2

\* The rows, the runs and the counters keep their types, for every set of
\* runners and every bound (the heartbeats table of state_store.py).
THEOREM TypeCorrect == Spec => []TypeOK
  BY InitTypes, NextTypes, PTL DEF Spec

--------------------------------------------------------------------------------
(* One submit at a time.  A run on its way to the orders has an active row, so    *)
(* the re-check of another sees it.  A row can only fail to be seen when it is    *)
(* stale: the assumption is that no submitting run lives that long.               *)

\* The delta runner's row of a run past its announcement.
Shown(r) ==
  run[r].pc \in {"recheck", "submit"} => run[r].layer = 3 /\ row[r][3] = "active"

\* Only a controller's run outlasts the age, and it never goes live.
Timely(r) ==
  IF r \in Controllers THEN ~run[r].live /\ run[r].pc \notin {"recheck", "submit"}
                       ELSE \A l \in Layer : row[r][l] # "stale"

\* The outer row of a run inside a supervisor.
Enclosed(r) == r \in Supervisors /\ run[r].layer > 1 => row[r][1] = "active"

SubmitInv == \A r \in Runners : Shown(r) /\ Timely(r) /\ Enclosed(r)

LEMMA StartRows ==
  ASSUME TypeOK, NEW r \in Runners, Start(r), NEW p \in Runners, NEW l \in Layer
  PROVE  /\ row'[p][l] \in {row[p][l], "none"}
         /\ row[p][l] = "active" => row'[p][l] = "active"
<1>1. CASE row' = row
  BY <1>1
<1>2. CASE row' = [q \in Runners |-> [k \in Layer |-> Fresh(row[q][k])]]
  BY <1>2 DEF Fresh
<1> QED
  BY <1>1, <1>2 DEF Start

LEMMA SubmitStart ==
  ASSUME TypeOK, SubmitInv, NEW r \in Runners, Start(r)
  PROVE  SubmitInv'
<1> SUFFICES ASSUME NEW p \in Runners
             PROVE  Shown(p)' /\ Timely(p)' /\ Enclosed(p)'
  BY DEF SubmitInv
<1>1. CASE p # r
  <2>1. run'[p] = run[p]
    BY <1>1 DEF Start, TypeOK
  <2>2. \A l \in Layer : /\ row'[p][l] \in {row[p][l], "none"}
                         /\ row[p][l] = "active" => row'[p][l] = "active"
    BY StartRows
  <2>3. Shown(p) /\ Timely(p) /\ Enclosed(p)
    BY DEF SubmitInv
  <2> QED
    <3>1. Shown(p)'
      BY <2>1, <2>2, <2>3 DEF Shown, Layer
    <3>2. Timely(p)'
      BY <2>1, <2>2, <2>3 DEF Timely
    <3>3. Enclosed(p)'
      BY <2>1, <2>2, <2>3 DEF Enclosed, Supervisors, Layer
    <3> QED
      BY <3>1, <3>2, <3>3
<1>2. CASE p = r
  <2>1. run'[r].pc = "enter" /\ run'[r].layer = First[r]
    BY DEF Start, IdleRun, TypeOK
  <2>2. ASSUME r \in Controllers
        PROVE  ~run'[r].live
    <3>1. First[r] = 1
      BY <2>2, HeartbeatAssumption
    <3> QED
      <4>1. run'[r] = [IdleRun(r) EXCEPT !.pc = "enter", !.live = First[r] = 3]
        BY DEF Start, TypeOK
      <4>2. (First[r] = 3) = FALSE
        BY <3>1
      <4>3. run'[r].live = FALSE
        BY <4>1, <4>2 DEF IdleRun
      <4> QED
        BY <4>3
  <2>3. ASSUME r \notin Controllers
        PROVE  \A l \in Layer : row'[r][l] # "stale"
    BY <2>3, StartRows DEF SubmitInv, Timely
  <2>4. r \in Supervisors => run'[r].layer = 1
    BY <2>1 DEF Supervisors
  <2> QED
    BY <1>2, <2>1, <2>2, <2>3, <2>4 DEF Shown, Timely, Enclosed
<1> QED
  BY <1>1, <1>2

LEMMA SubmitEnter ==
  ASSUME TypeOK, SubmitInv, NEW r \in Runners, Enter(r) \/ Recheck(r) \/ Submit(r)
  PROVE  SubmitInv'
<1> SUFFICES ASSUME NEW p \in Runners
             PROVE  Shown(p)' /\ Timely(p)' /\ Enclosed(p)'
  BY DEF SubmitInv
<1>1. /\ run'[p].layer = run[p].layer /\ run'[p].live = run[p].live
      /\ run'[p].pc # run[p].pc => run'[p].pc \in {"announce", "leave"} \/ run[p].pc = "recheck"
  BY DEF Enter, Recheck, Submit, At, TypeOK, Run
<1>2. row' = row
  BY DEF Enter, Recheck, Submit
<1>3. Shown(p) /\ Timely(p) /\ Enclosed(p)
  BY DEF SubmitInv
<1> QED
  BY <1>1, <1>2, <1>3 DEF Shown, Timely, Enclosed

LEMMA SubmitAnnounce ==
  ASSUME TypeOK, SubmitInv, NEW r \in Runners, Announce(r)
  PROVE  SubmitInv'
<1> SUFFICES ASSUME NEW p \in Runners
             PROVE  Shown(p)' /\ Timely(p)' /\ Enclosed(p)'
  BY DEF SubmitInv
<1>1. Shown(p) /\ Timely(p) /\ Enclosed(p)
  BY DEF SubmitInv
<1>2. CASE p # r
  <2>1. run'[p] = run[p] /\ row'[p] = row[p]
    BY <1>2 DEF Announce, TypeOK
  <2> QED
    BY <1>1, <2>1 DEF Shown, Timely, Enclosed
<1>3. CASE p = r
  <2>1. row'[r] = [row[r] EXCEPT ![run[r].layer] = "active"]
    BY DEF Announce, TypeOK
  <2>2. /\ run[r].layer \in Layer /\ row[r] \in [Layer -> Age]
        /\ run'[r].live = run[r].live
        /\ \/ run'[r].pc = "leave" /\ run'[r].layer = run[r].layer
           \/ run'[r].pc = "enter" /\ run'[r].layer = run[r].layer + 1
           \/ run'[r].pc = "recheck" /\ run'[r].layer = 3 /\ run[r].layer = 3 /\ run[r].live
    BY DEF Announce, TypeOK, Run
  <2>3. Shown(r)'
    BY <2>1, <2>2 DEF Shown
  <2>4. Timely(r)'
    BY <1>1, <1>3, <2>1, <2>2 DEF Timely
  <2>5. Enclosed(r)'
    BY <1>1, <1>3, <2>1, <2>2 DEF Enclosed, Supervisors, Layer
  <2> QED
    BY <1>3, <2>3, <2>4, <2>5
<1> QED
  BY <1>2, <1>3

LEMMA SubmitLeave ==
  ASSUME TypeOK, SubmitInv, NEW r \in Runners, Leave(r)
  PROVE  SubmitInv'
<1> SUFFICES ASSUME NEW p \in Runners
             PROVE  Shown(p)' /\ Timely(p)' /\ Enclosed(p)'
  BY DEF SubmitInv
<1>1. Shown(p) /\ Timely(p) /\ Enclosed(p)
  BY DEF SubmitInv
<1>2. CASE p # r
  <2>1. run'[p] = run[p] /\ row'[p] = row[p]
    BY <1>2 DEF Leave, TypeOK
  <2> QED
    BY <1>1, <2>1 DEF Shown, Timely, Enclosed
<1>3. CASE p = r
  <2>1. row'[r] = [row[r] EXCEPT ![run[r].layer] = "none"]
    BY DEF Leave, TypeOK
  <2>2. /\ run[r].layer \in Layer /\ row[r] \in [Layer -> Age]
        /\ \/ run'[r].pc = "idle" /\ run'[r].layer = First[r] /\ run'[r].live = FALSE
           \/ run'[r].pc = "leave" /\ run'[r].layer = run[r].layer - 1 /\ run'[r].live = run[r].live
           \/ run'[r].pc = "enter" /\ run'[r].layer = 3 /\ run[r].layer = 3 /\ r \notin Controllers
    BY DEF Leave, At, IdleRun, TypeOK, Run
  <2>3. Shown(r)'
    BY <2>2 DEF Shown
  <2>4. Timely(r)'
    BY <1>1, <1>3, <2>1, <2>2 DEF Timely
  <2>5. Enclosed(r)'
    BY <1>1, <1>3, <2>1, <2>2 DEF Enclosed, Supervisors, Layer
  <2> QED
    BY <1>3, <2>3, <2>4, <2>5
<1> QED
  BY <1>2, <1>3

LEMMA SubmitFailure ==
  ASSUME TypeOK, SubmitInv, NEW r \in Runners, Raise(r) \/ Crash(r)
  PROVE  SubmitInv'
<1> SUFFICES ASSUME NEW p \in Runners
             PROVE  Shown(p)' /\ Timely(p)' /\ Enclosed(p)'
  BY DEF SubmitInv
<1>1. Shown(p) /\ Timely(p) /\ Enclosed(p)
  BY DEF SubmitInv
<1>2. CASE p # r
  <2>1. run'[p] = run[p] /\ row'[p] = row[p]
    BY <1>2 DEF Raise, Crash, TypeOK
  <2> QED
    BY <1>1, <2>1 DEF Shown, Timely, Enclosed
<1>3. CASE p = r
  <2>1. /\ run'[r].pc \in {"leave", "idle"}
        /\ r \in Supervisors => run'[r].layer = 1
    <3>1. CASE Raise(r)
      BY <3>1 DEF Raise, TypeOK
    <3>2. CASE Crash(r)
      BY <3>2 DEF Crash, IdleRun, TypeOK, Supervisors
    <3> QED
      BY <3>1, <3>2
  <2>2. r \in Controllers => ~run'[r].live
    <3>1. ASSUME r \in Controllers
          PROVE  First[r] = 1 /\ ~run[r].live
      BY <1>1, <1>3, <3>1, HeartbeatAssumption DEF Timely
    <3> QED
      <4>1. CASE Raise(r)
        <5>1. run'[r].live = run[r].live
          BY <4>1 DEF Raise, TypeOK
        <5> QED
          BY <3>1, <5>1
      <4>2. CASE Crash(r)
        BY <4>2 DEF Crash, IdleRun, TypeOK
      <4> QED
        BY <4>1, <4>2
  <2>3. \A l \in Layer : row'[r][l] \in {row[r][l], "none"}
    <3>1. CASE Raise(r)
      BY <3>1 DEF Raise, TypeOK
    <3>2. CASE Crash(r)
      BY <3>2 DEF Crash, NoRows, TypeOK
    <3> QED
      BY <3>1, <3>2
  <2> QED
    BY <1>1, <1>3, <2>1, <2>2, <2>3 DEF Shown, Timely, Enclosed
<1> QED
  BY <1>2, <1>3

LEMMA SubmitOther ==
  ASSUME TypeOK, SubmitInv, Outlasting \cap Runners \subseteq Controllers,
         \/ \E r \in Runners : RowAges(r)
         \/ \E o \in Orchestrators :
              OrchestratorStarts(o) \/ OrchestratorEnds(o) \/ OrchestratorDies(o) \/ WatchAges(o)
         \/ ResidueAges
         \/ UNCHANGED vars
  PROVE  SubmitInv'
<1> SUFFICES ASSUME NEW p \in Runners
             PROVE  Shown(p)' /\ Timely(p)' /\ Enclosed(p)'
  BY DEF SubmitInv
<1>1. Shown(p) /\ Timely(p) /\ Enclosed(p)
  BY DEF SubmitInv
<1>2. run'[p] = run[p]
  BY DEF RowAges, OrchestratorStarts, OrchestratorEnds, OrchestratorDies, WatchAges, ResidueAges, vars
<1>3. CASE row'[p] = row[p]
  BY <1>1, <1>2, <1>3 DEF Shown, Timely, Enclosed
<1>4. CASE row'[p] # row[p]
  <2>1. PICK r \in Runners : RowAges(r)
    BY <1>4 DEF OrchestratorStarts, OrchestratorEnds, OrchestratorDies, WatchAges, ResidueAges, vars
  <2>2. p = r
    BY <1>4, <2>1 DEF RowAges, TypeOK
  <2>3. p \in Controllers /\ p \notin Supervisors
    BY <2>1, <2>2 DEF RowAges, Supervisors
  <2> QED
    BY <1>1, <1>2, <2>3 DEF Shown, Timely, Enclosed
<1> QED
  BY <1>3, <1>4

LEMMA SubmitInit == Init => SubmitInv
<1> SUFFICES ASSUME Init, NEW r \in Runners
             PROVE  Shown(r) /\ Timely(r) /\ Enclosed(r)
  BY DEF SubmitInv
<1>1. run[r] = IdleRun(r) /\ \A l \in Layer : row[r][l] = "none"
  BY DEF Init, NoRows
<1>2. run[r].pc = "idle" /\ run[r].layer = First[r] /\ ~run[r].live
  BY <1>1 DEF IdleRun
<1>3. Enclosed(r)
  BY <1>2 DEF Enclosed, Supervisors
<1> QED
  BY <1>1, <1>2, <1>3 DEF Shown, Timely

LEMMA SubmitNext ==
  ASSUME TypeOK, SubmitInv, Outlasting \cap Runners \subseteq Controllers, [Next]_vars
  PROVE  SubmitInv'
  BY SubmitStart, SubmitEnter, SubmitAnnounce, SubmitLeave, SubmitFailure, SubmitOther, HeartbeatAssumption
     DEF Next, Runs

\* The pairs of runs.
Exclusion ==
  \A r, other \in Runners :
    r # other => /\ ~(At(r, "submit") /\ At(other, "submit"))
                 /\ ~(Planning(r) /\ At(other, "submit"))

\* A run that submits is seen by every check of another.
LEMMA SubmitIsSeen ==
  ASSUME TypeOK, SubmitInv, NEW r \in Runners, NEW other \in Runners, r # other, At(other, "submit")
  PROVE  "active" \in RowsOf(r)
<1>1. row[other][3] = "active" /\ 3 \in Layer
  BY DEF SubmitInv, Shown, At, Layer
<1> QED
  BY <1>1 DEF RowsOf

\* So is a supervisor that plans, by its outer row.
LEMMA PlanIsSeen ==
  ASSUME TypeOK, SubmitInv, NEW r \in Runners, NEW other \in Runners, r # other, Planning(other)
  PROVE  "active" \in RowsOf(r)
<1>1. row[other][1] = "active" /\ 1 \in Layer
  BY DEF SubmitInv, Enclosed, Planning, Layer
<1> QED
  BY <1>1 DEF RowsOf

\* A step moves one run.
LEMMA MovesAlone ==
  ASSUME TypeOK, NEW r \in Runners, [Next]_vars, run'[r] # run[r]
  PROVE  Start(r) \/ Runs(r) \/ Raise(r) \/ Crash(r)
<1>1. Next
  BY DEF vars
<1>2. ~(\/ \E p \in Runners : RowAges(p)
        \/ \E o \in Orchestrators :
             OrchestratorStarts(o) \/ OrchestratorEnds(o) \/ OrchestratorDies(o) \/ WatchAges(o)
        \/ ResidueAges)
  BY DEF RowAges, OrchestratorStarts, OrchestratorEnds, OrchestratorDies, WatchAges, ResidueAges
<1>3. PICK p \in Runners : Start(p) \/ Runs(p) \/ Raise(p) \/ Crash(p)
  BY <1>1, <1>2, Zenon DEF Next
<1>4. p = r
  BY <1>3 DEF Start, Runs, Enter, Announce, Recheck, Submit, Leave, Raise, Crash, TypeOK
<1> QED
  BY <1>3, <1>4

LEMMA SubmitStep ==
  ASSUME TypeOK, NEW r \in Runners, [Next]_vars, At(r, "submit")'
  PROVE  At(r, "submit") \/ (Recheck(r) /\ ~RecheckBlocked(r))
<1>1. CASE run'[r] = run[r]
  BY <1>1 DEF At
<1>2. CASE run'[r] # run[r]
  <2>1. Start(r) \/ Runs(r) \/ Raise(r) \/ Crash(r)
    BY <1>2, MovesAlone
  <2>2. ~(Start(r) \/ Enter(r) \/ Announce(r) \/ Submit(r) \/ Leave(r) \/ Raise(r) \/ Crash(r))
    <3>1. run'[r].pc = "submit"
      BY DEF At
    <3>2. Start(r) => run'[r].pc = "enter"
      BY DEF Start, TypeOK, IdleRun
    <3>3. Raise(r) => run'[r].pc = "leave"
      BY DEF Raise, TypeOK
    <3>4. Crash(r) => run'[r].pc = "idle"
      BY DEF Crash, IdleRun, TypeOK
    <3>5. Enter(r) => run'[r].pc = "announce"
      BY DEF Enter, TypeOK
    <3>6. Announce(r) => run'[r].pc \in {"leave", "enter", "recheck"}
      BY DEF Announce, TypeOK, Run
    <3>7. Submit(r) => run'[r].pc = "leave"
      BY DEF Submit, TypeOK
    <3>8. Leave(r) => run'[r].pc \in {"idle", "leave", "enter"}
      BY DEF Leave, At, IdleRun, TypeOK, Run
    <3> QED
      BY <3>1, <3>2, <3>3, <3>4, <3>5, <3>6, <3>7, <3>8
  <2>3. Recheck(r)
    BY <2>1, <2>2 DEF Runs
  <2>4. ~RecheckBlocked(r)
    BY <2>3 DEF Recheck, At, TypeOK
  <2> QED
    BY <2>3, <2>4
<1> QED
  BY <1>1, <1>2

LEMMA PlanningStep ==
  ASSUME TypeOK, NEW r \in Runners, [Next]_vars, Planning(r)'
  PROVE  Planning(r) \/ At(r, "submit") \/ (Enter(r) /\ ~EntryBlocked(r))
<1>1. CASE run'[r] = run[r]
  BY <1>1 DEF Planning, At, Supervisors
<1>2. CASE run'[r] # run[r]
  <2>1. r \in Supervisors /\ First[r] = 1
    BY DEF Planning, Supervisors
  <2>2. Start(r) \/ Runs(r) \/ Raise(r) \/ Crash(r)
    BY <1>2, MovesAlone
  <2>3. ~(Start(r) \/ Raise(r) \/ Crash(r))
    <3>1. run'[r].layer # 1
      BY DEF Planning
    <3>2. ~Start(r)
      BY <2>1, <3>1 DEF Start, IdleRun, TypeOK
    <3>3. Raise(r) => run'[r].layer = 1
      BY DEF Raise, TypeOK
    <3>4. Crash(r) => run'[r].layer = 1
      BY <2>1 DEF Crash, IdleRun, TypeOK
    <3> QED
      BY <3>1, <3>2, <3>3, <3>4
  <2>4. CASE Enter(r)
    <3>1. Checks(r)
      BY <2>1 DEF Checks, Supervisors
    <3>2. PICK blocked : /\ blocked \in {Checks(r) /\ EntryBlocked(r), Checks(r)}
                         /\ run' = [run EXCEPT ![r].pc = "announce", ![r].blocked = blocked]
      BY <2>4 DEF Enter
    <3>3. run'[r].blocked = blocked
      BY <3>2 DEF TypeOK, Run
    <3>4. ~blocked
      BY <3>3 DEF Planning
    <3> QED
      BY <2>4, <3>1, <3>2, <3>4
  <2>5. CASE Announce(r) \/ Recheck(r) \/ Submit(r)
    BY <2>1, <2>5 DEF Announce, Recheck, Submit, Planning, At, TypeOK, Run, Layer
  <2>6. CASE Leave(r)
    BY <2>1, <2>6 DEF Leave, Planning, At, IdleRun, TypeOK, Run, Layer
  <2> QED
    BY <2>2, <2>3, <2>4, <2>5, <2>6 DEF Runs
<1> QED
  BY <1>1, <1>2

LEMMA ExclusionNext ==
  ASSUME TypeOK, SubmitInv, Exclusion, [Next]_vars
  PROVE  Exclusion'
<1> SUFFICES ASSUME NEW r \in Runners, NEW other \in Runners, r # other, At(other, "submit")'
             PROVE  ~At(r, "submit")' /\ ~Planning(r)'
  BY DEF Exclusion
<1>1. CASE At(other, "submit")
  <2>1. "active" \in RowsOf(r)
    BY <1>1, SubmitIsSeen
  <2>2. ~RecheckBlocked(r) => FALSE
    BY <2>1 DEF RecheckBlocked
  <2>3. ~EntryBlocked(r) => FALSE
    BY <2>1 DEF EntryBlocked
  <2>4. ~At(r, "submit") /\ ~Planning(r)
    BY <1>1 DEF Exclusion
  <2> QED
    BY <2>2, <2>3, <2>4, SubmitStep, PlanningStep
<1>2. CASE Recheck(other) /\ ~RecheckBlocked(other)
  <2>1. "active" \notin RowsOf(other)
    BY <1>2 DEF RecheckBlocked
  <2>2. ~At(r, "submit")
    BY <2>1, SubmitIsSeen
  <2>3. ~Planning(r)
    BY <2>1, PlanIsSeen
  <2>4. run'[r] = run[r]
    BY <1>2 DEF Recheck, TypeOK
  <2> QED
    BY <2>2, <2>3, <2>4 DEF At, Planning, Supervisors
<1> QED
  BY <1>1, <1>2, SubmitStep

LEMMA ExclusionInit == Init => Exclusion
  BY DEF Init, Exclusion, At, IdleRun

\* Two runs do not both submit (the re-check of mainnet_delta_execution_runner.py),
\* if no run that may submit outlasts max_heartbeat_age_seconds.
THEOREM Submits ==
  ASSUME Outlasting \cap Runners \subseteq Controllers
  PROVE  Spec => []OneSubmits
<1>1. Init => TypeOK /\ SubmitInv /\ Exclusion
  BY InitTypes, SubmitInit, ExclusionInit
<1>2. TypeOK /\ SubmitInv /\ Exclusion /\ [Next]_vars => (TypeOK /\ SubmitInv /\ Exclusion)'
  BY NextTypes, SubmitNext, ExclusionNext
<1>3. Exclusion => OneSubmits
  BY DEF Exclusion, OneSubmits
<1> QED
  BY <1>1, <1>2, <1>3, PTL DEF Spec

\* No other run submits after the check at the entry of a supervisor's core loop and
\* before its plan's delta runs are over, under the same assumption.
THEOREM PlansAreNotOvertaken ==
  ASSUME Outlasting \cap Runners \subseteq Controllers
  PROVE  Spec => []PlanNotOvertaken
<1>1. Init => TypeOK /\ SubmitInv /\ Exclusion
  BY InitTypes, SubmitInit, ExclusionInit
<1>2. TypeOK /\ SubmitInv /\ Exclusion /\ [Next]_vars => (TypeOK /\ SubmitInv /\ Exclusion)'
  BY NextTypes, SubmitNext, ExclusionNext
<1>3. Exclusion => PlanNotOvertaken
  BY DEF Exclusion, PlanNotOvertaken
<1> QED
  BY <1>1, <1>2, <1>3, PTL DEF Spec

================================================================================
