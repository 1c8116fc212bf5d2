--------------------------- MODULE RunnerHeartbeats ---------------------------
(***************************************************************************)
(* Who may run at the same time: the heartbeat rows that the live runners    *)
(* write in the state database.  A run goes down its layers, the supervisor  *)
(* (or the epoch controller), the core loop and the delta runner; each reads the running rows of the    *)
(* others, writes its own and, before the orders leave, the delta runner     *)
(* reads once more.  A row is stale when it is older than                    *)
(* max_heartbeat_age_seconds; nothing refreshes it while a run goes on.      *)
(* Orchestrators (health monitor, daily policy) write rows too, and the      *)
(* runners are to look past these.                                           *)
(***************************************************************************)
EXTENDS Integers

CONSTANTS
  Runners,        \* services and operators' shells that run one run at a time
  First,          \* the outermost layer of each: 1 supervisor, 2 core loop, 3 delta runner
  Controllers,    \* those whose first layer is the epoch controller's proof without orders
  Orchestrators,
  Outlasting,     \* those of both whose runs may outlast max_heartbeat_age_seconds
  MaxCrashes      \* bound on the runs that die or raise

ASSUME HeartbeatAssumption ==
  /\ First \in [Runners -> 1..3]
  /\ Controllers \subseteq {r \in Runners : First[r] = 1}
  /\ Runners \cap Orchestrators = {}
  /\ Outlasting \subseteq Runners \cup Orchestrators
  /\ MaxCrashes \in Nat

VARIABLES
  run,      \* of each runner, its current run
  row,      \* of each runner and layer, the heartbeat row of its current run
  watch,    \* of each orchestrator, the row of its current run
  residue,  \* the rows still "running" of runs that died
  crashes

vars == <<run, row, watch, residue, crashes>>

Layer == 1..3
Age == {"none", "active", "stale"}  \* "none": no row, or one with a final status
WatchAge == Age \cup {"new"}  \* "new": active, and perhaps younger than a run in progress
Pc == {"idle", "enter", "announce", "recheck", "submit", "leave"}
Run == [pc : Pc, layer : Layer, live : BOOLEAN, blocked : BOOLEAN]
Residue == {"runner", "orchestrator"} \X {"active", "stale"}

TypeOK ==
  /\ run \in [Runners -> Run]
  /\ row \in [Runners -> [Layer -> Age]]
  /\ watch \in [Orchestrators -> WatchAge]
  /\ residue \subseteq Residue
  /\ crashes \in 0..MaxCrashes

IdleRun(r) == [pc |-> "idle", layer |-> First[r], live |-> FALSE, blocked |-> FALSE]
NoRows == [l \in Layer |-> "none"]

Init ==
  /\ run = [r \in Runners |-> IdleRun(r)]
  /\ row = [r \in Runners |-> NoRows]
  /\ watch = [o \in Orchestrators |-> "none"]
  /\ residue = {}
  /\ crashes = 0

At(r, pc) == run[r].pc = pc
Supervisors == {r \in Runners : First[r] = 1} \ Controllers
Ages(r) == {row[r][l] : l \in Layer}

\* evaluate_local_state_health, without the rows the run is told to ignore: its
\* own and those of the runs around it.
Ignored(r) == Layer

RowsOf(r) ==
  {row[other][l] : other \in Runners \ {r}, l \in Layer}
    \cup {row[r][l] : l \in Layer \ Ignored(r)}
    \cup {age[2] : age \in {res \in residue : res[1] = "runner"}}
RowsOfOrchestrators == {watch[o] : o \in Orchestrators}
    \cup {age[2] : age \in {res \in residue : res[1] = "orchestrator"}}

\* _ignore_running_orchestrator_for_delta_execution and its two like: only the
\* blocker of an active row is taken back.  A supervisor's own check takes the
\* ages as of its start, when it has recovered what was stale.
EntryBlocked(r) == \/ RowsOf(r) \cap {"active", "stale"} # {}
                   \/ "stale" \in RowsOfOrchestrators /\ ~(r \in Supervisors /\ run[r].layer = 1)
RecheckBlocked(r) == "active" \in RowsOf(r)

--------------------------------------------------------------------------------
(* A run. *)

\* recover_stale_running_heartbeats, at the start of a supervisor only: whoever
\* wrote the row, and whether or not he still lives.
Recovered_ResidueOfRunners(rows) == rows \ {<<"runner", "stale">>}
Recovered(rows) == {res \in rows : res[2] # "stale"}
Fresh(age) == IF age = "stale" THEN "none" ELSE age

Start(r) ==
  /\ At(r, "idle")
  /\ run' = [run EXCEPT ![r] = [IdleRun(r) EXCEPT !.pc = "enter", !.live = First[r] = 3]]
  /\ IF r \in Supervisors
       THEN /\ row' = [p \in Runners |-> [l \in Layer |-> Fresh(row[p][l])]]
            /\ watch' = [o \in Orchestrators |-> Fresh(watch[o])]
            /\ residue' = Recovered(residue)
       ELSE UNCHANGED <<row, watch, residue>>
  /\ UNCHANGED crashes

\* The check of a layer's entry; other checks of it may block as well.  The
\* controller has none.
Checks_OutermostOnly(r) == r \notin Controllers /\ run[r].layer = First[r]
Checks(r) == r \notin Controllers \/ run[r].layer > 1

Enter(r) ==
  /\ At(r, "enter")
  /\ \E blocked \in {Checks(r) /\ EntryBlocked(r), Checks(r)} :
       run' = [run EXCEPT ![r].pc = "announce", ![r].blocked = blocked]
  /\ UNCHANGED <<row, watch, residue, crashes>>

\* The row is written blocked or not.  Then the next layer, or the orders, or,
\* for the core loop's dry run and a plan without orders, the end.
Announce(r) ==
  /\ At(r, "announce")
  /\ row' = [row EXCEPT ![r][run[r].layer] = "active"]
  /\ \/ run' = [run EXCEPT ![r].pc = "leave"]
     \/ /\ ~run[r].blocked /\ run[r].layer < 3
        /\ run' = [run EXCEPT ![r].pc = "enter", ![r].layer = @ + 1]
     \/ /\ ~run[r].blocked /\ run[r].layer = 3 /\ run[r].live
        /\ run' = [run EXCEPT ![r].pc = "recheck"]
  /\ UNCHANGED <<watch, residue, crashes>>

\* The re-check immediately before the submit.
Recheck_EntryOnly(r) ==
  /\ At(r, "recheck")
  /\ run' = [run EXCEPT ![r].pc = "submit"]
  /\ UNCHANGED <<row, watch, residue, crashes>>

Recheck(r) ==
  /\ At(r, "recheck")
  /\ run' = IF RecheckBlocked(r)
              THEN [run EXCEPT ![r].pc = "leave", ![r].blocked = TRUE]
              ELSE [run EXCEPT ![r].pc = "submit"]
  /\ UNCHANGED <<row, watch, residue, crashes>>

Submit(r) ==
  /\ At(r, "submit")
  /\ \E blocked \in BOOLEAN :
       run' = [run EXCEPT ![r].pc = "leave", ![r].blocked = blocked]
  /\ UNCHANGED <<row, watch, residue, crashes>>

\* The final heartbeat of a layer.  After the dry run the core loop calls the
\* delta runner again.
Leave(r) ==
  /\ At(r, "leave")
  /\ row' = [row EXCEPT ![r][run[r].layer] = "none"]
  /\ \/ run[r].layer = First[r] /\ run' = [run EXCEPT ![r] = IdleRun(r)]
     \/ run[r].layer > First[r] /\ run' = [run EXCEPT ![r].layer = @ - 1]
     \/ /\ run[r].layer = 3 /\ First[r] < 3 /\ r \notin Controllers /\ ~run[r].blocked /\ ~run[r].live
        /\ run' = [run EXCEPT ![r].pc = "enter", ![r].live = TRUE]
  /\ UNCHANGED <<watch, residue, crashes>>

LeftBehind(r, layers) == {<<"runner", row[r][l]>> : l \in layers} \cap Residue

\* The supervisor, or the controller, survives an exception of its core loop; the
\* rows inside do not get their final status.
Raise(r) ==
  /\ crashes < MaxCrashes /\ crashes' = crashes + 1
  /\ First[r] = 1 /\ run[r].layer > 1
  /\ residue' = residue \cup LeftBehind(r, 2..3)
  /\ row' = [row EXCEPT ![r] = [l \in Layer |-> IF l = 1 THEN @[l] ELSE "none"]]
  /\ run' = [run EXCEPT ![r].pc = "leave", ![r].layer = 1, ![r].blocked = TRUE]
  /\ UNCHANGED watch

Crash(r) ==
  /\ crashes < MaxCrashes /\ crashes' = crashes + 1
  /\ ~At(r, "idle")
  /\ residue' = residue \cup LeftBehind(r, Layer)
  /\ row' = [row EXCEPT ![r] = NoRows]
  /\ run' = [run EXCEPT ![r] = IdleRun(r)]
  /\ UNCHANGED watch

--------------------------------------------------------------------------------
(* The orchestrators, and time. *)

OrchestratorStarts(o) ==
  /\ watch[o] = "none"
  /\ watch' = [watch EXCEPT ![o] = "new"]
  /\ UNCHANGED <<run, row, residue, crashes>>

OrchestratorEnds(o) ==
  /\ watch[o] # "none"
  /\ watch' = [watch EXCEPT ![o] = "none"]
  /\ UNCHANGED <<run, row, residue, crashes>>

OrchestratorDies(o) ==
  /\ crashes < MaxCrashes /\ crashes' = crashes + 1
  /\ watch[o] # "none"
  /\ residue' = residue \cup {<<"orchestrator", IF watch[o] = "new" THEN "active" ELSE watch[o]>>}
  /\ watch' = [watch EXCEPT ![o] = "none"]
  /\ UNCHANGED <<run, row>>

\* Rows of the dead age, those of the living if they live that long; the row of
\* an outer layer is the older one.
ResidueAges ==
  /\ residue' = {<<res[1], "stale">> : res \in residue}
  /\ UNCHANGED <<run, row, watch, crashes>>

Old(age) == IF age = "active" THEN "stale" ELSE age
RowAges(r) ==
  /\ r \in Outlasting
  /\ \E depth \in Layer :
       row' = [row EXCEPT ![r] = [l \in Layer |-> IF l <= depth THEN Old(@[l]) ELSE @[l]]]
  /\ UNCHANGED <<run, watch, residue, crashes>>

\* A run that does not outlast the age cannot see a row written after its start
\* become stale.
WatchAges(o) ==
  /\ o \in Outlasting
  /\ IF watch[o] = "new"
       THEN /\ \A r \in Runners \ Outlasting : At(r, "idle")
            /\ watch' = [watch EXCEPT ![o] = "active"]
       ELSE watch' = [watch EXCEPT ![o] = Old(@)]
  /\ UNCHANGED <<run, row, residue, crashes>>

Runs(r) == Enter(r) \/ Announce(r) \/ Recheck(r) \/ Submit(r) \/ Leave(r)

Next ==
  \/ \E r \in Runners : Start(r) \/ Runs(r) \/ Raise(r) \/ Crash(r) \/ RowAges(r)
  \/ \E o \in Orchestrators :
       OrchestratorStarts(o) \/ OrchestratorEnds(o) \/ OrchestratorDies(o) \/ WatchAges(o)
  \/ ResidueAges

Spec == Init /\ [][Next]_vars

\* A run goes on and ends (TimeoutStartSec and RuntimeMaxSec kill it), the timer
\* starts the supervisor for ever, time passes.
FairSpec ==
  /\ Spec
  /\ \A r \in Runners : WF_vars(Runs(r))
  /\ \A r \in Supervisors : WF_vars(Start(r))
  /\ WF_vars(ResidueAges)

--------------------------------------------------------------------------------
\* Two runs that start at the same time do not both submit: the re-check follows
\* the run's own row (mainnet_delta_execution_runner.py, "#4 + #2").
OneSubmits == \A r, other \in Runners : At(r, "submit") /\ At(other, "submit") => r = other

\* No other run's orders leave between the check at a core loop's entry, after
\* which it reads the account and plans, and the end of that plan's delta runs,
\* for the core loops inside a supervisor: it wrote its row before that check.
Planning(r) ==
  /\ r \in Supervisors /\ ~run[r].blocked
  /\ \/ run[r].layer = 3
     \/ run[r].layer = 2 /\ At(r, "announce")
PlanNotOvertaken == \A r, other \in Runners : Planning(r) /\ At(other, "submit") => r = other

\* Rows of dead runs do not stop the trading for ever: a supervisor marks them
\* reconcile_required (mainnet_live_supervisor.py, recover_stale_heartbeats).
ResidueIsRecovered == residue # {} ~> residue = {}
================================================================================
