------------------------------- MODULE LiveDelta -------------------------------
(***************************************************************************)
(* Who may trade: the live-delta switch of the SQLite operator state and    *)
(* the processes that turn it.  The unattended daily policy opens a budget  *)
(* epoch and arms; the supervisor runs a cycle that trades if it reads      *)
(* "armed", and disarms when blocked; the health monitor disarms on alerts  *)
(* and arms again by itself after clean runs; the operator does as he       *)
(* likes.  They are separate systemd services sharing the database: one     *)
(* action is one transaction, and a process may stop between two of them.   *)
(*                                                                          *)
(* The budget store is its promise here (see BudgetStore): a current epoch, *)
(* and the claims that a cycle reserved and has not reconciled.             *)
(***************************************************************************)
EXTENDS Integers, Sequences

CONSTANTS
  Epoch,           \* budget epoch ids
  NoEpoch,
  Plan,            \* plan ids; every cycle has a plan of its own
  OperatorActions, \* what the operator does, of the five CLI actions
  Services,        \* the timers installed, besides the supervisor's
  AutoRearm,       \* auto_rearm_live_delta of the health monitor
  Alerts,          \* kinds of the monitor's alerts on anything not modelled here
  RecentRuns,      \* recent_run_count: summaries the monitor looks at
  Ttl,             \* approval_ttl_seconds and the timer window, in stamps
  MaxClock,        \* bound: stamps are told apart up to here
  MaxCrashes       \* bound on the processes that stop in the middle

ASSUME LiveDeltaAssumption ==
  /\ NoEpoch \notin Epoch /\ Plan # {}
  /\ OperatorActions \subseteq {"pause", "resume", "kill-switch", "arm-live-delta", "disarm-live-delta"}
  /\ Services \subseteq {"health_monitor", "daily_policy"}
  /\ AutoRearm \in BOOLEAN /\ Alerts \subseteq {"soft", "hard"}
  /\ RecentRuns \in Nat \ {0} /\ Ttl \in Nat /\ MaxClock \in Nat /\ MaxCrashes \in Nat

VARIABLES
  clock,      \* the time stamp of the last row
  operator,   \* operator_state: the rows "paused" and "live_delta_armed"
  lastArm,    \* the arm-live-delta action with the latest created_at
  lastDisarm, \* the disarm-live-delta action with the latest created_at
  epoch,      \* the current budget epoch
  usedEpochs, \* epochs opened so far
  orphans,    \* claims reserved and not reconciled
  doneEpochs, \* epochs whose approval names a completed rebalance slot
  runs,       \* the RecentRuns latest supervisor summaries, oldest first
  sup,        \* the supervisor process and the cycle it runs
  mon,        \* the health monitor process
  pol,        \* the unattended daily policy process
  crashes,    \* processes stopped so far
  budgetStop  \* history: disarmed for the budget, and no owner armed since

vars == <<clock, operator, lastArm, lastDisarm, epoch, usedEpochs, orphans, doneEpochs,
          runs, sup, mon, pol, crashes, budgetStop>>
approvalVars == <<lastArm, lastDisarm, operator, budgetStop>>
budgetVars == <<epoch, usedEpochs, orphans, doneEpochs>>

\* What a cycle reserves is known by the epoch it is charged to and its plan.
Claim == Epoch \X Plan
NoClaim == <<>>
EpochOf(c) == c[1]

\* Why a run is blocked: nothing; something transient; a fragment the monitor's
\* configuration calls hard; a fragment force-added as terminal.
Blocker == {"none", "soft", "hard", "budget"}
Worst(kinds) ==
  IF "budget" \in kinds THEN "budget"
  ELSE IF "hard" \in kinds THEN "hard"
  ELSE IF "soft" \in kinds THEN "soft" ELSE "none"

Approval == [at : Nat, epoch : Epoch \cup {NoEpoch}, expires : Nat]
NoApproval == [at |-> 0, epoch |-> NoEpoch, expires |-> 0]
Run == [at : Nat, blocker : Blocker, clean : BOOLEAN]

IdleSup == [pc |-> "idle", started |-> 0, armed |-> FALSE, claim |-> NoClaim,
            entryArmed |-> FALSE, submitted |-> FALSE, blocker |-> "none", stops |-> {}]
IdleMon == [pc |-> "idle", started |-> 0, runs |-> <<>>, approval |-> NoApproval, blocker |-> "none"]
IdlePol == [pc |-> "idle", started |-> 0, approval |-> NoApproval, target |-> NoEpoch,
            blocker |-> "none", seen |-> 0]

SupPc == {"idle", "cycle", "dry_run", "core_loop", "owner_gate", "reserve", "delta_entry",
          "revalidate", "submit", "reconcile", "disarm", "recheck", "finish"}
MonPc == {"idle", "disarm", "rearm", "rearm_gate", "rearm_record"}
PolPc == {"idle", "decide", "arm", "gate", "wait", "fast_follow", "close", "disarm"}
InDelta == {"delta_entry", "revalidate", "submit", "reconcile"}
SupState == [pc : SupPc, started : Nat, armed : BOOLEAN, claim : Claim \cup {NoClaim},
             entryArmed : BOOLEAN, submitted : BOOLEAN, blocker : Blocker,
             stops : SUBSET {"paused", "disarmed"}]

MonState == [pc : MonPc, started : Nat, runs : Seq(Run), approval : Approval, blocker : Blocker]
PolState == [pc : PolPc, started : Nat, approval : Approval, target : Epoch \cup {NoEpoch},
             blocker : Blocker, seen : Nat]
OperatorState == [paused : BOOLEAN, armed : BOOLEAN,
                  lastAction : {"none", "arm-live-delta", "disarm-live-delta", "kill-switch"}]

SwitchOK ==
  /\ operator \in OperatorState
  /\ lastArm \in Approval
  /\ lastDisarm \in [at : Nat, blocker : Blocker]
  /\ budgetStop \in BOOLEAN

BudgetOK ==
  /\ usedEpochs \subseteq Epoch
  /\ epoch \in usedEpochs \cup {NoEpoch}
  /\ orphans \subseteq usedEpochs \X Plan /\ doneEpochs \subseteq usedEpochs

CycleOK == sup \in SupState /\ (sup.pc \in InDelta => sup.claim \in usedEpochs \X Plan)

\* Every variable has its type, and what is charged to an epoch is charged to
\* one that was opened (read_current_epoch before reserve, mainnet_core_loop_runner.py).
TypeOK ==
  /\ clock \in 0..MaxClock
  /\ SwitchOK /\ BudgetOK /\ CycleOK
  /\ runs \in Seq(Run) /\ Len(runs) <= RecentRuns
  /\ mon \in MonState /\ pol \in PolState
  /\ crashes \in 0..MaxCrashes

Init ==
  /\ clock = 0
  /\ operator = [paused |-> FALSE, armed |-> FALSE, lastAction |-> "none"]
  /\ lastArm = NoApproval
  /\ lastDisarm = [at |-> 0, blocker |-> "none"]
  /\ epoch = NoEpoch /\ usedEpochs = {} /\ orphans = {} /\ doneEpochs = {}
  /\ runs = <<>>
  /\ sup = IdleSup /\ mon = IdleMon /\ pol = IdlePol
  /\ crashes = 0
  /\ budgetStop = FALSE

\* The time stamp of the next row: an arm, a disarm or a summary.  A process is
\* dated by the last row before its start.  Past MaxClock the stamps are equal
\* and the row written later wins.
Stamp == IF clock < MaxClock THEN clock + 1 ELSE clock

--------------------------------------------------------------------------------
(* record_operator_action: the row of the action and the operator state, in    *)
(* one transaction.  The state takes the action recorded last; "latest" is by  *)
(* created_at, which some callers back-date to the start of their process.     *)

Newest(row, latest) == IF row.at >= latest.at THEN row ELSE latest

Arm(approval, byOwner) ==
  /\ operator' = [operator EXCEPT !.armed = TRUE, !.lastAction = "arm-live-delta"]
  /\ lastArm' = Newest(approval, lastArm)
  /\ budgetStop' = (budgetStop /\ ~byOwner)
  /\ UNCHANGED lastDisarm

Disarm(at, blocker) ==
  /\ operator' = [operator EXCEPT !.armed = FALSE, !.lastAction = "disarm-live-delta"]
  /\ lastDisarm' = Newest([at |-> at, blocker |-> blocker], lastDisarm)
  /\ budgetStop' = (budgetStop \/ blocker = "budget")
  /\ UNCHANGED lastArm

\* evaluate_unattended_epoch_runtime_gate, at the time its process started.
RuntimeGate(approval, now) ==
  /\ approval.epoch # NoEpoch
  /\ approval.epoch = epoch
  /\ approval.epoch \notin doneEpochs
  /\ now <= approval.expires

\* Somebody is to record an arm, decided on a state of the switch read before.
ArmPending == pol.pc \in {"arm", "fast_follow"} \/ mon.pc \in {"rearm_gate", "rearm_record"}

\* History: the stops that fell between the delta runner's entry read and its
\* submit and bind it still.  The owner takes a pause back; a disarm is taken back
\* by whoever decides to arm after it, and is not counted when an arm was pending.
StopSeen(kinds) ==
  IF sup.pc = "revalidate"
    THEN [sup EXCEPT !.stops = @ \cup {k \in kinds : k = "disarmed" => ~ArmPending}]
    ELSE sup
StopLifted(kind) == [sup EXCEPT !.stops = @ \ {kind}]

--------------------------------------------------------------------------------
(* The operator, through the CLI. *)

OperatorPause ==
  /\ "pause" \in OperatorActions
  /\ operator' = [operator EXCEPT !.paused = TRUE]
  /\ sup' = StopSeen({"paused"})
  /\ UNCHANGED <<clock, lastArm, lastDisarm, budgetVars, runs, mon, pol, crashes, budgetStop>>

OperatorResume ==
  /\ "resume" \in OperatorActions
  /\ operator' = [operator EXCEPT !.paused = FALSE]
  /\ sup' = StopLifted("paused")
  /\ UNCHANGED <<clock, lastArm, lastDisarm, budgetVars, runs, mon, pol, crashes, budgetStop>>

OperatorKillSwitch ==
  /\ "kill-switch" \in OperatorActions
  /\ operator' = [paused |-> TRUE, armed |-> FALSE, lastAction |-> "kill-switch"]
  /\ sup' = StopSeen({"paused", "disarmed"})
  /\ UNCHANGED <<clock, lastArm, lastDisarm, budgetVars, runs, mon, pol, crashes, budgetStop>>

\* The CLI arms with a payload of the operator's: here, for the current epoch.
OperatorArm ==
  /\ "arm-live-delta" \in OperatorActions
  /\ clock' = Stamp
  /\ Arm([at |-> Stamp, epoch |-> epoch, expires |-> Stamp + Ttl], TRUE)
  /\ sup' = StopLifted("disarmed")
  /\ UNCHANGED <<budgetVars, runs, mon, pol, crashes>>

OperatorDisarm ==
  /\ "disarm-live-delta" \in OperatorActions
  /\ clock' = Stamp
  /\ Disarm(Stamp, "none")
  /\ sup' = StopSeen({"disarmed"})
  /\ UNCHANGED <<budgetVars, runs, mon, pol, crashes>>

--------------------------------------------------------------------------------
(* The supervisor: one oneshot service, so one run at a time. *)

\* run_mainnet_live_supervisor up to its cycle; configuration and heartbeats may
\* block before it.
SupervisorStart(pre) ==
  /\ sup.pc = "idle"
  /\ sup' = [IdleSup EXCEPT !.pc = "cycle", !.started = clock,
                            !.armed = operator.armed, !.blocker = pre]
  /\ UNCHANGED <<clock, approvalVars, budgetVars, runs, mon, pol, crashes>>

SupGoto(pc) == sup' = [sup EXCEPT !.pc = pc]
\* A blocked cycle keeps nothing but its reason.
Blocked(blocker) == [IdleSup EXCEPT !.pc = "disarm", !.blocker = Worst({sup.blocker, blocker})]
SupBlocked(blocker) == sup' = Blocked(blocker)

\* _run_cycle reads the operator state again.
SupervisorCycle ==
  /\ sup.pc = "cycle"
  /\ sup' = IF operator.paused \/ sup.blocker # "none" THEN Blocked("soft")
            ELSE IF operator.armed THEN [sup EXCEPT !.pc = "core_loop", !.armed = TRUE]
            ELSE [sup EXCEPT !.pc = "dry_run"]
  /\ UNCHANGED <<clock, approvalVars, budgetVars, runs, mon, pol, crashes>>

\* The core loop's plan and dry run.
CoreLoopPlan ==
  /\ \/ sup.pc = "dry_run" /\ sup' = [sup EXCEPT !.pc = "finish", !.started = 0]
     \/ sup.pc = "core_loop" /\ SupGoto("owner_gate")
  /\ UNCHANGED <<clock, approvalVars, budgetVars, runs, mon, pol, crashes>>

\* _live_delta_owner_intent_gate: the latest arm action, armed still or not.
OwnerIntentGate ==
  /\ sup.pc = "owner_gate"
  /\ IF RuntimeGate(lastArm, sup.started)
       THEN sup' = [sup EXCEPT !.pc = "reserve", !.started = 0]
       ELSE SupBlocked("budget")
  /\ UNCHANGED <<clock, approvalVars, budgetVars, runs, mon, pol, crashes>>

\* The pre-submit hook's checks of the current epoch.
BudgetBlocked_NoOrphanCheck == epoch = NoEpoch
BudgetBlocked == epoch = NoEpoch \/ \E c \in orphans : EpochOf(c) = epoch

\* read_current_epoch, the orphan check and reserve, which may use the epoch up.
\* The claim is the cycle's own: its plan is of no other reservation.
ReserveBudget ==
  /\ sup.pc = "reserve"
  /\ IF BudgetBlocked
       THEN SupBlocked("budget") /\ UNCHANGED budgetVars
       ELSE /\ \E plan \in Plan :
                 /\ <<epoch, plan>> \notin orphans
                 /\ sup' = [sup EXCEPT !.pc = "delta_entry", !.claim = <<epoch, plan>>]
                 /\ orphans' = orphans \cup {<<epoch, plan>>}
            /\ epoch' \in {epoch, NoEpoch}
            /\ UNCHANGED <<usedEpochs, doneEpochs>>
  /\ UNCHANGED <<clock, approvalVars, runs, mon, pol, crashes>>

\* The delta runner blocks before it submits; its reservation is reconciled.
SupUnsent == sup' = [sup EXCEPT !.pc = "reconcile", !.blocker = "soft", !.entryArmed = FALSE, !.stops = {}]

\* run_mainnet_delta_execution up to its preflight.
DeltaEntry ==
  /\ sup.pc = "delta_entry"
  /\ \/ ~operator.paused /\ sup' = [sup EXCEPT !.pc = "revalidate", !.entryArmed = operator.armed]
     \/ SupUnsent
  /\ UNCHANGED <<clock, approvalVars, budgetVars, runs, mon, pol, crashes>>

Stopped_PausedOnly == operator.paused
Stopped == operator.paused \/ (sup.entryArmed /\ ~operator.armed)

\* The read of the operator state immediately before the submit.
PreSubmitRevalidation ==
  /\ sup.pc = "revalidate"
  /\ IF Stopped THEN SupUnsent ELSE SupGoto("submit")
  /\ UNCHANGED <<clock, approvalVars, budgetVars, runs, mon, pol, crashes>>

\* The orders leave; the account may not end where it should.
SubmitOrders ==
  /\ sup.pc = "submit"
  /\ \E blocker \in {"none", "hard"} :
       sup' = [sup EXCEPT !.pc = "reconcile", !.submitted = TRUE, !.blocker = blocker,
                          !.entryArmed = FALSE, !.stops = {}]
  /\ UNCHANGED <<clock, approvalVars, budgetVars, runs, mon, pol, crashes>>

\* The reservation is reconciled unless what was traded cannot be measured; a
\* dearer trade than was reserved may use the epoch up, and a run without a
\* blocker may complete the rebalance slot of its approval.
ReconcileBudget ==
  /\ sup.pc = "reconcile"
  /\ \/ /\ orphans' = orphans \ {sup.claim}
        /\ epoch' \in {epoch, IF sup.submitted /\ EpochOf(sup.claim) = epoch THEN NoEpoch ELSE epoch}
        /\ \/ UNCHANGED doneEpochs
           \/ sup.submitted /\ sup.blocker = "none" /\ doneEpochs' = doneEpochs \cup {EpochOf(sup.claim)}
        /\ IF sup.blocker = "none"
             THEN sup' = [IdleSup EXCEPT !.pc = "finish", !.armed = TRUE]
             ELSE SupBlocked(sup.blocker)
     \/ /\ sup.submitted
        /\ SupBlocked("budget")
        /\ UNCHANGED <<epoch, orphans, doneEpochs>>
  /\ UNCHANGED <<clock, approvalVars, usedEpochs, runs, mon, pol, crashes>>

\* A blocker of any other gate, or an exception of the core loop, which is a
\* blocker of the cycle.  Once reserved, a cycle that raises is not reconciled.
CoreLoopRaises ==
  /\ sup.pc \in {"dry_run", "core_loop", "owner_gate", "reserve"} \cup InDelta
  /\ SupBlocked("soft")
  /\ UNCHANGED <<clock, approvalVars, budgetVars, runs, mon, pol, crashes>>

SupervisorDisarm ==
  /\ sup.pc = "disarm"
  /\ clock' = Stamp
  /\ Disarm(Stamp, sup.blocker)
  /\ SupGoto("recheck")
  /\ UNCHANGED <<budgetVars, runs, mon, pol, crashes>>

\* Somebody armed since: disarm once more.
SupervisorRecheck ==
  /\ sup.pc = "recheck"
  /\ SupGoto("finish")
  /\ IF operator.armed
       THEN clock' = Stamp /\ Disarm(Stamp, sup.blocker)
       ELSE UNCHANGED <<clock, approvalVars>>
  /\ UNCHANGED <<budgetVars, runs, mon, pol, crashes>>

\* The summary, as the monitor will judge it (_is_clean_auto_rearm_supervisor_run).
SupervisorFinish ==
  /\ sup.pc = "finish"
  /\ clock' = Stamp
  /\ LET summary == [at |-> Stamp, blocker |-> sup.blocker,
                     clean |-> sup.blocker = "none" /\ ~sup.armed /\ ~operator.armed]
         all == Append(runs, summary)
     IN runs' = IF Len(all) > RecentRuns THEN Tail(all) ELSE all
  /\ sup' = IdleSup
  /\ UNCHANGED <<approvalVars, budgetVars, mon, pol, crashes>>

--------------------------------------------------------------------------------
(* The health monitor, every ten minutes. *)

\* live_delta_armed_without_active_unattended_epoch.
ArmedWithoutEpoch_Ignored(scoped) == FALSE
ArmedWithoutEpoch(scoped) == ~scoped /\ operator.armed

\* The checks: alerts disarm, and only a monitor without alerts may arm.
MonitorCheck(other) ==
  LET scoped == RuntimeGate(lastArm, clock)
      seen == {runs[i].blocker : i \in DOMAIN runs}
      alert == \/ other # "none"
               \/ ArmedWithoutEpoch(scoped)
               \/ scoped /\ (Len(runs) < RecentRuns \/ seen # {"none"})
  IN
  /\ "health_monitor" \in Services
  /\ mon.pc = "idle"
  /\ mon' = [IdleMon EXCEPT !.pc = IF alert THEN "disarm" ELSE IF AutoRearm THEN "rearm" ELSE "idle",
                            !.started = IF ~alert /\ AutoRearm THEN clock ELSE 0,
                            !.runs = IF ~alert /\ AutoRearm THEN runs ELSE <<>>,
                            !.blocker = IF alert THEN Worst(seen \cup {other}) ELSE "none"]
  /\ UNCHANGED <<clock, approvalVars, budgetVars, runs, sup, pol, crashes>>

\* The disarm carries the blockers of the runs it saw.
MonitorDisarm ==
  /\ mon.pc = "disarm"
  /\ clock' = Stamp
  /\ Disarm(Stamp, mon.blocker)
  /\ mon' = IdleMon
  /\ UNCHANGED <<budgetVars, runs, sup, pol, crashes>>

\* _maybe_auto_rearm_live_delta: the operator state first.
RearmReadOperator ==
  /\ mon.pc = "rearm"
  /\ IF ~operator.paused /\ ~operator.armed /\ operator.lastAction = "disarm-live-delta"
       THEN mon' = [mon EXCEPT !.pc = "rearm_gate"] /\ sup' = StopLifted("disarmed")
       ELSE mon' = IdleMon /\ UNCHANGED sup
  /\ UNCHANGED <<clock, approvalVars, budgetVars, runs, pol, crashes>>

Recoverable(disarm) == disarm.blocker \notin {"hard", "budget"}

\* The newest run since the disarm is clean (required_clean_supervisor_runs = 1).
CleanSince(disarm) ==
  LET since == SelectSeq(mon.runs, LAMBDA r : r.at > disarm.at)
  IN since # <<>> /\ since[Len(since)].clean

\* The latest disarm, the runs since, the latest approval.
RearmGate ==
  /\ mon.pc = "rearm_gate"
  /\ mon' = IF Recoverable(lastDisarm) /\ CleanSince(lastDisarm) /\ RuntimeGate(lastArm, mon.started)
              THEN [IdleMon EXCEPT !.pc = "rearm_record", !.approval = lastArm] ELSE IdleMon
  /\ UNCHANGED <<clock, approvalVars, budgetVars, runs, sup, pol, crashes>>

\* The arm action clones the approval it was judged by.
RearmRecord ==
  /\ mon.pc = "rearm_record"
  /\ clock' = Stamp
  /\ Arm([mon.approval EXCEPT !.at = Stamp], FALSE)
  /\ mon' = IdleMon
  /\ UNCHANGED <<budgetVars, runs, sup, pol, crashes>>

--------------------------------------------------------------------------------
(* The daily policy and the epoch controller it calls. *)

PolicyStart ==
  /\ "daily_policy" \in Services
  /\ pol.pc = "idle"
  /\ pol' = [IdlePol EXCEPT !.pc = "decide", !.started = clock, !.seen = clock]
  /\ UNCHANGED <<clock, approvalVars, budgetVars, runs, sup, mon, crashes>>

\* The slot of the day is completed already: nothing to do, and no cleanup.
ControllerHolds ==
  /\ pol.pc = "decide"
  /\ pol' = IdlePol
  /\ UNCHANGED <<clock, approvalVars, budgetVars, runs, sup, mon, crashes>>

\* The no-order proof fails, or an epoch is open that no valid approval names.
ControllerBlocked ==
  /\ pol.pc = "decide"
  /\ pol' = [pol EXCEPT !.pc = "close", !.blocker = "soft"]
  /\ UNCHANGED <<clock, approvalVars, budgetVars, runs, sup, mon, crashes>>

ApprovalAlreadyActive ==
  /\ pol.pc = "decide"
  /\ RuntimeGate(lastArm, pol.started)
  /\ pol' = [pol EXCEPT !.pc = "wait"]
  /\ UNCHANGED <<clock, approvalVars, budgetVars, runs, sup, mon, crashes>>

\* The decision to arm, and the epoch for it.  The approval is dated to the start
\* of the controller; the operator state is not read, now or later.
ControllerOpensEpoch(e) ==
  /\ pol.pc = "decide"
  /\ epoch = NoEpoch /\ e \notin usedEpochs
  /\ epoch' = e /\ usedEpochs' = usedEpochs \cup {e}
  /\ pol' = [pol EXCEPT !.pc = "arm", !.approval =
              [at |-> pol.started, epoch |-> e, expires |-> pol.started + Ttl]]
  /\ sup' = StopLifted("disarmed")
  /\ UNCHANGED <<clock, approvalVars, orphans, doneEpochs, runs, mon, crashes>>

ControllerArms ==
  /\ pol.pc = "arm"
  /\ Arm(pol.approval, TRUE)
  /\ pol' = [pol EXCEPT !.pc = "gate"]
  /\ UNCHANGED <<clock, budgetVars, runs, sup, mon, crashes>>

ControllerGate_ArmsAgain ==
  /\ pol.pc = "gate"
  /\ pol' = [pol EXCEPT !.pc = IF RuntimeGate(pol.approval, pol.started) THEN "wait" ELSE "arm"]
  /\ UNCHANGED <<clock, approvalVars, budgetVars, runs, sup, mon, crashes>>

\* The runtime gate over the approval just recorded.
ControllerGate ==
  /\ pol.pc = "gate"
  /\ pol' = IF RuntimeGate(pol.approval, pol.started)
              THEN [pol EXCEPT !.pc = "wait", !.approval = NoApproval]
              ELSE [pol EXCEPT !.pc = "close", !.approval = NoApproval, !.target = pol.approval.epoch, !.blocker = "budget"]
  /\ UNCHANGED <<clock, approvalVars, budgetVars, runs, sup, mon, crashes>>

\* A supervisor summary not seen before, or the timeout.  (The code also leaves
\* out a run that was in flight when the policy started.)
NewRun == {i \in DOMAIN runs : runs[i].at > pol.seen}

PolicyObserves ==
  /\ pol.pc = "wait"
  /\ \E blocker \in {"soft"} \cup {runs[i].blocker : i \in NewRun} :
       pol' = [IdlePol EXCEPT !.pc = "close", !.started = pol.started, !.blocker = blocker]
  /\ UNCHANGED <<clock, approvalVars, budgetVars, runs, sup, mon, crashes>>

\* After a reduce-first run the policy takes the latest approval and proves the
\* entry_second run with the controller, which accepts an active approval or no
\* epoch at all.  The new approval is dated to the start of this; the arm follows
\* without another look at the operator state.
FastFollowProof ==
  /\ pol.pc = "wait" /\ pol.seen = pol.started
  /\ lastArm.epoch # NoEpoch
  /\ RuntimeGate(lastArm, clock) \/ epoch = NoEpoch
  /\ \E i \in NewRun :
       /\ runs[i].blocker = "none" /\ ~runs[i].clean
       /\ pol' = [pol EXCEPT !.pc = "fast_follow", !.seen = runs[i].at,
                             !.approval = [lastArm EXCEPT !.at = clock]]
  /\ sup' = StopLifted("disarmed")
  /\ UNCHANGED <<clock, approvalVars, budgetVars, runs, mon, crashes>>

FastFollowArms ==
  /\ pol.pc = "fast_follow"
  /\ Arm(pol.approval, TRUE)
  /\ pol' = [pol EXCEPT !.pc = "wait", !.approval = NoApproval]
  /\ UNCHANGED <<clock, budgetVars, runs, sup, mon, crashes>>

\* terminal_cleanup: the epoch the controller opened when it failed over it, else
\* the current one.
CleanupCloses_OwnEpochOnly ==
  /\ pol.pc = "close"
  /\ epoch' = IF pol.target = epoch THEN NoEpoch ELSE epoch
  /\ pol' = [pol EXCEPT !.pc = "disarm"]
  /\ UNCHANGED <<clock, approvalVars, usedEpochs, orphans, doneEpochs, runs, sup, mon, crashes>>

CleanupCloses ==
  /\ pol.pc = "close"
  /\ epoch' = IF pol.target \in {NoEpoch, epoch} THEN NoEpoch ELSE epoch
  /\ pol' = [pol EXCEPT !.pc = "disarm"]
  /\ UNCHANGED <<clock, approvalVars, usedEpochs, orphans, doneEpochs, runs, sup, mon, crashes>>

CleanupDisarms ==
  /\ pol.pc = "disarm"
  /\ Disarm(pol.started, pol.blocker)
  /\ pol' = IdlePol
  /\ UNCHANGED <<clock, budgetVars, runs, sup, mon, crashes>>

--------------------------------------------------------------------------------
(* A process is killed: a service timeout, a reboot, an exception. *)
Crash ==
  /\ crashes < MaxCrashes
  /\ crashes' = crashes + 1
  /\ \/ sup.pc # "idle" /\ sup' = IdleSup /\ UNCHANGED <<mon, pol>>
     \/ mon.pc # "idle" /\ mon' = IdleMon /\ UNCHANGED <<sup, pol>>
     \/ pol.pc # "idle" /\ pol' = IdlePol /\ UNCHANGED <<sup, mon>>
  /\ UNCHANGED <<clock, approvalVars, budgetVars, runs>>

Operator == \/ OperatorPause \/ OperatorResume \/ OperatorKillSwitch
            \/ OperatorArm \/ OperatorDisarm

Supervisor ==
  \/ \E pre \in {"none", "soft"} : SupervisorStart(pre)
  \/ SupervisorCycle \/ CoreLoopPlan \/ OwnerIntentGate \/ ReserveBudget
  \/ DeltaEntry \/ PreSubmitRevalidation \/ SubmitOrders \/ ReconcileBudget
  \/ CoreLoopRaises \/ SupervisorDisarm \/ SupervisorRecheck \/ SupervisorFinish

Monitor ==
  \/ \E other \in {"none"} \cup Alerts : MonitorCheck(other)
  \/ MonitorDisarm \/ RearmReadOperator \/ RearmGate \/ RearmRecord

ControllerDecides ==
  ControllerBlocked \/ ApprovalAlreadyActive \/ \E e \in Epoch : ControllerOpensEpoch(e)

Policy ==
  \/ PolicyStart \/ ControllerHolds \/ ControllerDecides
  \/ ControllerArms \/ ControllerGate \/ PolicyObserves
  \/ FastFollowProof \/ FastFollowArms
  \/ CleanupCloses \/ CleanupDisarms

Next == Operator \/ Supervisor \/ Monitor \/ Policy \/ Crash

Spec == Init /\ [][Next]_vars

\* The timers of the health monitor and of the daily policy fire for ever and
\* their services end.  Nothing is assumed of the supervisor and the operator.
FairSpec == Spec /\ WF_vars(Monitor) /\ WF_vars(Policy)

--------------------------------------------------------------------------------
\* A pause or kill-switch that falls between the delta runner's entry read and
\* its submit stops the orders, whoever else arms or disarms meanwhile
\* (mainnet_delta_execution_runner.py, pre-submit revalidation).
PauseHonoured == sup.pc = "submit" => "paused" \notin sup.stops

\* So does a disarm, if the runner entered armed, nobody was about to record an
\* arm, and nobody has decided to arm since.  Without the second condition the
\* code does not keep it, whatever the runner's comment says ("An operator pause /
\* kill-switch / disarm-live-delta"): policy and monitor record an arm decided
\* before the disarm without another look at the switch.
DisarmHonoured == sup.pc = "submit" /\ sup.entryArmed => "disarmed" \notin sup.stops
StopHonoured == PauseHonoured /\ DisarmHonoured

\* Once disarmed for the budget, and until the owner arms again, the monitor does
\* not decide to arm: what its force-added fragments are for
\* (mainnet_health_monitor.py, _auto_rearm_disarm_is_recoverable).
BudgetStopIsTerminal == [][budgetStop /\ RearmGate => mon'.pc = "idle"]_vars

\* What the switch relies on the store for, and what it may do to it: the claims
\* reserved and not reconciled are those of EpochBook, which BudgetProps shows the
\* store to keep.  So a cycle that died, or could not measure what it traded, keeps
\* every other off its epoch, however often the switch is turned on again
\* (unattended_budget_hook.py, pre_submit_budget_blockers; unattended_budget_store.py, reserve).
Book == INSTANCE EpochBook WITH current <- epoch, used <- usedEpochs, unsettled <- orphans
KeepsBook == Book!BSpec

\* An approval that would pass the runtime gate now.
Backed == RuntimeGate(lastArm, clock)

\* Live delta does not stay on without a valid approval of the current epoch,
\* whichever process died on the way (the monitor's
\* live_delta_armed_without_active_unattended_epoch).
UnbackedIsDisarmed == operator.armed /\ ~Backed ~> ~operator.armed \/ Backed

\* An epoch does not stay open for ever: a later daily policy cleans up after
\* one that died (terminal_cleanup without an epoch id), if again and again the
\* policy finds a slot that is not completed (there is a new one every day).
EpochIsClosed == []<><<ControllerDecides>>_vars => (epoch # NoEpoch ~> epoch = NoEpoch)
================================================================================
