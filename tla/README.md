# Meridian Alpha Platform: TLA+ models and proofs

## 1. The system

The repository holds three tracks that share a package (`src/src/enhengclaw`) and little else.

**Live trading** (`live_trading/`, 50 files) rebalances a Binance USD-M account once per slot.
systemd timers start one-shot processes, which share one SQLite state file and a tree of artifact
directories, and of course the exchange account:

| process | started by | what it does |
|---|---|---|
| live supervisor | timer, every 10 min, `TimeoutStartSec=420` | reads the operator switch, starts a core loop with or without live delta, disarms on trouble, may schedule a fast follow |
| core loop | supervisor, or the shell | monitor, plan, dry run, owner gate, budget reserve, delta run, reconcile, post monitor, slot completion |
| delta runner | core loop, or the shell | preflight, operator and heartbeat re-check, orders, second snapshot, reconcile |
| health monitor | timer, every 10 min, 180 s | alerts, disarms on critical ones, may re-arm after clean runs (configuration switch) |
| daily policy | timer, daily, 1200 s | runs the epoch controller, waits for supervisors, may authorize a fast follow, cleans up |
| epoch controller | daily policy, or the shell | opens a budget epoch, records an approval, arms, evaluates the runtime gate |
| operator | CLI | pause, resume, kill-switch, arm, disarm |

**The agent control framework** (`core`, `orchestration`, `agents`, `governance`, `ingress`,
`health`, `providers`) turns agent output into published theses: a controller process takes a task
lock and an execution lease, starts a worker process, and records the intent of a business request
so that a retry replays the answer instead of doing the work again.

**Quant research** (`quant_research`, 90 files) is numeric batch code.

### Inventory

State, operations and hard behaviours of each part, and what makes it correct. `PROJECT.json` lists
every part, the ones left aside included, with the reason.

| part | state | operations | hard behaviour | what must hold |
|---|---|---|---|---|
| budget store, gate, hooks | ledger of epochs, reservations | open, close, reserve, reconcile | SELECT and UPDATE in different transactions, two controllers, crash between debit and reconcile, retry of a claimed key | one open epoch; no order without a debit; nothing revived; nothing charged twice or too little |
| live-delta switch | operator actions, newest first | pause, resume, kill, arm, disarm | five writers, actions dated to the start of their process, read long before use | a stop stops; an orphan stops; live delta never stays on unowned |
| runner heartbeats | one row per run | write, check, recover | check and announce are two transactions; rows of dead processes; rows that outlive the age limit | one submits at a time; no plan is overtaken; rows of the dead are recovered |
| rebalance cycle | account, orders in flight, reference positions, slot row, authorizations | monitor, plan, preflight, submit, reconcile, complete, consume | partial fills, resting orders, lost answers, deaths, outside trades, a slot that ends under a cycle | no order from an unexplained account; the account only moves towards the target; a slot is completed when it is done |
| agent runtime | lock file of a task, intent of a request, execution leases, stored responses | acquire, heartbeat, reclaim, release, replay, clean up | two controllers reclaim one stale lock; a heartbeat over a released lock; the intent read before the lock; deaths anywhere | a permit works once; answers are of the payload asked; an evicted worker does no further guarded step; the dead block nobody |
| owner runs | a dozen JSON artifacts of one (delegate, object) pair | compile, restore, specify, delegate, review, verify, conclude | a death between any two files, a retry that compiles something else, a new observation that supersedes | FINALIZED is backed; a recorded write is not repeated; a conclusion stands |
| research sessions | one JSON file per object | create, continue, reallocate all | passes of up to five moves, a rewrite of every file by every batch, truncate then write, deaths, overlapping batches | what is saved agrees with itself; a publication is earned; no claim lost; a worker fails only for the store |
| ingress, providers, data health | logs, per-subject health | quarantine, replay, gate | little: each record is written once by one process | not modelled |

The parts interact like this. A cycle of `RebalanceCycle` is the inside of a run of
`RunnerHeartbeats`, which makes cycles exclusive; whether it may trade at all is decided by the
switch of `LiveDelta`, whose budget stage is the store of `BudgetStore`. Each module keeps of its
neighbours only the outcome: in `LiveDelta` a whole rebalance is "plan", "submit" and "reconcile",
an epoch is open, exhausted or closed, in `RebalanceCycle` every gate of the others is one of the
ways in which a cycle ends early (`Abandon`). Where store and switch meet the outcome is a
specification of its own, `EpochBook`: the store keeps that book and the switch is written against
it, both shown (`KeepsBook` in either module), so what the switch assumes of the budget is what the
store does.

Five modules have no code behind them. They say what a component promises, in its own terms, and
the component is shown to implement them, by TLC on an instance and by proof: `TurnoverAccount` and
`EpochBook` for the budget, `SlotAccount` for a rebalance slot, `PermitDesk` for the dispatch of a
batch, `RunLedger` for an owner run.

In the agent framework a batch of `ResearchSession` is what the worker of `WorkerDispatch` does
between its lease and its release (there: `Steps` guarded kernel steps and the unguarded rewrite),
and an owner run asks for such a batch in its one runtime write (`Write` in `OwnerRun`: accepted or
raised).

## 2. The modules

### Budget: `BudgetStore`, `BudgetProps`, `TurnoverAccount`, `EpochBook`, `BudgetProofs`, `BudgetRefinement`

`BudgetStore` has the two tables as functions from keys to rows, and for each process the point of
its cycle and what it read. Every transaction of `unattended_budget_store.py` is an action, split
where the code reads in autocommit before its write transaction: `ReserveSelect` / `ReserveDebit`,
`ReconcileSelect` / `ReconcileWrite`, `OpenEpochSelect` / `OpenEpochInsert`. A run or an opener may
die between any two. `ExecuteLiveDelta` is the delta runner seen from here: no orders, measured
orders, unmeasured orders, or an order of unknown status that its artifact does not list.
`TurnoverAccount` is what the budget promises without tables, epoch status or processes: accounts
are opened with a cap, grants are charged against it, settled upwards, and over when spent.
`KeepsAccount` says that the store implements it. `EpochBook` has no amounts: a current epoch that
was never current before, and the claims charged and not settled; while the current epoch has one,
nothing more is charged to it. A charge or a settlement may use the epoch up.

`PlanReuse = FALSE` gives each cycle its own plan, as the core loop does; `TRUE` also models a
caller that asks again for a key it claimed.

### Switch: `LiveDelta`, `LiveDeltaProofs`

The operator's actions, the approval, the epoch's status, and one supervisor, one monitor and one
policy process, each with a program counter that stops at every read another process may overtake.
For arm and disarm the model keeps the action of each type that is latest by date, as
`latest_operator_action` reads it: an action dated at its decision and recorded late may hide behind
one recorded before it. A cycle's claim on the budget is the pair of its epoch and its plan, as in
`BudgetStore`; `orphans` are the claims reserved and not reconciled, of the cycle in flight and of
cycles that raised or could not measure what they traded. `stops` in the supervisor's record is
history: the operator's stops that fell between the delta runner's entry read and its submit and
bind it still. A pause is lifted by a resume; a disarm by anybody who *decides* to arm after it, and
it does not bind when the policy or the monitor had already decided and had only to record
(`ArmPending`). Limits: processes run with `--apply`, the timers are enabled and the cleanup
flags have their defaults; dry runs and the "armed but timer off" alert are not modelled, and
whether a supervisor starts is left open at any time. `PolicyObserves` also counts runs still in
flight. A reconcile may exhaust the epoch, as its settled turnover may be above what was reserved.
The minimum age of the auto-rearm is implied by the order of dates. A stop before the delta
runner's own entry read is outside `StopHonoured`: the code promises only the window after it.

### Heartbeats: `RunnerHeartbeats`, `RunnerHeartbeatsProofs`

A runner has up to three nested layers with a row each (supervisor or controller, core loop, delta
runner), and does per layer what the code does: check the others' rows, announce its own, go on.
The delta layer re-checks after its announcement and before its submit. Ages are `none`, `new`,
`active` (seen by another's check), `stale`; rows of dead runs go to `residue`, which `Recovered`
clears for supervisors. Monitor and policy rows are orchestrators', whose `active_run_in_progress`
the layers take back. Left out: rows of testnet, single-run and paper runners, and the policy's
controller ignoring its parent's row (the controller here is one started from the shell). A bare
core loop or a plan file run from the shell is not covered by `PlanNotOvertaken`; the position
check of the preflight is what it has.

### Rebalance: `RebalanceCycle`, `SlotAccount`, `RebalanceProofs`

The exchange has `position` and `pending`, what may still execute of an order sent before: the
remainder of a resting order, or a request whose answer was lost. The code has the positions of
the monitor's `reference`, the row of the current `slot` and the `run` in progress. `Plan` is the
planner on whole lots: classification, dust, deadband, rows that block, reduce first then entries,
and the gate of a completed slot. `SubmitFilled` is the one answer after which the loop goes on;
`SubmitShort` all the others that are answered (rejected, partly executed, left on the book, wrong
`reduceOnly`); `SubmitLost` an answer that never came, caught (5xx, unknown execution status) or
not (a timeout). `Reconcile` and `PostMonitor` are the two comparisons afterwards.

What is abstracted: snapshots are atomic; the order within a phase is left open (the code sorts);
each gate that only refuses is `Abandon`; `RequestsExpired` says that a request of an earlier cycle
has reached the book or been refused by the next monitor (`recvWindow` is seconds, cycles are
minutes apart); the post-fill cleanup authorization has the effect of a re-execution; capital
top-up and the references of single runs are not modelled. `disturbed` is a history variable: a
trade from outside since the last monitor that passed. Such a trade between monitor and plan is
planned upon by the code without notice, so the properties about positions exclude it.

`SlotAccount` is the slot without plans, orders or runs: a target fixed once, trades towards it (no
growing while something has to shrink), a completion, grants by the owner for what a completed slot
may still trade. The mapping (`KeepsSlot`) keeps position, slot row and `disturbed`, and reads from
the run only which symbols it is turning.

### Agent runtime: `WorkerDispatch`, `PermitDesk`, `WorkerDispatchProofs`

A run is one call of `run_batch` in one controller process, and the worker process it may spawn; all
runs carry one business request id, so they share the lock file and the intent, and differ in
payload and permit. `Controller` and `Worker` are the disjunctions of their steps in program order
(cleanup of dead leases, read of the intent, creation or takeover of the lock, intent marked active,
spawn, wait, store of the response, completion, release; and boot, permit, lease, heartbeat, `Steps`
guarded kernel steps, the rewrite of all sessions, response, close, unlock). The rewrite is
`_reallocate_store_sessions` (`runtime_runner.py:2018`), the last thing `run_batch` does: nothing on
its way calls `_kernel_guard`, so a worker that lost its lease after its last guarded step, or in it,
still takes it. `EvictedWorkerStops` says that much and no more: one late guarded step, and a second
late one only if it is that rewrite. The two heartbeats of a worker are actions of their own. Faults
are deaths of either process, a lock or lease that turns stale under a live owner, an expired permit
and a response file that is lost.

Abstractions: a heartbeat, release or intent update is one replacement of its record, because every
field it keeps it also overwrites; "orphaned" stands for `orphaned` and `expired`; the join of the
heartbeat thread has a timeout, so a late heartbeat may revive a released lock; a controller's pid
outlives its call until `Quit`. Only the `run_batch` path has an intent; the other methods are the
same without it. No fairness is assumed: that nobody waits for ever is the deadlock check, with
`Terminated` as the only state to stop in.

`PermitDesk` is the dispatch without locks, processes, rows or files: a permit granted once while it
is valid, grants withdrawn for good, a run admitted to its next guarded step only on a grant that
stands, a rewrite of the store after them that needs none, one answer per caller with what a
finished run of its payload produced. In the mapping (`KeepsDesk`) a
grant is the run a lease row names, it stands while the row is active, and a worker between its guard
and its step is the one admitted; boot, heartbeats, lock, intent and stored responses are stutters.

### Owner runs: `OwnerRun`, `RunLedger`, `OwnerRunProofs`

The artifacts of one run, each a variable, and one action per file written: compiler input, prompt,
output and draft; spec; what a new version clears (verification, final output, each execution file,
then each stale capability, unlinked one by one); backlog, capability, delegate artifact, review,
verification, final output, run state. `Die` forgets the process; the next one rebuilds the state
from what is on disk (`Recovered`), as `recover_run_record` does. `ObjectChanges` is somebody else's
write to the object. What the runtime raised is recorded FAILED and raised again to the caller; a
failed review is answered FAILED. A verification that is incomplete (and would end BLOCKED) is not
reachable and not modelled: at that point the artifact and the reviews exist, and a request that
accepted no signal has raised before (`runtime_runner.py:1356`, `:1502`).

`RunLedger` is the run as its callers may see it: observations one after another, writes under a
version until one is on record, one review, one conclusion, answers. Nothing is remembered in the
mapping (`KeepsLedger`); it reads the artifacts and the answers as they are.

Processes come one at a time, because nothing in the code locks an owner run: with two at once TLC
refutes the properties. Limits: `write_text` is one step (torn artifacts are not modelled), the list
of stale spec versions is left out, another draft is another idempotency key. What the code does and
no property forbids: a death that leaves input and draft of another observation than the spec's
(`DraftFitsUnlessOneDied` holds while nobody died, and says nothing after); a death between the
runtime's acceptance and the delegate artifact, which makes the retry write a second time (that is
why `RecordedIsNotRewritten` starts at the artifact); a refused retry after a recorded write ends
BLOCKED; a run whose review passed may end FAILED after a death; a death between the spec of a new
version and the clearing of the old conclusion makes the retry answer the new observation with the
old BLOCKED or FAILED (an old FINALIZED is recognized).

### Research: `ResearchRules`, `ResearchSession`, `ResearchProofs`

`ResearchRules` has no variables: a pass over one object happens in the memory of one worker, so it
is an operator, `Created` or `Continued`, from the stored session and the new signals to the session
to be saved. Under it are the parts of the code: status of claims, conflict groups and what they do
to claims, risk, attention (in integers, with Python's rounding), the exits of each processing
state, theses and their conflict, promotion, the publish gate, and the state machine with its one
forward move per cycle. Threshold and risk penalty are those of the request's execution profile
(`Terms`), or the default ones. A pass that would raise returns a session in state `raised`, which
is never saved. A claim is its signal and its status; a topic stands for subject, predicate, scope
and horizon.

`ResearchSession` has the files and the workers: a batch takes its requests in turn, then lists
every session, reads them one by one and writes each back. A save truncates before it writes, so a
file may be torn, and two writers of one file may leave either text or a mixture (`mixed`).
`overlapped` is a history variable, and so is the `terms` of a session: the profile of the request
whose pass produced it, by which `SavedIsSound` judges a publication (the code does not store it,
and a later request may judge by another). Left out: market state, cadence, resource slots (nothing
modelled depends on them), the in-memory store, adapters, providers and the agents' entry points of
the orchestrator; the object's profile is fixed, its horizon being the one of its first signal.

## 3. What is checked

| run | question | bounds |
|---|---|---|
| `budget_race` | two cycles and two controllers interleave, crash anywhere | 2 epochs, 2 plans, 1 or 2 cycles and a turnover of 2 per epoch, turnovers 1 and 2: budget runs out by count, by amount and by a reconcile above the reservation |
| `budget_sequential` | one process at a time that crashes, restarts and retries | 2 epochs, clock 0..2 with `MaxAge` 1, so an epoch can be stale |
| `live_delta_operator` | every operator action at every point of a cycle, policy arming meanwhile | 1 epoch, 1 plan, clock 0..2, all five CLI actions, no monitor; 1.7 million states |
| `live_delta_rearm` | supervisor, auto-rearm, policy and an operator who disarms; claims that nobody reconciled | 1 epoch, 2 plans, clock 0..2, no alerts; the orphan comes from a cycle that raises after its reserve, and the second plan would be the one charged beside it; 2.8 million states up to symmetry |
| `live_delta_cleanup` | liveness: nothing stays armed without approval, no epoch stays open | one crash, no operator, `Ttl` 0 |
| `live_delta_budget_rearm` | *violation*: a budget disarm that auto-rearm undoes | clock 0..4 |
| `heartbeats_race` | supervisor, delta runner from the shell and epoch controller; one death | three runners, one policy or monitor |
| `rebalance_cycle` | cycles and slots without end over one account | 2 symbols, targets -2, 0, 4, minimum and deadband of 2 lots, so partial fills leave dust, deadband and blocking rows; an outside trade to 3, which turns a completed slot into one to clean up |
| `owner_run` | one owner run over deaths, retries and new observations | 2 observations, 2 compilations of each, 3 attempts, 2 deaths, review required; 865 thousand states |
| `worker_dispatch` | two controllers and their workers on one task | 2 permits (one may expire), 2 payloads, 2 kernel steps, 2 faults or expiries together; 1.2 million states, deadlock checked |
| `worker_two_workers` | *violation*: one worker per task | as before, without faults |
| `research_session` | passes through every branch; one batch that is retried, two that overlap | 13 signals, 2 objects, 379 plans: a creation and two continues, two batches over both objects, one object under two of three profiles (default, threshold 65, penalty 4), a request without signals; 2 attempts, 1 death; 121 thousand states, deadlock checked |

The properties by run; those in *italics* say that the component implements an abstract specification:

- `budget_race`: `OneOpenEpoch`, `SubmittedWasDebited`, `OpenEpochHasBudget`, `NeverUndercounted`,
  `TerminalEpochsStayTerminal`, `FrozenEpochStaysFrozen`, *`KeepsAccount`*. `budget_sequential`:
  `NoOrphanInOwnEpoch`, `CyclesMatchReservations`, *`KeepsBook`*.
- `live_delta_operator`: `StopHonoured`. `live_delta_rearm`: `StopHonoured` and *`KeepsBook`*.
  `live_delta_cleanup`: the two liveness properties.
- `heartbeats_race`: `OneSubmits`, `PlanNotOvertaken`, `ResidueIsRecovered`. `rebalance_cycle`:
  `OrdersAreExplained`, `CleanRunIsDone`, `MovesTowardsTarget`, `OnlyFlipsMissing`, *`KeepsSlot`*.
- `worker_dispatch`: `PermitWorksOnce`, `AnswersAreOfPayload`, `EvictedWorkerStops`,
  `ExclusiveUntilReclaim`, `EndedCallsLeaveNoLock`, `DeadNeverBlock`, *`KeepsDesk`*. `owner_run`:
  `FinalizedIsBacked`, `DraftFitsUnlessOneDied`, `RecordedIsNotRewritten`, `ConclusionStands`,
  *`KeepsLedger`*. `research_session`: `SavedIsSound`, `NothingUndone`, `FailsOnlyOnTheStore`.

Two of each kind suffice because every property relates at most two processes, epochs, plans or
symbols; where a third matters (a controller beside two runs) it is there. Counters are bounded
only by the constants named in the modules (`MaxClock`, `MaxCrashes`, the number of actions).
Symmetry is used where the model values are interchangeable and no liveness is checked.

### What the violations show

1. `BudgetStopIsTerminal`: only the latest disarm is judged, so a budget disarm followed by a softer
   one is re-armed, although the code calls budget disarms terminal.
2. `OneWorkerAtATime`: a controller that meets the lock file between its exclusive creation and its
   first write reads an empty record, takes it for inactive and replaces it; a replacement of a stale
   or finished lock is not exclusive either. Two workers are then inside the kernel together, each
   under a permit of its own. Without a takeover the lock does exclude (`ExclusiveUntilReclaim`,
   proved).

### Other facts found while modelling

These are what the code does; TLC shows each when the condition that excludes it is dropped.

- The budget hook's docstring says any unreconciled prior reservation blocks; the query looks at the
  current epoch only, so orphans of a replaced epoch do not block. `NoOrphanInOwnEpoch` is the rest.
- An arm decided before an operator's disarm is recorded after it, and the delta runner's re-check
  then reads "armed". Both that arm by themselves do this: the policy, whose controller run for the
  proof lies between (`unattended_daily_policy.py:647`, and `unattended_epoch_controller.py:219`), and
  the monitor when auto-rearm is on, as in the deployed live-timer configuration. The delta runner's
  comment promises otherwise ("An operator pause / kill-switch / disarm-live-delta ...",
  `mainnet_delta_execution_runner.py:264-269`). `StopHonoured` therefore leaves out a disarm that
  finds such an arm pending; without that condition TLC shows: policy decides, operator disarms,
  policy records, orders go. A pause and a kill-switch hold in every case.
- A trade whose turnover cannot be measured leaves its reservation unreconciled
  (`reconcile_or_block_realized`), and the model does as the code does. The properties start from
  the orphan; one cleared wrongly with the projection would be noticed by none of them, as the ledger
  keeps what was reserved.
- A flip is one closing order with `second_phase_required`, and the completion gate looks only at
  deferred phases: the slot is completed while flat. `OnlyFlipsMissing` is proved: this is the only
  case.
- The daily policy's own row turns stale while it waits, and the core loop and delta runner take back
  only its *active* row: the policy then blocks the run it waits for.
- A call that read the intent before the lock overwrites the payload another call has recorded since,
  where a test expects conflicting payloads to fail closed; the answers are right all the same
  (`AnswersAreOfPayload`).
- After a death an owner run may reuse a draft compiled for another observation
  (`DraftFitsUnlessOneDied` excludes deaths).
- With two overlapping batches, the rewrite at the end of one undoes what the other saved: a blocked
  object is resumable again, claims disappear. `NothingUndone` holds up to the first overlap.
- `run_new` overwrites an object that exists, a blocked one included. The streak that the publish gate
  wants counts two evaluations of one pass, so it never refuses a thesis that stays primary in it. An
  invalidated claim still contests new ones. A torn file stops every batch until a creation replaces
  it. A batch that is sent again takes its signals in again, under new ids.

### Fairness

Liveness is checked in two places. `LiveDelta`: weak fairness of the monitor and of the policy,
since timers start them again for ever and `TimeoutStartSec` ends them; nothing is assumed of the
supervisor or of the operator. `RunnerHeartbeats`: weak fairness of the steps of a started run, of
the start of supervisors (their timer) and of the ageing of rows (time passes).

## 4. What is proved

For every value of the constants, under the named `ASSUME`s of the modules only (types and
disjointness of the constants), except where an assumption is written in the theorem.

- **Budget.** `BudgetProofs`: types, one open epoch, an open epoch has budget, cycles equal
  reservations, no unpaid submission, terminal and frozen epochs stay so. The invariant
  adds to these (`RunInv`) that a run past its reserve holds a claimed key of the epoch it read, and
  (`LedgerInv`) that each epoch's claims are finitely many and that an epoch never opened has no
  claim and no turnover; without the latter, opening an epoch could not start the count at zero.
  With one cycle at a time (`OneCycleAtATime`, an assumption of that theorem alone) no cycle submits
  beside an orphan of its epoch: what is past its orphan check finds only its own key reserved.
  `NothingUndercounted`: the turnover on an epoch is never below what its claims sum to. The sum is
  the library's fold over a set, whose recursion is shown to have one solution that does not depend
  on the order in which members are taken (arguments by a least bad subset, so no induction theorem
  is needed); the invariant behind it is `Covered`, epoch by epoch. `BudgetRefinement`: the store
  implements `TurnoverAccount`, one abstract step or a stutter per transaction, and with
  `OneCycleAtATime` also `EpochBook` (`StoreKeepsBook`).
- **Switch.** `LiveDeltaProofs`, auto-rearm or not: types; a pause or kill-switch in the window stops
  the orders whoever arms (`PauseIsHonoured`); a disarm does if no arm was pending and nobody decides
  to arm after it (`StopIsHonoured`). The invariant, `PauseInv` and `DisarmInv`: at the revalidation
  a stop that binds still stands in the operator state, and for a disarm nobody is about to record an
  arm, so that whoever arms next has decided after it and lifts it. `SwitchKeepsBook`: the switch
  does with the budget only what `EpochBook` allows, with the claims themselves as the book's, so a
  charge beside an unreconciled claim of its epoch would be a step the book does not have.
- **Heartbeats.** `RunnerHeartbeatsProofs`: one submits at a time and no plan is overtaken, if no
  submitting run outlasts the heartbeat age except controllers (`Outlasting \cap Runners
  \subseteq Controllers`; the services' timeouts of 420 s against 900 s). The invariant says that a
  run between announcement and submit has its row shown, of an age others still see, and inside the
  rows of its outer layers; exclusion follows because of two runs in the window one announced first
  and the other's re-check saw it.
- **Rebalance.** `RebalanceProofs`: types; `OrdersAreExplained` and `CleanRunIsDone` from one
  invariant (`Explained`: while orders are to be sent nothing older can execute, and unless somebody
  else traded the account is the one expected); `OnlyFlipsMissing` from `Reaches`: expectation plus
  orders still to be sent is constant along a run, so at completion it is what the plan meant.
  `MovesTowardsTarget` from `Heading`: every quantity to be sent or pending leads towards the target,
  at most one order is pending, and one that may enlarge a position exists only when nothing is left
  to reduce. `SlotKept`: the cycles implement `SlotAccount`. It needs two facts more: `Licensed`,
  whoever has orders to send, or left one that may still execute, in a completed slot holds a grant
  that covers it; and `Settles`, a run that ended cleanly has nothing pending and the account is
  what it expects.
- **Agent runtime.** `WorkerDispatchProofs`: all seven properties of the run, for any number of
  runs, permits, payloads, steps and faults. The invariant is `Core` (types, how far a worker is,
  which places of controller, worker and heartbeat occur together), `LeaseInv` (a lease row keeps its
  worker and never becomes active again), `AnswerInv` (an intent or a stored response names a run
  whose worker completed that payload) and `LockInv` (who may be named by the lock and, before the
  first takeover, that there is one holder). `EvictionStops` follows from `LeaseInv`: who has done a
  late step is not in a guarded one and, its row dead, enters none; the second late step is the
  rewrite, after which no step is left. `DispatchKeepsDesk`: both processes together implement
  `PermitDesk`; it needs one fact more, `Unanswered`: a caller has no answer before its call ends.
- **Owner runs.** `OwnerRunProofs`, under `OneAtATime`: types, `FinalizedIsBacked`,
  `RecordedIsNotRewritten`, `ConclusionStands`, `DraftFitsUnlessOneDied`. `VersionInv` says that
  versions grow with attempts, `ArtifactInv` what one artifact on disk implies about the others at
  the states a death may leave, and `PlaceInv` what a process may rely on at each of its places. For
  the draft, `Fits`: until a death, input and draft on disk are of the spec's observation or of the
  one just compiled. `RunKeepsLedger`: the run implements `RunLedger`. It adds `Books`: a review is
  of a recorded step, a passed verification excludes a conclusion other than FINALIZED (`Filed`); a
  process that restored the run is about the observation of the spec (`About`) and holds the state
  the artifacts answer for (`Told`).
- **Research.** `ResearchProofs`: the four properties of the run, for any signals, objects,
  execution profiles, plans, attempts and deaths. First the rules: claims keep their signals; promotion
  changes neither risk nor attention (`SameRisk`, `SameAttention`), though it changes statuses; every
  move a pass asks for is the first of its cycle and allowed (`FirstMove`, `ExitsAreAllowed`); so
  `CreatedIsSound` and `ContinuedIsSound`. Then the files: `Inv` says that whatever a worker holds,
  read or is about to write is sound, so overlapping and mixed writes leave sound texts; `Sync` that
  a worker alone holds what the files say.

Every invariant and action property of the runs is the statement of a theorem. Only model-checked:
liveness (`UnbackedIsDisarmed`, `EpochIsClosed`, `ResidueIsRecovered`), which is out of the prover's
reach with `ENABLED`. Type correctness of the switch, the heartbeats, the rebalance cycle, the
agent runtime and owner runs is proved and no longer checked by a run.

## 5. What is not modelled, and the plan

Not modelled: numeric code (signals, margins, sizing beyond lots, research), rendering and reports,
network clients beyond what their answers mean, the unattended observation loop (monitor and plan
without orders or switch), paper, testnet and manual runners (the same shape at
earlier stages of the rollout). `PROJECT.json` gives the reason part by part, and the hazards no
property covers yet with theirs.

Known limits of the code that no property is about, because the code does not promise more:

- An epoch's age is judged at the start of an invocation, not at its debit; the owner gate and the
  budget stage read the current epoch separately (`mainnet_core_loop_runner.py:188`, `:616`).
- A disarm between the supervisor's read and the delta runner's entry is taken back by nobody
  (`mainnet_live_supervisor.py:256`); the fast-follow unit may start before the supervisor's last row
  is written (`:192`); an epoch controller's row blocks the supervisor (`unattended_epoch_controller.py:90`).
- Monitor and plan take separate snapshots (`mainnet_core_loop_runner.py:361`); a cleanup
  authorization outlives a death after its orders (`:824`); the slot row is read and written in two
  transactions (`state_store.py:246`).
- Nothing locks an owner run (`governed_agent_orchestrator.py:150`) or keeps batches of different
  request ids apart (`runtime_runner.py:2019`).

What a next step would take up, in this order:

1. An abstract specification of the published theses that `ResearchSession` implements.
2. Heartbeats joined to store and switch, as `EpochBook` joins these two: `OneCycleAtATime` is what
   `RunnerHeartbeats` provides to `BudgetStore`, and today only the README says so.
3. The chain of the multiphase runners over `SlotAccount`.
4. Owner runs composed with the worker: the second write after a death, seen from the session file.
5. Ingress: quarantine, replay and the gate in front of downstream consumers.
