------------------------------ MODULE BudgetStore ------------------------------
(***************************************************************************)
(* The persisted budget of unattended live trading and everybody who uses  *)
(* it: the SQLite ledger of epochs and the reservation table               *)
(* (live_trading/unattended_budget_store.py), the pre-submit and           *)
(* post-submit hooks (unattended_budget_hook.py), the core-loop cycles that *)
(* call them (mainnet_core_loop_runner.py) and the controllers that open    *)
(* and close epochs.  Every process may stop between two of its store       *)
(* calls; one action is one SQLite transaction (or one autocommitted        *)
(* SELECT), so a SELECT and the UPDATE that follows it are two steps.       *)
(***************************************************************************)
EXTENDS Integers, FiniteSets

CONSTANTS
  Epoch,          \* epoch ids
  NoEpoch,        \* Python's None for an epoch
  Opener,         \* processes that call open_epoch
  Run,            \* processes that run core-loop cycles
  Plan,           \* plan_ref values: the artifact root of one plan
  NoPlan,
  CycleBound,     \* the max_live_cycles an epoch may be opened with
  TurnoverBound,  \* the max_gross_turnover_usdt an epoch may be opened with
  Turnover,       \* projected and realized turnovers of one cycle
  MaxAge,         \* max_age_seconds, in clock ticks
  MaxClock,       \* bound on the clock
  PlanReuse       \* FALSE: a plan_ref names one cycle, as in the core loop;
                  \* TRUE: any caller of the store, retries included

ASSUME BudgetAssumption ==
  /\ NoEpoch \notin Epoch /\ NoPlan \notin Plan
  /\ CycleBound \subseteq Nat \ {0}
  /\ TurnoverBound \subseteq Nat \ {0}
  /\ Turnover \subseteq Nat
  /\ MaxAge \in Nat \ {0} /\ MaxClock \in Nat
  /\ PlanReuse \in BOOLEAN

VARIABLES
  clock,         \* wall clock
  ledger,        \* unattended_budget_ledger, one row per epoch id
  reservations,  \* unattended_budget_reservations, one row per key
  opener,        \* what each opener has read so far
  run,           \* what each cycle has read so far
  usedPlans,     \* history: plan_refs already produced
  submitted      \* history: keys under which orders reached the exchange

vars == <<clock, ledger, reservations, opener, run, usedPlans, submitted>>

Unknown == -1    \* a turnover that could not be read (None)
Key == Epoch \X Plan

EpochStatus == {"none", "open", "exhausted", "closed"}
EpochRow == [status : EpochStatus, created_at : Nat, max_live_cycles : Nat,
             max_gross_turnover : Nat, consumed_cycles : Nat, consumed_turnover : Nat]
NoRow == [status |-> "none", created_at |-> 0, max_live_cycles |-> 0,
          max_gross_turnover |-> 0, consumed_cycles |-> 0, consumed_turnover |-> 0]

ReservationStatus == {"none", "reserved", "reconciled"}
ReservationRow == [status : ReservationStatus, reserved_turnover : Nat, realized_turnover : Nat]
NoReservation == [status |-> "none", reserved_turnover |-> 0, realized_turnover |-> 0]

RunPc == {"idle", "read_epoch", "orphan_check", "reserve_select", "reserve_debit",
          "submit", "executed", "reconcile"}
RunState == [pc : RunPc, epoch : Epoch \cup {NoEpoch}, plan : Plan \cup {NoPlan},
             projected : Turnover \cup {Unknown}, now : Nat,
             ordersSubmitted : BOOLEAN, realized : Turnover \cup {Unknown}]
IdleRun == [pc |-> "idle", epoch |-> NoEpoch, plan |-> NoPlan, projected |-> Unknown,
            now |-> 0, ordersSubmitted |-> FALSE, realized |-> Unknown]

TypeOK ==
  /\ clock \in Nat
  /\ ledger \in [Epoch -> EpochRow]
  /\ reservations \in [Key -> ReservationRow]
  /\ opener \in [Opener -> Epoch \cup {NoEpoch}]
  /\ run \in [Run -> RunState]
  /\ usedPlans \subseteq Plan
  /\ submitted \subseteq Key

Init ==
  /\ clock = 0
  /\ ledger = [e \in Epoch |-> NoRow]
  /\ reservations = [k \in Key |-> NoReservation]
  /\ opener = [c \in Opener |-> NoEpoch]
  /\ run = [r \in Run |-> IdleRun]
  /\ usedPlans = {}
  /\ submitted = {}

OpenEpochs == {e \in Epoch : ledger[e].status = "open"}
KeyOf(r) == <<run[r].epoch, run[r].plan>>

Goto(r, label) == run' = [run EXCEPT ![r].pc = label]
Stop(r) == run' = [run EXCEPT ![r] = IdleRun]

--------------------------------------------------------------------------------
(* The epoch lifecycle. *)

\* open_epoch up to its SELECT: an open epoch rejects the call, which then
\* changes nothing, so only the other outcome is a step.
OpenEpochSelect(c, e) ==
  /\ opener[c] = NoEpoch
  /\ OpenEpochs = {}
  /\ opener' = [opener EXCEPT ![c] = e]
  /\ UNCHANGED <<clock, ledger, reservations, run, usedPlans, submitted>>

\* What the primary key and the partial unique index on status='open' admit; a
\* lost race or a repeated id is an IntegrityError.
Admits_NoUniqueIndex(e) == ledger[e].status = "none"
Admits(e) == ledger[e].status = "none" /\ OpenEpochs = {}

\* open_epoch's INSERT.
OpenEpochInsert(c, cycles, turnover) ==
  LET e == opener[c] IN
  /\ e # NoEpoch
  /\ opener' = [opener EXCEPT ![c] = NoEpoch]
  /\ IF Admits(e)
       THEN ledger' = [ledger EXCEPT ![e] =
              [status |-> "open", created_at |-> clock, max_live_cycles |-> cycles,
               max_gross_turnover |-> turnover, consumed_cycles |-> 0, consumed_turnover |-> 0]]
       ELSE UNCHANGED ledger
  /\ UNCHANGED <<clock, reservations, run, usedPlans, submitted>>

\* close_epoch: the UPDATE has no condition on the row's status.
CloseEpoch(e) ==
  /\ ledger[e].status # "none"
  /\ ledger' = [ledger EXCEPT ![e].status = "closed"]
  /\ UNCHANGED <<clock, reservations, opener, run, usedPlans, submitted>>

StatusAfterConsume_OffByOne(row) ==
  IF row.consumed_cycles > row.max_live_cycles \/ row.consumed_turnover > row.max_gross_turnover
    THEN "exhausted" ELSE "open"

\* epoch_status_after_consume, for a row that was open.
StatusAfterConsume(row) ==
  IF row.consumed_cycles >= row.max_live_cycles \/ row.consumed_turnover >= row.max_gross_turnover
    THEN "exhausted" ELSE "open"

--------------------------------------------------------------------------------
(* One live cycle: _run_cycle from its clean dry run to its reconcile. *)

\* A cycle reaches its pre-submit gates with a plan and a projected turnover;
\* now is the time its invocation started.
StartCycle(r, p, projected) ==
  /\ run[r].pc = "idle"
  /\ PlanReuse \/ p \notin usedPlans
  /\ usedPlans' = usedPlans \cup {p}
  /\ run' = [run EXCEPT ![r] = [IdleRun EXCEPT !.pc = "read_epoch", !.plan = p,
                                               !.projected = projected, !.now = clock]]
  /\ UNCHANGED <<clock, ledger, reservations, opener, submitted>>

\* store.read_current_epoch; no open epoch blocks the cycle.
ReadCurrentEpoch(r) ==
  /\ run[r].pc = "read_epoch"
  /\ \/ OpenEpochs = {} /\ Stop(r)
     \/ \E e \in OpenEpochs :
          run' = [run EXCEPT ![r] = [@ EXCEPT !.pc = "orphan_check", !.epoch = e]]
  /\ UNCHANGED <<clock, ledger, reservations, opener, usedPlans, submitted>>

Unreconciled_Never(e) == {}

\* store.has_unreconciled_reservation(epoch_id): the reservations it looks at.
Unreconciled(e) == {k \in Key : k[1] = e /\ reservations[k].status = "reserved"}

OrphanCheck_SkipsReserve(r) ==
  /\ run[r].pc = "orphan_check"
  /\ IF Unreconciled(run[r].epoch) # {} THEN Stop(r) ELSE Goto(r, "submit")
  /\ UNCHANGED <<clock, ledger, reservations, opener, usedPlans, submitted>>

\* The orphan check of pre_submit_budget_blockers.
OrphanCheck(r) ==
  /\ run[r].pc = "orphan_check"
  /\ IF Unreconciled(run[r].epoch) # {} THEN Stop(r) ELSE Goto(r, "reserve_select")
  /\ UNCHANGED <<clock, ledger, reservations, opener, usedPlans, submitted>>

Stale(e, now) == now - ledger[e].created_at > MaxAge

\* reserve up to its SELECT: unknown projection, status and age.
ReserveSelect(r) ==
  LET e == run[r].epoch IN
  /\ run[r].pc = "reserve_select"
  /\ IF \/ run[r].projected = Unknown
        \/ ledger[e].status # "open"
        \/ Stale(e, run[r].now)
       THEN Stop(r) ELSE Goto(r, "reserve_debit")
  /\ UNCHANGED <<clock, ledger, reservations, opener, usedPlans, submitted>>

HasBudget_NoStatus(e, projected) ==
  /\ ledger[e].consumed_cycles < ledger[e].max_live_cycles
  /\ ledger[e].consumed_turnover + projected <= ledger[e].max_gross_turnover
HasBudget_NoTurnover(e, projected) ==
  ledger[e].status = "open" /\ ledger[e].consumed_cycles < ledger[e].max_live_cycles

\* The WHERE clause of the conditional UPDATE.
HasBudget(e, projected) ==
  /\ ledger[e].status = "open"
  /\ ledger[e].consumed_cycles < ledger[e].max_live_cycles
  /\ ledger[e].consumed_turnover + projected <= ledger[e].max_gross_turnover

Debited_SignSlip(row, projected) ==
  [row EXCEPT !.consumed_cycles = @ + 1, !.consumed_turnover = @ - projected]
Debited_TurnoverOnly(row, projected) == [row EXCEPT !.consumed_turnover = @ + projected]

\* The SET clause of the conditional UPDATE.
Debited(row, projected) ==
  [row EXCEPT !.consumed_cycles = @ + 1, !.consumed_turnover = @ + projected]

\* reserve's write transaction: debit, claim the key, set the status; a key
\* claimed before rolls the debit back and still permits the submit.
ReserveDebit(r) ==
  LET e == run[r].epoch
      k == KeyOf(r)
      debited == Debited(ledger[e], run[r].projected)
  IN
  /\ run[r].pc = "reserve_debit"
  /\ \/ /\ ~HasBudget(e, run[r].projected)
        /\ Stop(r)
        /\ UNCHANGED <<ledger, reservations>>
     \/ /\ HasBudget(e, run[r].projected)
        /\ reservations[k].status # "none"
        /\ Goto(r, "submit")
        /\ UNCHANGED <<ledger, reservations>>
     \/ /\ HasBudget(e, run[r].projected)
        /\ reservations[k].status = "none"
        /\ ledger' = [ledger EXCEPT ![e] = [debited EXCEPT !.status = StatusAfterConsume(debited)]]
        /\ reservations' = [reservations EXCEPT ![k] =
              [status |-> "reserved", reserved_turnover |-> run[r].projected, realized_turnover |-> 0]]
        /\ Goto(r, "submit")
  /\ UNCHANGED <<clock, opener, usedPlans, submitted>>

\* The live delta run.  It may refuse (no order leaves), send orders whose
\* turnover its artifact measures or not, or leave one of unknown status, which
\* its artifact does not list.
ExecuteLiveDelta(r) ==
  /\ run[r].pc = "submit"
  /\ \/ /\ run' = [run EXCEPT ![r].pc = "executed"]
        /\ UNCHANGED submitted
     \/ \E orders \in BOOLEAN, realized \in Turnover \cup {Unknown} :
          /\ ~orders => realized = Unknown
          /\ run' = [run EXCEPT ![r] = [@ EXCEPT !.pc = "executed", !.ordersSubmitted = orders,
                                                 !.realized = realized]]
          /\ submitted' = submitted \cup {KeyOf(r)}
  /\ UNCHANGED <<clock, ledger, reservations, opener, usedPlans>>

\* reconcile_or_block_realized, then reconcile_reservation up to its SELECT:
\* unmeasured orders leave the reservation as an orphan, and a row that is not
\* 'reserved' any more makes the call a no-op.
ReconcileSelect(r) ==
  /\ run[r].pc = "executed"
  /\ IF \/ run[r].ordersSubmitted /\ run[r].realized = Unknown
        \/ reservations[KeyOf(r)].status # "reserved"
       THEN Stop(r) ELSE Goto(r, "reconcile")
  /\ UNCHANGED <<clock, ledger, reservations, opener, usedPlans, submitted>>

Bumped_NotAtAll(row, extra) == row

\* The ledger row after the realized turnover exceeded the reserved one.
Bumped(row, extra) ==
  LET up == [row EXCEPT !.consumed_turnover = @ + extra]
  IN  [up EXCEPT !.status = IF @ = "open" THEN StatusAfterConsume(up) ELSE @]

\* The write transaction of reconcile_reservation: the ledger only goes up.
ReconcileWrite(r) ==
  LET e == run[r].epoch
      k == KeyOf(r)
      reserved == reservations[k].reserved_turnover
      realized == run[r].realized
  IN
  /\ run[r].pc = "reconcile"
  /\ IF realized > reserved
       THEN ledger' = [ledger EXCEPT ![e] = Bumped(ledger[e], realized - reserved)]
       ELSE UNCHANGED ledger
  /\ reservations' = [reservations EXCEPT
        ![k].status = "reconciled",
        ![k].realized_turnover = IF realized = Unknown THEN reserved ELSE realized]
  /\ Stop(r)
  /\ UNCHANGED <<clock, opener, usedPlans, submitted>>

--------------------------------------------------------------------------------
(* The environment. *)

\* A process dies between two of its store calls; its timer starts it again.
CrashRun(r) ==
  /\ run[r].pc # "idle"
  /\ Stop(r)
  /\ UNCHANGED <<clock, ledger, reservations, opener, usedPlans, submitted>>

CrashOpener(c) ==
  /\ opener[c] # NoEpoch
  /\ opener' = [opener EXCEPT ![c] = NoEpoch]
  /\ UNCHANGED <<clock, ledger, reservations, run, usedPlans, submitted>>

Tick ==
  /\ clock < MaxClock
  /\ clock' = clock + 1
  /\ UNCHANGED <<ledger, reservations, opener, run, usedPlans, submitted>>

Cycle(r) ==
  \/ \E p \in Plan, t \in Turnover \cup {Unknown} : StartCycle(r, p, t)
  \/ ReadCurrentEpoch(r)
  \/ OrphanCheck(r)
  \/ ReserveSelect(r)
  \/ ReserveDebit(r)
  \/ ExecuteLiveDelta(r)
  \/ ReconcileSelect(r)
  \/ ReconcileWrite(r)

Next ==
  \/ \E c \in Opener :
       \/ \E e \in Epoch : OpenEpochSelect(c, e)
       \/ \E cycles \in CycleBound, turnover \in TurnoverBound : OpenEpochInsert(c, cycles, turnover)
       \/ CrashOpener(c)
  \/ \E e \in Epoch : CloseEpoch(e)
  \/ \E r \in Run : Cycle(r) \/ CrashRun(r)
  \/ Tick

Spec == Init /\ [][Next]_vars
================================================================================
