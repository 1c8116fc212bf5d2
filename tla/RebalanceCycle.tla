----------------------------- MODULE RebalanceCycle -----------------------------
(***************************************************************************)
(* One rebalance cycle after another over one exchange account: the        *)
(* position monitor, the plan against the frozen target of the rebalance   *)
(* slot, the live delta run order by order, its reconcile, and the          *)
(* completion of the slot (mainnet_core_loop_runner._run_cycle,             *)
(* live_position_monitor.py, execution_planner.py,                          *)
(* daily_rebalance_slot_gate.py, mainnet_delta_execution_runner.py).        *)
(* Cycles do not overlap: RunnerHeartbeats is about that.  Quantities are   *)
(* whole lots; every gate that only says no is one of the ways in which a   *)
(* cycle ends early.                                                        *)
(***************************************************************************)
EXTENDS Integers

CONSTANTS
  Symbol,
  Position,     \* the signed positions a trade from outside may leave
  Target,       \* the signed positions a slot may ask for
  MinQty,       \* min_qty and min_notional, in lots
  DeadbandQty   \* execution_deadband, in lots; 0: switched off

ASSUME RebalanceAssumption ==
  /\ Position \subseteq Int /\ Target \subseteq Int
  /\ MinQty \in Nat /\ DeadbandQty \in Nat

VARIABLES
  position,   \* the exchange: the account's positions
  pending,    \* the exchange: what may still execute of an order sent before
  reference,  \* the positions of the newest reference the monitor accepts
  slot,       \* rebalance_slot_targets: the row of the current slot
  run,        \* the cycle in progress
  disturbed   \* history: traded from outside since the last monitor that passed

vars == <<position, pending, reference, slot, run, disturbed>>

Nothing == [kind |-> "none", qty |-> 0, reduceOnly |-> FALSE]
Zero == [s \in Symbol |-> 0]
IdleRun == [pc |-> "idle", order |-> Zero, reduceOnly |-> FALSE, expected |-> Zero,
            secondPhase |-> {}, deferred |-> FALSE, clean |-> TRUE, ownSlot |-> TRUE, cleanup |-> FALSE]
Grants == {"reexecution", "risk_only"}

Pending == [kind : {"none", "resting", "inflight"}, qty : Int, reduceOnly : BOOLEAN]
Slot == [status : {"none", "open", "completed"}, target : [Symbol -> Int],
         granted : SUBSET Grants, consumed : BOOLEAN]
Run == [pc : {"idle", "plan", "preflight", "submit", "post", "complete", "consume"},
        order : [Symbol -> Int], reduceOnly : BOOLEAN, expected : [Symbol -> Int],
        secondPhase : SUBSET Symbol, deferred : BOOLEAN, clean : BOOLEAN,
        ownSlot : BOOLEAN, cleanup : BOOLEAN]

\* The types; a cycle that ended remembers nothing, and no authorization
\* outlives its slot.
TypeOK ==
  /\ position \in [Symbol -> Int]
  /\ pending \in [Symbol -> Pending]
  /\ reference \in [Symbol -> Int]
  /\ slot \in Slot
  /\ run \in Run
  /\ disturbed \in BOOLEAN
  /\ run.pc = "idle" => run = IdleRun
  /\ slot.status = "none" => slot.granted = {} /\ ~slot.consumed

Init ==
  /\ position = Zero
  /\ pending = [s \in Symbol |-> Nothing]
  /\ reference = Zero
  /\ slot = [status |-> "none", target |-> Zero, granted |-> {}, consumed |-> FALSE]
  /\ run = IdleRun
  /\ disturbed = FALSE

--------------------------------------------------------------------------------
(* The planner: one row per symbol, from the current position c to the       *)
(* frozen target t.                                                          *)

Abs(n) == IF n < 0 THEN -n ELSE n
Opposite(c, t) == (c < 0 /\ t > 0) \/ (c > 0 /\ t < 0)

Exits(c, t) == c # 0 /\ t = 0
SameSide(c, t) == c # 0 /\ t # 0 /\ c # t /\ ~Opposite(c, t)

\* reduce_first: exits, flips (which only close) and reductions; every other
\* row with a delta is entry_second.
Reduces(c, t) == Exits(c, t) \/ Opposite(c, t) \/ (SameSide(c, t) /\ Abs(t) < Abs(c))

OrderDelta(c, t) == IF Opposite(c, t) THEN -c ELSE t - c

BelowMin(c, t) == c # t /\ Abs(OrderDelta(c, t)) < MinQty
Dust(c, t) == BelowMin(c, t) /\ (Exits(c, t) \/ SameSide(c, t))
InDeadband(c, t) == SameSide(c, t) /\ ~BelowMin(c, t) /\ Abs(t - c) <= DeadbandQty

\* A row too small to trade that is not dust blocks the whole plan.
Blocked(c, t) == BelowMin(c, t) /\ ~Dust(c, t)
Executable(c, t) == c # t /\ ~BelowMin(c, t) /\ ~InDeadband(c, t)

MustReduce(s, current, target) == Executable(current[s], target[s]) /\ Reduces(current[s], target[s])
ReduceFirst(current, target) == \E s \in Symbol : MustReduce(s, current, target)

\* The intents: the executable rows of the active phase, as signed quantities.
Intents(current, target) ==
  [s \in Symbol |->
     IF /\ Executable(current[s], target[s])
        /\ ReduceFirst(current, target) => Reduces(current[s], target[s])
       THEN OrderDelta(current[s], target[s]) ELSE 0]

\* second_phase_required: the flips, of which this plan only closes the position.
SecondPhase(current, target) ==
  {s \in Symbol : Executable(current[s], target[s]) /\ Opposite(current[s], target[s])}

\* deferred_phase_counts: the entries that wait for the reductions.
Defers(current, target) ==
  \E s \in Symbol :
    /\ Executable(current[s], target[s])
    /\ Intents(current, target)[s] = 0

--------------------------------------------------------------------------------
(* What the exchange does with an order.                                     *)

\* The signed quantities an order of q lots may execute by: none, all, or a part.
PartsOf(q) == IF q < 0 THEN q .. 0 ELSE 0 .. q

\* A reduce-only order never grows nor turns the position.
MayExecute(s, k, reduceOnly) == reduceOnly => -k \in PartsOf(position[s])

Rest(q, reduceOnly) ==
  IF q = 0 THEN Nothing ELSE [kind |-> "resting", qty |-> q, reduceOnly |-> reduceOnly]

NothingRests == \A s \in Symbol : pending[s].kind # "resting"
NothingPending == \A s \in Symbol : pending[s].kind = "none"

\* A resting order fills, in part or in whole, or a request whose answer was
\* lost reaches the book after all.
Execute(s, k) ==
  /\ pending[s].kind # "none"
  /\ k \in PartsOf(pending[s].qty)
  /\ MayExecute(s, k, pending[s].reduceOnly)
  /\ position' = [position EXCEPT ![s] = @ + k]
  /\ pending' = [pending EXCEPT ![s] = Rest(@.qty - k, @.reduceOnly)]
  /\ UNCHANGED <<reference, slot, run, disturbed>>

\* A remainder is cancelled, or a lost request turns out never to have arrived
\* or to be too old (recvWindow).
Vanish(s) ==
  /\ pending[s].kind # "none"
  /\ pending' = [pending EXCEPT ![s] = Nothing]
  /\ UNCHANGED <<position, reference, slot, run, disturbed>>

\* Somebody else trades the account: its owner, a liquidation.
ExternalTrade(s, p) ==
  /\ position[s] # p
  /\ position' = [position EXCEPT ![s] = p]
  /\ disturbed' = TRUE
  /\ UNCHANGED <<pending, reference, slot, run>>

--------------------------------------------------------------------------------
(* One cycle.                                                                *)

Stop == run' = IdleRun

\* Nothing sent by an earlier cycle is still on its way: recvWindow is seconds,
\* the next cycle minutes away.
RequestsExpired == \A s \in Symbol : pending[s].kind # "inflight"

Matches_AnyPosition(expected) == NothingRests

\* What the monitor and the preflight ask of the account.
Matches(expected) == position = expected /\ NothingRests

\* The cycle's account reconcile; one that does not pass ends the cycle and
\* changes nothing.
Monitor ==
  /\ run.pc = "idle"
  /\ RequestsExpired
  /\ Matches(reference)
  /\ run' = [IdleRun EXCEPT !.pc = "plan"]
  /\ disturbed' = FALSE
  /\ UNCHANGED <<position, pending, reference, slot>>

RiskOnlyUsable == "risk_only" \in slot.granted /\ ~slot.consumed

MayReexecute_Again(reducing) ==
  \/ slot.status # "completed"
  \/ "reexecution" \in slot.granted
  \/ ("risk_only" \in slot.granted /\ reducing)

\* completed_slot_execution_gate for a slot already completed: the owner may
\* have allowed a second execution, or one more that only reduces.
MayReexecute(reducing) ==
  \/ slot.status # "completed"
  \/ "reexecution" \in slot.granted
  \/ (RiskOnlyUsable /\ reducing)

\* The plan: freeze the slot's target if it has none, size the rows, hold a
\* completed slot, complete one that needs no order.
Plan(target) ==
  LET order == Intents(position, target)
      noop == order = Zero
      blocked == \E s \in Symbol : Blocked(position[s], target[s])
      reducing == ReduceFirst(position, target)
      allowed == MayReexecute(reducing)
      frozen == IF slot.status = "none" THEN [slot EXCEPT !.status = "open", !.target = target] ELSE slot
  IN
  /\ run.pc = "plan"
  /\ NothingRests
  /\ slot.status # "none" => target = slot.target
  /\ slot' = IF allowed /\ noop /\ ~blocked THEN [frozen EXCEPT !.status = "completed"] ELSE frozen
  /\ IF allowed /\ ~noop /\ ~blocked
       THEN run' = [run EXCEPT
              !.pc = "preflight", !.order = order, !.reduceOnly = reducing,
              !.expected = position, !.secondPhase = SecondPhase(position, target),
              !.deferred = Defers(position, target),
              !.ownSlot = TRUE,
              !.cleanup = slot.status = "completed" /\ "reexecution" \notin slot.granted]
       ELSE Stop
  /\ UNCHANGED <<position, pending, reference, disturbed>>

\* The live delta run up to its first order: the account is still the one the
\* plan saw.
Preflight ==
  /\ run.pc = "preflight"
  /\ Matches(run.expected)
  /\ run' = [run EXCEPT !.pc = "submit"]
  /\ UNCHANGED <<position, pending, reference, slot, disturbed>>

Sending(s) == run.pc = "submit" /\ run.clean /\ run.order[s] # 0

\* The order is FILLED with its full quantity: the only answer after which the
\* loop goes on.
SubmitFilled(s) ==
  LET q == run.order[s] IN
  /\ Sending(s)
  /\ MayExecute(s, q, run.reduceOnly)
  /\ position' = [position EXCEPT ![s] = @ + q]
  /\ run' = [run EXCEPT !.order[s] = 0, !.expected[s] = @ + q]
  /\ UNCHANGED <<pending, reference, slot, disturbed>>

Deviated_GoesOn == run
Deviated == [run EXCEPT !.clean = FALSE]

\* Any other answer: a rejection (nothing executes), a terminal status with a
\* part executed, a reduceOnly that does not match, an order left on the book.
SubmitShort(s, k, remainder) ==
  LET q == run.order[s] IN
  /\ Sending(s)
  /\ k \in PartsOf(q)
  /\ MayExecute(s, k, run.reduceOnly)
  /\ remainder \in {0, q - k}
  /\ position' = [position EXCEPT ![s] = @ + k]
  /\ pending' = [pending EXCEPT ![s] = Rest(remainder, run.reduceOnly)]
  /\ run' = Deviated
  /\ UNCHANGED <<reference, slot, disturbed>>

\* The fate of the request is unknown: a 5xx, counted as a rejection or as an
\* unknown execution status, stops the loop; a timeout is not caught and ends
\* the process.
SubmitLost(s, caught) ==
  /\ Sending(s)
  /\ pending' = [pending EXCEPT ![s] =
       [kind |-> "inflight", qty |-> run.order[s], reduceOnly |-> run.reduceOnly]]
  /\ run' = IF caught THEN Deviated ELSE IdleRun
  /\ UNCHANGED <<position, reference, slot, disturbed>>

Reconciled_Unread == run.clean

\* The account after the orders against the positions planned plus the fills.
Reconciled == run.clean /\ Matches(run.expected)

\* The second snapshot and the run's record.  A reconciled run becomes the
\* monitor's reference.
Reconcile ==
  /\ run.pc = "submit"
  /\ ~run.clean \/ run.order = Zero
  /\ reference' = IF Reconciled THEN run.expected ELSE reference
  /\ run' = [run EXCEPT !.pc = "post", !.clean = Reconciled]
  /\ UNCHANGED <<position, pending, slot, disturbed>>

\* The post-trade monitor, against the run's own expectation.
PostMonitor ==
  /\ run.pc = "post"
  /\ IF run.clean /\ Matches(run.expected)
       THEN run' = [run EXCEPT !.pc = "complete"] ELSE Stop
  /\ UNCHANGED <<position, pending, reference, slot, disturbed>>

SlotDone_IgnoresDeferred == TRUE

\* _post_execution_slot_completion_gate.
SlotDone == ~run.deferred

\* The slot of the plan is completed, unless it is a slot of the past.
Complete ==
  /\ run.pc = "complete"
  /\ slot' = IF SlotDone /\ run.ownSlot THEN [slot EXCEPT !.status = "completed"] ELSE slot
  /\ IF run.cleanup THEN run' = [run EXCEPT !.pc = "consume"] ELSE Stop
  /\ UNCHANGED <<position, pending, reference, disturbed>>

\* A cleanup that only reduces uses its authorization up.
Consume ==
  /\ run.pc = "consume"
  /\ slot' = IF run.ownSlot THEN [slot EXCEPT !.consumed = TRUE] ELSE slot
  /\ Stop
  /\ UNCHANGED <<position, pending, reference, disturbed>>

\* A gate says no, an exception ends the run, or the process is killed.
Abandon ==
  /\ run.pc # "idle"
  /\ Stop
  /\ UNCHANGED <<position, pending, reference, slot, disturbed>>

--------------------------------------------------------------------------------
(* The owner and the calendar.                                               *)

\* A genesis snapshot: the owner accepts the account as it is.
Genesis ==
  /\ reference' = position
  /\ UNCHANGED <<position, pending, slot, run, disturbed>>

Authorize(grant) ==
  /\ slot.status = "completed"
  /\ slot' = [slot EXCEPT !.granted = @ \cup {grant}]
  /\ UNCHANGED <<position, pending, reference, run, disturbed>>

\* The next rebalance slot begins; a run in progress keeps its own.
NewSlot ==
  /\ slot.status # "none"
  /\ slot' = [slot EXCEPT !.status = "none", !.granted = {}, !.consumed = FALSE]
  /\ run' = IF run.pc = "idle" THEN run ELSE [run EXCEPT !.ownSlot = FALSE]
  /\ UNCHANGED <<position, pending, reference, disturbed>>

--------------------------------------------------------------------------------

Cycle ==
  \/ Monitor
  \/ \E target \in [Symbol -> Target] : Plan(target)
  \/ Preflight
  \/ \E s \in Symbol :
       \/ SubmitFilled(s)
       \/ \E k \in PartsOf(run.order[s]) : \E remainder \in {0, run.order[s] - k} : SubmitShort(s, k, remainder)
       \/ \E caught \in BOOLEAN : SubmitLost(s, caught)
  \/ Reconcile
  \/ PostMonitor
  \/ Complete
  \/ Consume
  \/ Abandon

Exchange ==
  \E s \in Symbol :
    \/ \E k \in PartsOf(pending[s].qty) : Execute(s, k)
    \/ Vanish(s)
    \/ \E p \in Position : ExternalTrade(s, p)

Owner ==
  \/ Genesis
  \/ \E grant \in Grants : Authorize(grant)
  \/ NewSlot

Next == Cycle \/ Exchange \/ Owner

Spec == Init /\ [][Next]_vars

--------------------------------------------------------------------------------
(* Properties. *)

\* Every order still to be sent starts from the position that the last clean
\* run, or the owner, accounted for, and nothing sent before may still execute:
\* whatever was rejected, lost, filled in part or left behind by a run that
\* died stops every later cycle until it is explained
\* (mainnet_core_loop_runner.py, account_reconcile;
\* mainnet_delta_execution_runner.py, _execute_delta_plan).
OrdersAreExplained ==
  run.pc = "submit" /\ run.clean /\ ~disturbed =>
    /\ NothingPending
    /\ \A s \in Symbol :
         position[s] = IF run.order[s] = 0 THEN run.expected[s] ELSE reference[s]

\* A run that becomes the reference left the account exactly where its plan
\* said, and none of its orders can execute later
\* (_reconcile_after_execution).
CleanRunIsDone ==
  [][run.pc = "submit" /\ run'.pc = "post" /\ run'.clean =>
       /\ position = reference'
       /\ run.order = Zero
       /\ NothingPending]_vars

Between(n, a, b) == (a <= n /\ n <= b) \/ (b <= n /\ n <= a)

\* The account approaches the slot's target and never passes it, over all the
\* cycles, late fills and retries of the slot; and no position grows while
\* another one still has to shrink (execution_planner.py, reduce_first before
\* entry_second).
MovesTowardsTarget ==
  [][~disturbed' =>
       \A s \in Symbol : position'[s] # position[s] =>
         /\ Between(position'[s], position[s], slot.target[s])
         /\ Abs(position'[s]) > Abs(position[s]) => ~ReduceFirst(position, slot.target)]_vars

Settled(c, t) == ~Executable(c, t) /\ ~Blocked(c, t)
Completes == slot.status = "open" /\ slot'.status = "completed"
Accounted == IF run.pc = "plan" THEN position ELSE run.expected

\* A slot is completed when its target is reached, except that a position this
\* very run flipped may still be flat (mainnet_core_loop_runner.py,
\* _post_execution_slot_completion_gate).
OnlyFlipsMissing ==
  [][Completes =>
       \A s \in Symbol :
         \/ Settled(Accounted[s], slot'.target[s])
         \/ s \in run.secondPhase /\ Accounted[s] = 0]_vars

\* The cycles, over late fills, deaths and authorizations, do with the account
\* what SlotAccount allows; above all, a completed slot trades no more without a
\* grant that still holds (daily_rebalance_slot_gate.py,
\* completed_slot_execution_gate, _risk_only_reduce_cleanup_gate).
ReducesNow(c, t) == Executable(c, t) /\ Reduces(c, t)
Account == INSTANCE SlotAccount WITH
  Turns <- Opposite, MustShrink <- ReducesNow, Done <- Settled,
  phase <- slot.status, target <- slot.target, grants <- slot.granted,
  consumed <- slot.consumed, turning <- run.secondPhase
KeepsSlot == Account!SSpec

================================================================================
