---------------------------- MODULE RebalanceProofs ----------------------------
(***************************************************************************)
(* For every set of symbols, positions, targets and order minima: the types,  *)
(* that an order leaves only from an account somebody explained, that a run    *)
(* which becomes the reference is really over, that the account only moves     *)
(* towards the target of its slot, that a slot is completed with nothing        *)
(* missing but the entry of a flip, and that the cycles together are what       *)
(* SlotAccount says of a slot.                                                  *)
(***************************************************************************)
EXTENDS RebalanceCycle, TLAPS

LEMMA Parts ==
  ASSUME NEW q \in Int, NEW k \in PartsOf(q)
  PROVE  k \in Int /\ q - k \in Int
  BY DEF PartsOf

LEMMA Rows ==
  ASSUME NEW current \in [Symbol -> Int], NEW target \in [Symbol -> Int]
  PROVE  /\ \A s \in Symbol : OrderDelta(current[s], target[s]) \in Int
         /\ Intents(current, target) \in [Symbol -> Int]
         /\ SecondPhase(current, target) \subseteq Symbol
         /\ Defers(current, target) \in BOOLEAN
         /\ ReduceFirst(current, target) \in BOOLEAN
<1>1. \A s \in Symbol : OrderDelta(current[s], target[s]) \in Int
  BY DEF OrderDelta
<1> QED
  BY <1>1 DEF Intents, SecondPhase, Defers, ReduceFirst

LEMMA IdleType == IdleRun \in Run
  BY DEF IdleRun, Run, Zero

\* What a run keeps when its cycle goes on.
SameOrders(old, new) ==
  /\ new.order = old.order /\ new.expected = old.expected
  /\ new.secondPhase = old.secondPhase /\ new.deferred = old.deferred
  /\ new.reduceOnly = old.reduceOnly /\ new.cleanup = old.cleanup

\* A run at a later point of its cycle is still a run, and the same one.
LEMMA Advanced ==
  ASSUME NEW r \in Run,
         NEW pc \in {"plan", "preflight", "submit", "post", "complete", "consume"}
  PROVE  /\ [r EXCEPT !.pc = pc] \in Run
         /\ [r EXCEPT !.pc = pc].pc = pc
         /\ [r EXCEPT !.pc = pc].ownSlot = r.ownSlot
         /\ [r EXCEPT !.pc = pc].clean = r.clean
         /\ SameOrders(r, [r EXCEPT !.pc = pc])
  BY DEF Run, SameOrders

LEMMA Recorded ==
  ASSUME NEW r \in Run, NEW clean \in BOOLEAN
  PROVE  /\ [r EXCEPT !.pc = "post", !.clean = clean] \in Run
         /\ [r EXCEPT !.pc = "post", !.clean = clean].pc = "post"
         /\ [r EXCEPT !.pc = "post", !.clean = clean].ownSlot = r.ownSlot
         /\ [r EXCEPT !.pc = "post", !.clean = clean].clean = clean
         /\ SameOrders(r, [r EXCEPT !.pc = "post", !.clean = clean])
  BY DEF Run, SameOrders

LEMMA FilledRun ==
  ASSUME run \in Run, NEW s \in Symbol, SubmitFilled(s)
  PROVE  /\ run' \in Run /\ run'.pc = "submit"
         /\ run'.ownSlot = run.ownSlot /\ run'.clean = run.clean
         /\ run'.deferred = run.deferred /\ run'.secondPhase = run.secondPhase
         /\ run'.reduceOnly = run.reduceOnly /\ run'.cleanup = run.cleanup
         /\ run'.order = [run.order EXCEPT ![s] = 0]
         /\ run'.expected = [run.expected EXCEPT ![s] = @ + run.order[s]]
<1> DEFINE order == [run.order EXCEPT ![s] = 0]
<1> DEFINE expected == [run.expected EXCEPT ![s] = @ + run.order[s]]
<1>1. order \in [Symbol -> Int] /\ expected \in [Symbol -> Int]
  BY DEF Run
<1>2. run' = [run EXCEPT !.order = order, !.expected = expected] /\ run.pc = "submit"
  BY DEF SubmitFilled, Sending, Run
<1> HIDE DEF order, expected
<1>3. /\ run' \in Run /\ run'.pc = "submit"
      /\ run'.ownSlot = run.ownSlot /\ run'.clean = run.clean
      /\ run'.deferred = run.deferred /\ run'.secondPhase = run.secondPhase
      /\ run'.reduceOnly = run.reduceOnly /\ run'.cleanup = run.cleanup
      /\ run'.order = order /\ run'.expected = expected
  BY <1>1, <1>2 DEF Run
<1> QED
  BY <1>3 DEF order, expected

LEMMA Deviates ==
  ASSUME run \in Run
  PROVE  /\ Deviated \in Run /\ Deviated.pc = run.pc /\ Deviated.ownSlot = run.ownSlot
         /\ ~Deviated.clean /\ SameOrders(run, Deviated)
  BY DEF Deviated, Run, SameOrders

LEMMA Overtaken ==
  ASSUME NEW r \in Run
  PROVE  /\ [r EXCEPT !.ownSlot = FALSE] \in Run
         /\ [r EXCEPT !.ownSlot = FALSE].pc = r.pc
         /\ ~[r EXCEPT !.ownSlot = FALSE].ownSlot
         /\ [r EXCEPT !.ownSlot = FALSE].clean = r.clean
         /\ SameOrders(r, [r EXCEPT !.ownSlot = FALSE])
  BY DEF Run, SameOrders

LEMMA InitTypes == Init => TypeOK
<1> SUFFICES ASSUME Init PROVE TypeOK
  OBVIOUS
<1>1. Zero \in [Symbol -> Int] /\ Nothing \in Pending
  BY DEF Zero, Nothing, Pending
<1>2. slot \in Slot /\ slot.granted = {} /\ ~slot.consumed
  BY <1>1 DEF Init, Slot
<1> QED
  BY <1>1, <1>2, IdleType DEF Init, TypeOK

LEMMA PlanTypes ==
  ASSUME TypeOK, NEW target \in [Symbol -> Target], Plan(target)
  PROVE  TypeOK'
<1> DEFINE order == Intents(position, target)
<1> DEFINE noop == order = Zero
<1> DEFINE blocked == \E s \in Symbol : Blocked(position[s], target[s])
<1> DEFINE reducing == ReduceFirst(position, target)
<1> DEFINE allowed == MayReexecute(reducing)
<1> DEFINE frozen == IF slot.status = "none" THEN [slot EXCEPT !.status = "open", !.target = target] ELSE slot
<1> DEFINE planned == [run EXCEPT
      !.pc = "preflight", !.order = order, !.reduceOnly = reducing,
      !.expected = position, !.secondPhase = SecondPhase(position, target),
      !.deferred = Defers(position, target), !.ownSlot = TRUE,
      !.cleanup = slot.status = "completed" /\ "reexecution" \notin slot.granted]
<1>1. target \in [Symbol -> Int]
  BY RebalanceAssumption
<1>2. planned \in Run
  BY <1>1, Rows DEF TypeOK, Run
<1>3. run' \in {planned, IdleRun}
  BY DEF Plan, Stop
<1>4. frozen \in Slot /\ frozen.status # "none"
  BY <1>1 DEF TypeOK, Slot
<1>5. slot' \in {frozen, [frozen EXCEPT !.status = "completed"]}
  BY DEF Plan
<1>6. slot' \in Slot /\ slot'.status # "none"
  BY <1>4, <1>5 DEF Slot
<1>7. run' \in Run /\ (run'.pc = "idle" => run' = IdleRun)
  BY <1>2, <1>3, IdleType DEF TypeOK, Run
<1> QED
  BY <1>6, <1>7 DEF Plan, TypeOK

\* The exchange's steps and the owner's.
LEMMA OutsideTypes ==
  ASSUME TypeOK, Exchange \/ Owner
  PROVE  TypeOK'
<1>1. ASSUME NEW s \in Symbol, NEW k \in PartsOf(pending[s].qty), Execute(s, k)
      PROVE  TypeOK'
  <2>1. pending[s] \in Pending /\ pending[s].qty \in Int
    BY DEF TypeOK, Pending
  <2>2. k \in Int /\ pending[s].qty - k \in Int
    BY <2>1, Parts
  <2>3. Rest(pending[s].qty - k, pending[s].reduceOnly) \in Pending
    BY <2>1, <2>2 DEF Rest, Nothing, Pending
  <2> QED
    BY <1>1, <2>2, <2>3 DEF Execute, TypeOK
<1>2. ASSUME NEW s \in Symbol, Vanish(s)
      PROVE  TypeOK'
  <2>1. Nothing \in Pending
    BY DEF Nothing, Pending
  <2> QED
    BY <1>2, <2>1 DEF Vanish, TypeOK
<1>3. ASSUME NEW s \in Symbol, NEW p \in Position, ExternalTrade(s, p)
      PROVE  TypeOK'
  BY <1>3, RebalanceAssumption DEF ExternalTrade, TypeOK
<1>4. CASE Genesis
  BY <1>4 DEF Genesis, TypeOK
<1>5. ASSUME NEW grant \in Grants, Authorize(grant)
      PROVE  TypeOK'
  <2>1. slot' \in Slot /\ slot'.status # "none"
    BY <1>5 DEF Authorize, TypeOK, Slot
  <2> QED
    BY <1>5, <2>1 DEF Authorize, TypeOK
<1>6. CASE NewSlot
  <2>1. slot' \in Slot /\ slot'.granted = {} /\ ~slot'.consumed
    BY <1>6 DEF NewSlot, TypeOK, Slot
  <2>2. run' \in Run /\ (run'.pc = "idle" => run' = IdleRun)
    BY <1>6, Overtaken DEF NewSlot, TypeOK
  <2> QED
    BY <1>6, <2>1, <2>2 DEF NewSlot, TypeOK
<1> QED
  BY <1>1, <1>2, <1>3, <1>4, <1>5, <1>6 DEF Exchange, Owner

\* The orders of the delta run.
LEMMA SubmitTypes ==
  ASSUME TypeOK, NEW s \in Symbol,
         \/ SubmitFilled(s)
         \/ \E k \in PartsOf(run.order[s]) :
              \E remainder \in {0, run.order[s] - k} : SubmitShort(s, k, remainder)
         \/ \E caught \in BOOLEAN : SubmitLost(s, caught)
  PROVE  TypeOK'
<1> DEFINE q == run.order[s]
<1> run \in Run
  BY DEF TypeOK
<1>0. q \in Int /\ run.reduceOnly \in BOOLEAN /\ run.expected[s] \in Int
  BY DEF TypeOK, Run
<1>1. CASE SubmitFilled(s)
  <2>2. run' \in Run /\ run'.pc = "submit"
    BY <1>1, FilledRun
  <2> QED
    BY <1>0, <1>1, <2>2 DEF SubmitFilled, TypeOK
<1>2. ASSUME NEW k \in PartsOf(q), NEW remainder \in {0, q - k}, SubmitShort(s, k, remainder)
      PROVE  TypeOK'
  <2>1. k \in Int /\ remainder \in Int
    BY <1>0, Parts
  <2>2. Rest(remainder, run.reduceOnly) \in Pending
    BY <1>0, <2>1 DEF Rest, Nothing, Pending
  <2>3. Deviated \in Run /\ Deviated.pc = "submit"
    BY <1>2, Deviates DEF SubmitShort, Sending
  <2> QED
    BY <1>2, <2>1, <2>2, <2>3 DEF SubmitShort, TypeOK
<1>3. ASSUME NEW caught \in BOOLEAN, SubmitLost(s, caught)
      PROVE  TypeOK'
  <2>1. [kind |-> "inflight", qty |-> q, reduceOnly |-> run.reduceOnly] \in Pending
    BY <1>0 DEF Pending
  <2>2. Deviated \in Run /\ Deviated.pc = "submit"
    BY <1>3, Deviates DEF SubmitLost, Sending
  <2>3. run' \in Run /\ (run'.pc = "idle" => run' = IdleRun)
    BY <1>3, <2>2, IdleType DEF SubmitLost
  <2> QED
    BY <1>3, <2>1, <2>3 DEF SubmitLost, TypeOK
<1> QED
  BY <1>1, <1>2, <1>3

--------------------------------------------------------------------------------
(* A run past its plan either lost its slot to the calendar or has its row. *)

PastPlan == {"preflight", "submit", "post", "complete", "consume"}
OwnRow == run.pc \in PastPlan /\ run.ownSlot => slot.status # "none"

LEMMA StepTypes ==
  ASSUME TypeOK, OwnRow, Next
  PROVE  TypeOK'
<1>1. CASE Monitor
  <2>1. [IdleRun EXCEPT !.pc = "plan"] \in Run
    BY IdleType, Advanced
  <2>2. run'.pc = "plan"
    BY <1>1 DEF Monitor, IdleRun
  <2> QED
    BY <1>1, <2>1, <2>2 DEF Monitor, TypeOK
<1>2. ASSUME NEW target \in [Symbol -> Target], Plan(target)
      PROVE  TypeOK'
  BY <1>2, PlanTypes
<1>3. CASE Preflight
  <2>1. run' \in Run /\ run'.pc = "submit"
    BY <1>3, Advanced DEF Preflight, TypeOK
  <2> QED
    BY <1>3, <2>1 DEF Preflight, TypeOK
<1>4. CASE Reconcile
  <2>1. Reconciled \in BOOLEAN
    BY DEF Reconciled, Matches, TypeOK, Run
  <2>2. run' \in Run /\ run'.pc = "post"
    BY <1>4, <2>1, Recorded DEF Reconcile, TypeOK
  <2>3. reference' \in [Symbol -> Int]
    BY <1>4 DEF Reconcile, TypeOK, Run
  <2> QED
    BY <1>4, <2>2, <2>3 DEF Reconcile, TypeOK
<1>5. CASE PostMonitor
  <2>0. run' \in {[run EXCEPT !.pc = "complete"], IdleRun}
    BY <1>5 DEF PostMonitor, Stop
  <2>1. run' \in Run /\ (run'.pc = "idle" => run' = IdleRun)
    <3>1. [run EXCEPT !.pc = "complete"] \in Run /\ [run EXCEPT !.pc = "complete"].pc = "complete"
      BY Advanced DEF TypeOK
    <3> QED
      BY <2>0, <3>1, IdleType
  <2> QED
    BY <1>5, <2>1 DEF PostMonitor, TypeOK
<1>6. CASE Complete
  <2>0. run' \in {[run EXCEPT !.pc = "consume"], IdleRun}
    BY <1>6 DEF Complete, Stop
  <2>1. run' \in Run /\ (run'.pc = "idle" => run' = IdleRun)
    <3>1. [run EXCEPT !.pc = "consume"] \in Run /\ [run EXCEPT !.pc = "consume"].pc = "consume"
      BY Advanced DEF TypeOK
    <3> QED
      BY <2>0, <3>1, IdleType
  <2>2. slot' \in Slot /\ (slot'.status = "none" => slot'.granted = {} /\ ~slot'.consumed)
    BY <1>6 DEF Complete, TypeOK, Slot
  <2> QED
    BY <1>6, <2>1, <2>2 DEF Complete, TypeOK
<1>7. CASE Consume
  <2>1. slot' \in Slot /\ (slot'.status = "none" => slot'.granted = {} /\ ~slot'.consumed)
    BY <1>7 DEF Consume, OwnRow, PastPlan, TypeOK, Slot
  <2> QED
    BY <1>7, <2>1, IdleType DEF Consume, Stop, TypeOK
<1>8. CASE Abandon
  BY <1>8, IdleType DEF Abandon, Stop, TypeOK
<1> QED
  BY <1>1, <1>2, <1>3, <1>4, <1>5, <1>6, <1>7, <1>8, SubmitTypes, OutsideTypes
  DEF Next, Cycle

LEMMA OwnRowStep ==
  ASSUME TypeOK, OwnRow, [Next]_vars
  PROVE  OwnRow'
<1>1. ASSUME NEW target \in [Symbol -> Target], Plan(target)
      PROVE  OwnRow'
  <2>1. slot'.status # "none"
    BY <1>1 DEF Plan, TypeOK, Slot
  <2> QED
    BY <2>1 DEF OwnRow
<1>2. CASE NewSlot
  BY <1>2 DEF NewSlot, OwnRow, PastPlan, TypeOK, Run
<1>3. ASSUME \E grant \in Grants : Authorize(grant)
      PROVE  OwnRow'
  BY <1>3 DEF Authorize, OwnRow, TypeOK, Slot
<1>4. CASE Monitor \/ Preflight \/ Reconcile \/ PostMonitor \/ Abandon
  <2> run \in Run
    BY DEF TypeOK
  <2>1. CASE Monitor
    BY <2>1 DEF Monitor, IdleRun, OwnRow, PastPlan
  <2>2. CASE Preflight
    BY <2>2, Advanced DEF Preflight, OwnRow, PastPlan
  <2>3. CASE Reconcile
    <3>1. Reconciled \in BOOLEAN
      BY DEF Reconciled, Matches, Run
    <3> QED
      BY <2>3, <3>1, Recorded DEF Reconcile, OwnRow, PastPlan
  <2>4. CASE PostMonitor
    <3>1. run' \in {[run EXCEPT !.pc = "complete"], IdleRun}
      BY <2>4 DEF PostMonitor, Stop
    <3>2. [run EXCEPT !.pc = "complete"].ownSlot = run.ownSlot
      BY Advanced
    <3>3. CASE run' = IdleRun
      BY <3>3 DEF IdleRun, OwnRow, PastPlan
    <3>4. CASE run' = [run EXCEPT !.pc = "complete"]
      BY <2>4, <3>2, <3>4 DEF PostMonitor, OwnRow, PastPlan
    <3> QED
      BY <3>1, <3>3, <3>4
  <2>5. CASE Abandon
    BY <2>5 DEF Abandon, Stop, IdleRun, OwnRow, PastPlan
  <2> QED
    BY <1>4, <2>1, <2>2, <2>3, <2>4, <2>5
<1>5. CASE Complete \/ Consume
  BY <1>5 DEF Complete, Consume, Stop, IdleRun, OwnRow, PastPlan, TypeOK, Run, Slot
<1>6. ASSUME NEW s \in Symbol,
             \/ SubmitFilled(s)
             \/ \E k \in PartsOf(run.order[s]) :
                  \E remainder \in {0, run.order[s] - k} : SubmitShort(s, k, remainder)
             \/ \E caught \in BOOLEAN : SubmitLost(s, caught)
      PROVE  OwnRow'
  <2> run \in Run
    BY DEF TypeOK
  <2>1. CASE SubmitFilled(s)
    BY <2>1, FilledRun DEF SubmitFilled, Sending, OwnRow, PastPlan
  <2>2. Deviated.pc = run.pc /\ Deviated.ownSlot = run.ownSlot
    BY Deviates
  <2> QED
    BY <1>6, <2>1, <2>2 DEF SubmitShort, SubmitLost, IdleRun, OwnRow, PastPlan
<1>7. CASE Exchange \/ Genesis \/ UNCHANGED vars
  BY <1>7 DEF Exchange, Execute, Vanish, ExternalTrade, Genesis, OwnRow, vars
<1> QED
  BY <1>1, <1>2, <1>3, <1>4, <1>5, <1>6, <1>7 DEF Next, Cycle, Owner

LEMMA Typed == Spec => [](TypeOK /\ OwnRow)
<1>1. Init => TypeOK /\ OwnRow
  BY InitTypes DEF Init, OwnRow, PastPlan, IdleRun
<1>2. TypeOK /\ OwnRow /\ [Next]_vars => (TypeOK /\ OwnRow)'
  <2>1. TypeOK /\ UNCHANGED vars => TypeOK'
    BY DEF TypeOK, vars
  <2> QED
    BY <2>1, StepTypes, OwnRowStep
<1> QED
  BY <1>1, <1>2, PTL DEF Spec

\* Positions, orders, the slot row and the cycle's memory keep their types, a
\* finished cycle remembers nothing and a new slot starts without authorizations.
THEOREM TypeCorrect == Spec => []TypeOK
  BY Typed, PTL

--------------------------------------------------------------------------------
(* While orders are still to be sent nothing sent before can execute any more; *)
(* and unless somebody else traded, the account is the one the run expects,     *)
(* and for every order still to be sent the one the reference explains.         *)

Unspoilt == run.pc \in {"plan", "preflight"} \/ (run.pc = "submit" /\ run.clean)

Explained ==
  /\ Unspoilt => NothingPending
  /\ Unspoilt /\ ~disturbed =>
       /\ run.pc # "plan" => position = run.expected
       /\ \A s \in Symbol :
            (run.pc = "submit" => run.order[s] # 0) => position[s] = reference[s]

LEMMA ExplainedCycle ==
  ASSUME TypeOK, Explained,
         Monitor \/ (\E target \in [Symbol -> Target] : Plan(target)) \/ Preflight
         \/ Reconcile \/ PostMonitor \/ Complete \/ Consume \/ Abandon
  PROVE  Explained'
<1> run \in Run /\ pending \in [Symbol -> Pending]
  BY DEF TypeOK
<1>1. CASE Monitor
  <2>1. NothingPending'
    BY <1>1 DEF Monitor, Matches, RequestsExpired, NothingRests, NothingPending, Pending
  <2>2. run'.pc = "plan" /\ position' = reference'
    BY <1>1 DEF Monitor, Matches, IdleRun
  <2> QED
    BY <2>1, <2>2 DEF Explained
<1>2. ASSUME NEW target \in [Symbol -> Target], Plan(target)
      PROVE  Explained'
  <2>1. CASE run' = IdleRun
    BY <2>1 DEF Explained, Unspoilt, IdleRun
  <2>2. CASE run' # IdleRun
    <3>1. run'.pc = "preflight" /\ run'.expected = position
      BY <1>2, <2>2 DEF Plan, Stop, Run
    <3> QED
      BY <1>2, <3>1 DEF Plan, Explained, Unspoilt, NothingPending
  <2> QED
    BY <2>1, <2>2
<1>3. CASE Preflight
  <2>1. run'.pc = "submit" /\ run'.clean = run.clean /\ run'.expected = run.expected
    BY <1>3, Advanced DEF Preflight, SameOrders
  <2> QED
    BY <1>3, <2>1 DEF Preflight, Explained, Unspoilt, NothingPending
<1>4. CASE Reconcile
  <2>1. Reconciled \in BOOLEAN
    BY DEF Reconciled, Matches, Run
  <2>2. run'.pc = "post"
    BY <1>4, <2>1, Recorded DEF Reconcile
  <2> QED
    BY <2>2 DEF Explained, Unspoilt
<1>5. CASE PostMonitor \/ Complete \/ Consume \/ Abandon
  <2>1. run' \in {IdleRun, [run EXCEPT !.pc = "complete"], [run EXCEPT !.pc = "consume"]}
    BY <1>5, Zenon DEF PostMonitor, Complete, Consume, Abandon, Stop
  <2>2. [run EXCEPT !.pc = "complete"].pc = "complete" /\ [run EXCEPT !.pc = "consume"].pc = "consume"
    BY Advanced
  <2>3. IdleRun.pc = "idle"
    BY DEF IdleRun
  <2>4. run'.pc \in {"idle", "complete", "consume"}
    BY <2>1, <2>2, <2>3, Zenon
  <2> QED
    BY <2>4 DEF Explained, Unspoilt
<1> QED
  BY <1>1, <1>2, <1>3, <1>4, <1>5

LEMMA ExplainedSubmit ==
  ASSUME TypeOK, Explained, NEW s \in Symbol,
         \/ SubmitFilled(s)
         \/ \E k \in PartsOf(run.order[s]) :
              \E remainder \in {0, run.order[s] - k} : SubmitShort(s, k, remainder)
         \/ \E caught \in BOOLEAN : SubmitLost(s, caught)
  PROVE  Explained'
<1> run \in Run /\ position \in [Symbol -> Int]
  BY DEF TypeOK
<1>1. CASE SubmitFilled(s)
  <2> DEFINE q == run.order[s]
  <2>2. /\ run'.pc = "submit" /\ run'.clean = run.clean
        /\ run'.order = [run.order EXCEPT ![s] = 0]
        /\ run'.expected = [run.expected EXCEPT ![s] = @ + q]
    BY <1>1, FilledRun
  <2>3. position' = [position EXCEPT ![s] = @ + q] /\ UNCHANGED <<pending, reference, disturbed>>
    BY <1>1 DEF SubmitFilled
  <2>4. Unspoilt /\ NothingPending'
    BY <1>1, <2>3 DEF SubmitFilled, Sending, Explained, Unspoilt, NothingPending
  <2>5. ASSUME ~disturbed'
        PROVE  /\ position' = run'.expected
               /\ \A t \in Symbol : run'.order[t] # 0 => position'[t] = reference'[t]
    <3>1. /\ run.pc = "submit" /\ position = run.expected
          /\ \A t \in Symbol : run.order[t] # 0 => position[t] = reference[t]
      BY <1>1, <2>3, <2>4, <2>5 DEF SubmitFilled, Sending, Explained
    <3>2. \A t \in Symbol : run'.order[t] # 0 => t # s /\ run.order[t] # 0
      BY <2>2 DEF Run
    <3> QED
      BY <2>2, <2>3, <3>1, <3>2
  <2> QED
    BY <2>2, <2>4, <2>5 DEF Explained
<1>2. CASE run' \in {Deviated, IdleRun}
  <2>1. ~Deviated.clean /\ Deviated.pc = run.pc
    BY Deviates
  <2>2. CASE run' = IdleRun
    BY <2>2 DEF Explained, Unspoilt, IdleRun
  <2>3. CASE run' = Deviated /\ run.pc = "submit"
    BY <2>1, <2>3 DEF Explained, Unspoilt
  <2> QED
    BY <1>1, <1>2, <2>2, <2>3 DEF SubmitShort, SubmitLost, Sending
<1> QED
  BY <1>1, <1>2 DEF SubmitShort, SubmitLost

LEMMA ExplainedOutside ==
  ASSUME TypeOK, Explained, Exchange \/ Owner \/ UNCHANGED vars
  PROVE  Explained'
<1> run \in Run
  BY DEF TypeOK
<1>1. ASSUME NEW s \in Symbol, NEW k \in PartsOf(pending[s].qty), Execute(s, k)
      PROVE  Explained'
  BY <1>1 DEF Execute, Explained, Unspoilt, NothingPending
<1>2. ASSUME NEW s \in Symbol, Vanish(s)
      PROVE  Explained'
  BY <1>2 DEF Vanish, Explained, Unspoilt, NothingPending
<1>3. ASSUME NEW s \in Symbol, NEW p \in Position, ExternalTrade(s, p)
      PROVE  Explained'
  BY <1>3 DEF ExternalTrade, Explained, Unspoilt, NothingPending
<1>4. CASE Genesis
  BY <1>4 DEF Genesis, Explained, Unspoilt, NothingPending
<1>5. CASE NewSlot
  <2>1. /\ run'.pc = run.pc /\ run'.clean = run.clean
        /\ run'.order = run.order /\ run'.expected = run.expected
    BY <1>5, Overtaken DEF NewSlot, SameOrders
  <2> QED
    BY <1>5, <2>1 DEF NewSlot, Explained, Unspoilt, NothingPending
<1>6. CASE (\E grant \in Grants : Authorize(grant)) \/ UNCHANGED vars
  BY <1>6 DEF Authorize, Explained, Unspoilt, NothingPending, vars
<1> QED
  BY <1>1, <1>2, <1>3, <1>4, <1>5, <1>6 DEF Exchange, Owner

LEMMA AlwaysExplained == Spec => [](TypeOK /\ Explained)
<1>1. Init => Explained
  BY DEF Init, Explained, Unspoilt, IdleRun
<1>2. TypeOK /\ Explained /\ [Next]_vars => Explained'
  BY ExplainedCycle, ExplainedSubmit, ExplainedOutside DEF Next, Cycle
<1> QED
  BY <1>1, <1>2, Typed, PTL DEF Spec

\* No order leaves from an account that the last clean run, or the owner, has
\* not accounted for, nor while an earlier order may still execute: whatever
\* was rejected, lost, filled in part or left behind by a dead run.
THEOREM Explains == Spec => []OrdersAreExplained
<1>1. TypeOK /\ Explained => OrdersAreExplained
  BY DEF TypeOK, Explained, Unspoilt, OrdersAreExplained
<1> QED
  BY <1>1, AlwaysExplained, PTL

\* A run that becomes the reference left the account where it says, sent all
\* its orders, and none of them can execute later.
THEOREM CleanRunsAreDone == Spec => CleanRunIsDone
<1> DEFINE Done == run.pc = "submit" /\ run'.pc = "post" /\ run'.clean =>
      position = reference' /\ run.order = Zero /\ NothingPending
<1>1. TypeOK /\ Explained /\ [Next]_vars => [Done]_vars
  <2> SUFFICES ASSUME TypeOK, Explained, Next, run.pc = "submit", run'.pc = "post", run'.clean
               PROVE  position = reference' /\ run.order = Zero /\ NothingPending
    OBVIOUS
  <2> run \in Run
    BY DEF TypeOK
  <2>1. CASE Reconcile
    <3>1. Reconciled
      <4>1. Reconciled \in BOOLEAN
        BY DEF Reconciled, Matches, Run
      <4> QED
        BY <2>1, <4>1, Recorded DEF Reconcile
    <3> QED
      BY <2>1, <3>1 DEF Reconcile, Reconciled, Matches, Explained, Unspoilt
  <2>2. CASE ~Reconcile
    <3>1. ASSUME NEW s \in Symbol,
                 \/ SubmitFilled(s)
                 \/ \E k \in PartsOf(run.order[s]) :
                      \E remainder \in {0, run.order[s] - k} : SubmitShort(s, k, remainder)
                 \/ \E caught \in BOOLEAN : SubmitLost(s, caught)
          PROVE  FALSE
      <4>2. SubmitFilled(s) => run'.pc = "submit"
        BY FilledRun
      <4> QED
        BY <3>1, <4>2, Deviates DEF SubmitShort, SubmitLost, IdleRun
    <3>2. CASE Exchange \/ Owner
      BY <3>2, Overtaken DEF Exchange, Owner, Execute, Vanish, ExternalTrade, Genesis, Authorize, NewSlot
    <3>3. CASE Abandon
      BY <3>3 DEF Abandon, Stop, IdleRun
    <3> QED
      BY <2>2, <3>1, <3>2, <3>3 DEF Next, Cycle, Monitor, Plan, Preflight, PostMonitor, Complete, Consume
  <2> QED
    BY <2>1, <2>2
<1> QED
  BY <1>1, AlwaysExplained, PTL DEF Spec, CleanRunIsDone

--------------------------------------------------------------------------------
(* Where a run of the current slot will have left the account when all its     *)
(* orders are filled: order and expectation move in opposite directions, so     *)
(* their sum is what the plan meant.                                            *)

Remaining(s) == run.expected[s] + run.order[s]

Meant(s) == \/ Settled(Remaining(s), slot.target[s])
            \/ s \in run.secondPhase /\ Remaining(s) = 0

Reaches ==
  /\ run.pc \in {"preflight", "submit", "post", "complete"} /\ run.ownSlot /\ ~run.deferred =>
       \A s \in Symbol : Meant(s)
  /\ run.pc = "complete" \/ (run.pc = "post" /\ run.clean) => run.order = Zero

\* A row without an intent that does not wait either has nothing to do; an
\* intent closes a flip and reaches every other target.
LEMMA PlanMeans ==
  ASSUME NEW current \in [Symbol -> Int], NEW target \in [Symbol -> Int], NEW s \in Symbol,
         ~Blocked(current[s], target[s]), ~Defers(current, target)
  PROVE  LET meant == current[s] + Intents(current, target)[s]
         IN  \/ Settled(meant, target[s])
             \/ s \in SecondPhase(current, target) /\ meant = 0
<1> DEFINE c == current[s]
<1> DEFINE t == target[s]
<1>1. CASE Intents(current, target)[s] = 0
  BY <1>1 DEF Defers, Settled
<1>2. CASE Intents(current, target)[s] # 0
  <2>1. Executable(c, t) /\ Intents(current, target)[s] = OrderDelta(c, t)
    BY <1>2 DEF Intents
  <2>2. CASE Opposite(c, t)
    <3>1. c + OrderDelta(c, t) = 0
      BY <2>2 DEF OrderDelta
    <3> QED
      BY <2>1, <2>2, <3>1 DEF SecondPhase
  <2>3. CASE ~Opposite(c, t)
    <3>1. c + OrderDelta(c, t) = t
      BY <2>3 DEF OrderDelta
    <3>2. Settled(t, t)
      BY DEF Settled, Executable, Blocked, BelowMin
    <3> QED
      BY <2>1, <3>1, <3>2
  <2> QED
    BY <2>2, <2>3
<1> QED
  BY <1>1, <1>2

\* A plan without orders that does not block has nothing left to do.
LEMMA NoOrderMeansSettled ==
  ASSUME NEW current \in [Symbol -> Int], NEW target \in [Symbol -> Int], NEW s \in Symbol,
         ~Blocked(current[s], target[s]), Intents(current, target) = Zero
  PROVE  Settled(current[s], target[s])
<1>1. \A r \in Symbol : Executable(current[r], target[r]) => OrderDelta(current[r], target[r]) # 0
  BY DEF Executable, OrderDelta, Opposite
<1>2. ~ReduceFirst(current, target)
  <2> SUFFICES ASSUME NEW r \in Symbol, MustReduce(r, current, target) PROVE FALSE
    BY DEF ReduceFirst
  <2>1. Intents(current, target)[r] = OrderDelta(current[r], target[r])
    BY DEF MustReduce, Intents
  <2> QED
    BY <1>1, <2>1 DEF MustReduce, Zero
<1>3. Executable(current[s], target[s]) => Intents(current, target)[s] = OrderDelta(current[s], target[s])
  BY <1>2 DEF Intents
<1> QED
  BY <1>1, <1>3 DEF Zero, Settled

LEMMA ReachesSame ==
  ASSUME Reaches, slot'.target = slot.target, SameOrders(run, run'),
         \/ UNCHANGED <<run.pc, run.clean>>
         \/ run'.pc \in {"preflight", "submit"} /\ run.pc \in {"preflight", "submit"}
         \/ run'.pc = "complete" /\ run.pc = "post" /\ run.clean,
         run'.ownSlot => run.ownSlot
  PROVE  Reaches'
  BY DEF Reaches, Meant, Remaining, SameOrders

LEMMA ReachesCycle ==
  ASSUME TypeOK, Reaches,
         Monitor \/ (\E target \in [Symbol -> Target] : Plan(target)) \/ Preflight
         \/ Reconcile \/ PostMonitor \/ Complete \/ Consume \/ Abandon
  PROVE  Reaches'
<1> run \in Run /\ slot \in Slot /\ position \in [Symbol -> Int]
  BY DEF TypeOK
<1>1. CASE run'.pc \in {"idle", "plan", "consume"}
  BY <1>1 DEF Reaches
<1>2. ASSUME NEW target \in [Symbol -> Target], Plan(target), run'.pc \notin {"idle", "plan"}
      PROVE  Reaches'
  <2>1. run' # IdleRun
    BY <1>2 DEF IdleRun
  <2>2. /\ run'.pc = "preflight" /\ run'.order = Intents(position, target)
        /\ run'.expected = position /\ run'.secondPhase = SecondPhase(position, target)
        /\ run'.deferred = Defers(position, target)
        /\ \A s \in Symbol : ~Blocked(position[s], target[s])
    BY <1>2, <2>1 DEF Plan, Stop, Run
  <2>3. slot'.target = target
    BY <1>2 DEF Plan, Slot
  <2>4. target \in [Symbol -> Int]
    BY RebalanceAssumption
  <2>5. ~Defers(position, target) => \A s \in Symbol : Meant(s)'
    BY <2>2, <2>3, <2>4, PlanMeans DEF Meant, Remaining
  <2> QED
    BY <2>2, <2>5 DEF Reaches
<1>3. CASE Preflight
  BY <1>3, Advanced, ReachesSame DEF Preflight
<1>4. CASE Reconcile
  <2>1. Reconciled \in BOOLEAN
    BY DEF Reconciled, Matches, Run
  <2>2. /\ run'.pc = "post" /\ run'.clean = Reconciled
        /\ run'.ownSlot = run.ownSlot /\ SameOrders(run, run')
    BY <1>4, <2>1, Recorded DEF Reconcile
  <2>3. run'.clean => run'.order = Zero
    BY <1>4, <2>2 DEF Reconcile, Reconciled, SameOrders
  <2> QED
    BY <1>4, <2>2, <2>3 DEF Reconcile, Reaches, Meant, Remaining, SameOrders
<1>5. CASE PostMonitor /\ run' # IdleRun
  <2>1. run' = [run EXCEPT !.pc = "complete"] /\ run.pc = "post" /\ run.clean /\ slot' = slot
    BY <1>5 DEF PostMonitor, Stop
  <2> QED
    BY <2>1, Advanced, ReachesSame
<1>6. CASE Complete \/ Consume \/ Abandon \/ Monitor
  <2>1. [run EXCEPT !.pc = "consume"].pc = "consume"
    BY Advanced
  <2>2. IdleRun.pc = "idle" /\ [IdleRun EXCEPT !.pc = "plan"].pc = "plan"
    BY DEF IdleRun
  <2>3. run' \in {IdleRun, [run EXCEPT !.pc = "consume"], [IdleRun EXCEPT !.pc = "plan"]}
    BY <1>6, Zenon DEF Complete, Consume, Abandon, Monitor, Stop
  <2>4. run'.pc \in {"idle", "consume", "plan"}
    BY <2>1, <2>2, <2>3, Zenon
  <2> QED
    BY <1>1, <2>4
<1>7. IdleRun.pc = "idle"
  BY DEF IdleRun
<1> QED
  BY <1>1, <1>2, <1>3, <1>4, <1>5, <1>6, <1>7

LEMMA ReachesOther ==
  ASSUME TypeOK, Reaches,
         \/ \E s \in Symbol :
              \/ SubmitFilled(s)
              \/ \E k \in PartsOf(run.order[s]) :
                   \E remainder \in {0, run.order[s] - k} : SubmitShort(s, k, remainder)
              \/ \E caught \in BOOLEAN : SubmitLost(s, caught)
         \/ Exchange \/ Owner \/ UNCHANGED vars
  PROVE  Reaches'
<1> run \in Run /\ slot \in Slot
  BY DEF TypeOK
<1>1. ASSUME NEW s \in Symbol, SubmitFilled(s)
      PROVE  Reaches'
  <2>1. /\ run'.pc = "submit" /\ run.pc = "submit" /\ slot' = slot
        /\ run'.ownSlot = run.ownSlot /\ run'.deferred = run.deferred
        /\ run'.secondPhase = run.secondPhase
        /\ run'.order = [run.order EXCEPT ![s] = 0]
        /\ run'.expected = [run.expected EXCEPT ![s] = @ + run.order[s]]
    BY <1>1, FilledRun DEF SubmitFilled, Sending
  <2>2. run.order \in [Symbol -> Int] /\ run.expected \in [Symbol -> Int]
    BY DEF Run
  <2>3. \A r \in Symbol : run'.expected[r] + run'.order[r] = run.expected[r] + run.order[r]
    BY <2>1, <2>2
  <2> QED
    BY <2>1, <2>3 DEF Reaches, Meant, Remaining
<1>2. ASSUME NEW s \in Symbol,
             \/ \E k \in PartsOf(run.order[s]) :
                  \E remainder \in {0, run.order[s] - k} : SubmitShort(s, k, remainder)
             \/ \E caught \in BOOLEAN : SubmitLost(s, caught)
      PROVE  Reaches'
  <2>1. run' \in {Deviated, IdleRun} /\ slot' = slot /\ run.pc = "submit"
    BY <1>2 DEF SubmitShort, SubmitLost, Sending
  <2>2. CASE run' = IdleRun
    BY <2>2 DEF Reaches, IdleRun
  <2>3. CASE run' = Deviated
    BY <2>1, <2>3, Deviates, ReachesSame
  <2> QED
    BY <2>1, <2>2, <2>3
<1>3. CASE Exchange \/ Genesis \/ UNCHANGED vars
  BY <1>3 DEF Exchange, Execute, Vanish, ExternalTrade, Genesis, vars, Reaches, Meant, Remaining
<1>4. ASSUME NEW grant \in Grants, Authorize(grant)
      PROVE  Reaches'
  <2>1. slot'.target = slot.target /\ run' = run
    BY <1>4 DEF Authorize, Slot
  <2> QED
    BY <2>1 DEF Reaches, Meant, Remaining
<1>5. CASE NewSlot
  <2>1. slot'.target = slot.target
    BY <1>5 DEF NewSlot, Slot
  <2>2. run' \in {run, [run EXCEPT !.ownSlot = FALSE]}
    BY <1>5 DEF NewSlot
  <2> QED
    BY <2>1, <2>2, Overtaken, ReachesSame DEF SameOrders
<1> QED
  BY <1>1, <1>2, <1>3, <1>4, <1>5 DEF Owner

LEMMA AlwaysReaches == Spec => [](TypeOK /\ Reaches)
<1>1. Init => Reaches
  BY DEF Init, Reaches, IdleRun
<1>2. TypeOK /\ Reaches /\ [Next]_vars => Reaches'
  BY ReachesCycle, ReachesOther DEF Next, Cycle
<1> QED
  BY <1>1, <1>2, Typed, PTL DEF Spec

\* A slot is completed when every symbol is where the planner would leave it
\* alone, except for positions this very run flipped.
THEOREM CompletedOrFlipped == Spec => OnlyFlipsMissing
<1> DEFINE CompletionStep == Completes =>
      \A s \in Symbol : \/ Settled(Accounted[s], slot'.target[s])
                        \/ s \in run.secondPhase /\ Accounted[s] = 0
<1>1. TypeOK /\ Reaches /\ [Next]_vars => [CompletionStep]_vars
  <2> SUFFICES ASSUME TypeOK, Reaches, Next, Completes, NEW s \in Symbol
               PROVE  \/ Settled(Accounted[s], slot'.target[s])
                      \/ s \in run.secondPhase /\ Accounted[s] = 0
    OBVIOUS
  <2> run \in Run /\ slot \in Slot /\ position \in [Symbol -> Int]
    BY DEF TypeOK
  <2>1. ASSUME NEW target \in [Symbol -> Target], Plan(target)
        PROVE  Settled(Accounted[s], slot'.target[s])
    <3>1. target \in [Symbol -> Int]
      BY RebalanceAssumption
    <3>2. /\ Intents(position, target) = Zero /\ ~Blocked(position[s], target[s])
          /\ slot'.target = target /\ run.pc = "plan"
      BY <2>1 DEF Plan, Completes, Slot
    <3> QED
      BY <3>1, <3>2, NoOrderMeansSettled DEF Accounted
  <2>2. CASE Complete
    <3>1. run.pc = "complete" /\ run.ownSlot /\ ~run.deferred /\ slot'.target = slot.target
      BY <2>2 DEF Complete, SlotDone, Completes, Slot
    <3>2. run.order[s] = 0 /\ Meant(s) /\ run.expected[s] \in Int
      BY <3>1 DEF Reaches, Zero, Run
    <3>3. Remaining(s) = Accounted[s]
      BY <3>1, <3>2 DEF Remaining, Accounted
    <3> QED
      BY <3>1, <3>2, <3>3 DEF Meant
  <2>3. CASE slot' = slot
    BY <2>3 DEF Completes
  <2>4. CASE slot'.status # "completed" \/ slot.status # "open"
    BY <2>4 DEF Completes
  <2>5. CASE Consume \/ Owner
    BY <2>4, <2>5 DEF Consume, Owner, Genesis, Authorize, NewSlot, Completes, Slot
  <2> QED
    BY <2>1, <2>2, <2>3, <2>5 DEF Next, Cycle, Exchange, Monitor, Preflight, SubmitFilled, SubmitShort,
       SubmitLost, Reconcile, PostMonitor, Abandon, Execute, Vanish, ExternalTrade
<1> QED
  BY <1>1, AlwaysReaches, PTL DEF Spec, OnlyFlipsMissing

--------------------------------------------------------------------------------
(* Every order that is to be sent or may still execute leads towards the       *)
(* target of the slot, and one that may enlarge a position exists only when     *)
(* nothing has to be reduced any more.                                          *)

Heads(c, t, q, reduceOnly) ==
  /\ q \in PartsOf(t - c)
  /\ ~reduceOnly /\ q # 0 => ~Reduces(c, t)

InPhase(reduceOnly, current, target) == ~reduceOnly => ~ReduceFirst(current, target)

ToSend == run.pc = "preflight" \/ (run.pc = "submit" /\ run.clean)

Heading ==
  ~disturbed =>
    /\ ToSend =>
         /\ InPhase(run.reduceOnly, position, slot.target)
         /\ \A s \in Symbol : Heads(position[s], slot.target[s], run.order[s], run.reduceOnly)
    /\ \A s \in Symbol : pending[s].kind # "none" =>
         /\ InPhase(pending[s].reduceOnly, position, slot.target)
         /\ Heads(position[s], slot.target[s], pending[s].qty, pending[s].reduceOnly)
    /\ \A r, s \in Symbol : pending[r].kind # "none" /\ pending[s].kind # "none" => r = s

LEMMA RestOf ==
  ASSUME NEW q, NEW reduceOnly, Rest(q, reduceOnly).kind # "none"
  PROVE  /\ q # 0
         /\ Rest(q, reduceOnly).qty = q /\ Rest(q, reduceOnly).reduceOnly = reduceOnly
<1>1. q # 0
  BY DEF Rest, Nothing
<1> QED
  BY <1>1 DEF Rest

LEMMA PartHeads ==
  ASSUME NEW c \in Int, NEW t \in Int, NEW q \in Int, NEW reduceOnly \in BOOLEAN,
         Heads(c, t, q, reduceOnly), NEW k \in PartsOf(q)
  PROVE  /\ Between(c + k, c, t)
         /\ Heads(c + k, t, q - k, reduceOnly)
         /\ ~reduceOnly /\ k # 0 => ~Reduces(c + k, t)
<1>1. k \in Int /\ q \in PartsOf(t - c)
  BY Parts DEF Heads
<1>2. Between(c + k, c, t)
  BY <1>1 DEF PartsOf, Between
<1>3. q - k \in PartsOf(t - (c + k))
  BY <1>1 DEF PartsOf
<1>4. ASSUME ~reduceOnly, q # 0
      PROVE  ~Reduces(c + k, t)
  BY <1>1, <1>4 DEF Heads, PartsOf, Reduces, Exits, SameSide, Opposite, Abs
<1>5. k # 0 => q # 0
  BY <1>1 DEF PartsOf
<1>6. q - k # 0 => q # 0
  BY <1>1 DEF PartsOf
<1> QED
  BY <1>2, <1>3, <1>4, <1>5, <1>6 DEF Heads

\* A part of an order executes: the account keeps its phase.
LEMMA PartKeepsPhase ==
  ASSUME TypeOK, NEW s \in Symbol, NEW q \in Int, NEW k \in PartsOf(q), NEW reduceOnly \in BOOLEAN,
         Heads(position[s], slot.target[s], q, reduceOnly), InPhase(reduceOnly, position, slot.target),
         position' = [position EXCEPT ![s] = @ + k], slot' = slot
  PROVE  InPhase(reduceOnly, position', slot'.target)
<1>1. position[s] \in Int /\ slot.target[s] \in Int /\ k \in Int
  BY Parts DEF TypeOK, Slot
<1>2. /\ position'[s] = position[s] + k
      /\ \A r \in Symbol \ {s} : position'[r] = position[r]
  BY DEF TypeOK
<1>3. SUFFICES ASSUME ~reduceOnly, NEW r \in Symbol, MustReduce(r, position', slot.target)
               PROVE  FALSE
  BY DEF InPhase, ReduceFirst
<1>4. ~MustReduce(r, position, slot.target)
  BY <1>3 DEF InPhase, ReduceFirst
<1>5. r = s /\ k # 0
  BY <1>1, <1>2, <1>3, <1>4 DEF MustReduce
<1>6. ~Reduces(position'[s], slot.target[s])
  BY <1>1, <1>2, <1>3, <1>5, PartHeads
<1> QED
  BY <1>3, <1>5, <1>6 DEF MustReduce

\* The step of a part: it goes towards the target, and grows only in phase.
MovesTowards(s) ==
  /\ \A r \in Symbol \ {s} : position'[r] = position[r]
  /\ Between(position'[s], position[s], slot.target[s])
  /\ Abs(position'[s]) > Abs(position[s]) => ~ReduceFirst(position, slot.target)

LEMMA PartMoves ==
  ASSUME TypeOK, NEW s \in Symbol, NEW q \in Int, NEW k \in PartsOf(q), NEW reduceOnly \in BOOLEAN,
         Heads(position[s], slot.target[s], q, reduceOnly), InPhase(reduceOnly, position, slot.target),
         MayExecute(s, k, reduceOnly),
         position' = [position EXCEPT ![s] = @ + k]
  PROVE  MovesTowards(s)
<1>1. position[s] \in Int /\ slot.target[s] \in Int /\ k \in Int
  BY Parts DEF TypeOK, Slot
<1>2. /\ position'[s] = position[s] + k
      /\ \A r \in Symbol \ {s} : position'[r] = position[r]
  BY DEF TypeOK
<1>3. Between(position'[s], position[s], slot.target[s])
  BY <1>1, <1>2, PartHeads
<1>4. reduceOnly => ~(Abs(position'[s]) > Abs(position[s]))
  BY <1>1, <1>2 DEF MayExecute, PartsOf, Abs
<1> QED
  BY <1>2, <1>3, <1>4 DEF MovesTowards, InPhase

LEMMA PlanHeads ==
  ASSUME NEW current \in [Symbol -> Int], NEW target \in [Symbol -> Int], NEW s \in Symbol
  PROVE  Heads(current[s], target[s], Intents(current, target)[s], ReduceFirst(current, target))
<1> DEFINE c == current[s]
<1> DEFINE t == target[s]
<1> DEFINE q == Intents(current, target)[s]
<1>1. CASE q = 0
  BY <1>1 DEF Heads, PartsOf
<1>2. CASE q # 0
  <2>1. Executable(c, t) /\ q = OrderDelta(c, t)
    BY <1>2 DEF Intents
  <2>2. ~ReduceFirst(current, target) => ~Reduces(c, t)
    BY <2>1 DEF ReduceFirst, MustReduce
  <2>3. OrderDelta(c, t) \in PartsOf(t - c)
    BY DEF OrderDelta, Opposite, PartsOf
  <2> QED
    BY <2>1, <2>2, <2>3 DEF Heads
<1> QED
  BY <1>1, <1>2

LEMMA HeadingCycle ==
  ASSUME TypeOK, Explained, Heading,
         Monitor \/ (\E target \in [Symbol -> Target] : Plan(target)) \/ Preflight
         \/ Reconcile \/ PostMonitor \/ Complete \/ Consume \/ Abandon
  PROVE  Heading'
<1> run \in Run /\ slot \in Slot /\ pending \in [Symbol -> Pending] /\ position \in [Symbol -> Int]
  BY DEF TypeOK
<1>1. CASE Monitor
  <2>1. NothingPending'
    BY <1>1 DEF Monitor, Matches, RequestsExpired, NothingRests, NothingPending, Pending
  <2>2. run'.pc = "plan"
    BY <1>1 DEF Monitor, IdleRun
  <2> QED
    BY <2>1, <2>2 DEF Heading, ToSend, NothingPending
<1>2. ASSUME NEW target \in [Symbol -> Target], Plan(target)
      PROVE  Heading'
  <2>1. NothingPending'
    BY <1>2 DEF Plan, Explained, Unspoilt, NothingPending
  <2>2. CASE run' = IdleRun
    BY <2>1, <2>2 DEF Heading, ToSend, NothingPending, IdleRun
  <2>3. CASE run' # IdleRun
    <3>1. /\ run'.order = Intents(position, target)
          /\ run'.reduceOnly = ReduceFirst(position, target)
      BY <1>2, <2>3 DEF Plan, Stop, Run
    <3>2. slot'.target = target /\ target \in [Symbol -> Int] /\ position' = position
      BY <1>2, RebalanceAssumption DEF Plan, Slot
    <3> QED
      BY <2>1, <3>1, <3>2, PlanHeads DEF Heading, InPhase, NothingPending
  <2> QED
    BY <2>2, <2>3
<1>3. CASE Preflight
  <2>1. /\ run'.order = run.order /\ run'.reduceOnly = run.reduceOnly
        /\ run.pc = "preflight"
    BY <1>3, Advanced DEF Preflight, SameOrders
  <2> QED
    BY <1>3, <2>1 DEF Preflight, Heading, ToSend, InPhase
<1>4. CASE Reconcile \/ PostMonitor \/ Complete \/ Consume \/ Abandon
  <2>1. run'.pc \in {"idle", "post", "complete", "consume"}
    <3>1. CASE Reconcile
      BY <3>1, Recorded DEF Reconcile, Reconciled, Matches, Run
    <3>2. CASE PostMonitor \/ Complete \/ Consume \/ Abandon
      <4>1. run' \in {IdleRun, [run EXCEPT !.pc = "complete"], [run EXCEPT !.pc = "consume"]}
        BY <3>2, Zenon DEF PostMonitor, Complete, Consume, Abandon, Stop
      <4>2. /\ [run EXCEPT !.pc = "complete"].pc = "complete"
            /\ [run EXCEPT !.pc = "consume"].pc = "consume"
        BY Advanced
      <4>3. IdleRun.pc = "idle"
        BY DEF IdleRun
      <4> QED
        BY <4>1, <4>2, <4>3, Zenon
    <3> QED
      BY <1>4, <3>1, <3>2
  <2>2. slot'.target = slot.target /\ UNCHANGED <<position, pending, disturbed>>
    BY <1>4 DEF Reconcile, PostMonitor, Complete, Consume, Abandon, Slot
  <2> QED
    BY <2>1, <2>2 DEF Heading, ToSend, InPhase
<1> QED
  BY <1>1, <1>2, <1>3, <1>4

\* Orders on their way to or at the exchange.
LEMMA HeadingSubmit ==
  ASSUME TypeOK, Explained, Heading, ~disturbed, NEW s \in Symbol,
         \/ SubmitFilled(s)
         \/ \E k \in PartsOf(run.order[s]) :
              \E remainder \in {0, run.order[s] - k} : SubmitShort(s, k, remainder)
         \/ \E caught \in BOOLEAN : SubmitLost(s, caught)
  PROVE  Heading' /\ (position' = position \/ MovesTowards(s))
<1> DEFINE q == run.order[s]
<1>0. /\ run \in Run /\ slot \in Slot /\ position \in [Symbol -> Int] /\ pending \in [Symbol -> Pending]
      /\ q \in Int /\ run.reduceOnly \in BOOLEAN
      /\ position[s] \in Int /\ slot.target[s] \in Int
  BY DEF TypeOK, Run, Slot
<1>1. Sending(s) /\ slot' = slot /\ disturbed' = disturbed
  BY DEF SubmitFilled, SubmitShort, SubmitLost
<1>2. /\ ToSend /\ NothingPending /\ InPhase(run.reduceOnly, position, slot.target)
      /\ \A r \in Symbol : Heads(position[r], slot.target[r], run.order[r], run.reduceOnly)
  BY <1>1 DEF Sending, ToSend, Heading, Explained, Unspoilt
<1>3. CASE SubmitFilled(s)
  <2>1. /\ run'.order = [run.order EXCEPT ![s] = 0]
        /\ run'.reduceOnly = run.reduceOnly
    BY <1>0, <1>3, FilledRun
  <2>2. /\ position' = [position EXCEPT ![s] = @ + q] /\ q \in PartsOf(q)
        /\ MayExecute(s, q, run.reduceOnly) /\ pending' = pending
    BY <1>0, <1>3 DEF SubmitFilled, PartsOf
  <2>3. MovesTowards(s) /\ InPhase(run.reduceOnly, position', slot'.target)
    BY <1>0, <1>1, <1>2, <2>2, PartMoves, PartKeepsPhase
  <2>4. Heads(position[s] + q, slot.target[s], q - q, run.reduceOnly)
    BY <1>0, <1>2, <2>2, PartHeads
  <2>5. q - q = 0 /\ position'[s] = position[s] + q /\ run'.order[s] = 0
    BY <1>0, <2>1, <2>2 DEF Run
  <2>6. \A r \in Symbol \ {s} : position'[r] = position[r] /\ run'.order[r] = run.order[r]
    BY <1>0, <2>1, <2>2 DEF Run
  <2>7. \A r \in Symbol : Heads(position'[r], slot'.target[r], run'.order[r], run'.reduceOnly)
    <3> TAKE r \in Symbol
    <3>1. CASE r = s
      BY <1>1, <2>1, <2>4, <2>5, <3>1
    <3>2. CASE r # s
      BY <1>1, <1>2, <2>1, <2>6, <3>2
    <3> QED
      BY <3>1, <3>2
  <2> QED
    BY <1>2, <2>1, <2>2, <2>3, <2>7 DEF Heading, NothingPending, InPhase
<1>4. ASSUME NEW k \in PartsOf(q), NEW remainder \in {0, q - k}, SubmitShort(s, k, remainder)
      PROVE  Heading' /\ MovesTowards(s)
  <2>1. /\ position' = [position EXCEPT ![s] = @ + k]
        /\ pending' = [pending EXCEPT ![s] = Rest(remainder, run.reduceOnly)]
        /\ MayExecute(s, k, run.reduceOnly) /\ run' = Deviated
    BY <1>4 DEF SubmitShort
  <2>2. MovesTowards(s) /\ InPhase(run.reduceOnly, position', slot'.target)
    BY <1>0, <1>1, <1>2, <2>1, PartMoves, PartKeepsPhase
  <2>3. Heads(position[s] + k, slot.target[s], q - k, run.reduceOnly)
    BY <1>0, <1>2, PartHeads
  <2>4. position'[s] = position[s] + k /\ pending'[s] = Rest(remainder, run.reduceOnly)
    BY <1>0, <2>1
  <2>5. ~ToSend'
    BY <1>0, <2>1, <1>1, Deviates DEF ToSend, Sending
  <2>6. \A r \in Symbol \ {s} : pending'[r].kind = "none"
    BY <1>0, <1>2, <2>1 DEF NothingPending
  <2>7. pending'[s].kind # "none" =>
          pending'[s].qty = q - k /\ pending'[s].reduceOnly = run.reduceOnly
    BY <1>4, <2>4, RestOf
  <2> QED
    BY <1>1, <2>2, <2>3, <2>4, <2>5, <2>6, <2>7 DEF Heading, InPhase
<1>5. ASSUME NEW caught \in BOOLEAN, SubmitLost(s, caught)
      PROVE  Heading' /\ position' = position
  <2>1. /\ position' = position /\ run' \in {Deviated, IdleRun}
        /\ pending' = [pending EXCEPT ![s] =
             [kind |-> "inflight", qty |-> q, reduceOnly |-> run.reduceOnly]]
    BY <1>5 DEF SubmitLost
  <2>2. ~ToSend'
    BY <1>0, <1>1, <2>1, Deviates DEF ToSend, Sending, IdleRun
  <2>3. \A r \in Symbol \ {s} : pending'[r].kind = "none"
    BY <1>0, <1>2, <2>1 DEF NothingPending
  <2>4. pending'[s].qty = q /\ pending'[s].reduceOnly = run.reduceOnly
    BY <1>0, <2>1
  <2> QED
    BY <1>1, <1>2, <2>1, <2>2, <2>3, <2>4 DEF Heading, InPhase
<1> QED
  BY <1>3, <1>4, <1>5

LEMMA HeadingOutside ==
  ASSUME TypeOK, Explained, Heading, Exchange \/ Owner \/ UNCHANGED vars
  PROVE  Heading' /\ (~disturbed' => \A s \in Symbol : position'[s] # position[s] => MovesTowards(s))
<1>0. run \in Run /\ slot \in Slot /\ position \in [Symbol -> Int] /\ pending \in [Symbol -> Pending]
  BY DEF TypeOK
<1>1. ASSUME NEW s \in Symbol, NEW k \in PartsOf(pending[s].qty), Execute(s, k), ~disturbed
      PROVE  Heading' /\ MovesTowards(s)
  <2> DEFINE q == pending[s].qty
  <2> DEFINE reduceOnly == pending[s].reduceOnly
  <2>1. /\ q \in Int /\ reduceOnly \in BOOLEAN /\ position[s] \in Int /\ slot.target[s] \in Int
        /\ k \in Int
    BY <1>0, Parts DEF Pending, Slot
  <2>2. /\ pending[s].kind # "none" /\ MayExecute(s, k, reduceOnly)
        /\ position' = [position EXCEPT ![s] = @ + k]
        /\ pending' = [pending EXCEPT ![s] = Rest(q - k, reduceOnly)]
        /\ slot' = slot /\ run' = run
    BY <1>1 DEF Execute
  <2>3. InPhase(reduceOnly, position, slot.target) /\ Heads(position[s], slot.target[s], q, reduceOnly)
    BY <1>1, <2>2 DEF Heading
  <2>4. MovesTowards(s)
    BY <2>1, <2>2, <2>3, PartMoves
  <2>5. /\ position'[s] = position[s] + k /\ pending'[s] = Rest(q - k, reduceOnly)
        /\ \A r \in Symbol \ {s} : position'[r] = position[r] /\ pending'[r] = pending[r]
    BY <1>0, <2>2
  <2>6. ~ToSend'
    BY <2>2 DEF ToSend, Explained, Unspoilt, NothingPending
  <2>7. ASSUME NEW r \in Symbol, pending'[r].kind # "none"
        PROVE  /\ InPhase(pending'[r].reduceOnly, position', slot'.target)
               /\ Heads(position'[r], slot'.target[r], pending'[r].qty, pending'[r].reduceOnly)
    <3>1. CASE r = s
      <4>1. pending'[s].qty = q - k /\ pending'[s].reduceOnly = reduceOnly
        BY <2>5, <2>7, <3>1, RestOf
      <4>2. Heads(position[s] + k, slot.target[s], q - k, reduceOnly)
        BY <2>1, <2>3, PartHeads
      <4>3. InPhase(reduceOnly, position', slot'.target)
        BY <2>1, <2>2, <2>3, PartKeepsPhase
      <4> QED
        BY <2>2, <2>5, <3>1, <4>1, <4>2, <4>3 DEF InPhase
    <3>2. CASE r # s
      BY <1>1, <2>2, <2>5, <2>7, <3>2 DEF Heading
    <3> QED
      BY <3>1, <3>2
  <2>8. \A r \in Symbol : pending'[r].kind # "none" => r = s
    BY <1>1, <2>2, <2>5 DEF Heading
  <2> QED
    BY <2>4, <2>6, <2>7, <2>8 DEF Heading
<1>2. ASSUME NEW s \in Symbol, Vanish(s)
      PROVE  Heading' /\ position' = position
  <2>1. /\ UNCHANGED <<position, slot, run, disturbed>>
        /\ \A r \in Symbol : pending'[r] = pending[r] \/ pending'[r].kind = "none"
    BY <1>0, <1>2 DEF Vanish, Nothing
  <2> QED
    BY <2>1 DEF Heading, ToSend
<1>3. CASE disturbed'
  BY <1>3 DEF Heading
<1>4. CASE Genesis \/ (\E grant \in Grants : Authorize(grant)) \/ UNCHANGED vars
  <2>1. UNCHANGED <<position, pending, run, disturbed>> /\ slot'.target = slot.target
    BY <1>0, <1>4 DEF Genesis, Authorize, vars, Slot
  <2> QED
    BY <2>1 DEF Heading, ToSend
<1>5. CASE NewSlot
  <2>1. UNCHANGED <<position, pending, disturbed>> /\ slot'.target = slot.target
    BY <1>0, <1>5 DEF NewSlot, Slot
  <2>2. /\ run'.pc = run.pc /\ run'.clean = run.clean
        /\ run'.order = run.order /\ run'.reduceOnly = run.reduceOnly
    BY <1>0, <1>5, Overtaken DEF NewSlot, SameOrders
  <2> QED
    BY <2>1, <2>2 DEF Heading, ToSend
<1>6. ASSUME NEW s \in Symbol, NEW p \in Position, ExternalTrade(s, p)
      PROVE  disturbed'
  BY <1>6 DEF ExternalTrade
<1>7. ASSUME NEW s \in Symbol, MovesTowards(s), NEW r \in Symbol, position'[r] # position[r]
      PROVE  MovesTowards(r)
  BY <1>7 DEF MovesTowards
<1>8. ASSUME NEW s \in Symbol, NEW k \in PartsOf(pending[s].qty), Execute(s, k)
      PROVE  disturbed' = disturbed
  BY <1>8 DEF Execute
<1> QED
  BY <1>1, <1>2, <1>3, <1>4, <1>5, <1>6, <1>7, <1>8 DEF Exchange, Owner, Genesis, Authorize, NewSlot, vars

LEMMA AlwaysHeading == Spec => [](TypeOK /\ Explained /\ Heading)
<1>1. Init => Heading
  BY DEF Init, Heading, ToSend, IdleRun, Nothing
<1>2. TypeOK /\ Explained /\ Heading /\ [Next]_vars => Heading'
  <2> SUFFICES ASSUME TypeOK, Explained, Heading, [Next]_vars PROVE Heading'
    OBVIOUS
  <2>1. ASSUME NEW s \in Symbol,
               \/ SubmitFilled(s)
               \/ \E k \in PartsOf(run.order[s]) :
                    \E remainder \in {0, run.order[s] - k} : SubmitShort(s, k, remainder)
               \/ \E caught \in BOOLEAN : SubmitLost(s, caught)
        PROVE  Heading'
    <3>1. CASE ~disturbed
      BY <2>1, <3>1, HeadingSubmit
    <3>2. CASE disturbed
      BY <2>1, <3>2 DEF SubmitFilled, SubmitShort, SubmitLost, Heading
    <3> QED
      BY <3>1, <3>2
  <2> QED
    BY <2>1, HeadingCycle, HeadingOutside DEF Next, Cycle
<1> QED
  BY <1>1, <1>2, AlwaysExplained, PTL DEF Spec

\* Whatever is filled late, in part or twice over the cycles of a slot, the
\* account approaches the target, and nothing grows while something must shrink.
THEOREM OnlyTowardsTarget == Spec => MovesTowardsTarget
<1> DEFINE Towards == ~disturbed' =>
      \A s \in Symbol : position'[s] # position[s] =>
        /\ Between(position'[s], position[s], slot.target[s])
        /\ Abs(position'[s]) > Abs(position[s]) => ~ReduceFirst(position, slot.target)
<1>1. TypeOK /\ Explained /\ Heading /\ [Next]_vars => [Towards]_vars
  <2> SUFFICES ASSUME TypeOK, Explained, Heading, Next, ~disturbed',
                      NEW s \in Symbol, position'[s] # position[s]
               PROVE  MovesTowards(s)
    BY DEF MovesTowards
  <2>1. ASSUME NEW r \in Symbol,
               \/ SubmitFilled(r)
               \/ \E k \in PartsOf(run.order[r]) :
                    \E remainder \in {0, run.order[r] - k} : SubmitShort(r, k, remainder)
               \/ \E caught \in BOOLEAN : SubmitLost(r, caught)
        PROVE  MovesTowards(s)
    <3>1. ~disturbed
      BY <2>1 DEF SubmitFilled, SubmitShort, SubmitLost
    <3>2. position' = position \/ MovesTowards(r)
      BY <2>1, <3>1, HeadingSubmit
    <3> QED
      BY <3>2 DEF MovesTowards
  <2>2. CASE Exchange \/ Owner
    BY <2>2, HeadingOutside
  <2> QED
    BY <2>1, <2>2 DEF Next, Cycle, Monitor, Plan, Preflight, Reconcile, PostMonitor, Complete,
       Consume, Abandon
<1> QED
  BY <1>1, AlwaysHeading, PTL DEF Spec, MovesTowardsTarget

--------------------------------------------------------------------------------
(* What a completed slot still allows: whoever has an order to send, or one     *)
(* that may still execute, holds a grant for it; and a grant for one cleanup    *)
(* is used up only when nothing of that cleanup can execute any more.           *)

Licence(reduceOnly) ==
  slot.status = "completed" =>
    "reexecution" \in slot.granted \/ (RiskOnlyUsable /\ reduceOnly)

Licensed ==
  /\ run.pc \in {"preflight", "submit"} => Licence(run.reduceOnly)
  /\ \A s \in Symbol : pending[s].kind # "none" => Licence(pending[s].reduceOnly)
  /\ run.pc \in PastPlan /\ ~run.ownSlot => slot.status = "none"
  /\ run.pc \in PastPlan /\ run.ownSlot /\ run.cleanup =>
       slot.status = "completed" /\ "risk_only" \in slot.granted
  /\ run.pc = "consume" => run.cleanup
  /\ run.pc \in {"idle", "plan"} => run.secondPhase = {}

\* A run that ended cleanly: nothing of it can execute later, and unless
\* somebody else traded it left the account where it says.
Ended == run.pc \in {"complete", "consume"} \/ (run.pc = "post" /\ run.clean)
Settles == Ended => NothingPending /\ (~disturbed => position = run.expected)

\* A run that goes on within its slot.
LEMMA LicensedSame ==
  ASSUME Licensed, slot' = slot, pending' = pending, SameOrders(run, run'),
         run'.ownSlot = run.ownSlot, run.pc \in PastPlan, run'.pc \in PastPlan,
         run'.pc = run.pc \/ run'.pc \in {"submit", "post", "complete"},
         run'.pc = "submit" => run.pc \in {"preflight", "submit"}
  PROVE  Licensed'
  BY DEF Licensed, Licence, RiskOnlyUsable, SameOrders, PastPlan

LEMMA LicensedIdle ==
  ASSUME Licensed, slot' = slot, pending' = pending, run' = IdleRun
  PROVE  Licensed'
  BY DEF Licensed, Licence, RiskOnlyUsable, PastPlan, IdleRun

LEMMA LicensedPlan ==
  ASSUME TypeOK, Explained, Licensed, NEW target \in [Symbol -> Target], Plan(target)
  PROVE  Licensed'
<1> run \in Run /\ slot \in Slot
  BY DEF TypeOK
<1>1. NothingPending'
  BY DEF Plan, Explained, Unspoilt, NothingPending
<1>2. CASE run' = IdleRun
  BY <1>1, <1>2 DEF Licensed, NothingPending, PastPlan, IdleRun
<1>3. CASE run' # IdleRun
  <2>1. /\ run'.pc = "preflight" /\ run'.ownSlot
        /\ run'.reduceOnly = ReduceFirst(position, target)
        /\ run'.cleanup = (slot.status = "completed" /\ "reexecution" \notin slot.granted)
    BY <1>3 DEF Plan, Stop, Run
  <2>2. MayReexecute(ReduceFirst(position, target))
    BY <1>3 DEF Plan, Stop
  <2>3. /\ slot.status = "completed" => slot' = slot
        /\ slot.status # "completed" => slot'.status = "open"
    BY <1>3 DEF Plan, Stop, Slot
  <2> QED
    BY <1>1, <2>1, <2>2, <2>3 DEF Licensed, Licence, MayReexecute, RiskOnlyUsable, NothingPending, PastPlan
<1> QED
  BY <1>2, <1>3

LEMMA LicensedCycle ==
  ASSUME TypeOK, OwnRow, Explained, Licensed, Settles,
         Monitor \/ Preflight \/ Reconcile \/ PostMonitor \/ Complete \/ Consume \/ Abandon
  PROVE  Licensed'
<1> run \in Run /\ slot \in Slot
  BY DEF TypeOK
<1>1. CASE Monitor
  <2>1. NothingPending' /\ slot' = slot
    BY <1>1 DEF Monitor, Matches, RequestsExpired, NothingRests, NothingPending, TypeOK, Pending
  <2>2. run'.pc = "plan" /\ run'.secondPhase = {}
    BY <1>1 DEF Monitor, IdleRun
  <2> QED
    BY <2>1, <2>2 DEF Licensed, NothingPending, PastPlan
<1>2. CASE Preflight
  BY <1>2, Advanced, LicensedSame DEF Preflight, PastPlan
<1>3. CASE Reconcile
  <2>1. Reconciled \in BOOLEAN
    BY DEF Reconciled, Matches
  <2> QED
    BY <1>3, <2>1, Recorded, LicensedSame DEF Reconcile, PastPlan
<1>4. CASE PostMonitor
  <2>1. run' = IdleRun \/ run' = [run EXCEPT !.pc = "complete"]
    BY <1>4 DEF PostMonitor, Stop
  <2>2. CASE run' = IdleRun
    BY <1>4, <2>2, LicensedIdle DEF PostMonitor
  <2>3. CASE run' = [run EXCEPT !.pc = "complete"]
    BY <1>4, <2>3, Advanced, LicensedSame DEF PostMonitor, PastPlan
  <2> QED
    BY <2>1, <2>2, <2>3
<1>5. CASE Complete
  <2>1. run.pc = "complete" /\ NothingPending'
    BY <1>5 DEF Complete, Settles, Ended, NothingPending
  <2>2. slot'.granted = slot.granted /\ (slot' = slot \/ (run.ownSlot /\ slot'.status = "completed"))
    BY <1>5 DEF Complete, Slot
  <2>3. CASE run' = IdleRun
    BY <2>1, <2>3 DEF Licensed, NothingPending, PastPlan, IdleRun
  <2>4. CASE run' = [run EXCEPT !.pc = "consume"]
    <3>1. /\ run'.pc = "consume" /\ run'.ownSlot = run.ownSlot
          /\ run'.cleanup = run.cleanup
      BY <2>4, Advanced DEF SameOrders
    <3>2. run.cleanup
      BY <1>5, <3>1 DEF Complete, Stop, IdleRun
    <3> QED
      BY <2>1, <2>2, <3>1, <3>2 DEF Licensed, NothingPending, PastPlan
  <2> QED
    BY <1>5, <2>3, <2>4 DEF Complete, Stop
<1>6. CASE Consume
  <2>1. run' = IdleRun /\ NothingPending'
    BY <1>6 DEF Consume, Stop, Settles, Ended, NothingPending
  <2> QED
    BY <2>1 DEF Licensed, NothingPending, PastPlan, IdleRun
<1>7. CASE Abandon
  BY <1>7, LicensedIdle DEF Abandon, Stop
<1> QED
  BY <1>1, <1>2, <1>3, <1>4, <1>5, <1>6, <1>7

LEMMA LicensedSubmit ==
  ASSUME TypeOK, Licensed, NEW s \in Symbol,
         \/ SubmitFilled(s)
         \/ \E k \in PartsOf(run.order[s]) :
              \E remainder \in {0, run.order[s] - k} : SubmitShort(s, k, remainder)
         \/ \E caught \in BOOLEAN : SubmitLost(s, caught)
  PROVE  Licensed'
<1> run \in Run /\ pending \in [Symbol -> Pending]
  BY DEF TypeOK
<1>1. run.pc = "submit" /\ slot' = slot /\ Licence(run.reduceOnly)
  BY DEF SubmitFilled, SubmitShort, SubmitLost, Sending, Licensed
<1>2. CASE SubmitFilled(s)
  <2>1. pending' = pending
    BY <1>2 DEF SubmitFilled
  <2> QED
    BY <1>1, <1>2, <2>1, FilledRun DEF Licensed, Licence, RiskOnlyUsable, PastPlan
<1>3. CASE ~SubmitFilled(s)
  <2>1. run' \in {Deviated, IdleRun}
    BY <1>3 DEF SubmitShort, SubmitLost
  <2>2. \A r \in Symbol : pending'[r] = pending[r] \/
                          (pending'[r].kind # "none" => pending'[r].reduceOnly = run.reduceOnly)
    <3>1. CASE \E caught \in BOOLEAN : SubmitLost(s, caught)
      BY <3>1 DEF SubmitLost
    <3>2. ASSUME NEW k \in PartsOf(run.order[s]), NEW remainder \in {0, run.order[s] - k},
                 SubmitShort(s, k, remainder)
          PROVE  \A r \in Symbol : pending'[r] = pending[r] \/
                   (pending'[r].kind # "none" => pending'[r].reduceOnly = run.reduceOnly)
      BY <3>2, RestOf DEF SubmitShort
    <3> QED
      BY <1>3, <3>1, <3>2
  <2>3. (\A r \in Symbol : pending[r].kind # "none" => Licence(pending[r].reduceOnly))'
    BY <1>1, <2>2 DEF Licensed, Licence, RiskOnlyUsable
  <2>4. CASE run' = IdleRun
    BY <2>3, <2>4 DEF Licensed, PastPlan, IdleRun
  <2>5. CASE run' = Deviated
    BY <1>1, <2>3, <2>5, Deviates DEF Licensed, Licence, RiskOnlyUsable, PastPlan, SameOrders
  <2> QED
    BY <2>1, <2>4, <2>5
<1> QED
  BY <1>2, <1>3

LEMMA LicensedOutside ==
  ASSUME TypeOK, Licensed, Exchange \/ Owner \/ UNCHANGED vars
  PROVE  Licensed'
<1> run \in Run /\ slot \in Slot /\ pending \in [Symbol -> Pending]
  BY DEF TypeOK
<1>1. ASSUME NEW s \in Symbol, NEW k \in PartsOf(pending[s].qty), Execute(s, k)
      PROVE  Licensed'
  <2>1. /\ slot' = slot /\ run' = run /\ pending[s].kind # "none"
        /\ \A r \in Symbol : pending'[r] = pending[r] \/
             (r = s /\ (pending'[r].kind # "none" => pending'[r].reduceOnly = pending[r].reduceOnly))
    BY <1>1, RestOf DEF Execute
  <2> QED
    BY <2>1 DEF Licensed, Licence, RiskOnlyUsable, PastPlan
<1>2. ASSUME NEW s \in Symbol, Vanish(s)
      PROVE  Licensed'
  <2>1. /\ slot' = slot /\ run' = run
        /\ \A r \in Symbol : pending'[r] = pending[r] \/ pending'[r].kind = "none"
    BY <1>2 DEF Vanish, Nothing
  <2> QED
    BY <2>1 DEF Licensed, Licence, RiskOnlyUsable, PastPlan
<1>3. CASE (\E s \in Symbol : \E p \in Position : ExternalTrade(s, p)) \/ Genesis \/ UNCHANGED vars
  <2>1. UNCHANGED <<slot, run, pending>>
    BY <1>3 DEF ExternalTrade, Genesis, vars
  <2> QED
    BY <2>1 DEF Licensed, Licence, RiskOnlyUsable, PastPlan
<1>4. ASSUME NEW grant \in Grants, Authorize(grant)
      PROVE  Licensed'
  <2>1. /\ UNCHANGED <<run, pending>> /\ slot'.status = slot.status /\ slot'.consumed = slot.consumed
        /\ slot.granted \subseteq slot'.granted
        /\ slot.status = "completed"
    BY <1>4 DEF Authorize, Slot
  <2> QED
    BY <2>1 DEF Licensed, Licence, RiskOnlyUsable, PastPlan
<1>5. CASE NewSlot
  <2>1. pending' = pending /\ slot'.status = "none"
    BY <1>5 DEF NewSlot, Slot
  <2>2. /\ run'.pc = run.pc /\ SameOrders(run, run') /\ (run.pc # "idle" => ~run'.ownSlot)
    BY <1>5, Overtaken DEF NewSlot, SameOrders
  <2> QED
    BY <2>1, <2>2 DEF Licensed, Licence, PastPlan, SameOrders
<1> QED
  BY <1>1, <1>2, <1>3, <1>4, <1>5 DEF Exchange, Owner

LEMMA SettlesStep ==
  ASSUME TypeOK, Explained, Settles, [Next]_vars
  PROVE  Settles'
<1> run \in Run /\ slot \in Slot /\ pending \in [Symbol -> Pending]
  BY DEF TypeOK
<1>1. CASE Reconcile
  <2>1. Reconciled \in BOOLEAN
    BY DEF Reconciled, Matches
  <2>2. /\ run'.pc = "post" /\ run'.clean = Reconciled /\ run'.expected = run.expected
        /\ UNCHANGED <<position, pending, disturbed>> /\ run.pc = "submit"
    BY <1>1, <2>1, Recorded DEF Reconcile, SameOrders
  <2> QED
    BY <2>2 DEF Settles, Ended, Reconciled, Matches, Explained, Unspoilt, NothingPending
<1>2. CASE PostMonitor \/ Complete
  <2>1. UNCHANGED <<position, pending, disturbed>> /\ (Ended \/ run' = IdleRun)
    BY <1>2 DEF PostMonitor, Complete, Ended, Stop
  <2>2. run' \in {IdleRun, [run EXCEPT !.pc = "complete"], [run EXCEPT !.pc = "consume"]}
    BY <1>2, Zenon DEF PostMonitor, Complete, Stop
  <2>3. CASE run' = IdleRun
    BY <2>3 DEF Settles, Ended, IdleRun
  <2>4. CASE run' # IdleRun
    <3>1. /\ [run EXCEPT !.pc = "complete"].expected = run.expected
          /\ [run EXCEPT !.pc = "consume"].expected = run.expected
      BY Advanced DEF SameOrders
    <3>2. run'.expected = run.expected
      BY <2>2, <2>4, <3>1, Zenon
    <3> QED
      BY <2>1, <2>4, <3>2 DEF Settles, NothingPending
  <2> QED
    BY <2>3, <2>4
<1>3. CASE Monitor \/ (\E target \in [Symbol -> Target] : Plan(target)) \/ Preflight \/ Consume \/ Abandon
  <2>1. run'.pc \in {"idle", "plan", "preflight", "submit"}
    <3>1. CASE Monitor
      BY <3>1 DEF Monitor, IdleRun
    <3>2. ASSUME NEW target \in [Symbol -> Target], Plan(target)
          PROVE  run'.pc \in {"idle", "preflight"}
      <4>1. run' = IdleRun \/ run'.pc = "preflight"
        BY <3>2 DEF Plan, Stop, Run
      <4> QED
        BY <4>1 DEF IdleRun
    <3>3. CASE Preflight
      BY <3>3, Advanced DEF Preflight
    <3>4. CASE Consume \/ Abandon
      BY <3>4 DEF Consume, Abandon, Stop, IdleRun
    <3> QED
      BY <1>3, <3>1, <3>2, <3>3, <3>4
  <2> QED
    BY <2>1 DEF Settles, Ended
<1>4. ASSUME NEW s \in Symbol,
             \/ SubmitFilled(s)
             \/ \E k \in PartsOf(run.order[s]) :
                  \E remainder \in {0, run.order[s] - k} : SubmitShort(s, k, remainder)
             \/ \E caught \in BOOLEAN : SubmitLost(s, caught)
      PROVE  Settles'
  <2>1. run'.pc \in {"idle", "submit"}
    <3>1. CASE SubmitFilled(s)
      BY <3>1, FilledRun
    <3>2. CASE ~SubmitFilled(s)
      BY <1>4, <3>2, Deviates DEF SubmitShort, SubmitLost, Sending, IdleRun
    <3> QED
      BY <3>1, <3>2
  <2> QED
    BY <2>1 DEF Settles, Ended
<1>5. CASE Exchange \/ Genesis \/ (\E grant \in Grants : Authorize(grant)) \/ UNCHANGED vars
  BY <1>5 DEF Exchange, Execute, Vanish, ExternalTrade, Genesis, Authorize, vars, Settles, Ended, NothingPending
<1>6. CASE NewSlot
  <2>1. UNCHANGED <<position, pending, disturbed>>
    BY <1>6 DEF NewSlot
  <2>2. run'.pc = run.pc /\ run'.clean = run.clean /\ run'.expected = run.expected
    BY <1>6, Overtaken DEF NewSlot, SameOrders
  <2> QED
    BY <2>1, <2>2 DEF Settles, Ended, NothingPending
<1> QED
  BY <1>1, <1>2, <1>3, <1>4, <1>5, <1>6 DEF Next, Cycle, Owner

LEMMA AlwaysLicensed == Spec => [](Licensed /\ Settles)
<1>1. Init => Licensed /\ Settles
  BY DEF Init, Licensed, Settles, Ended, PastPlan, IdleRun, Nothing
<1>2. TypeOK /\ OwnRow /\ Explained /\ Licensed /\ Settles /\ [Next]_vars => (Licensed /\ Settles)'
  BY LicensedPlan, LicensedCycle, LicensedSubmit, LicensedOutside, SettlesStep DEF Next, Cycle
<1> QED
  BY <1>1, <1>2, Typed, AlwaysExplained, PTL DEF Spec

--------------------------------------------------------------------------------
(* The cycles do with the account what SlotAccount allows.  A part of an order *)
(* that executes is a Trade; after a trade from outside it may be anything.    *)

SlotStep == [Account!SNext]_(Account!svars)

LEMMA SlotInit == Init => Account!SInit
  BY DEF Init, Account!SInit, IdleRun, Zero

LEMMA SlotStutters ==
  ASSUME UNCHANGED <<position, slot, disturbed>>, run'.secondPhase = run.secondPhase
  PROVE  SlotStep
  BY DEF SlotStep, Account!svars, Account!slotVars

LEMMA SlotGivesUp ==
  ASSUME UNCHANGED <<position, slot, disturbed>>, run' = IdleRun
  PROVE  SlotStep
  BY DEF SlotStep, Account!SNext, Account!GiveUp, Account!slotVars, IdleRun

\* A part of k lots of an order that somebody holds a licence for.
LEMMA SlotTrades ==
  ASSUME TypeOK, NEW s \in Symbol, NEW k \in Int, NEW reduceOnly \in BOOLEAN,
         position' = [position EXCEPT ![s] = @ + k],
         MayExecute(s, k, reduceOnly), Licence(reduceOnly),
         UNCHANGED <<slot, disturbed>>, run'.secondPhase = run.secondPhase,
         disturbed \/ position' = position \/ MovesTowards(s)
  PROVE  SlotStep
<1>1. CASE position' = position
  BY <1>1, SlotStutters
<1>2. CASE disturbed
  BY <1>2 DEF SlotStep, Account!SNext, Account!Outside, Account!slotVars
<1>3. CASE ~disturbed /\ MovesTowards(s)
  <2> DEFINE grows == Account!Size(position'[s]) > Account!Size(position[s])
  <2>1. position[s] \in Int /\ position'[s] = position[s] + k
    BY DEF TypeOK
  <2>2. grows <=> Abs(position'[s]) > Abs(position[s])
    BY DEF Account!Size, Abs
  <2>3. reduceOnly => ~grows
    BY <2>1, <2>2 DEF MayExecute, PartsOf, Abs
  <2>4. grows => \A r \in Symbol : ~ReducesNow(position[r], slot.target[r])
    BY <1>3, <2>2 DEF MovesTowards, ReduceFirst, MustReduce, ReducesNow
  <2>5. Account!Towards(position[s], position'[s], slot.target[s])
    BY <1>3 DEF MovesTowards, Between, Account!Towards
  <2>6. Account!Allowed(~grows)
    BY <2>3 DEF Licence, RiskOnlyUsable, Account!Allowed
  <2>7. position' = [position EXCEPT ![s] = position'[s]]
    BY <2>1
  <2> HIDE DEF grows
  <2>8. Account!Trade(s)
    BY <1>3, <2>4, <2>5, <2>6, <2>7 DEF Account!Trade, Account!slotVars, grows
  <2> QED
    BY <2>8 DEF SlotStep, Account!SNext
<1> QED
  BY <1>1, <1>2, <1>3 DEF TypeOK

LEMMA SlotSubmit ==
  ASSUME TypeOK, Explained, Heading, Licensed, NEW s \in Symbol,
         \/ SubmitFilled(s)
         \/ \E k \in PartsOf(run.order[s]) :
              \E remainder \in {0, run.order[s] - k} : SubmitShort(s, k, remainder)
         \/ \E caught \in BOOLEAN : SubmitLost(s, caught)
  PROVE  SlotStep
<1> DEFINE q == run.order[s]
<1>1. run \in Run /\ q \in Int /\ run.reduceOnly \in BOOLEAN
  BY DEF TypeOK, Run
<1>2. /\ Licence(run.reduceOnly) /\ UNCHANGED <<slot, disturbed>>
  BY DEF SubmitFilled, SubmitShort, SubmitLost, Sending, Licensed
<1>3. disturbed \/ position' = position \/ MovesTowards(s)
  BY HeadingSubmit
<1>4. CASE SubmitFilled(s)
  <2>1. /\ position' = [position EXCEPT ![s] = @ + q] /\ MayExecute(s, q, run.reduceOnly)
    BY <1>4 DEF SubmitFilled
  <2>2. run'.secondPhase = run.secondPhase
    BY <1>1, <1>4, FilledRun
  <2> QED
    BY <1>1, <1>2, <1>3, <2>1, <2>2, SlotTrades
<1>5. ASSUME NEW k \in PartsOf(q), NEW remainder \in {0, q - k}, SubmitShort(s, k, remainder)
      PROVE  SlotStep
  <2>1. k \in Int
    BY <1>1, Parts
  <2>2. /\ position' = [position EXCEPT ![s] = @ + k] /\ MayExecute(s, k, run.reduceOnly)
        /\ run' = Deviated
    BY <1>5 DEF SubmitShort
  <2>3. run'.secondPhase = run.secondPhase
    BY <1>1, <2>2, Deviates DEF SameOrders
  <2> QED
    BY <1>1, <1>2, <1>3, <2>1, <2>2, <2>3, SlotTrades
<1>6. ASSUME NEW caught \in BOOLEAN, SubmitLost(s, caught)
      PROVE  SlotStep
  <2>1. UNCHANGED <<position, slot, disturbed>> /\ run' \in {Deviated, IdleRun}
    BY <1>6 DEF SubmitLost
  <2>2. Deviated.secondPhase = run.secondPhase
    BY <1>1, Deviates DEF SameOrders
  <2> QED
    BY <2>1, <2>2, SlotStutters, SlotGivesUp
<1> QED
  BY <1>4, <1>5, <1>6

LEMMA SlotPlan ==
  ASSUME TypeOK, Licensed, NEW target \in [Symbol -> Target], Plan(target)
  PROVE  SlotStep
<1> run \in Run /\ slot \in Slot /\ position \in [Symbol -> Int]
  BY DEF TypeOK
<1>0. target \in [Symbol -> Int] /\ UNCHANGED <<position, disturbed>>
  BY RebalanceAssumption DEF Plan
<1>1. run' = IdleRun \/ run'.secondPhase = SecondPhase(position, target)
  BY DEF Plan, Stop, Run
<1>2. run'.secondPhase \subseteq {s \in Symbol : Opposite(position[s], target[s])}
  BY <1>1 DEF SecondPhase, IdleRun
<1>3. /\ slot'.target = target
      /\ slot'.granted = slot.granted /\ slot'.consumed = slot.consumed
  BY DEF Plan, Slot
<1>4. /\ slot'.status # "completed" => slot.status \in {"none", "open"} /\ slot'.status = "open"
      /\ slot.status # "none" => slot' = slot \/ (slot.status = "open" /\ slot'.status = "completed")
  BY DEF Plan, Slot
<1>5. slot'.status = "completed" /\ slot.status # "completed" =>
        /\ run' = IdleRun
        /\ \A s \in Symbol : Settled(position[s], target[s])
  <2> SUFFICES ASSUME slot'.status = "completed", slot.status # "completed"
               PROVE  /\ run' = IdleRun
                      /\ \A s \in Symbol : Settled(position[s], target[s])
    OBVIOUS
  <2>1. /\ Intents(position, target) = Zero /\ run' = IdleRun
        /\ \A s \in Symbol : ~Blocked(position[s], target[s])
    BY DEF Plan, Stop, Slot
  <2> QED
    BY <1>0, <2>1, NoOrderMeansSettled
<1>6. CASE slot.status = "none"
  <2>1. slot'.target = [s \in Symbol |-> slot'.target[s]]
    BY <1>0, <1>3
  <2>2. Account!Freeze
    BY <1>0, <1>2, <1>3, <1>4, <1>5, <1>6, <2>1 DEF Account!Freeze
  <2> QED
    BY <2>2 DEF SlotStep, Account!SNext
<1>7. CASE slot.status # "none" /\ slot' = slot
  <2>1. Account!Turn
    BY <1>0, <1>2, <1>3, <1>7 DEF Account!Turn, Account!slotVars
  <2> QED
    BY <2>1 DEF SlotStep, Account!SNext
<1>8. CASE slot.status = "open" /\ slot'.status = "completed"
  <2>1. target = slot.target
    BY <1>8 DEF Plan
  <2>2. Account!Complete
    BY <1>0, <1>3, <1>5, <1>8, <2>1 DEF Account!Complete, IdleRun
  <2> QED
    BY <2>2 DEF SlotStep, Account!SNext
<1> QED
  BY <1>4, <1>6, <1>7, <1>8

LEMMA SlotCompletes ==
  ASSUME TypeOK, OwnRow, Reaches, Settles, Complete
  PROVE  SlotStep
<1> run \in Run /\ slot \in Slot /\ position \in [Symbol -> Int]
  BY DEF TypeOK
<1>1. /\ run.pc = "complete" /\ UNCHANGED <<position, disturbed>>
      /\ run' = IdleRun \/ run'.secondPhase = run.secondPhase
  <2>1. [run EXCEPT !.pc = "consume"].secondPhase = run.secondPhase
    BY Advanced DEF SameOrders
  <2> QED
    BY <2>1 DEF Complete, Stop
<1>2. CASE slot' = slot
  BY <1>1, <1>2, SlotStutters, SlotGivesUp
<1>3. CASE slot' # slot
  <2>1. ~run.deferred /\ run.ownSlot /\ slot' = [slot EXCEPT !.status = "completed"]
    BY <1>3 DEF Complete, SlotDone
  <2>2. slot.status = "open"
    BY <1>1, <1>3, <2>1 DEF OwnRow, PastPlan, Slot
  <2>3. ASSUME ~disturbed, NEW s \in Symbol
        PROVE  Settled(position[s], slot.target[s]) \/ (s \in run.secondPhase /\ position[s] = 0)
    <3>1. Remaining(s) = position[s]
      BY <1>1, <2>3 DEF Settles, Ended, Reaches, Remaining, Zero
    <3> QED
      BY <1>1, <2>1, <3>1 DEF Reaches, Meant
  <2>4. /\ slot'.status = "completed" /\ slot'.target = slot.target
        /\ slot'.granted = slot.granted /\ slot'.consumed = slot.consumed
    BY <2>1 DEF Slot
  <2>5. Account!Complete
    BY <1>1, <2>2, <2>3, <2>4 DEF Account!Complete, IdleRun
  <2> QED
    BY <2>5 DEF SlotStep, Account!SNext
<1> QED
  BY <1>2, <1>3

LEMMA SlotConsumes ==
  ASSUME TypeOK, Licensed, Consume
  PROVE  SlotStep
<1>1. run.pc = "consume" /\ UNCHANGED <<position, disturbed>> /\ run' = IdleRun
  BY DEF Consume, Stop
<1>2. CASE ~run.ownSlot
  BY <1>1, <1>2, SlotGivesUp DEF Consume
<1>3. CASE run.ownSlot
  <2>1. /\ slot'.status = slot.status /\ slot'.target = slot.target
        /\ slot'.granted = slot.granted /\ slot'.consumed = TRUE
    BY <1>3 DEF Consume, TypeOK, Slot
  <2>2. slot.status = "completed" /\ "risk_only" \in slot.granted
    BY <1>1, <1>3 DEF Licensed, PastPlan
  <2>3. Account!Consume
    BY <1>1, <2>1, <2>2 DEF Account!Consume, IdleRun
  <2> QED
    BY <2>3 DEF SlotStep, Account!SNext
<1> QED
  BY <1>2, <1>3

LEMMA SlotCycle ==
  ASSUME TypeOK, Licensed, Monitor \/ Preflight \/ Reconcile \/ PostMonitor \/ Abandon
  PROVE  SlotStep
<1> run \in Run
  BY DEF TypeOK
<1>1. CASE Monitor
  <2>1. run.secondPhase = {} /\ run'.secondPhase = {}
    BY <1>1 DEF Monitor, Licensed, IdleRun
  <2>2. Account!LookAt
    BY <1>1, <2>1 DEF Monitor, Account!LookAt, Account!slotVars
  <2> QED
    BY <2>2 DEF SlotStep, Account!SNext
<1>2. CASE Preflight
  BY <1>2, Advanced, SlotStutters DEF Preflight, SameOrders
<1>3. CASE Reconcile
  <2>1. Reconciled \in BOOLEAN
    BY DEF Reconciled, Matches, Run
  <2> QED
    BY <1>3, <2>1, Recorded, SlotStutters DEF Reconcile, SameOrders
<1>4. CASE PostMonitor
  <2>1. [run EXCEPT !.pc = "complete"].secondPhase = run.secondPhase
    BY Advanced DEF SameOrders
  <2> QED
    BY <1>4, <2>1, SlotStutters, SlotGivesUp DEF PostMonitor, Stop
<1>5. CASE Abandon
  BY <1>5, SlotGivesUp DEF Abandon, Stop
<1> QED
  BY <1>1, <1>2, <1>3, <1>4, <1>5

LEMMA SlotOutside ==
  ASSUME TypeOK, Explained, Heading, Licensed, Exchange \/ Owner \/ UNCHANGED vars
  PROVE  SlotStep
<1> slot \in Slot /\ pending \in [Symbol -> Pending]
  BY DEF TypeOK
<1>1. ASSUME NEW s \in Symbol, NEW k \in PartsOf(pending[s].qty), Execute(s, k)
      PROVE  SlotStep
  <2>1. pending[s].qty \in Int /\ pending[s].reduceOnly \in BOOLEAN /\ k \in Int
    BY Parts DEF Pending
  <2>2. /\ position' = [position EXCEPT ![s] = @ + k]
        /\ MayExecute(s, k, pending[s].reduceOnly) /\ Licence(pending[s].reduceOnly)
        /\ UNCHANGED <<slot, run, disturbed>>
    BY <1>1 DEF Execute, Licensed
  <2>3. disturbed \/ position' = position \/ MovesTowards(s)
    <3>1. CASE position'[s] = position[s]
      BY <2>2, <3>1 DEF TypeOK
    <3>2. CASE position'[s] # position[s]
      BY <1>1, <2>2, <3>2, HeadingOutside DEF Exchange, TypeOK
    <3> QED
      BY <3>1, <3>2
  <2> QED
    BY <2>1, <2>2, <2>3, SlotTrades
<1>2. CASE (\E s \in Symbol : Vanish(s)) \/ Genesis \/ UNCHANGED vars
  BY <1>2, SlotStutters DEF Vanish, Genesis, vars
<1>3. ASSUME NEW s \in Symbol, NEW p \in Position, ExternalTrade(s, p)
      PROVE  SlotStep
  BY <1>3 DEF ExternalTrade, SlotStep, Account!SNext, Account!Outside, Account!slotVars
<1>4. ASSUME NEW grant \in Grants, Authorize(grant)
      PROVE  SlotStep
  <2>1. Account!Authorize(grant)
    BY <1>4 DEF Authorize, Account!Authorize, Slot
  <2> QED
    BY <2>1 DEF SlotStep, Account!SNext, Grants
<1>5. CASE NewSlot
  <2>1. run'.secondPhase = run.secondPhase
    BY <1>5, Overtaken DEF NewSlot, SameOrders, TypeOK
  <2>2. Account!NewSlot
    BY <1>5, <2>1 DEF NewSlot, Account!NewSlot, Slot
  <2> QED
    BY <2>2 DEF SlotStep, Account!SNext
<1> QED
  BY <1>1, <1>2, <1>3, <1>4, <1>5 DEF Exchange, Owner

\* Over late fills, deaths, trades from outside and authorizations given in the
\* middle of a run, the account of a slot does what SlotAccount allows: a
\* completed slot trades no more, unless by a grant that still holds.
THEOREM SlotKept == Spec => KeepsSlot
<1>1. /\ TypeOK /\ OwnRow /\ Explained /\ Reaches /\ Heading /\ Licensed /\ Settles
      /\ [Next]_vars
      => [Account!SNext]_(Account!svars)
  BY SlotSubmit, SlotPlan, SlotCompletes, SlotConsumes, SlotCycle, SlotOutside
  DEF SlotStep, Next, Cycle
<1> QED
  BY <1>1, SlotInit, Typed, AlwaysExplained, AlwaysReaches, AlwaysHeading, AlwaysLicensed, PTL
  DEF Spec, KeepsSlot, Account!SSpec

================================================================================
