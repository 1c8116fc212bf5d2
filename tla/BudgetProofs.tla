------------------------------ MODULE BudgetProofs ------------------------------
(***************************************************************************)
(* Proofs about the budget store for every number of epochs, controllers,   *)
(* cycles and plans.  Two inductive invariants carry them: RunInv says what  *)
(* each program counter of a cycle has established, LedgerInv what every     *)
(* committed transaction leaves in the tables.                               *)
(***************************************************************************)
EXTENDS BudgetProps, FiniteSetTheorems, WellFoundedInduction, TLAPS

Holding == {"submit", "executed", "reconcile"}

RunInv ==
  \A r \in Run :
    /\ run[r].pc # "idle" => run[r].plan \in Plan
    /\ run[r].pc \notin {"idle", "read_epoch"} => run[r].epoch \in Epoch
    /\ run[r].pc = "reserve_debit" => run[r].projected \in Turnover
    /\ run[r].pc \in Holding => reservations[KeyOf(r)].status # "none"

--------------------------------------------------------------------------------
\* What the row operators return.

LEMMA RowTypes ==
  ASSUME NEW row \in EpochRow, NEW t \in Nat
  PROVE  /\ Debited(row, t) \in EpochRow
         /\ StatusAfterConsume(row) \in {"open", "exhausted"}
         /\ [row EXCEPT !.status = StatusAfterConsume(row)] \in EpochRow
         /\ Bumped(row, t) \in EpochRow
<1>1. StatusAfterConsume(row) \in {"open", "exhausted"}
  BY DEF StatusAfterConsume
<1>2. Debited(row, t) \in EpochRow
  <2> DEFINE once == [row EXCEPT !.consumed_cycles = row.consumed_cycles + 1]
  <2>1. once \in EpochRow /\ once.consumed_turnover = row.consumed_turnover
    BY DEF EpochRow
  <2>2. Debited(row, t) = [once EXCEPT !.consumed_turnover = once.consumed_turnover + t]
    BY <2>1 DEF Debited
  <2> HIDE DEF once
  <2> QED
    BY <2>1, <2>2 DEF EpochRow
<1>3. [row EXCEPT !.status = StatusAfterConsume(row)] \in EpochRow
  BY <1>1 DEF EpochRow, EpochStatus
<1>4. Bumped(row, t) \in EpochRow
  <2> DEFINE up == [row EXCEPT !.consumed_turnover = @ + t]
  <2>1. up \in EpochRow
    BY DEF EpochRow
  <2>2. StatusAfterConsume(up) \in EpochStatus
    BY DEF StatusAfterConsume, EpochStatus
  <2>3. CASE up.status = "open"
    <3>1. Bumped(row, t) = [up EXCEPT !.status = StatusAfterConsume(up)]
      BY <2>3 DEF Bumped
    <3> QED
      BY <2>1, <2>2, <3>1 DEF EpochRow
  <2>4. CASE up.status # "open"
    <3>1. Bumped(row, t) = [up EXCEPT !.status = up.status]
      BY <2>4 DEF Bumped
    <3> QED
      BY <2>1, <3>1 DEF EpochRow
  <2> QED
    BY <2>3, <2>4
<1> QED
  BY <1>1, <1>2, <1>3, <1>4

LEMMA ExtraTyped ==
  ASSUME NEW a \in Turnover \cup {Unknown}, NEW b \in Nat, a > b
  PROVE  a \in Nat /\ a - b \in Nat
<1>1. Unknown = -1 /\ Turnover \subseteq Nat
  BY BudgetAssumption DEF Unknown
<1>2. a \in Int
  BY <1>1
<1>3. a # -1
  BY <1>2
<1> QED
  BY <1>1, <1>2, <1>3

LEMMA KeyTyped ==
  ASSUME TypeOK, RunInv, NEW r \in Run, run[r].pc \notin {"idle", "read_epoch"}
  PROVE  /\ run[r].epoch \in Epoch /\ KeyOf(r) \in Key
         /\ KeyOf(r) = <<run[r].epoch, run[r].plan>>
  BY DEF TypeOK, RunInv, RunState, KeyOf, Key

--------------------------------------------------------------------------------
\* Type correctness, together with what each program counter has established.

\* Initially nothing was opened or started.
LEMMA TypeInit == Init => TypeOK /\ RunInv
  BY BudgetAssumption
     DEF Init, TypeOK, RunInv, EpochRow, EpochStatus, NoRow, Key, ReservationRow,
         ReservationStatus, NoReservation, RunState, RunPc, IdleRun, Unknown, Holding

LEMMA TypeStep == TypeOK /\ RunInv /\ [Next]_vars => TypeOK' /\ RunInv'
  <1> SUFFICES ASSUME TypeOK, RunInv, [Next]_vars PROVE TypeOK' /\ RunInv'
    OBVIOUS
  <1> USE BudgetAssumption
  <1>idle. IdleRun \in RunState
    BY DEF IdleRun, RunState, RunPc
  <1>stop. ASSUME NEW r \in Run, Stop(r), UNCHANGED reservations
           PROVE  run' \in [Run -> RunState] /\ RunInv'
    BY <1>idle, <1>stop DEF Stop, TypeOK, RunInv, IdleRun, Holding, KeyOf
  <1>goto. ASSUME NEW r \in Run, NEW l \in RunPc, Goto(r, l)
           PROVE  /\ run' \in [Run -> RunState]
                  /\ \A q \in Run : q # r => run'[q] = run[q]
                  /\ run'[r].pc = l
                  /\ run'[r].plan = run[r].plan /\ run'[r].epoch = run[r].epoch
                  /\ run'[r].projected = run[r].projected
    BY <1>goto DEF Goto, TypeOK, RunState
  <1>pcs. RunPc = {"idle", "read_epoch", "orphan_check", "reserve_select", "reserve_debit",
                   "submit", "executed", "reconcile"}
    BY DEF RunPc
  <1>1. ASSUME NEW c \in Opener, NEW e \in Epoch, OpenEpochSelect(c, e)
        PROVE  TypeOK' /\ RunInv'
    BY <1>1 DEF OpenEpochSelect, TypeOK, RunInv, KeyOf
  <1>2. ASSUME NEW c \in Opener, NEW cy \in CycleBound, NEW tu \in TurnoverBound,
               OpenEpochInsert(c, cy, tu)
        PROVE  TypeOK' /\ RunInv'
    <2>1. opener[c] \in Epoch
      BY <1>2 DEF OpenEpochInsert, TypeOK
    <2>2. [status |-> "open", created_at |-> clock, max_live_cycles |-> cy,
           max_gross_turnover |-> tu, consumed_cycles |-> 0, consumed_turnover |-> 0] \in EpochRow
      BY DEF EpochRow, EpochStatus, TypeOK
    <2>3. ledger' \in [Epoch -> EpochRow]
      BY <1>2, <2>1, <2>2 DEF OpenEpochInsert, TypeOK
    <2> QED
      BY <1>2, <2>3 DEF OpenEpochInsert, TypeOK, RunInv, KeyOf
  <1>3. ASSUME NEW c \in Opener, CrashOpener(c)
        PROVE  TypeOK' /\ RunInv'
    BY <1>3 DEF CrashOpener, TypeOK, RunInv, KeyOf
  <1>4. ASSUME NEW e \in Epoch, CloseEpoch(e)
        PROVE  TypeOK' /\ RunInv'
    <2>1. ledger' \in [Epoch -> EpochRow]
      BY <1>4 DEF CloseEpoch, TypeOK, EpochRow, EpochStatus
    <2> QED
      BY <1>4, <2>1 DEF CloseEpoch, TypeOK, RunInv, KeyOf
  <1>5. ASSUME NEW r \in Run, NEW p \in Plan, NEW t \in Turnover \cup {Unknown},
               StartCycle(r, p, t)
        PROVE  TypeOK' /\ RunInv'
    <2>1. [IdleRun EXCEPT !.pc = "read_epoch", !.plan = p, !.projected = t, !.now = clock]
            \in RunState
      BY DEF IdleRun, RunState, RunPc, TypeOK
    <2> QED
      BY <1>5, <2>1 DEF StartCycle, TypeOK, RunInv, KeyOf, IdleRun, Holding
  <1>6. ASSUME NEW r \in Run, ReadCurrentEpoch(r)
        PROVE  TypeOK' /\ RunInv'
    <2>1. CASE Stop(r)
      BY <1>6, <1>stop, <2>1 DEF ReadCurrentEpoch, TypeOK
    <2>2. ASSUME NEW e \in OpenEpochs,
                 run' = [run EXCEPT ![r] = [@ EXCEPT !.pc = "orphan_check", !.epoch = e]]
          PROVE  TypeOK' /\ RunInv'
      <3>1. e \in Epoch /\ run[r].plan \in Plan
        BY <1>6 DEF ReadCurrentEpoch, OpenEpochs, RunInv
      <3>2. /\ run'[r] = [run[r] EXCEPT !.pc = "orphan_check", !.epoch = e]
            /\ \A q \in Run : q # r => run'[q] = run[q]
            /\ run' \in [Run -> RunState]
        <4> DEFINE once == [run[r] EXCEPT !.pc = "orphan_check"]
        <4>1. once \in RunState
          BY <1>pcs DEF TypeOK, RunState
        <4>2. [once EXCEPT !.epoch = e] \in RunState
          BY <3>1, <4>1 DEF RunState
        <4> QED
          BY <2>2, <4>2 DEF TypeOK
      <3>3. run'[r].pc = "orphan_check" /\ run'[r].epoch = e /\ run'[r].plan = run[r].plan
        BY <3>2 DEF TypeOK, RunState
      <3> QED
        BY <1>6, <3>1, <3>2, <3>3 DEF ReadCurrentEpoch, TypeOK, RunInv, KeyOf, Holding
    <2> QED
      BY <1>6, <2>1, <2>2 DEF ReadCurrentEpoch
  <1>7. ASSUME NEW r \in Run, OrphanCheck(r)
        PROVE  TypeOK' /\ RunInv'
    BY <1>7, <1>stop, <1>goto, <1>pcs DEF OrphanCheck, TypeOK, RunInv, KeyOf, Holding
  <1>8. ASSUME NEW r \in Run, ReserveSelect(r)
        PROVE  TypeOK' /\ RunInv'
    <2>1. CASE Stop(r)
      BY <1>8, <1>stop, <2>1 DEF ReserveSelect, TypeOK
    <2>2. CASE Goto(r, "reserve_debit") /\ run[r].projected # Unknown
      BY <1>8, <1>goto, <1>pcs, <2>2 DEF ReserveSelect, TypeOK, RunInv, KeyOf, Holding, RunState
    <2> QED
      BY <1>8, <2>1, <2>2 DEF ReserveSelect
  <1>9. ASSUME NEW r \in Run, ReserveDebit(r)
        PROVE  TypeOK' /\ RunInv'
    <2> DEFINE e == run[r].epoch
               debited == Debited(ledger[e], run[r].projected)
    <2>1. e \in Epoch /\ KeyOf(r) \in Key /\ run[r].projected \in Nat
      BY <1>9, KeyTyped DEF ReserveDebit, RunInv
    <2>2. CASE Stop(r) /\ UNCHANGED <<ledger, reservations>>
      BY <1>9, <1>stop, <2>2 DEF ReserveDebit, TypeOK
    <2>3. CASE Goto(r, "submit") /\ UNCHANGED <<ledger, reservations>>
               /\ reservations[KeyOf(r)].status # "none"
      BY <1>9, <1>goto, <1>pcs, <2>3 DEF ReserveDebit, TypeOK, RunInv, KeyOf, Holding
    <2>4. CASE /\ ledger' = [ledger EXCEPT ![e] = [debited EXCEPT !.status = StatusAfterConsume(debited)]]
               /\ reservations' = [reservations EXCEPT ![KeyOf(r)] =
                     [status |-> "reserved", reserved_turnover |-> run[r].projected, realized_turnover |-> 0]]
               /\ Goto(r, "submit")
      <3>1. ledger[e] \in EpochRow /\ debited \in EpochRow
        BY <2>1, RowTypes DEF TypeOK
      <3>2. ledger' \in [Epoch -> EpochRow]
        BY <2>1, <2>4, <3>1, RowTypes DEF TypeOK
      <3>3. reservations' \in [Key -> ReservationRow]
        BY <2>1, <2>4 DEF TypeOK, ReservationRow, ReservationStatus
      <3>4. TypeOK'
        BY <1>9, <1>goto, <1>pcs, <2>4, <3>2, <3>3 DEF ReserveDebit, TypeOK
      <3>5. \A k \in Key : reservations[k].status # "none" => reservations'[k].status # "none"
        BY <2>1, <2>4 DEF TypeOK
      <3>6. reservations'[KeyOf(r)].status # "none"
        BY <2>1, <2>4 DEF TypeOK
      <3>7. RunInv'
        BY <1>9, <1>goto, <1>pcs, <2>4, <3>5, <3>6, KeyTyped DEF ReserveDebit, RunInv, KeyOf, Holding
      <3> QED
        BY <3>4, <3>7
    <2> QED
      BY <1>9, <2>2, <2>3, <2>4 DEF ReserveDebit
  <1>10. ASSUME NEW r \in Run, ExecuteLiveDelta(r)
         PROVE  TypeOK' /\ RunInv'
    <2>0. KeyOf(r) \in Key
      BY <1>10, KeyTyped DEF ExecuteLiveDelta
    <2>1. CASE run' = [run EXCEPT ![r].pc = "executed"] /\ UNCHANGED submitted
      <3>1. Goto(r, "executed") /\ run[r].pc = "submit"
        BY <1>10, <2>1 DEF ExecuteLiveDelta, Goto
      <3> QED
        BY <1>10, <1>goto, <1>pcs, <2>1, <3>1 DEF ExecuteLiveDelta, TypeOK, RunInv, KeyOf, Holding
    <2>2. ASSUME NEW orders \in BOOLEAN, NEW realized \in Turnover \cup {Unknown},
                 run' = [run EXCEPT ![r] = [@ EXCEPT !.pc = "executed", !.ordersSubmitted = orders,
                                                     !.realized = realized]],
                 submitted' = submitted \cup {KeyOf(r)}
          PROVE  TypeOK' /\ RunInv'
      <3>1. /\ run'[r] = [run[r] EXCEPT !.pc = "executed", !.ordersSubmitted = orders,
                                       !.realized = realized]
            /\ \A q \in Run : q # r => run'[q] = run[q]
            /\ run' \in [Run -> RunState]
        <4> DEFINE once == [run[r] EXCEPT !.pc = "executed"]
                   twice == [once EXCEPT !.ordersSubmitted = orders]
        <4>1. once \in RunState
          BY <1>pcs DEF TypeOK, RunState
        <4>2. twice \in RunState
          <5> HIDE DEF once
          <5> QED
            BY <4>1 DEF RunState
        <4>3. [twice EXCEPT !.realized = realized] \in RunState
          <5> HIDE DEF twice
          <5> QED
            BY <4>2 DEF RunState
        <4> QED
          BY <2>2, <4>3 DEF TypeOK
      <3>2. run'[r].pc = "executed" /\ run'[r].epoch = run[r].epoch /\ run'[r].plan = run[r].plan
        BY <3>1 DEF TypeOK, RunState
      <3>3. run[r].pc = "submit"
        BY <1>10 DEF ExecuteLiveDelta
      <3> QED
        <4>1. TypeOK'
          BY <1>10, <2>0, <2>2, <3>1 DEF ExecuteLiveDelta, TypeOK
        <4>2. reservations[KeyOf(r)].status # "none" /\ run[r].plan \in Plan /\ run[r].epoch \in Epoch
          BY <3>3 DEF RunInv, Holding
        <4>3. UNCHANGED reservations
          BY <1>10 DEF ExecuteLiveDelta
        <4>4. RunInv'
          BY <3>1, <3>2, <4>2, <4>3 DEF RunInv, KeyOf, Holding
        <4> QED
          BY <4>1, <4>4
    <2> QED
      BY <1>10, <2>1, <2>2 DEF ExecuteLiveDelta
  <1>11. ASSUME NEW r \in Run, ReconcileSelect(r)
         PROVE  TypeOK' /\ RunInv'
    BY <1>11, <1>stop, <1>goto, <1>pcs DEF ReconcileSelect, TypeOK, RunInv, KeyOf, Holding
  <1>12. ASSUME NEW r \in Run, ReconcileWrite(r)
         PROVE  TypeOK' /\ RunInv'
    <2> DEFINE e == run[r].epoch
               k == KeyOf(r)
    <2>1. e \in Epoch /\ k \in Key
      BY <1>12, KeyTyped DEF ReconcileWrite
    <2>2. reservations[k].reserved_turnover \in Nat /\ run[r].realized \in Turnover \cup {Unknown}
      BY <2>1 DEF TypeOK, ReservationRow, RunState
    <2>3. ledger' \in [Epoch -> EpochRow]
      <3>1. CASE run[r].realized > reservations[k].reserved_turnover
        <4>1. run[r].realized - reservations[k].reserved_turnover \in Nat
          BY <2>2, <3>1, ExtraTyped
        <4>2. Bumped(ledger[e], run[r].realized - reservations[k].reserved_turnover) \in EpochRow
          BY <2>1, <4>1, RowTypes DEF TypeOK
        <4> QED
          BY <1>12, <2>1, <3>1, <4>2 DEF ReconcileWrite, TypeOK
      <3>2. CASE ~(run[r].realized > reservations[k].reserved_turnover)
        BY <1>12, <3>2 DEF ReconcileWrite, TypeOK
      <3> QED
        BY <3>1, <3>2
    <2>4. /\ reservations' \in [Key -> ReservationRow]
          /\ \A j \in Key : reservations[j].status # "none" => reservations'[j].status # "none"
      <3> DEFINE final == IF run[r].realized = Unknown
                            THEN reservations[k].reserved_turnover ELSE run[r].realized
      <3>1. final \in Nat
        BY <2>2, BudgetAssumption
      <3>2. reservations' = [reservations EXCEPT ![k].status = "reconciled",
                                                 ![k].realized_turnover = final]
        BY <1>12 DEF ReconcileWrite
      <3> HIDE DEF final
      <3>3. reservations'[k] = [reservations[k] EXCEPT !.status = "reconciled",
                                                       !.realized_turnover = final]
        BY <2>1, <3>2 DEF TypeOK
      <3>4. reservations'[k] \in ReservationRow /\ reservations'[k].status # "none"
        BY <2>1, <3>1, <3>3 DEF TypeOK, ReservationRow, ReservationStatus
      <3>5. /\ DOMAIN reservations' = Key
            /\ \A j \in Key : j # k => reservations'[j] = reservations[j]
            /\ reservations' \in [Key -> ReservationRow]
        BY <2>1, <3>1, <3>2 DEF TypeOK, ReservationRow, ReservationStatus
      <3> QED
        BY <3>4, <3>5
    <2>5. run' = [run EXCEPT ![r] = IdleRun]
      BY <1>12 DEF ReconcileWrite, Stop
    <2>6. TypeOK'
      BY <1>12, <1>idle, <2>3, <2>4, <2>5 DEF ReconcileWrite, TypeOK
    <2>7. \A q \in Run : q # r => run'[q] = run[q]
      BY <2>5 DEF TypeOK
    <2>8. run'[r].pc = "idle"
      BY <2>5 DEF TypeOK, IdleRun
    <2>9. RunInv'
      BY <2>4, <2>7, <2>8, KeyTyped DEF RunInv, KeyOf, Holding
    <2> QED
      BY <2>6, <2>9
  <1>13. ASSUME NEW r \in Run, CrashRun(r)
         PROVE  TypeOK' /\ RunInv'
    BY <1>13, <1>stop DEF CrashRun, TypeOK
  <1>14. CASE Tick
    BY <1>14 DEF Tick, TypeOK, RunInv, KeyOf
  <1>15. CASE UNCHANGED vars
    BY <1>15 DEF vars, TypeOK, RunInv, KeyOf
  <1> QED
    BY <1>1, <1>2, <1>3, <1>4, <1>5, <1>6, <1>7, <1>8, <1>9, <1>10, <1>11, <1>12, <1>13,
       <1>14, <1>15 DEF Next, Cycle

\* The store's tables and the cycles' memory keep their types, and a cycle that
\* may submit, has submitted or is reconciling has a claimed key.
THEOREM TypeCorrect == Spec => [](TypeOK /\ RunInv)
  BY TypeInit, TypeStep, PTL DEF Spec

--------------------------------------------------------------------------------
(***************************************************************************)
(* What a step can do to the two tables: nothing, or one of four            *)
(* transactions.  Every safety proof below is a case split on these.        *)
(***************************************************************************)
Opens(e) ==
  /\ ledger[e].status = "none" /\ OpenEpochs = {}
  /\ \E row \in EpochRow :
       /\ row.status = "open" /\ row.consumed_cycles = 0 /\ row.consumed_turnover = 0
       /\ row.max_live_cycles > 0 /\ row.max_gross_turnover > 0
       /\ ledger' = [ledger EXCEPT ![e] = row]
  /\ UNCHANGED reservations

Closes(e) ==
  /\ ledger[e].status # "none"
  /\ ledger' = [ledger EXCEPT ![e].status = "closed"]
  /\ UNCHANGED reservations

Debits(k) ==
  LET e == k[1] IN
  /\ reservations[k].status = "none"
  /\ \E t \in Turnover :
       /\ HasBudget(e, t)
       /\ ledger' = [ledger EXCEPT ![e] = [Debited(ledger[e], t) EXCEPT
                       !.status = StatusAfterConsume(Debited(ledger[e], t))]]
       /\ reservations' = [reservations EXCEPT ![k] =
            [status |-> "reserved", reserved_turnover |-> t, realized_turnover |-> 0]]

Reconciles(k) ==
  LET e == k[1] IN
  /\ reservations[k].status # "none"
  /\ \/ UNCHANGED ledger /\ Charge(reservations'[k]) <= Charge(reservations[k])
     \/ \E extra \in Nat :
          /\ ledger' = [ledger EXCEPT ![e] = Bumped(ledger[e], extra)]
          /\ Charge(reservations'[k]) <= Charge(reservations[k]) + extra
  /\ \A j \in Key \ {k} : reservations'[j] = reservations[j]
  /\ reservations'[k].status = "reconciled"

TableStep ==
  \/ UNCHANGED <<ledger, reservations>>
  \/ \E e \in Epoch : Opens(e) \/ Closes(e)
  \/ \E k \in Key : Debits(k) \/ Reconciles(k)

LEMMA StepIsTableStep == TypeOK /\ RunInv /\ [Next]_vars => TableStep
  <1> SUFFICES ASSUME TypeOK, RunInv, [Next]_vars PROVE TableStep
    OBVIOUS
  <1> USE BudgetAssumption
  <1>1. ASSUME NEW c \in Opener, NEW cy \in CycleBound, NEW tu \in TurnoverBound,
               OpenEpochInsert(c, cy, tu)
        PROVE  TableStep
    <2> DEFINE row == [status |-> "open", created_at |-> clock, max_live_cycles |-> cy,
                       max_gross_turnover |-> tu, consumed_cycles |-> 0, consumed_turnover |-> 0]
    <2>1. opener[c] \in Epoch
      BY <1>1 DEF OpenEpochInsert, TypeOK
    <2>3. row \in EpochRow /\ cy > 0 /\ tu > 0
      BY DEF EpochRow, EpochStatus, TypeOK
    <2>4. CASE Admits(opener[c])
      <3>1. Opens(opener[c])
        BY <1>1, <2>3, <2>4 DEF OpenEpochInsert, Admits, Opens
      <3> QED
        BY <2>1, <3>1 DEF TableStep
    <2>5. CASE ~Admits(opener[c])
      BY <1>1, <2>5 DEF OpenEpochInsert, TableStep
    <2> QED
      BY <2>4, <2>5
  <1>2. ASSUME NEW e \in Epoch, CloseEpoch(e) PROVE TableStep
    BY <1>2 DEF CloseEpoch, Closes, TableStep
  <1>3. ASSUME NEW r \in Run, ReserveDebit(r) PROVE TableStep
    <2>1. run[r].epoch \in Epoch /\ KeyOf(r) \in Key /\ KeyOf(r)[1] = run[r].epoch
          /\ run[r].projected \in Turnover
      BY <1>3, KeyTyped DEF ReserveDebit, RunInv
    <2>2. CASE UNCHANGED <<ledger, reservations>>
      BY <2>2 DEF TableStep
    <2>3. CASE ~UNCHANGED <<ledger, reservations>>
      <3>1. Debits(KeyOf(r))
        BY <1>3, <2>1, <2>3 DEF ReserveDebit, Debits
      <3> QED
        BY <2>1, <3>1 DEF TableStep
    <2> QED
      BY <2>2, <2>3
  <1>4. ASSUME NEW r \in Run, ReconcileWrite(r) PROVE TableStep
    <2> DEFINE k == KeyOf(r)
    <2>1. k \in Key /\ k[1] = run[r].epoch /\ reservations[k].status # "none"
      BY <1>4, KeyTyped DEF ReconcileWrite, RunInv, Holding
    <2>2. reservations[k].reserved_turnover \in Nat /\ run[r].realized \in Turnover \cup {Unknown}
      BY <2>1 DEF TypeOK, ReservationRow, RunState
    <2> DEFINE reserved == reservations[k].reserved_turnover
               realized == run[r].realized
               final == IF realized = Unknown THEN reserved ELSE realized
    <2>4. /\ \A j \in Key \ {k} : reservations'[j] = reservations[j]
          /\ reservations'[k].status = "reconciled"
          /\ reservations'[k].reserved_turnover = reserved
          /\ reservations'[k].realized_turnover = final
      BY <1>4, <2>1 DEF ReconcileWrite, TypeOK, ReservationRow
    <2> HIDE DEF reserved, realized
    <2>5. reserved \in Nat /\ realized \in Nat \cup {-1} /\ Unknown = -1
      BY <2>2 DEF Unknown, reserved, realized
    <2>6. /\ final \in Nat
          /\ realized > reserved => final = realized
          /\ ~(realized > reserved) => ~(final > reserved)
      BY <2>5
    <2> HIDE DEF final
    <2>7. /\ Charge(reservations'[k]) = IF final > reserved THEN final ELSE reserved
          /\ Charge(reservations[k]) \in Nat /\ reserved <= Charge(reservations[k])
      BY <2>1, <2>4, <2>5 DEF TypeOK, ReservationRow, Charge, reserved
    <2>8. ASSUME realized > reserved PROVE Reconciles(k)
      <3>1. realized \in Nat /\ realized - reserved \in Nat
        BY <2>5, <2>6, <2>8
      <3>2. ledger' = [ledger EXCEPT ![k[1]] = Bumped(ledger[k[1]], realized - reserved)]
        BY <1>4, <2>1, <2>8 DEF ReconcileWrite, realized, reserved
      <3>3. Charge(reservations'[k]) <= Charge(reservations[k]) + (realized - reserved)
        BY <2>5, <2>6, <2>7, <2>8, <3>1
      <3> QED
        BY <2>1, <2>4, <3>1, <3>2, <3>3 DEF Reconciles
    <2>9. ASSUME ~(realized > reserved) PROVE Reconciles(k)
      <3>1. UNCHANGED ledger
        BY <1>4, <2>9 DEF ReconcileWrite, realized, reserved
      <3>2. Charge(reservations'[k]) <= Charge(reservations[k])
        BY <2>5, <2>6, <2>7, <2>9
      <3> QED
        BY <2>1, <2>4, <3>1, <3>2 DEF Reconciles
    <2>10. Reconciles(k)
      BY <2>8, <2>9
    <2> QED
      BY <2>1, <2>10 DEF TableStep
  <1>5. ASSUME NEW r \in Run, Cycle(r), ~ReserveDebit(r), ~ReconcileWrite(r) PROVE TableStep
    BY <1>5 DEF Cycle, StartCycle, ReadCurrentEpoch, OrphanCheck, ReserveSelect,
       ExecuteLiveDelta, ReconcileSelect, TableStep
  <1>6. CASE UNCHANGED <<ledger, reservations>>
    BY <1>6 DEF TableStep
  <1> QED
    BY <1>1, <1>2, <1>3, <1>4, <1>5, <1>6
       DEF Next, OpenEpochSelect, CrashOpener, CrashRun, Tick, vars

--------------------------------------------------------------------------------
\* The epochs that are open after a step.
LEMMA DebitedRow ==
  ASSUME TypeOK, NEW k \in Key, Debits(k)
  PROVE  /\ k[1] \in Epoch /\ ledger[k[1]].status = "open"
         /\ ledger'[k[1]].status = "open" <=>
              /\ ledger'[k[1]].consumed_cycles < ledger'[k[1]].max_live_cycles
              /\ ledger'[k[1]].consumed_turnover < ledger'[k[1]].max_gross_turnover
         /\ ledger'[k[1]].status \in {"open", "exhausted"}
         /\ ledger'[k[1]].consumed_turnover \in Nat
         /\ ledger'[k[1]].consumed_turnover >= ledger[k[1]].consumed_turnover
         /\ ledger'[k[1]].consumed_turnover <= ledger[k[1]].max_gross_turnover
         /\ ledger'[k[1]].max_gross_turnover = ledger[k[1]].max_gross_turnover
         /\ ledger'[k[1]].consumed_cycles = ledger[k[1]].consumed_cycles + 1
         /\ ledger'[k[1]].max_live_cycles = ledger[k[1]].max_live_cycles
         /\ ledger[k[1]].consumed_cycles < ledger[k[1]].max_live_cycles
         /\ \A e \in Epoch \ {k[1]} : ledger'[e] = ledger[e]
  <1> DEFINE e == k[1]
  <1>1. e \in Epoch
    BY DEF Key
  <1>2. PICK t \in Turnover :
          /\ HasBudget(e, t)
          /\ ledger' = [ledger EXCEPT ![e] = [Debited(ledger[e], t) EXCEPT
                          !.status = StatusAfterConsume(Debited(ledger[e], t))]]
    BY DEF Debits
  <1> DEFINE row == Debited(ledger[e], t)
  <1>3. ledger[e] \in EpochRow /\ t \in Nat
    BY <1>1, BudgetAssumption DEF TypeOK
  <1>4. row \in EpochRow /\ StatusAfterConsume(row) \in {"open", "exhausted"}
    BY <1>3, RowTypes
  <1>5. row.consumed_cycles = ledger[e].consumed_cycles + 1
        /\ row.max_live_cycles = ledger[e].max_live_cycles
        /\ row.consumed_turnover = ledger[e].consumed_turnover + t
        /\ row.max_gross_turnover = ledger[e].max_gross_turnover
    BY <1>3 DEF Debited, EpochRow
  <1>6. StatusAfterConsume(row) = "open" <=>
          row.consumed_cycles < row.max_live_cycles /\ row.consumed_turnover < row.max_gross_turnover
    BY <1>4 DEF StatusAfterConsume, EpochRow
  <1> HIDE DEF row
  <1>7. /\ ledger'[e] = [row EXCEPT !.status = StatusAfterConsume(row)]
        /\ \A d \in Epoch \ {e} : ledger'[d] = ledger[d]
    BY <1>1, <1>2 DEF TypeOK, row
  <1>8. /\ ledger'[e].status = StatusAfterConsume(row)
        /\ ledger'[e].consumed_cycles = row.consumed_cycles
        /\ ledger'[e].max_live_cycles = row.max_live_cycles
        /\ ledger'[e].consumed_turnover = row.consumed_turnover
        /\ ledger'[e].max_gross_turnover = row.max_gross_turnover
    BY <1>4, <1>7 DEF EpochRow
  <1>9. /\ ledger[e].consumed_turnover + t \in Nat
        /\ ledger[e].consumed_turnover + t >= ledger[e].consumed_turnover
        /\ ledger[e].consumed_turnover + t <= ledger[e].max_gross_turnover
    BY <1>2, <1>3 DEF HasBudget, EpochRow
  <1> QED
    BY <1>1, <1>2, <1>4, <1>5, <1>6, <1>7, <1>8, <1>9 DEF HasBudget

LEMMA ReconciledRow ==
  ASSUME TypeOK, NEW k \in Key, Reconciles(k)
  PROVE  /\ k[1] \in Epoch
         /\ \A e \in Epoch \ {k[1]} : ledger'[e] = ledger[e]
         /\ \/ ledger'[k[1]] = ledger[k[1]]
            \/ /\ ledger[k[1]].status = "open" => ledger'[k[1]].status \in {"open", "exhausted"}
               /\ ledger[k[1]].status # "open" => ledger'[k[1]].status = ledger[k[1]].status
               /\ ledger'[k[1]].consumed_cycles = ledger[k[1]].consumed_cycles
               /\ ledger'[k[1]].max_live_cycles = ledger[k[1]].max_live_cycles
               /\ ledger[k[1]].status = "open" =>
                    (ledger'[k[1]].status = "open" <=>
                      /\ ledger'[k[1]].consumed_cycles < ledger'[k[1]].max_live_cycles
                      /\ ledger'[k[1]].consumed_turnover < ledger'[k[1]].max_gross_turnover)
               /\ ledger'[k[1]].consumed_turnover \in Nat
               /\ ledger'[k[1]].consumed_turnover >= ledger[k[1]].consumed_turnover
               /\ ledger'[k[1]].max_gross_turnover = ledger[k[1]].max_gross_turnover
  <1> DEFINE e == k[1]
  <1>1. e \in Epoch
    BY DEF Key
  <1>2. CASE UNCHANGED ledger
    BY <1>1, <1>2
  <1>3. ASSUME NEW extra \in Nat, ledger' = [ledger EXCEPT ![e] = Bumped(ledger[e], extra)]
        PROVE  /\ \A d \in Epoch \ {e} : ledger'[d] = ledger[d]
               /\ ledger[e].status = "open" => ledger'[e].status \in {"open", "exhausted"}
               /\ ledger[e].status # "open" => ledger'[e].status = ledger[e].status
               /\ ledger'[e].consumed_cycles = ledger[e].consumed_cycles
               /\ ledger'[e].max_live_cycles = ledger[e].max_live_cycles
               /\ ledger[e].status = "open" =>
                    (ledger'[e].status = "open" <=>
                      /\ ledger'[e].consumed_cycles < ledger'[e].max_live_cycles
                      /\ ledger'[e].consumed_turnover < ledger'[e].max_gross_turnover)
               /\ ledger'[e].consumed_turnover \in Nat
               /\ ledger'[e].consumed_turnover >= ledger[e].consumed_turnover
               /\ ledger'[e].max_gross_turnover = ledger[e].max_gross_turnover
    <2> DEFINE up == [ledger[e] EXCEPT !.consumed_turnover = @ + extra]
               status == IF up.status = "open" THEN StatusAfterConsume(up) ELSE up.status
    <2>1. up \in EpochRow
      BY <1>1 DEF TypeOK, EpochRow
    <2>2. /\ up.status = ledger[e].status /\ up.consumed_cycles = ledger[e].consumed_cycles
          /\ up.max_live_cycles = ledger[e].max_live_cycles
          /\ up.max_gross_turnover = ledger[e].max_gross_turnover
          /\ up.consumed_turnover \in Nat
          /\ up.consumed_turnover >= ledger[e].consumed_turnover
      BY <1>1 DEF TypeOK, EpochRow
    <2>3. ledger' = [ledger EXCEPT ![e] = [up EXCEPT !.status = status]]
      BY <1>3 DEF Bumped
    <2>4. StatusAfterConsume(up) \in {"open", "exhausted"} /\
          (StatusAfterConsume(up) = "open" <=>
             up.consumed_cycles < up.max_live_cycles /\ up.consumed_turnover < up.max_gross_turnover)
      BY <2>1 DEF StatusAfterConsume, EpochRow
    <2> HIDE DEF up
    <2>5. /\ ledger'[e] = [up EXCEPT !.status = status]
          /\ \A d \in Epoch \ {e} : ledger'[d] = ledger[d]
      BY <1>1, <2>3 DEF TypeOK
    <2>6. /\ ledger'[e].status = status
          /\ ledger'[e].consumed_cycles = up.consumed_cycles
          /\ ledger'[e].max_live_cycles = up.max_live_cycles
          /\ ledger'[e].consumed_turnover = up.consumed_turnover
          /\ ledger'[e].max_gross_turnover = up.max_gross_turnover
      BY <2>1, <2>5 DEF EpochRow
    <2> QED
      BY <2>2, <2>4, <2>5, <2>6
  <1> QED
    BY <1>1, <1>2, <1>3 DEF Reconciles

--------------------------------------------------------------------------------
(***************************************************************************)
(* What every committed transaction leaves in the two tables.  The claimed   *)
(* keys of an epoch are finite, none of them precedes the epoch's row, and   *)
(* the row has counted them.                                                 *)
(***************************************************************************)
LedgerInv ==
  /\ OneOpenEpoch
  /\ OpenEpochHasBudget
  /\ \A e \in Epoch : IsFiniteSet(Claimed(e))
  /\ \A e \in Epoch : ledger[e].status = "none" =>
       Claimed(e) = {} /\ ledger[e].consumed_turnover = 0
  /\ CyclesMatchReservations

LEMMA LedgerInit == Init => LedgerInv
  <1> SUFFICES ASSUME Init PROVE LedgerInv
    OBVIOUS
  <1>1. \A e \in Epoch : Claimed(e) = {} /\ ledger[e] = NoRow
    BY DEF Init, Claimed, KeysOf, NoReservation
  <1>2. OpenEpochs = {}
    BY <1>1 DEF OpenEpochs, NoRow
  <1> QED
    BY <1>1, <1>2, FS_EmptySet DEF LedgerInv, OneOpenEpoch, OpenEpochHasBudget,
       CyclesMatchReservations, NoRow

\* A step opens an epoch only when none is open.
LEMMA OpensFirst ==
  ASSUME TypeOK, TableStep
  PROVE  \/ OpenEpochs' \subseteq OpenEpochs
         \/ OpenEpochs = {} /\ \E e \in Epoch : OpenEpochs' = {e}
  <1>1. ASSUME NEW e \in Epoch, Opens(e) PROVE OpenEpochs' = {e} /\ OpenEpochs = {}
    <2>1. ledger'[e].status = "open" /\ \A d \in Epoch \ {e} : ledger'[d] = ledger[d]
      BY <1>1 DEF Opens, TypeOK
    <2> QED
      BY <1>1, <2>1 DEF Opens, OpenEpochs
  <1>2. ASSUME NEW e \in Epoch, Closes(e) PROVE OpenEpochs' \subseteq OpenEpochs
    <2>1. ledger'[e].status = "closed" /\ \A d \in Epoch \ {e} : ledger'[d] = ledger[d]
      BY <1>2 DEF Closes, TypeOK, EpochRow
    <2> QED
      BY <2>1 DEF OpenEpochs
  <1>3. ASSUME NEW k \in Key, Debits(k) PROVE OpenEpochs' \subseteq OpenEpochs
    BY <1>3, DebitedRow DEF OpenEpochs
  <1>4. ASSUME NEW k \in Key, Reconciles(k) PROVE OpenEpochs' \subseteq OpenEpochs
    BY <1>4, ReconciledRow DEF OpenEpochs
  <1>5. CASE UNCHANGED <<ledger, reservations>>
    BY <1>5 DEF OpenEpochs
  <1> QED
    BY <1>1, <1>2, <1>3, <1>4, <1>5 DEF TableStep

\* A debit adds its key to the claimed keys of its epoch; nothing else does.
LEMMA ClaimedAfter ==
  ASSUME TypeOK, TableStep
  PROVE  \/ \A e \in Epoch : Claimed(e)' = Claimed(e)
         \/ \E k \in Key : /\ Debits(k) /\ k \notin Claimed(k[1])
                            /\ Claimed(k[1])' = Claimed(k[1]) \cup {k}
                            /\ \A e \in Epoch \ {k[1]} : Claimed(e)' = Claimed(e)
  <1>1. ASSUME NEW k \in Key, Debits(k)
        PROVE  /\ k \notin Claimed(k[1]) /\ Claimed(k[1])' = Claimed(k[1]) \cup {k}
               /\ \A e \in Epoch \ {k[1]} : Claimed(e)' = Claimed(e)
    <2>1. reservations[k].status = "none" /\ reservations'[k].status = "reserved"
          /\ \A j \in Key \ {k} : reservations'[j] = reservations[j]
      BY <1>1 DEF Debits, TypeOK
    <2> QED
      BY <2>1 DEF Claimed, KeysOf
  <1>2. ASSUME NEW k \in Key, Reconciles(k) PROVE \A e \in Epoch : Claimed(e)' = Claimed(e)
    <2>1. reservations[k].status # "none" /\ reservations'[k].status # "none"
          /\ \A j \in Key \ {k} : reservations'[j] = reservations[j]
      BY <1>2 DEF Reconciles
    <2> QED
      BY <2>1 DEF Claimed, KeysOf
  <1>3. CASE UNCHANGED reservations
    BY <1>3 DEF Claimed, KeysOf
  <1> QED
    BY <1>1, <1>2, <1>3 DEF TableStep, Opens, Closes

LEMMA LedgerStep == TypeOK /\ RunInv /\ LedgerInv /\ [Next]_vars => LedgerInv'
  <1> SUFFICES ASSUME TypeOK, RunInv, LedgerInv, [Next]_vars PROVE LedgerInv'
    OBVIOUS
  <1>0. TableStep
    BY StepIsTableStep
  <1>1. OneOpenEpoch'
    BY <1>0, OpensFirst DEF LedgerInv, OneOpenEpoch
  <1>2. \A e \in Epoch : IsFiniteSet(Claimed(e)) /\ Cardinality(Claimed(e)) \in Nat
    BY FS_CardinalityType DEF LedgerInv
  <1>3. \A e \in Epoch : IsFiniteSet(Claimed(e)')
    BY <1>0, <1>2, ClaimedAfter, FS_AddElement
  <1>4. ASSUME NEW e \in Epoch
        PROVE  /\ ledger'[e].status = "open" =>
                    /\ ledger'[e].consumed_cycles < ledger'[e].max_live_cycles
                    /\ ledger'[e].consumed_turnover < ledger'[e].max_gross_turnover
               /\ ledger'[e].status = "none" => Claimed(e)' = {} /\ ledger'[e].consumed_turnover = 0
               /\ ledger'[e].consumed_cycles = Cardinality(Claimed(e)')
               /\ ledger'[e].consumed_cycles <= ledger'[e].max_live_cycles
    <2>0. /\ ledger[e].status = "open" =>
               /\ ledger[e].consumed_cycles < ledger[e].max_live_cycles
               /\ ledger[e].consumed_turnover < ledger[e].max_gross_turnover
          /\ ledger[e].status = "none" => Claimed(e) = {} /\ ledger[e].consumed_turnover = 0
          /\ ledger[e].consumed_cycles = Cardinality(Claimed(e))
          /\ ledger[e].consumed_cycles <= ledger[e].max_live_cycles
      BY DEF LedgerInv, OpenEpochHasBudget, OpenEpochs, CyclesMatchReservations
    <2>ty. ledger[e] \in EpochRow
      BY DEF TypeOK
    <2>1. ASSUME NEW d \in Epoch, Opens(d) \/ Closes(d), ledger'[e] # ledger[e] PROVE <1>4!2
      <3>1. e = d /\ Claimed(e)' = Claimed(e)
        BY <2>1 DEF Opens, Closes, TypeOK, Claimed, KeysOf
      <3>2. CASE Opens(e)
        <4>1. PICK row \in EpochRow :
                /\ row.status = "open" /\ row.consumed_cycles = 0 /\ row.consumed_turnover = 0
                /\ row.max_live_cycles > 0 /\ row.max_gross_turnover > 0
                /\ ledger'[e] = row
          BY <3>2 DEF Opens, TypeOK
        <4>2. Claimed(e)' = {}
          BY <2>0, <3>1, <3>2 DEF Opens
        <4> QED
          BY <4>1, <4>2, FS_EmptySet DEF EpochRow
      <3>3. CASE Closes(e)
        <4>1. /\ ledger'[e].status = "closed"
              /\ ledger'[e].consumed_cycles = ledger[e].consumed_cycles
              /\ ledger'[e].max_live_cycles = ledger[e].max_live_cycles
          BY <2>ty, <3>3 DEF Closes, TypeOK, EpochRow
        <4> QED
          BY <2>0, <3>1, <4>1
      <3> QED
        BY <2>1, <3>1, <3>2, <3>3
    <2>2. ASSUME NEW k \in Key, Debits(k), e = k[1] PROVE <1>4!2
      <3>1. k \notin Claimed(e) /\ Claimed(e)' = Claimed(e) \cup {k}
        <4>1. reservations[k].status = "none" /\ reservations'[k].status = "reserved"
              /\ \A j \in Key \ {k} : reservations'[j] = reservations[j]
          BY <2>2 DEF Debits, TypeOK
        <4> QED
          BY <2>2, <4>1 DEF Claimed, KeysOf
      <3>2. Cardinality(Claimed(e)') = Cardinality(Claimed(e)) + 1
        BY <1>2, <3>1, FS_AddElement
      <3> QED
        BY <2>0, <2>2, <2>ty, <3>2, <1>2, DebitedRow DEF EpochRow
    <2>3. ASSUME NEW k \in Key, Reconciles(k), e = k[1] PROVE <1>4!2
      <3>1. Claimed(e)' = Claimed(e)
        BY <2>3 DEF Reconciles, Claimed, KeysOf
      <3>2. ledger[e].status # "none"
        BY <2>0, <2>3 DEF Reconciles, Claimed, KeysOf
      <3>3. ledger'[e].status # "none"
        BY <2>3, <3>2, ReconciledRow
      <3> QED
        BY <2>0, <2>3, <3>1, <3>3, ReconciledRow
    <2>4. CASE ledger'[e] = ledger[e] /\ Claimed(e)' = Claimed(e)
      BY <2>0, <2>4
    <2>5. ASSUME NEW k \in Key, Debits(k) \/ Reconciles(k), e # k[1]
          PROVE  ledger'[e] = ledger[e] /\ Claimed(e)' = Claimed(e)
      <3>1. ledger'[e] = ledger[e]
        BY <2>5, DebitedRow, ReconciledRow
      <3>2. \A j \in Key \ {k} : reservations'[j] = reservations[j]
        BY <2>5 DEF Debits, Reconciles, TypeOK
      <3> QED
        BY <2>5, <3>1, <3>2 DEF Claimed, KeysOf
    <2>6. ASSUME UNCHANGED reservations PROVE Claimed(e)' = Claimed(e)
      BY <2>6 DEF Claimed, KeysOf
    <2> QED
      BY <1>0, <2>1, <2>2, <2>3, <2>4, <2>5, <2>6 DEF TableStep, Opens, Closes
  <1> QED
    BY <1>1, <1>3, <1>4 DEF LedgerInv, OpenEpochHasBudget, OpenEpochs, CyclesMatchReservations

LEMMA LedgerCorrect == Spec => [](TypeOK /\ RunInv /\ LedgerInv)
  BY TypeInit, TypeStep, LedgerInit, LedgerStep, PTL DEF Spec

\* No interleaving of controllers opens two epochs at once.
THEOREM SingleOpenEpoch == Spec => []OneOpenEpoch
  <1>1. LedgerInv => OneOpenEpoch
    BY DEF LedgerInv
  <1> QED
    BY <1>1, LedgerCorrect, PTL

\* An epoch that every cycle sees as current has a cycle and turnover left.
THEOREM CurrentEpochIsFunded == Spec => []OpenEpochHasBudget
  <1>1. LedgerInv => OpenEpochHasBudget
    BY DEF LedgerInv
  <1> QED
    BY <1>1, LedgerCorrect, PTL

\* The ledger's cycle counter is the number of reservation rows, retries and
\* crashes included, and is capped by max_live_cycles.
THEOREM CyclesAreReservations == Spec => []CyclesMatchReservations
  <1>1. LedgerInv => CyclesMatchReservations
    BY DEF LedgerInv
  <1> QED
    BY <1>1, LedgerCorrect, PTL

--------------------------------------------------------------------------------
\* No step takes a claim back.
LEMMA ClaimsStay ==
  ASSUME TypeOK, TableStep, NEW k \in Key, reservations[k].status # "none"
  PROVE  reservations'[k].status # "none"
  BY DEF TableStep, Opens, Closes, Debits, Reconciles, TypeOK

\* What reached the exchange, crash or not, was debited before.
THEOREM NothingUnpaid == Spec => []SubmittedWasDebited
  <1>1. Init => SubmittedWasDebited
    BY DEF Init, SubmittedWasDebited
  <1>2. TypeOK /\ RunInv /\ SubmittedWasDebited /\ [Next]_vars => SubmittedWasDebited'
    <2> SUFFICES ASSUME TypeOK, RunInv, SubmittedWasDebited, [Next]_vars PROVE SubmittedWasDebited'
      OBVIOUS
    <2>1. TableStep /\ submitted \subseteq Key
      BY StepIsTableStep DEF TypeOK
    <2>2. ASSUME NEW r \in Run, run[r].pc = "submit"
          PROVE  KeyOf(r) \in Key /\ reservations[KeyOf(r)].status # "none"
      BY <2>2, KeyTyped DEF RunInv, Holding
    <2>3. submitted' = submitted
          \/ \E r \in Run : run[r].pc = "submit" /\ submitted' = submitted \cup {KeyOf(r)}
      BY DEF Next, Cycle, vars, OpenEpochSelect, OpenEpochInsert, CrashOpener, CloseEpoch, StartCycle,
         ReadCurrentEpoch, OrphanCheck, ReserveSelect, ReserveDebit, ExecuteLiveDelta,
         ReconcileSelect, ReconcileWrite, CrashRun, Tick
    <2> QED
      BY <2>1, <2>2, <2>3, ClaimsStay DEF SubmittedWasDebited
  <1> QED
    BY <1>1, <1>2, TypeCorrect, PTL DEF Spec

\* Exhausted and closed epochs are never revived, whatever a cycle that read
\* them as open still writes.
THEOREM TerminalStays == Spec => TerminalEpochsStayTerminal
  <1>1. ASSUME TypeOK, RunInv, [Next]_vars, NEW e \in Epoch
        PROVE  /\ ledger[e].status = "exhausted" => ledger'[e].status \in {"exhausted", "closed"}
               /\ ledger[e].status = "closed" => ledger'[e].status = "closed"
    <2>0. TableStep
      BY <1>1, StepIsTableStep
    <2>1. ASSUME NEW d \in Epoch, Opens(d) \/ Closes(d)
          PROVE  ledger'[e].status \in {ledger[e].status, "closed"} \/ ledger[e].status = "none"
      BY <1>1, <2>1 DEF Opens, Closes, TypeOK, EpochRow
    <2>2. ASSUME NEW k \in Key, Debits(k)
          PROVE  ledger'[e] = ledger[e] \/ ledger[e].status = "open"
      BY <1>1, <2>2, DebitedRow
    <2>3. ASSUME NEW k \in Key, Reconciles(k)
          PROVE  ledger'[e].status = ledger[e].status \/ ledger[e].status = "open"
      BY <1>1, <2>3, ReconciledRow
    <2> QED
      BY <2>0, <2>1, <2>2, <2>3 DEF TableStep
  <1>2. TypeOK /\ RunInv /\ [Next]_vars =>
          [\A e \in Epoch :
            /\ ledger[e].status = "exhausted" => ledger'[e].status \in {"exhausted", "closed"}
            /\ ledger[e].status = "closed" => ledger'[e].status = "closed"]_vars
    BY <1>1
  <1> QED
    BY <1>2, TypeCorrect, PTL DEF Spec, TerminalEpochsStayTerminal

--------------------------------------------------------------------------------
\* A cycle's step forgets its cycle, or keeps its key and passes the orphan
\* check only with every key of its epoch reconciled.
CycleStep(r) ==
  /\ \A q \in Run : q # r => run'[q] = run[q]
  /\ PastOrphanCheck(r)' =>
       /\ KeyOf(r)' = KeyOf(r) /\ run'[r].epoch = run[r].epoch
       /\ PastOrphanCheck(r) \/ Unreconciled(run[r].epoch) = {}
  /\ \A k \in Key : reservations'[k] # reservations[k] => PastOrphanCheck(r) /\ k = KeyOf(r)

LEMMA CyclesStep ==
  ASSUME TypeOK, RunInv, NEW r \in Run, Cycle(r) \/ CrashRun(r)
  PROVE  CycleStep(r)
  <1>stop. ASSUME Stop(r), UNCHANGED reservations PROVE CycleStep(r)
    BY <1>stop DEF Stop, CycleStep, PastOrphanCheck, IdleRun, TypeOK
  <1>goto. ASSUME NEW l, Goto(r, l)
           PROVE  /\ \A q \in Run : q # r => run'[q] = run[q]
                  /\ run'[r].pc = l /\ run'[r].epoch = run[r].epoch
                  /\ KeyOf(r)' = KeyOf(r)
    BY <1>goto DEF Goto, TypeOK, RunState, KeyOf
  <1>1. ASSUME NEW p \in Plan, NEW t \in Turnover \cup {Unknown}, StartCycle(r, p, t)
        PROVE  CycleStep(r)
    <2>1. run'[r].pc = "read_epoch" /\ \A q \in Run : q # r => run'[q] = run[q]
      BY <1>1 DEF StartCycle, TypeOK, IdleRun
    <2> QED
      BY <1>1, <2>1 DEF StartCycle, CycleStep, PastOrphanCheck
  <1>2. ASSUME NEW e \in OpenEpochs, UNCHANGED reservations,
               run' = [run EXCEPT ![r] = [@ EXCEPT !.pc = "orphan_check", !.epoch = e]]
        PROVE  CycleStep(r)
    <2>1. run'[r].pc = "orphan_check" /\ \A q \in Run : q # r => run'[q] = run[q]
      BY <1>2 DEF TypeOK, RunState
    <2> QED
      BY <1>2, <2>1 DEF CycleStep, PastOrphanCheck
  <1>3. CASE OrphanCheck(r)
    BY <1>3, <1>stop, <1>goto DEF OrphanCheck, CycleStep
  <1>4. CASE ReserveSelect(r) \/ ReconcileSelect(r)
    BY <1>4, <1>stop, <1>goto DEF ReserveSelect, ReconcileSelect, CycleStep, PastOrphanCheck
  <1>5. CASE ReserveDebit(r)
    <2>1. PastOrphanCheck(r) /\ \A k \in Key : k # KeyOf(r) => reservations'[k] = reservations[k]
      BY <1>5 DEF ReserveDebit, PastOrphanCheck, TypeOK
    <2>2. CASE Stop(r) /\ UNCHANGED reservations
      BY <1>stop, <2>2
    <2>3. CASE Goto(r, "submit")
      BY <1>goto, <2>1, <2>3 DEF CycleStep
    <2> QED
      BY <1>5, <2>2, <2>3 DEF ReserveDebit
  <1>6. CASE ExecuteLiveDelta(r)
    <2>1. /\ \A q \in Run : q # r => run'[q] = run[q]
          /\ run'[r].epoch = run[r].epoch /\ run'[r].plan = run[r].plan
      <3>1. CASE run' = [run EXCEPT ![r].pc = "executed"]
        BY <3>1 DEF TypeOK, RunState
      <3>2. ASSUME NEW orders, NEW realized,
                   run' = [run EXCEPT ![r] = [@ EXCEPT !.pc = "executed", !.ordersSubmitted = orders,
                                                       !.realized = realized]]
            PROVE  <2>1!1 /\ <2>1!2
        BY <3>2 DEF TypeOK, RunState
      <3> QED
        BY <1>6, <3>1, <3>2 DEF ExecuteLiveDelta
    <2> QED
      BY <1>6, <2>1 DEF ExecuteLiveDelta, CycleStep, PastOrphanCheck, KeyOf
  <1>7. CASE ReconcileWrite(r)
    <2>1. PastOrphanCheck(r) /\ \A k \in Key : k # KeyOf(r) => reservations'[k] = reservations[k]
      BY <1>7 DEF ReconcileWrite, PastOrphanCheck, TypeOK
    <2>2. run'[r].pc = "idle" /\ \A q \in Run : q # r => run'[q] = run[q]
      BY <1>7 DEF ReconcileWrite, Stop, IdleRun, TypeOK
    <2> QED
      BY <2>1, <2>2 DEF CycleStep, PastOrphanCheck
  <1>8. CASE ReadCurrentEpoch(r) \/ CrashRun(r)
    BY <1>2, <1>8, <1>stop DEF ReadCurrentEpoch, CrashRun
  <1> QED
    BY <1>1, <1>3, <1>4, <1>5, <1>6, <1>7, <1>8 DEF Cycle

\* A frozen epoch stays frozen: only a new epoch lets live cycles go on.
THEOREM FrozenStays == Spec => FrozenEpochStaysFrozen
  <1>1. ASSUME TypeOK, RunInv, [Next]_vars, NEW e \in Epoch, Frozen(e)
        PROVE  Frozen(e)'
    <2>1. PICK k \in KeysOf(e) : reservations[k].status = "reserved"
      BY <1>1 DEF Frozen, Orphan
    <2>2. k \in Key /\ k[1] = e /\ k \in Unreconciled(e)
      BY <2>1 DEF KeysOf, Unreconciled
    <2>3. \A r \in Run : PastOrphanCheck(r) => run[r].epoch # e
      BY <1>1 DEF Frozen
    <2>4. /\ reservations'[k].status = "reserved"
          /\ \A r \in Run : PastOrphanCheck(r)' => run'[r].epoch # e
      <3>1. ASSUME NEW r \in Run, Cycle(r) \/ CrashRun(r) PROVE <2>4
        <4>1. CycleStep(r)
          BY <1>1, <3>1, CyclesStep
        <4>2. PastOrphanCheck(r) => k # KeyOf(r)
          BY <2>2, <2>3 DEF KeyOf
        <4> QED
          BY <2>1, <2>2, <2>3, <4>1, <4>2 DEF CycleStep, PastOrphanCheck
      <3>2. CASE UNCHANGED <<reservations, run>>
        BY <2>1, <2>3, <3>2 DEF PastOrphanCheck
      <3> QED
        BY <1>1, <3>1, <3>2 DEF Next, OpenEpochSelect, OpenEpochInsert, CrashOpener, CloseEpoch, Tick, vars
    <2>5. \A r \in Run : run'[r].pc \in Holding => KeyOf(r)' # k
      BY <2>2, <2>4 DEF PastOrphanCheck, Holding, KeyOf
    <2> QED
      BY <2>1, <2>4, <2>5 DEF Frozen, Orphan, KeysOf, Holding
  <1>2. TypeOK /\ RunInv /\ [Next]_vars => [\A e \in Epoch : Frozen(e) => Frozen(e)']_vars
    BY <1>1
  <1> QED
    BY <1>2, TypeCorrect, PTL DEF Spec, FrozenEpochStaysFrozen

--------------------------------------------------------------------------------
\* The timers start one core loop at a time.
OneCycleAtATime == \A q, r \in Run : q = r

\* What a cycle past its orphan check may find reserved in its epoch.
OnlyOwnReservation ==
  \A r \in Run : PastOrphanCheck(r) =>
    \A k \in KeysOf(run[r].epoch) : reservations[k].status = "reserved" => k = KeyOf(r)

LEMMA OnlyOwnStep ==
  ASSUME OneCycleAtATime, TypeOK, RunInv, OnlyOwnReservation, [Next]_vars
  PROVE  OnlyOwnReservation'
  <1>1. ASSUME NEW r \in Run, Cycle(r) \/ CrashRun(r), PastOrphanCheck(r)',
               NEW k \in KeysOf(run'[r].epoch), reservations'[k].status = "reserved"
        PROVE  k = KeyOf(r)'
    <2>1. CycleStep(r)
      BY <1>1, CyclesStep
    <2>2. k \in KeysOf(run[r].epoch) /\ KeyOf(r)' = KeyOf(r) /\ k \in Key
      BY <1>1, <2>1 DEF CycleStep, KeysOf
    <2>3. CASE reservations'[k] = reservations[k]
      BY <1>1, <2>1, <2>2, <2>3 DEF CycleStep, OnlyOwnReservation, Unreconciled, KeysOf
    <2>4. CASE reservations'[k] # reservations[k]
      BY <2>1, <2>2, <2>4 DEF CycleStep
    <2> QED
      BY <2>3, <2>4
  <1>2. CASE \E r \in Run : Cycle(r) \/ CrashRun(r)
    BY <1>1, <1>2 DEF OnlyOwnReservation, OneCycleAtATime, KeysOf
  <1>3. CASE UNCHANGED <<run, reservations>>
    BY <1>3 DEF OnlyOwnReservation, PastOrphanCheck, KeysOf, KeyOf
  <1> QED
    BY <1>2, <1>3 DEF Next, OpenEpochSelect, OpenEpochInsert, CrashOpener, CloseEpoch, Tick, vars

\* With one cycle at a time no cycle submits while an earlier one of its epoch
\* is unreconciled, however often cycles died or asked for a key again.
THEOREM NoOrphanBeside == Spec /\ OneCycleAtATime => []NoOrphanInOwnEpoch
  <1> SUFFICES ASSUME OneCycleAtATime PROVE Spec => []NoOrphanInOwnEpoch
    OBVIOUS
  <1>1. Init => OnlyOwnReservation
    BY DEF Init, OnlyOwnReservation, PastOrphanCheck, IdleRun
  <1>2. TypeOK /\ RunInv /\ OnlyOwnReservation /\ [Next]_vars => OnlyOwnReservation'
    BY OnlyOwnStep
  <1>3. OnlyOwnReservation => NoOrphanInOwnEpoch
    BY DEF OnlyOwnReservation, NoOrphanInOwnEpoch, PastOrphanCheck
  <1> QED
    BY <1>1, <1>2, <1>3, TypeCorrect, PTL DEF Spec


--------------------------------------------------------------------------------
(***************************************************************************)
(* The sum of charges over a finite set of keys.  MapThenSumSet takes the    *)
(* keys out in some order it chooses; the lemmas say that its recursion has  *)
(* one solution, that the order does not matter and that only the rows of    *)
(* the set do.  Each is an argument about a minimal subset that fails it.    *)
(***************************************************************************)
\* A nonempty collection of subsets of a finite set has a minimal member.
LEMMA MinimalSubset ==
  ASSUME NEW S, IsFiniteSet(S), NEW B \in SUBSET SUBSET S, B # {}
  PROVE  \E T \in B : \A U \in B : U \subseteq T => U = T
<1> DEFINE R == StrictSubsetOrdering(S)
<1>1. IsWellFoundedOn(R, FiniteSubsetsOf(S))
  BY FS_StrictSubsetOrderingWellFounded
<1>2. B \subseteq FiniteSubsetsOf(S)
  BY FS_Subset DEF FiniteSubsetsOf
<1> HIDE DEF R
<1>3. PICK T \in B : \A U \in B : ~(<<U, T>> \in R)
  BY <1>1, <1>2, WFMin
<1>4. ASSUME NEW U \in B, U \subseteq T PROVE U = T
  BY <1>3, <1>4 DEF R, StrictSubsetOrdering
<1> QED
  BY <1>4

Some(T) == CHOOSE x \in T : TRUE

\* The recursion that MapThenSumSet unfolds to.
IsSum(g, table, S) ==
  g = [T \in SUBSET S |->
        IF T = {} THEN 0 ELSE Charge(table[Some(T)]) + g[T \ {Some(T)}]]

ChargeSum(table, S) == MapThenSumSet(LAMBDA k : Charge(table[k]), S)

LEMMA ChargeSumIs ==
  ASSUME NEW table, NEW S
  PROVE  ChargeSum(table, S) = (CHOOSE g : IsSum(g, table, S))[S]
  BY DEF ChargeSum, MapThenSumSet, MapThenFoldSet, IsSum, Some

LEMMA SomeIn ==
  ASSUME NEW T, T # {} PROVE Some(T) \in T
  BY DEF Some

LEMMA IsSumAt ==
  ASSUME NEW g, NEW table, NEW S, IsSum(g, table, S), NEW T \in SUBSET S
  PROVE  /\ T = {} => g[T] = 0
         /\ T # {} => g[T] = Charge(table[Some(T)]) + g[T \ {Some(T)}]
<1> DEFINE h == [X \in SUBSET S |-> IF X = {} THEN 0 ELSE Charge(table[Some(X)]) + g[X \ {Some(X)}]]
<1>1. g = h
  BY DEF IsSum
<1>2. h[T] = IF T = {} THEN 0 ELSE Charge(table[Some(T)]) + g[T \ {Some(T)}]
  OBVIOUS
<1> HIDE DEF h
<1> QED
  BY <1>1, <1>2

\* Two such functions agree wherever both are defined.
LEMMA SumUnique ==
  ASSUME NEW table, NEW also, NEW S, NEW U, IsFiniteSet(S), NEW g, NEW h,
         IsSum(g, table, S), IsSum(h, also, U),
         NEW V \in SUBSET S, V \in SUBSET U,
         \A x \in V : Charge(table[x]) = Charge(also[x])
  PROVE  g[V] = h[V]
<1> SUFFICES ASSUME g[V] # h[V] PROVE FALSE
  OBVIOUS
<1> DEFINE B == {T \in SUBSET V : g[T] # h[T]}
<1>1. IsFiniteSet(V)
  BY FS_Subset
<1>2. B \in SUBSET SUBSET V /\ B # {}
  OBVIOUS
<1> HIDE DEF B
<1>3. PICK T \in B : \A X \in B : X \subseteq T => X = T
  BY <1>1, <1>2, MinimalSubset
<1>4. T \in SUBSET V /\ g[T] # h[T]
  BY <1>3 DEF B
<1>5. T \in SUBSET S /\ T \in SUBSET U
  BY <1>4
<1>6. T # {}
  BY <1>4, <1>5, IsSumAt
<1> DEFINE x == Some(T)
<1>7. x \in T
  BY <1>6, SomeIn
<1> HIDE DEF x
<1>8. T \ {x} \notin B
  BY <1>3, <1>7
<1>9. g[T \ {x}] = h[T \ {x}]
  BY <1>4, <1>8 DEF B
<1>10. g[T] = Charge(table[x]) + g[T \ {x}] /\ h[T] = Charge(also[x]) + h[T \ {x}]
  BY <1>5, <1>6, IsSumAt DEF x
<1> QED
  BY <1>4, <1>7, <1>9, <1>10

\* A finite set has such a function.
LEMMA SumExists ==
  ASSUME NEW table, NEW S, IsFiniteSet(S)
  PROVE  \E g : IsSum(g, table, S)
<1> SUFFICES ASSUME ~\E g : IsSum(g, table, S) PROVE FALSE
  OBVIOUS
<1> DEFINE B == {T \in SUBSET S : ~\E g : IsSum(g, table, T)}
<1>1. B \in SUBSET SUBSET S /\ B # {}
  OBVIOUS
<1> HIDE DEF B
<1>2. PICK T \in B : \A X \in B : X \subseteq T => X = T
  BY <1>1, MinimalSubset
<1>3. T \in SUBSET S /\ ~\E g : IsSum(g, table, T)
  BY <1>2 DEF B
<1>4. ASSUME NEW X \in SUBSET T, X # T PROVE \E g : IsSum(g, table, X)
  BY <1>2, <1>3, <1>4 DEF B
<1> DEFINE val(X) == (CHOOSE g : IsSum(g, table, X))[X]
           rest(X) == X \ {Some(X)}
           h == [X \in SUBSET T |-> IF X = {} THEN 0 ELSE Charge(table[Some(X)]) + val(rest(X))]
<1>5. ASSUME NEW X \in SUBSET T, X # T, X # {}
      PROVE  val(X) = Charge(table[Some(X)]) + val(rest(X))
  <2> DEFINE g == CHOOSE u : IsSum(u, table, X)
             w == CHOOSE u : IsSum(u, table, rest(X))
  <2>1. Some(X) \in X /\ rest(X) \in SUBSET T /\ rest(X) # T /\ rest(X) \in SUBSET X
    BY <1>5, SomeIn
  <2>2. IsSum(g, table, X)
    BY <1>4, <1>5
  <2>3. IsSum(w, table, rest(X))
    BY <1>4, <2>1
  <2>4. IsFiniteSet(X)
    BY <1>3, FS_Subset
  <2> HIDE DEF g, w, rest
  <2>5. g[rest(X)] = w[rest(X)]
    BY <2>1, <2>2, <2>3, <2>4, SumUnique
  <2>6. g[X] = Charge(table[Some(X)]) + g[rest(X)]
    BY <1>5, <2>2, IsSumAt DEF rest
  <2> QED
    BY <2>5, <2>6 DEF g, w, val
<1>6. ASSUME NEW X \in SUBSET T, X # T PROVE h[X] = val(X)
  <2>1. CASE X = {}
    <3>1. IsSum(CHOOSE u : IsSum(u, table, X), table, X)
      BY <1>4, <1>6
    <3>2. val(X) = 0
      BY <2>1, <3>1, IsSumAt
    <3> QED
      BY <2>1, <3>2
  <2>2. CASE X # {}
    <3> HIDE DEF val, rest
    <3> QED
      BY <1>5, <1>6, <2>2
  <2> QED
    BY <2>1, <2>2
<1>7. ASSUME NEW X \in SUBSET T, X # {} PROVE h[X] = Charge(table[Some(X)]) + h[rest(X)]
  <2>1. Some(X) \in X /\ rest(X) \in SUBSET T /\ rest(X) # T
    BY <1>7, SomeIn
  <2> HIDE DEF val, rest
  <2>2. h[rest(X)] = val(rest(X))
    BY <1>6, <2>1
  <2> HIDE DEF h
  <2> QED
    BY <1>7, <2>2 DEF h
<1>8. h[{}] = 0
  OBVIOUS
<1>9. h = [X \in SUBSET T |-> IF X = {} THEN 0 ELSE Charge(table[Some(X)]) + h[X \ {Some(X)}]]
  <2> DEFINE k == [X \in SUBSET T |-> IF X = {} THEN 0 ELSE Charge(table[Some(X)]) + h[X \ {Some(X)}]]
  <2>1. \A X \in SUBSET T : h[X] = k[X]
    <3> HIDE DEF h
    <3> QED BY <1>7, <1>8
  <2>2. DOMAIN h = SUBSET T /\ DOMAIN k = SUBSET T
    OBVIOUS
  <2>3. h = [X \in DOMAIN h |-> h[X]] /\ k = [X \in DOMAIN k |-> k[X]]
    OBVIOUS
  <2> HIDE DEF h, k
  <2>4. h = k
    BY <2>1, <2>2, <2>3
  <2> QED
    BY <2>4 DEF k
<1> HIDE DEF h
<1> QED
  BY <1>3, <1>9 DEF IsSum

\* What the sum is, now that the recursion is known to have a solution.
LEMMA ChargeSumOf ==
  ASSUME NEW table, NEW S, IsFiniteSet(S)
  PROVE  \E g : IsSum(g, table, S) /\ ChargeSum(table, S) = g[S]
<1> DEFINE g == CHOOSE u : IsSum(u, table, S)
<1>1. IsSum(g, table, S)
  BY SumExists
<1>2. ChargeSum(table, S) = g[S]
  BY ChargeSumIs
<1> QED
  BY <1>1, <1>2

LEMMA ChargeSumEmpty ==
  ASSUME NEW table PROVE ChargeSum(table, {}) = 0
<1>1. PICK g : IsSum(g, table, {}) /\ ChargeSum(table, {}) = g[{}]
  BY ChargeSumOf, FS_EmptySet
<1> QED
  BY <1>1, IsSumAt

\* Tables that agree on a set give it the same sum.
LEMMA ChargeSumCongruent ==
  ASSUME NEW table, NEW also, NEW S, IsFiniteSet(S),
         \A x \in S : Charge(table[x]) = Charge(also[x])
  PROVE  ChargeSum(table, S) = ChargeSum(also, S)
<1>1. PICK g : IsSum(g, table, S) /\ ChargeSum(table, S) = g[S]
  BY ChargeSumOf
<1>2. PICK h : IsSum(h, also, S) /\ ChargeSum(also, S) = h[S]
  BY ChargeSumOf
<1>3. SUFFICES ASSUME NEW V, V = S PROVE g[V] = h[V]
  BY <1>1, <1>2
<1>4. V \in SUBSET S /\ IsSum(h, also, V) /\ \A x \in V : Charge(table[x]) = Charge(also[x])
  BY <1>2, <1>3
<1> QED
  BY <1>1, <1>4, SumUnique

\* The solution does not depend on the order in which members are taken.
LEMMA SumRemove ==
  ASSUME NEW table, NEW S, IsFiniteSet(S), NEW g, IsSum(g, table, S),
         \A x \in S : Charge(table[x]) \in Nat
  PROVE  \A T \in SUBSET S : /\ g[T] \in Nat
                             /\ \A x \in T : g[T] = Charge(table[x]) + g[T \ {x}]
<1> DEFINE Fine(T) == g[T] \in Nat /\ \A x \in T : g[T] = Charge(table[x]) + g[T \ {x}]
           B == {T \in SUBSET S : ~Fine(T)}
<1> SUFFICES ASSUME B # {} PROVE FALSE
  OBVIOUS
<1>1. B \in SUBSET SUBSET S
  OBVIOUS
<1> HIDE DEF B
<1>2. PICK T \in B : \A U \in B : U \subseteq T => U = T
  BY <1>1, MinimalSubset
<1>3. T \in SUBSET S /\ ~Fine(T)
  BY <1>2 DEF B
<1>4. ASSUME NEW U \in SUBSET T, U # T PROVE Fine(U)
  BY <1>2, <1>3, <1>4 DEF B
<1> DEFINE c == Some(T)
<1>5. T # {}
  <2> SUFFICES ASSUME T = {} PROVE FALSE
    OBVIOUS
  <2>1. g[T] = 0
    BY <1>3, IsSumAt
  <2> QED
    BY <1>3, <2>1
<1>6. c \in T /\ g[T] = Charge(table[c]) + g[T \ {c}]
  BY <1>3, <1>5, IsSumAt, SomeIn
<1> HIDE DEF c
<1>7. \A x \in T : Charge(table[x]) \in Nat /\ g[T \ {x}] \in Nat
  BY <1>3, <1>4
<1>8. ASSUME NEW x \in T PROVE g[T] = Charge(table[x]) + g[T \ {x}]
  <2>1. CASE x = c
    BY <1>6, <2>1
  <2>2. CASE x # c
    <3>1. Fine(T \ {c}) /\ Fine(T \ {x})
      BY <1>4, <1>6
    <3>2. x \in T \ {c} /\ c \in T \ {x} /\ (T \ {c}) \ {x} = (T \ {x}) \ {c}
      BY <1>6, <2>2
    <3>3. /\ g[T \ {c}] = Charge(table[x]) + g[(T \ {c}) \ {x}]
          /\ g[T \ {x}] = Charge(table[c]) + g[(T \ {c}) \ {x}]
      BY <3>1, <3>2
    <3>4. Fine((T \ {c}) \ {x})
      BY <1>4, <1>6
    <3>5. Charge(table[x]) \in Nat /\ Charge(table[c]) \in Nat /\ g[(T \ {c}) \ {x}] \in Nat
      BY <1>6, <1>7, <3>4
    <3> QED
      BY <1>6, <3>3, <3>5
  <2> QED
    BY <2>1, <2>2
<1>9. g[T] \in Nat
  BY <1>6, <1>7
<1> QED
  BY <1>3, <1>8, <1>9

LEMMA ChargeSumNat ==
  ASSUME NEW table, NEW S, IsFiniteSet(S), \A x \in S : Charge(table[x]) \in Nat
  PROVE  ChargeSum(table, S) \in Nat
<1>1. PICK g : IsSum(g, table, S) /\ ChargeSum(table, S) = g[S]
  BY ChargeSumOf
<1>2. S \in SUBSET S
  OBVIOUS
<1> QED
  BY <1>1, <1>2, SumRemove

\* Any member may be taken out first.
LEMMA ChargeSumRemove ==
  ASSUME NEW table, NEW S, IsFiniteSet(S), \A x \in S : Charge(table[x]) \in Nat,
         NEW x \in S
  PROVE  ChargeSum(table, S) = Charge(table[x]) + ChargeSum(table, S \ {x})
<1>1. PICK g : IsSum(g, table, S) /\ ChargeSum(table, S) = g[S]
  BY ChargeSumOf
<1>2. IsFiniteSet(S \ {x})
  BY FS_RemoveElement
<1>3. PICK h : IsSum(h, table, S \ {x}) /\ ChargeSum(table, S \ {x}) = h[S \ {x}]
  BY <1>2, ChargeSumOf
<1>4. S \in SUBSET S /\ S \ {x} \in SUBSET S /\ S \ {x} \in SUBSET (S \ {x})
  OBVIOUS
<1>5. g[S \ {x}] = h[S \ {x}]
  <2> DEFINE V == S \ {x}
  <2>1. V \in SUBSET S /\ V \in SUBSET V /\ IsSum(h, table, V)
    BY <1>3
  <2> HIDE DEF V
  <2>2. g[V] = h[V]
    BY <1>1, <2>1, SumUnique
  <2> QED
    BY <2>2 DEF V
<1>6. g[S] = Charge(table[x]) + g[S \ {x}]
  BY <1>1, <1>4, SumRemove
<1> QED
  BY <1>1, <1>3, <1>5, <1>6

--------------------------------------------------------------------------------
\* A debit costs its epoch what it charges the new key; a reconcile raises the
\* epoch by at least what it raises the charge of its key.
LEMMA DebitPays ==
  ASSUME TypeOK, NEW k \in Key, Debits(k)
  PROVE  /\ Charge(reservations'[k]) \in Nat
         /\ ledger'[k[1]].consumed_turnover = ledger[k[1]].consumed_turnover + Charge(reservations'[k])
  <1> DEFINE e == k[1]
  <1>1. PICK t \in Turnover :
          /\ ledger' = [ledger EXCEPT ![e] = [Debited(ledger[e], t) EXCEPT
                          !.status = StatusAfterConsume(Debited(ledger[e], t))]]
          /\ reservations' = [reservations EXCEPT ![k] =
               [status |-> "reserved", reserved_turnover |-> t, realized_turnover |-> 0]]
    BY DEF Debits
  <1>2. e \in Epoch /\ t \in Nat
    BY BudgetAssumption DEF Key
  <1>3. Charge(reservations'[k]) = t
    BY <1>1, <1>2 DEF Charge, TypeOK
  <1> DEFINE row == Debited(ledger[e], t)
  <1>4. row \in EpochRow
    BY <1>2, RowTypes DEF TypeOK
  <1>5. row.consumed_turnover = ledger[e].consumed_turnover + t
    BY <1>2 DEF TypeOK, EpochRow, Debited
  <1> HIDE DEF row
  <1>6. ledger'[e] = [row EXCEPT !.status = StatusAfterConsume(row)]
    BY <1>1, <1>2 DEF TypeOK, row
  <1> QED
    BY <1>2, <1>3, <1>4, <1>5, <1>6 DEF EpochRow

LEMMA ReconcilePays ==
  ASSUME TypeOK, NEW k \in Key, Reconciles(k), Charge(reservations'[k]) \in Nat
  PROVE  ledger'[k[1]].consumed_turnover + Charge(reservations[k])
           >= ledger[k[1]].consumed_turnover + Charge(reservations'[k])
  <1> DEFINE e == k[1]
  <1>1. e \in Epoch /\ ledger[e] \in EpochRow /\ Charge(reservations[k]) \in Nat
    BY DEF Key, TypeOK, Charge, ReservationRow
  <1>2. CASE UNCHANGED ledger /\ Charge(reservations'[k]) <= Charge(reservations[k])
    BY <1>1, <1>2 DEF EpochRow
  <1>3. ASSUME NEW extra \in Nat,
               ledger' = [ledger EXCEPT ![e] = Bumped(ledger[e], extra)],
               Charge(reservations'[k]) <= Charge(reservations[k]) + extra
        PROVE  ledger'[e].consumed_turnover + Charge(reservations[k])
                 >= ledger[e].consumed_turnover + Charge(reservations'[k])
    <2> DEFINE row == Bumped(ledger[e], extra)
    <2>1. row.consumed_turnover = ledger[e].consumed_turnover + extra
      BY <1>1 DEF Bumped, EpochRow
    <2>2. ledger'[e] = row
      BY <1>1, <1>3 DEF TypeOK
    <2> HIDE DEF row
    <2> QED
      BY <1>1, <1>3, <2>1, <2>2 DEF EpochRow
  <1> QED
    BY <1>2, <1>3 DEF Reconciles

Covered(e) == ledger[e].consumed_turnover >= ChargeSum(reservations, Claimed(e))
AllCovered == \A e \in Epoch : Covered(e)

LEMMA CoveredStep ==
  ASSUME TypeOK, TypeOK', LedgerInv, TableStep, NEW e \in Epoch, Covered(e)
  PROVE  Covered(e)'
  <1> DEFINE paid == ledger[e].consumed_turnover
             sum == ChargeSum(reservations, Claimed(e))
  <1>1. IsFiniteSet(Claimed(e)) /\ Claimed(e) \subseteq Key
    BY DEF LedgerInv, Claimed, KeysOf
  <1>2. /\ \A k \in Key : Charge(reservations[k]) \in Nat
        /\ \A k \in Key : Charge(reservations'[k]) \in Nat
    BY DEF TypeOK, Charge, ReservationRow
  <1>3. sum \in Nat /\ paid \in Nat /\ ledger'[e].consumed_turnover \in Nat
    BY <1>1, <1>2, ChargeSumNat DEF TypeOK, EpochRow
  <1>4. ASSUME Claimed(e)' = Claimed(e), ledger'[e].consumed_turnover >= paid,
               \A k \in Claimed(e) : Charge(reservations'[k]) = Charge(reservations[k])
        PROVE  Covered(e)'
    <2>1. ChargeSum(reservations', Claimed(e)) = sum
      BY <1>1, <1>4, ChargeSumCongruent
    <2> QED
      BY <1>3, <1>4, <2>1 DEF Covered
  <1>5. ASSUME NEW d \in Epoch, Opens(d) \/ Closes(d) PROVE Covered(e)'
    <2>1. UNCHANGED reservations /\ Claimed(e)' = Claimed(e)
      BY <1>5 DEF Opens, Closes, Claimed, KeysOf
    <2>2. ledger'[e].consumed_turnover >= paid
      <3>1. CASE Opens(d)
        <4>1. d = e => paid = 0
          BY <3>1 DEF Opens, LedgerInv
        <4>2. d # e => ledger'[e] = ledger[e]
          BY <3>1 DEF Opens, TypeOK
        <4> QED
          BY <1>3, <4>1, <4>2
      <3>2. CASE Closes(d)
        <4>1. ledger'[e].consumed_turnover = paid
          BY <3>2 DEF Closes, TypeOK, EpochRow
        <4> QED
          BY <1>3, <4>1
      <3> QED
        BY <1>5, <3>1, <3>2
    <2> QED
      BY <1>4, <2>1, <2>2
  <1>6. ASSUME NEW k \in Key, Debits(k), k[1] = e PROVE Covered(e)'
    <2>1. /\ k \notin Claimed(e) /\ Claimed(e)' = Claimed(e) \cup {k}
          /\ \A j \in Key \ {k} : reservations'[j] = reservations[j]
      <3>1. reservations[k].status = "none" /\ reservations'[k].status = "reserved"
            /\ \A j \in Key \ {k} : reservations'[j] = reservations[j]
        BY <1>6 DEF Debits, TypeOK
      <3> QED
        BY <1>6, <3>1 DEF Claimed, KeysOf
    <2>2. IsFiniteSet(Claimed(e)') /\ Claimed(e)' \ {k} = Claimed(e)
      BY <1>1, <2>1, FS_AddElement
    <2>3. ChargeSum(reservations', Claimed(e)')
            = Charge(reservations'[k]) + ChargeSum(reservations', Claimed(e)' \ {k})
      BY <1>1, <1>2, <2>1, <2>2, ChargeSumRemove
    <2>4. ChargeSum(reservations', Claimed(e)) = sum
      BY <1>1, <2>1, ChargeSumCongruent
    <2>5. ledger'[e].consumed_turnover = paid + Charge(reservations'[k])
          /\ Charge(reservations'[k]) \in Nat
      BY <1>6, DebitPays
    <2> QED
      BY <1>3, <2>2, <2>3, <2>4, <2>5 DEF Covered
  <1>7. ASSUME NEW k \in Key, Reconciles(k), k[1] = e PROVE Covered(e)'
    <2>1. /\ k \in Claimed(e) /\ Claimed(e)' = Claimed(e)
          /\ \A j \in Key \ {k} : reservations'[j] = reservations[j]
      BY <1>7 DEF Reconciles, Claimed, KeysOf
    <2> DEFINE rest == ChargeSum(reservations, Claimed(e) \ {k})
    <2>2. IsFiniteSet(Claimed(e) \ {k})
      BY <1>1, FS_RemoveElement
    <2>3. sum = Charge(reservations[k]) + rest
      BY <1>1, <1>2, <2>1, ChargeSumRemove
    <2>4. ChargeSum(reservations', Claimed(e))
            = Charge(reservations'[k]) + ChargeSum(reservations', Claimed(e) \ {k})
      BY <1>1, <1>2, <2>1, ChargeSumRemove
    <2>5. ChargeSum(reservations', Claimed(e) \ {k}) = rest
      BY <1>1, <2>1, <2>2, ChargeSumCongruent
    <2>6. rest \in Nat
      BY <1>1, <1>2, <2>2, ChargeSumNat
    <2>7. ledger'[e].consumed_turnover + Charge(reservations[k]) >= paid + Charge(reservations'[k])
      BY <1>2, <1>7, ReconcilePays
    <2> HIDE DEF rest, sum, paid
    <2> QED
      BY <1>2, <1>3, <2>1, <2>3, <2>4, <2>5, <2>6, <2>7 DEF sum, paid, Covered
  <1>8. ASSUME NEW k \in Key, Debits(k) \/ Reconciles(k), k[1] # e PROVE Covered(e)'
    <2>1. ledger'[e] = ledger[e]
      BY <1>8, DebitedRow, ReconciledRow
    <2>2. \A j \in Key \ {k} : reservations'[j] = reservations[j]
      BY <1>8 DEF Debits, Reconciles, TypeOK
    <2>3. Claimed(e)' = Claimed(e) /\ \A j \in Claimed(e) : reservations'[j] = reservations[j]
      BY <1>8, <2>2 DEF Claimed, KeysOf
    <2> QED
      BY <1>3, <1>4, <2>1, <2>3
  <1>9. CASE UNCHANGED <<ledger, reservations>>
    BY <1>9 DEF Claimed, KeysOf, Covered
  <1> QED
    BY <1>5, <1>6, <1>7, <1>8, <1>9 DEF TableStep

\* The ledger never holds less than the larger of the reserved and the realized
\* turnover of all the keys its epoch granted: retries, crashes, late and
\* repeated reconciles included.
THEOREM NothingUndercounted == Spec => []NeverUndercounted
  <1>1. Init => AllCovered
    <2> SUFFICES ASSUME Init, NEW e \in Epoch PROVE Covered(e)
      BY DEF AllCovered
    <2>1. Claimed(e) = {} /\ ledger[e].consumed_turnover = 0
      BY DEF Init, Claimed, KeysOf, NoReservation, NoRow
    <2> QED
      BY <2>1, ChargeSumEmpty DEF Covered
  <1>2. TypeOK /\ TypeOK' /\ RunInv /\ LedgerInv /\ AllCovered /\ [Next]_vars => AllCovered'
    BY StepIsTableStep, CoveredStep DEF AllCovered
  <1>3. AllCovered => NeverUndercounted
    BY DEF AllCovered, Covered, NeverUndercounted, ChargeSum
  <1> QED
    BY <1>1, <1>2, <1>3, LedgerCorrect, PTL DEF Spec

================================================================================
