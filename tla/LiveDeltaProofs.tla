---------------------------- MODULE LiveDeltaProofs ----------------------------
(***************************************************************************)
(* Proofs about the live-delta switch for every set of epochs, operator     *)
(* actions, services and alerts, and every bound.                           *)
(***************************************************************************)
EXTENDS LiveDelta, SequenceTheorems, TLAPS

--------------------------------------------------------------------------------
\* What the helper operators return.

LEMMA IdleTypes ==
  /\ IdleSup \in SupState /\ IdleSup.pc = "idle" /\ IdleSup.stops = {} /\ IdleSup.claim = NoClaim
  /\ NoApproval \in Approval
BY LiveDeltaAssumption DEF IdleSup, SupState, SupPc, Blocker, NoApproval, Approval

LEMMA StampType ==
  ASSUME clock \in 0..MaxClock
  PROVE  Stamp \in 0..MaxClock
BY LiveDeltaAssumption DEF Stamp

LEMMA StampIsNat ==
  ASSUME clock \in Nat
  PROVE  Stamp \in Nat
BY DEF Stamp

LEMMA WorstType ==
  ASSUME NEW kinds \in SUBSET Blocker
  PROVE  Worst(kinds) \in Blocker
BY DEF Worst, Blocker

LEMMA BlockerKinds == "none" \in Blocker /\ "soft" \in Blocker /\ "hard" \in Blocker /\ "budget" \in Blocker
BY DEF Blocker

\* A blocked cycle is at "disarm" and remembers no stop.
LEMMA BlockedType ==
  ASSUME sup \in SupState, NEW kind \in Blocker
  PROVE  /\ Blocked(kind) \in SupState
         /\ Blocked(kind).pc = "disarm" /\ Blocked(kind).stops = {} /\ Blocked(kind).claim = NoClaim
<1> DEFINE worst == Worst({sup.blocker, kind})
<1>1. worst \in Blocker
  BY WorstType DEF SupState
<1>2. Blocked(kind) = [IdleSup EXCEPT !.pc = "disarm", !.blocker = worst]
  BY DEF Blocked
<1> HIDE DEF worst
<1> QED
  BY IdleTypes, <1>1, <1>2 DEF SupState, SupPc

\* What counts of the stops of a step: a disarm does not if an arm is pending.
Binding(kinds) == {k \in kinds : k = "disarmed" => ~ArmPending}

LEMMA StopSeenType ==
  ASSUME sup \in SupState, NEW kinds \in SUBSET {"paused", "disarmed"}
  PROVE  /\ StopSeen(kinds) \in SupState
         /\ StopSeen(kinds).pc = sup.pc /\ StopSeen(kinds).claim = sup.claim
         /\ StopSeen(kinds).entryArmed = sup.entryArmed
         /\ StopSeen(kinds).stops = IF sup.pc = "revalidate" THEN sup.stops \cup Binding(kinds) ELSE sup.stops
<1>1. Binding(kinds) \in SUBSET {"paused", "disarmed"}
  BY DEF Binding
<1>2. StopSeen(kinds) = IF sup.pc = "revalidate" THEN [sup EXCEPT !.stops = @ \cup Binding(kinds)] ELSE sup
  BY DEF StopSeen, Binding
<1> QED
  BY <1>1, <1>2 DEF SupState

LEMMA StopLiftedType ==
  ASSUME sup \in SupState, NEW kind
  PROVE  /\ StopLifted(kind) \in SupState
         /\ StopLifted(kind).pc = sup.pc /\ StopLifted(kind).claim = sup.claim
         /\ StopLifted(kind).entryArmed = sup.entryArmed
         /\ StopLifted(kind).stops = sup.stops \ {kind}
BY DEF StopLifted, SupState

\* The latest row is one of the two.
LEMMA NewestType ==
  ASSUME NEW Row, NEW row \in Row, NEW latest \in Row
  PROVE  Newest(row, latest) \in Row
BY DEF Newest

\* The pause is not for the arm and the disarm action to change.
LEMMA ArmType ==
  ASSUME operator \in OperatorState, NEW approval, NEW byOwner, Arm(approval, byOwner)
  PROVE  operator' \in OperatorState /\ operator'.paused = operator.paused
BY DEF Arm, OperatorState

LEMMA DisarmType ==
  ASSUME operator \in OperatorState, NEW at, NEW blocker, Disarm(at, blocker)
  PROVE  /\ operator' \in OperatorState
         /\ operator'.paused = operator.paused /\ operator'.armed = FALSE
BY DEF Disarm, OperatorState

--------------------------------------------------------------------------------
CycleTyped == sup \in SupState /\ operator \in OperatorState

\* Where a step of the supervisor leaves its cycle, and what it has seen there.
SupLeaves(pc, stops, c) ==
  sup' \in SupState /\ sup'.pc = pc /\ sup'.stops = stops /\ sup'.claim = c
SupResets(pc) == SupLeaves(pc, {}, NoClaim)
SupMoves(pc) == SupLeaves(pc, sup.stops, sup.claim)

\* A claim of the current epoch that nobody else has.
Claims(c) ==
  /\ epoch # NoEpoch /\ c \in {epoch} \X Plan /\ c \notin orphans
  /\ orphans' = orphans \cup {c}

LEMMA SupervisorSteps ==
  ASSUME CycleTyped, clock \in Nat, epoch \in Epoch \cup {NoEpoch}
  PROVE  /\ \A pre \in {"none", "soft"} : SupervisorStart(pre) => SupResets("cycle")
         /\ SupervisorCycle => SupResets("disarm") \/ SupMoves("core_loop")
                              \/ SupMoves("dry_run")
         /\ CoreLoopPlan => SupMoves("finish") \/ SupMoves("owner_gate")
         /\ OwnerIntentGate => SupResets("disarm") \/ SupMoves("reserve")
         /\ ReserveBudget => SupResets("disarm")
                              \/ \E c \in Claim : Claims(c) /\ SupLeaves("delta_entry", sup.stops, c)
         /\ DeltaEntry => SupMoves("revalidate") \/ SupLeaves("reconcile", {}, sup.claim)
         /\ PreSubmitRevalidation => SupMoves("submit") \/ SupLeaves("reconcile", {}, sup.claim)
         /\ SubmitOrders => SupLeaves("reconcile", {}, sup.claim)
         /\ ReconcileBudget => SupResets("finish") \/ SupResets("disarm")
         /\ CoreLoopRaises => SupResets("disarm")
         /\ SupervisorDisarm => SupMoves("recheck")
         /\ SupervisorRecheck => SupMoves("finish")
         /\ SupervisorFinish => SupResets("idle")
<1> USE DEF CycleTyped, SupLeaves, SupResets, SupMoves
<1>a. SupBlocked("soft") \/ SupBlocked("budget") \/ SupBlocked(sup.blocker) => SupResets("disarm")
  <2>1. sup.blocker \in Blocker
    BY DEF SupState
  <2> QED
    BY <2>1, BlockedType, BlockerKinds DEF SupBlocked
<1>b. ASSUME NEW pc \in SupPc, SupGoto(pc) PROVE SupMoves(pc)
  BY <1>b DEF SupGoto, SupState
<1>1. ASSUME NEW pre \in {"none", "soft"}, SupervisorStart(pre) PROVE SupResets("cycle")
  BY <1>1, IdleTypes DEF SupervisorStart, SupState, SupPc, Blocker, OperatorState
<1>2. ASSUME SupervisorCycle
      PROVE  SupResets("disarm") \/ SupMoves("core_loop") \/ SupMoves("dry_run")
  <2>1. CASE sup' = Blocked("soft")
    BY <1>a, <2>1 DEF SupBlocked
  <2>2. CASE sup' = [sup EXCEPT !.pc = "core_loop", !.armed = TRUE]
    BY <2>2 DEF SupState, SupPc
  <2>3. CASE sup' = [sup EXCEPT !.pc = "dry_run"]
    BY <2>3 DEF SupState, SupPc
  <2> QED
    BY <1>2, <2>1, <2>2, <2>3 DEF SupervisorCycle
<1>3. ASSUME CoreLoopPlan PROVE SupMoves("finish") \/ SupMoves("owner_gate")
  <2>1. CASE sup' = [sup EXCEPT !.pc = "finish", !.started = 0]
    BY <2>1 DEF SupState, SupPc
  <2>2. CASE SupGoto("owner_gate")
    BY <1>b, <2>2 DEF SupPc
  <2> QED
    BY <1>3, <2>1, <2>2 DEF CoreLoopPlan
<1>4. ASSUME OwnerIntentGate PROVE SupResets("disarm") \/ SupMoves("reserve")
  <2>1. CASE sup' = [sup EXCEPT !.pc = "reserve", !.started = 0]
    BY <2>1 DEF SupState, SupPc
  <2> QED
    BY <1>4, <1>a, <2>1 DEF OwnerIntentGate
<1>c. SupUnsent => SupLeaves("reconcile", {}, sup.claim)
  BY DEF SupUnsent, SupState, SupPc, Blocker
<1>5. ASSUME ReserveBudget
      PROVE  SupResets("disarm") \/ \E c \in Claim : Claims(c) /\ SupLeaves("delta_entry", sup.stops, c)
  <2>1. CASE BudgetBlocked
    BY <1>5, <1>a, <2>1 DEF ReserveBudget
  <2>2. CASE ~BudgetBlocked
    <3>1. PICK plan \in Plan :
            /\ <<epoch, plan>> \notin orphans
            /\ sup' = [sup EXCEPT !.pc = "delta_entry", !.claim = <<epoch, plan>>]
            /\ orphans' = orphans \cup {<<epoch, plan>>}
      BY <1>5, <2>2 DEF ReserveBudget
    <3> DEFINE c == <<epoch, plan>>
    <3>2. epoch # NoEpoch /\ c \in Claim /\ c \in {epoch} \X Plan
      BY <2>2 DEF BudgetBlocked, Claim
    <3>3. c \notin orphans /\ orphans' = orphans \cup {c} /\ sup' = [sup EXCEPT !.pc = "delta_entry", !.claim = c]
      BY <3>1
    <3> HIDE DEF c
    <3>4. SupLeaves("delta_entry", sup.stops, c)
      BY <3>2, <3>3 DEF SupState, SupPc
    <3> QED
      BY <3>2, <3>3, <3>4 DEF Claims
  <2> QED
    BY <2>1, <2>2
<1>6. ASSUME DeltaEntry PROVE SupMoves("revalidate") \/ SupLeaves("reconcile", {}, sup.claim)
  <2>1. CASE sup' = [sup EXCEPT !.pc = "revalidate", !.entryArmed = operator.armed]
    BY <2>1 DEF SupState, SupPc, OperatorState
  <2> QED
    BY <1>6, <1>c, <2>1 DEF DeltaEntry
<1>7. ASSUME PreSubmitRevalidation PROVE SupMoves("submit") \/ SupLeaves("reconcile", {}, sup.claim)
  BY <1>7, <1>b, <1>c DEF PreSubmitRevalidation, SupPc
<1>8. ASSUME SubmitOrders PROVE SupLeaves("reconcile", {}, sup.claim)
  BY <1>8 DEF SubmitOrders, SupState, SupPc, Blocker
<1>9. ASSUME ReconcileBudget PROVE SupResets("finish") \/ SupResets("disarm")
  <2>1. CASE sup' = [IdleSup EXCEPT !.pc = "finish", !.armed = TRUE]
    BY <2>1, IdleTypes DEF SupState, SupPc
  <2> QED
    BY <1>9, <1>a, <2>1 DEF ReconcileBudget
<1>10. ASSUME CoreLoopRaises PROVE SupResets("disarm")
  BY <1>10, <1>a DEF CoreLoopRaises
<1>11. ASSUME SupervisorDisarm PROVE SupMoves("recheck")
  BY <1>11, <1>b DEF SupervisorDisarm, SupPc
<1>12. ASSUME SupervisorRecheck PROVE SupMoves("finish")
  BY <1>12, <1>b DEF SupervisorRecheck, SupPc
<1>13. ASSUME SupervisorFinish PROVE SupResets("idle")
  BY <1>13, IdleTypes DEF SupervisorFinish
<1> QED
  BY <1>1, <1>2, <1>3, <1>4, <1>5, <1>6, <1>7, <1>8, <1>9, <1>10, <1>11, <1>12, <1>13

--------------------------------------------------------------------------------
\* Type correctness.
LEMMA ArmKeepsSwitch ==
  ASSUME SwitchOK, NEW approval \in Approval, NEW byOwner \in BOOLEAN, Arm(approval, byOwner)
  PROVE  SwitchOK'
<1>1. lastArm' \in Approval
  BY NewestType DEF Arm, SwitchOK
<1> QED
  BY <1>1, ArmType DEF Arm, SwitchOK

LEMMA DisarmKeepsSwitch ==
  ASSUME SwitchOK, NEW at \in Nat, NEW blocker \in Blocker, Disarm(at, blocker)
  PROVE  SwitchOK'
<1>1. [at |-> at, blocker |-> blocker] \in [at : Nat, blocker : Blocker]
  OBVIOUS
<1>2. lastDisarm' \in [at : Nat, blocker : Blocker]
  BY <1>1, NewestType DEF Disarm, SwitchOK
<1> QED
  BY <1>2, DisarmType DEF Disarm, SwitchOK

\* What every step that writes a row needs.
LEMMA ClockKept ==
  ASSUME TypeOK, clock' = clock \/ clock' = Stamp
  PROVE  clock' \in 0..MaxClock /\ clock \in Nat /\ Stamp \in Nat
BY StampType, StampIsNat, LiveDeltaAssumption DEF TypeOK

LEMMA OperatorKeepsType ==
  ASSUME TypeOK, Operator
  PROVE  TypeOK'
<1>1. sup' \in SupState /\ sup'.pc = sup.pc /\ sup'.claim = sup.claim
  <2>1. sup \in SupState
    BY DEF TypeOK, CycleOK
  <2>2. \/ \E kinds \in SUBSET {"paused", "disarmed"} : sup' = StopSeen(kinds)
        \/ \E kind : sup' = StopLifted(kind)
    BY DEF Operator, OperatorPause, OperatorResume, OperatorKillSwitch, OperatorArm, OperatorDisarm
  <2> QED
    BY <2>1, <2>2, StopSeenType, StopLiftedType
<1>2. clock' = clock \/ clock' = Stamp
  BY DEF Operator, OperatorPause, OperatorResume, OperatorKillSwitch, OperatorArm, OperatorDisarm
<1>3. UNCHANGED <<budgetVars, runs, mon, pol, crashes>>
  BY DEF Operator, OperatorPause, OperatorResume, OperatorKillSwitch, OperatorArm, OperatorDisarm
<1>4. SwitchOK'
  <2>0. SwitchOK /\ BudgetOK /\ operator \in OperatorState
    BY DEF TypeOK, SwitchOK
  <2>1. CASE OperatorPause \/ OperatorResume \/ OperatorKillSwitch
    <3>1. operator' \in OperatorState
      <4>1. CASE OperatorPause
        BY <2>0, <4>1 DEF OperatorPause, OperatorState
      <4>2. CASE OperatorResume
        BY <2>0, <4>2 DEF OperatorResume, OperatorState
      <4>3. CASE OperatorKillSwitch
        BY <2>0, <4>3 DEF OperatorKillSwitch, OperatorState
      <4> QED
        BY <2>1, <4>1, <4>2, <4>3
    <3> QED
      BY <2>0, <2>1, <3>1 DEF OperatorPause, OperatorResume, OperatorKillSwitch, SwitchOK
  <2>2. CASE OperatorArm
    <3>1. [at |-> Stamp, epoch |-> epoch, expires |-> Stamp + Ttl] \in Approval
      BY <1>2, <2>0, ClockKept, LiveDeltaAssumption DEF Approval, BudgetOK
    <3> QED
      BY <2>0, <2>2, <3>1, ArmKeepsSwitch DEF OperatorArm
  <2>3. CASE OperatorDisarm
    BY <2>0, <2>3, <1>2, ClockKept, BlockerKinds, DisarmKeepsSwitch DEF OperatorDisarm
  <2> QED
    BY <2>1, <2>2, <2>3 DEF Operator
<1> QED
  BY <1>1, <1>2, <1>3, <1>4, ClockKept DEF TypeOK, CycleOK, BudgetOK, budgetVars

LEMMA RunAppended ==
  ASSUME NEW old \in Seq(Run), NEW summary \in Run
  PROVE  /\ Append(old, summary) \in Seq(Run) /\ Len(Append(old, summary)) = Len(old) + 1
         /\ Tail(Append(old, summary)) \in Seq(Run) /\ Len(Tail(Append(old, summary))) = Len(old)
<1>1. Append(old, summary) \in Seq(Run) /\ Len(Append(old, summary)) = Len(old) + 1 /\ Len(old) \in Nat
  OBVIOUS
<1>2. Append(old, summary) # <<>>
  BY <1>1
<1> QED
  BY <1>1, <1>2, HeadTailProperties

LEMMA SupervisorKeepsType ==
  ASSUME TypeOK, Supervisor
  PROVE  TypeOK'
<1>0. /\ CycleTyped /\ clock \in Nat /\ Stamp \in Nat /\ epoch \in Epoch \cup {NoEpoch}
      /\ NoEpoch \notin Epoch /\ Stamp \in 0..MaxClock /\ sup.blocker \in Blocker
  BY StampType, LiveDeltaAssumption
  DEF TypeOK, SwitchOK, BudgetOK, CycleOK, CycleTyped, SupState
<1> USE DEF TypeOK, SwitchOK, BudgetOK, CycleOK, SupResets, SupMoves, SupLeaves, InDelta,
        approvalVars, budgetVars
<1>1. ASSUME NEW pre \in {"none", "soft"}, SupervisorStart(pre) PROVE TypeOK'
  BY <1>0, <1>1, SupervisorSteps DEF SupervisorStart
<1>2. CASE SupervisorCycle
  BY <1>0, <1>2, SupervisorSteps DEF SupervisorCycle
<1>3. CASE CoreLoopPlan
  BY <1>0, <1>3, SupervisorSteps DEF CoreLoopPlan
<1>4. CASE OwnerIntentGate
  BY <1>0, <1>4, SupervisorSteps DEF OwnerIntentGate
<1>5. CASE ReserveBudget
  <2>1. CASE BudgetBlocked
    <3>1. SupResets("disarm")
      BY <1>0, <1>5, <2>1, BlockedType, BlockerKinds DEF ReserveBudget, SupBlocked
    <3> QED
      BY <1>0, <1>5, <2>1, <3>1 DEF ReserveBudget
  <2>2. CASE ~BudgetBlocked
    <3>1. epoch \in usedEpochs
      BY <2>2 DEF BudgetBlocked
    <3>2. /\ sup' \in SupState
          /\ \/ sup'.pc \notin InDelta /\ orphans' = orphans
             \/ \E c \in {epoch} \X Plan : sup'.claim = c /\ orphans' = orphans \cup {c}
      <4>1. \/ SupResets("disarm")
            \/ \E c \in Claim : Claims(c) /\ SupLeaves("delta_entry", sup.stops, c)
        BY <1>0, <1>5, SupervisorSteps
      <4>2. ~SupResets("disarm")
        BY <1>0, <1>5, <2>2 DEF ReserveBudget, CycleTyped, SupState
      <4> QED
        BY <4>1, <4>2 DEF Claims
    <3>3. orphans' \subseteq usedEpochs \X Plan /\ (sup'.pc \in InDelta => sup'.claim \in usedEpochs \X Plan)
      BY <3>1, <3>2
    <3>4. epoch' \in usedEpochs \cup {NoEpoch} /\ usedEpochs' = usedEpochs /\ doneEpochs' = doneEpochs
      BY <1>5, <2>2, <3>1 DEF ReserveBudget
    <3>5. UNCHANGED <<clock, approvalVars, runs, mon, pol, crashes>>
      BY <1>5 DEF ReserveBudget
    <3> QED
      BY <1>0, <3>2, <3>3, <3>4, <3>5
  <2> QED
    BY <2>1, <2>2
<1>6. CASE DeltaEntry
  BY <1>0, <1>6, SupervisorSteps DEF DeltaEntry
<1>7. CASE PreSubmitRevalidation
  BY <1>0, <1>7, SupervisorSteps DEF PreSubmitRevalidation
<1>8. CASE SubmitOrders
  BY <1>0, <1>8, SupervisorSteps DEF SubmitOrders
<1>9. CASE ReconcileBudget
  <2>1. sup' \in SupState /\ sup'.pc \notin InDelta
    BY <1>0, <1>9, SupervisorSteps
  <2>2. EpochOf(sup.claim) \in usedEpochs
    BY <1>9 DEF ReconcileBudget, EpochOf
  <2>3. /\ orphans' \subseteq usedEpochs \X Plan /\ doneEpochs' \subseteq usedEpochs
        /\ epoch' \in usedEpochs \cup {NoEpoch} /\ usedEpochs' = usedEpochs
    BY <1>9, <2>2 DEF ReconcileBudget
  <2>4. UNCHANGED <<clock, approvalVars, runs, mon, pol, crashes>>
    BY <1>9 DEF ReconcileBudget
  <2> QED
    BY <2>1, <2>3, <2>4
<1>10. CASE CoreLoopRaises
  BY <1>0, <1>10, SupervisorSteps DEF CoreLoopRaises
<1>11. CASE SupervisorDisarm
  <2>1. SwitchOK'
    BY <1>0, <1>11, DisarmKeepsSwitch DEF SupervisorDisarm
  <2> QED
    BY <1>0, <1>11, <2>1, SupervisorSteps DEF SupervisorDisarm
<1>12. CASE SupervisorRecheck
  <2>1. SwitchOK'
    BY <1>0, <1>12, DisarmKeepsSwitch DEF SupervisorRecheck
  <2> QED
    BY <1>0, <1>12, <2>1, SupervisorSteps DEF SupervisorRecheck
<1>13. CASE SupervisorFinish
  <2> DEFINE summary == [at |-> Stamp, blocker |-> sup.blocker,
                         clean |-> sup.blocker = "none" /\ ~sup.armed /\ ~operator.armed]
             all == Append(runs, summary)
  <2>1. summary \in Run
    BY <1>0 DEF Run, SupState, OperatorState
  <2> HIDE DEF summary
  <2>2. runs \in Seq(Run) /\ Len(runs) <= RecentRuns /\ Len(runs) \in Nat
    OBVIOUS
  <2>3. /\ all \in Seq(Run) /\ Len(all) = Len(runs) + 1
        /\ Tail(all) \in Seq(Run) /\ Len(Tail(all)) = Len(runs)
    BY <2>1, <2>2, RunAppended
  <2>4. runs' = IF Len(all) > RecentRuns THEN Tail(all) ELSE all
    BY <1>13 DEF SupervisorFinish, summary
  <2> HIDE DEF all
  <2>5. runs' \in Seq(Run) /\ Len(runs') <= RecentRuns
    BY <2>2, <2>3, <2>4, LiveDeltaAssumption DEF all
  <2> QED
    BY <1>0, <1>13, <2>5, SupervisorSteps DEF SupervisorFinish
<1> QED
  BY <1>1, <1>2, <1>3, <1>4, <1>5, <1>6, <1>7, <1>8, <1>9, <1>10, <1>11, <1>12, <1>13 DEF Supervisor

LEMMA OtherIdleTypes == IdleMon \in MonState /\ IdlePol \in PolState
<1>1. <<>> \in Seq(Run)
  OBVIOUS
<1> QED
  BY <1>1, IdleTypes DEF IdleMon, IdlePol, MonState, PolState, MonPc, PolPc, Blocker

LEMMA MonitorKeepsType ==
  ASSUME TypeOK, Monitor
  PROVE  TypeOK'
<1>0. /\ clock \in Nat /\ Stamp \in Nat /\ Stamp \in 0..MaxClock /\ SwitchOK
      /\ lastArm \in Approval /\ runs \in Seq(Run) /\ mon \in MonState
  BY StampType, LiveDeltaAssumption DEF TypeOK, SwitchOK
<1>a. ASSUME mon' \in MonState, UNCHANGED <<clock, approvalVars, budgetVars, runs, sup, pol, crashes>>
      PROVE  TypeOK'
  BY <1>a DEF TypeOK, SwitchOK, BudgetOK, CycleOK, approvalVars, budgetVars
<1>b. ASSUME mon' = IdleMon, SwitchOK', clock' = Stamp, UNCHANGED <<budgetVars, runs, sup, pol, crashes>>
      PROVE  TypeOK'
  BY <1>0, <1>b, OtherIdleTypes DEF TypeOK, BudgetOK, CycleOK, budgetVars
<1>1. ASSUME NEW other \in {"none"} \cup Alerts, MonitorCheck(other) PROVE TypeOK'
  <2>1. \A i \in DOMAIN runs : runs[i].blocker \in Blocker
    <3>1. \A i \in DOMAIN runs : runs[i] \in Run
      BY <1>0
    <3> QED
      BY <3>1 DEF Run
  <2> DEFINE seen == {runs[i].blocker : i \in DOMAIN runs}
  <2>2. Worst(seen \cup {other}) \in Blocker /\ other \in Blocker
    BY <2>1, WorstType, LiveDeltaAssumption DEF Blocker
  <2>3. <<>> \in Seq(Run)
    OBVIOUS
  <2> DEFINE worst == Worst(seen \cup {other})
  <2>4. \E pc \in MonPc, started \in Nat, old \in Seq(Run), blocker \in Blocker :
          mon' = [IdleMon EXCEPT !.pc = pc, !.started = started, !.runs = old, !.blocker = blocker]
    <3> DEFINE alert == \/ other # "none"
                        \/ ArmedWithoutEpoch(RuntimeGate(lastArm, clock))
                        \/ RuntimeGate(lastArm, clock) /\ (Len(runs) < RecentRuns \/ seen # {"none"})
               pc == IF alert THEN "disarm" ELSE IF AutoRearm THEN "rearm" ELSE "idle"
               started == IF ~alert /\ AutoRearm THEN clock ELSE 0
               old == IF ~alert /\ AutoRearm THEN runs ELSE <<>>
               blocker == IF alert THEN worst ELSE "none"
    <3>1. mon' = [IdleMon EXCEPT !.pc = pc, !.started = started, !.runs = old, !.blocker = blocker]
      BY <1>1 DEF MonitorCheck
    <3>2. pc \in MonPc /\ started \in Nat /\ old \in Seq(Run) /\ blocker \in Blocker
      BY <1>0, <2>2, <2>3, BlockerKinds DEF MonPc
    <3> QED
      BY <3>1, <3>2
  <2>5. mon' \in MonState
    BY <2>4, OtherIdleTypes DEF MonState
  <2> QED
    BY <1>1, <1>a, <2>5 DEF MonitorCheck
<1>2. CASE MonitorDisarm
  <2>1. SwitchOK'
    BY <1>0, <1>2, DisarmKeepsSwitch DEF MonitorDisarm, MonState
  <2> QED
    BY <1>2, <1>b, <2>1 DEF MonitorDisarm
<1>3. CASE RearmReadOperator
  <2>1. mon' \in MonState
    BY <1>0, <1>3, OtherIdleTypes DEF RearmReadOperator, MonState, MonPc
  <2>2. sup \in SupState /\ (sup' = sup \/ sup' = StopLifted("disarmed"))
    BY <1>3 DEF RearmReadOperator, TypeOK, CycleOK
  <2>3. sup' \in SupState /\ sup'.pc = sup.pc /\ sup'.claim = sup.claim
    BY <2>2, StopLiftedType
  <2> QED
    BY <1>3, <2>1, <2>3 DEF RearmReadOperator, TypeOK, SwitchOK, BudgetOK, CycleOK, approvalVars, budgetVars
<1>4. CASE RearmGate
  <2>1. mon' = IdleMon \/ mon' = [IdleMon EXCEPT !.pc = "rearm_record", !.approval = lastArm]
    BY <1>4 DEF RearmGate
  <2>2. mon' \in MonState
    BY <1>0, <2>1, OtherIdleTypes DEF MonState, MonPc
  <2> QED
    BY <1>4, <1>a, <2>2 DEF RearmGate
<1>5. CASE RearmRecord
  <2>1. [mon.approval EXCEPT !.at = Stamp] \in Approval
    BY <1>0 DEF MonState, Approval
  <2>2. SwitchOK'
    BY <1>0, <1>5, <2>1, ArmKeepsSwitch DEF RearmRecord
  <2> QED
    BY <1>5, <1>b, <2>2 DEF RearmRecord
<1> QED
  BY <1>1, <1>2, <1>3, <1>4, <1>5 DEF Monitor

LEMMA PolicyKeepsType ==
  ASSUME TypeOK, Policy
  PROVE  TypeOK'
<1>0. /\ clock \in Nat /\ SwitchOK /\ lastArm \in Approval /\ runs \in Seq(Run)
      /\ pol \in PolState /\ sup \in SupState
  BY LiveDeltaAssumption DEF TypeOK, SwitchOK, CycleOK
<1>a. ASSUME pol' \in PolState, UNCHANGED <<clock, approvalVars, budgetVars, runs, sup, mon, crashes>>
      PROVE  TypeOK'
  BY <1>a DEF TypeOK, SwitchOK, BudgetOK, CycleOK, approvalVars, budgetVars
<1>b. ASSUME pol' \in PolState, SwitchOK', UNCHANGED <<clock, budgetVars, runs, mon, crashes>>,
             sup' = sup \/ sup' = StopLifted("disarmed")
      PROVE  TypeOK'
  <2>1. sup' \in SupState /\ sup'.pc = sup.pc /\ sup'.claim = sup.claim
    BY <1>0, <1>b, StopLiftedType
  <2> QED
    BY <1>b, <2>1 DEF TypeOK, BudgetOK, CycleOK, budgetVars
<1>c. ASSUME pol' \in PolState, UNCHANGED <<clock, approvalVars, orphans, doneEpochs, runs, mon, crashes>>,
             sup' = sup \/ sup' = StopLifted("disarmed"),
             usedEpochs' \in SUBSET Epoch, usedEpochs \subseteq usedEpochs', epoch' \in usedEpochs' \cup {NoEpoch}
      PROVE  TypeOK'
  <2>1. sup' \in SupState /\ sup'.pc = sup.pc /\ sup'.claim = sup.claim
    BY <1>0, <1>c, StopLiftedType
  <2> QED
    BY <1>c, <2>1 DEF TypeOK, SwitchOK, BudgetOK, CycleOK, approvalVars
<1>d. \A i \in NewRun : runs[i].blocker \in Blocker /\ runs[i].at \in Nat
  <2>1. \A i \in DOMAIN runs : runs[i] \in Run
    BY <1>0
  <2> QED
    BY <2>1 DEF NewRun, Run
<1>e. usedEpochs \subseteq Epoch /\ epoch \in usedEpochs \cup {NoEpoch}
  BY DEF TypeOK, BudgetOK
<1>1. CASE PolicyStart
  <2>1. pol' \in PolState
    BY <1>0, <1>1, OtherIdleTypes DEF PolicyStart, PolState, PolPc
  <2> QED
    BY <1>1, <1>a, <2>1 DEF PolicyStart
<1>2. CASE ControllerHolds
  BY <1>2, <1>a, OtherIdleTypes DEF ControllerHolds
<1>3. CASE ControllerBlocked
  <2>1. pol' \in PolState
    BY <1>0, <1>3 DEF ControllerBlocked, PolState, PolPc, Blocker
  <2> QED
    BY <1>3, <1>a, <2>1 DEF ControllerBlocked
<1>4. CASE ApprovalAlreadyActive
  <2>1. pol' \in PolState
    BY <1>0, <1>4 DEF ApprovalAlreadyActive, PolState, PolPc
  <2> QED
    BY <1>4, <1>a, <2>1 DEF ApprovalAlreadyActive
<1>5. ASSUME NEW e \in Epoch, ControllerOpensEpoch(e) PROVE TypeOK'
  <2> DEFINE approval == [at |-> pol.started, epoch |-> e, expires |-> pol.started + Ttl]
  <2>1. approval \in Approval
    BY <1>0, LiveDeltaAssumption DEF PolState, Approval
  <2>2. pol' = [pol EXCEPT !.pc = "arm", !.approval = approval]
    BY <1>5 DEF ControllerOpensEpoch
  <2> HIDE DEF approval
  <2>3. pol' \in PolState
    BY <1>0, <2>1, <2>2 DEF PolState, PolPc
  <2> QED
    BY <1>5, <1>c, <1>e, <2>3 DEF ControllerOpensEpoch
<1>6. CASE ControllerArms
  <2>1. pol' \in PolState /\ pol.approval \in Approval
    BY <1>0, <1>6 DEF ControllerArms, PolState, PolPc
  <2>2. SwitchOK'
    BY <1>0, <1>6, <2>1, ArmKeepsSwitch DEF ControllerArms
  <2> QED
    BY <1>6, <1>b, <2>1, <2>2 DEF ControllerArms
<1>7. CASE ControllerGate
  <2>1. pol.approval.epoch \in Epoch \cup {NoEpoch}
    BY <1>0 DEF PolState, Approval
  <2>2. \/ pol' = [pol EXCEPT !.pc = "wait", !.approval = NoApproval]
        \/ pol' = [pol EXCEPT !.pc = "close", !.approval = NoApproval,
                              !.target = pol.approval.epoch, !.blocker = "budget"]
    BY <1>7 DEF ControllerGate
  <2>3. pol' \in PolState
    BY <1>0, <2>1, <2>2, IdleTypes DEF PolState, PolPc, Blocker
  <2> QED
    BY <1>7, <1>a, <2>3 DEF ControllerGate
<1>8. CASE PolicyObserves
  <2>1. \E blocker \in Blocker :
          pol' = [IdlePol EXCEPT !.pc = "close", !.started = pol.started, !.blocker = blocker]
    BY <1>8, <1>d, BlockerKinds DEF PolicyObserves
  <2>2. pol' \in PolState
    BY <1>0, <2>1, OtherIdleTypes DEF PolState, PolPc
  <2> QED
    BY <1>8, <1>a, <2>2 DEF PolicyObserves
<1>9. CASE FastFollowProof
  <2> DEFINE approval == [lastArm EXCEPT !.at = clock]
  <2>1. approval \in Approval
    BY <1>0 DEF Approval
  <2>2. \E at \in Nat : pol' = [pol EXCEPT !.pc = "fast_follow", !.seen = at, !.approval = approval]
    BY <1>9, <1>d DEF FastFollowProof
  <2> HIDE DEF approval
  <2>3. pol' \in PolState
    BY <1>0, <2>1, <2>2 DEF PolState, PolPc
  <2>4. sup' = StopLifted("disarmed") /\ SwitchOK'
    BY <1>0, <1>9 DEF FastFollowProof, SwitchOK, approvalVars
  <2> QED
    BY <1>9, <1>b, <2>3, <2>4 DEF FastFollowProof
<1>10. CASE FastFollowArms
  <2>1. pol' \in PolState /\ pol.approval \in Approval
    BY <1>0, <1>10, IdleTypes DEF FastFollowArms, PolState, PolPc
  <2>2. SwitchOK'
    BY <1>0, <1>10, <2>1, ArmKeepsSwitch DEF FastFollowArms
  <2> QED
    BY <1>10, <1>b, <2>1, <2>2 DEF FastFollowArms
<1>11. CASE CleanupCloses
  <2>1. pol' \in PolState
    BY <1>0, <1>11 DEF CleanupCloses, PolState, PolPc
  <2> QED
    BY <1>11, <1>c, <1>e, <2>1 DEF CleanupCloses
<1>12. CASE CleanupDisarms
  <2>1. pol.started \in Nat /\ pol.blocker \in Blocker
    BY <1>0 DEF PolState
  <2>2. SwitchOK'
    BY <1>0, <1>12, <2>1, DisarmKeepsSwitch DEF CleanupDisarms
  <2> QED
    BY <1>12, <1>b, <2>2, OtherIdleTypes DEF CleanupDisarms
<1> QED
  BY <1>1, <1>2, <1>3, <1>4, <1>5, <1>6, <1>7, <1>8, <1>9, <1>10, <1>11, <1>12
  DEF Policy, ControllerDecides

\* Every variable of the switch and of its processes keeps its type, and what is
\* charged to an epoch is charged to one that was opened.
THEOREM TypeCorrect == Spec => []TypeOK
<1>1. Init => TypeOK
  <2>1. <<>> \in Seq(Run) /\ Len(<<>>) = 0
    OBVIOUS
  <2>2. Init => SwitchOK
    <3>1. Init => operator \in OperatorState
      BY DEF Init, OperatorState
    <3>2. Init => lastDisarm \in [at : Nat, blocker : Blocker]
      BY DEF Init, Blocker
    <3> QED
      BY <3>1, <3>2, IdleTypes DEF Init, SwitchOK
  <2>3. Init => BudgetOK /\ CycleOK
    BY IdleTypes DEF Init, BudgetOK, CycleOK, InDelta
  <2> QED
    BY <2>1, <2>2, <2>3, OtherIdleTypes, LiveDeltaAssumption DEF Init, TypeOK
<1>2. TypeOK /\ [Next]_vars => TypeOK'
  <2> SUFFICES ASSUME TypeOK, [Next]_vars PROVE TypeOK'
    OBVIOUS
  <2>1. CASE Crash
    <3>1. crashes' \in 0..MaxCrashes
      BY <2>1, LiveDeltaAssumption DEF Crash, TypeOK
    <3> QED
      BY <2>1, <3>1, IdleTypes, OtherIdleTypes
      DEF Crash, TypeOK, SwitchOK, BudgetOK, CycleOK, InDelta, approvalVars, budgetVars
  <2>2. CASE UNCHANGED vars
    BY <2>2 DEF vars, TypeOK, SwitchOK, BudgetOK, CycleOK
  <2> QED
    BY <2>1, <2>2, OperatorKeepsType, SupervisorKeepsType, MonitorKeepsType, PolicyKeepsType DEF Next
<1> QED
  BY <1>1, <1>2, PTL DEF Spec

--------------------------------------------------------------------------------
\* The stops that bind a cycle.  Outside the delta runner's window there are none;
\* at the revalidation they still stand in the operator state, and nobody is about
\* to record an arm over the disarm.
PauseInv ==
  /\ sup.pc \notin {"revalidate", "submit"} => sup.stops = {}
  /\ sup.pc = "revalidate" /\ "paused" \in sup.stops => operator.paused
  /\ PauseHonoured

DisarmInv ==
  /\ sup.pc = "revalidate" /\ "disarmed" \in sup.stops => ~operator.armed /\ ~ArmPending
  /\ DisarmHonoured

LEMMA TypedCycle ==
  ASSUME TypeOK
  PROVE  /\ CycleTyped /\ clock \in Nat /\ epoch \in Epoch \cup {NoEpoch}
         /\ sup \in SupState /\ operator \in OperatorState /\ mon \in MonState
BY LiveDeltaAssumption DEF TypeOK, SwitchOK, BudgetOK, CycleOK, CycleTyped

\* The operator's five actions, as the window sees them.
LEMMA OperatorSteps ==
  ASSUME TypeOK, Operator
  PROVE  /\ sup'.pc = sup.pc /\ sup'.claim = sup.claim /\ sup'.entryArmed = sup.entryArmed
         /\ \/ operator'.paused /\ operator'.armed = operator.armed
               /\ sup'.stops = IF sup.pc = "revalidate" THEN sup.stops \cup Binding({"paused"}) ELSE sup.stops
            \/ operator'.armed = operator.armed /\ sup'.stops = sup.stops \ {"paused"}
            \/ operator'.paused /\ ~operator'.armed
               /\ sup'.stops = IF sup.pc = "revalidate" THEN sup.stops \cup Binding({"paused", "disarmed"}) ELSE sup.stops
            \/ operator'.paused = operator.paused /\ sup'.stops = sup.stops \ {"disarmed"}
            \/ operator'.paused = operator.paused /\ ~operator'.armed
               /\ sup'.stops = IF sup.pc = "revalidate" THEN sup.stops \cup Binding({"disarmed"}) ELSE sup.stops
<1> USE TypedCycle
<1>a. {"paused"} \in SUBSET {"paused", "disarmed"} /\ {"disarmed"} \in SUBSET {"paused", "disarmed"}
      /\ {"paused", "disarmed"} \in SUBSET {"paused", "disarmed"}
  OBVIOUS
<1>1. CASE OperatorPause
  <2>1. operator'.paused /\ operator'.armed = operator.armed
    BY <1>1 DEF OperatorPause, OperatorState
  <2> QED
    BY <1>1, <1>a, <2>1, StopSeenType DEF OperatorPause
<1>2. CASE OperatorResume
  <2>1. operator'.armed = operator.armed
    BY <1>2 DEF OperatorResume, OperatorState
  <2> QED
    BY <1>2, <2>1, StopLiftedType DEF OperatorResume
<1>3. CASE OperatorKillSwitch
  <2>1. operator'.paused /\ ~operator'.armed
    BY <1>3 DEF OperatorKillSwitch
  <2> QED
    BY <1>3, <1>a, <2>1, StopSeenType DEF OperatorKillSwitch
<1>4. CASE OperatorArm
  <2>1. operator'.paused = operator.paused
    BY <1>4, ArmType DEF OperatorArm
  <2> QED
    BY <1>4, <2>1, StopLiftedType DEF OperatorArm
<1>5. CASE OperatorDisarm
  <2>1. operator'.paused = operator.paused /\ operator'.armed = FALSE
    BY <1>5, DisarmType DEF OperatorDisarm
  <2> QED
    BY <1>5, <1>a, <2>1, StopSeenType DEF OperatorDisarm
<1> QED
  BY <1>1, <1>2, <1>3, <1>4, <1>5 DEF Operator

LEMMA SupervisorKeepsPause ==
  ASSUME TypeOK, PauseInv, Supervisor
  PROVE  PauseInv'
<1> USE TypedCycle, SupervisorSteps DEF SupLeaves, SupResets, SupMoves
<1>1. ASSUME NEW pre \in {"none", "soft"}, SupervisorStart(pre) PROVE PauseInv'
  BY <1>1 DEF PauseInv, PauseHonoured
<1>2. CASE SupervisorCycle \/ CoreLoopPlan \/ OwnerIntentGate
  BY <1>2 DEF PauseInv, PauseHonoured, SupervisorCycle, CoreLoopPlan, OwnerIntentGate
<1>3. CASE ReserveBudget \/ SubmitOrders \/ ReconcileBudget \/ CoreLoopRaises
  BY <1>3 DEF PauseInv, PauseHonoured, ReserveBudget
<1>4. CASE DeltaEntry
  BY <1>4 DEF PauseInv, PauseHonoured, DeltaEntry
<1>5. CASE PreSubmitRevalidation
  <2>1. CASE Stopped
    <3>1. sup'.pc = "reconcile" /\ sup'.stops = {}
      <4>1. sup' = [sup EXCEPT !.pc = "reconcile", !.blocker = "soft", !.entryArmed = FALSE, !.stops = {}]
        BY <1>5, <2>1 DEF PreSubmitRevalidation, SupUnsent
      <4> QED
        BY <4>1 DEF SupState
    <3> QED
      BY <3>1 DEF PauseInv, PauseHonoured
  <2>2. CASE ~Stopped
    <3>1. "paused" \notin sup.stops
      BY <1>5, <2>2 DEF Stopped, PauseInv, PreSubmitRevalidation
    <3>2. sup'.stops = sup.stops \/ sup'.stops = {}
      BY <1>5
    <3>3. sup'.pc = "submit" \/ (sup'.pc = "reconcile" /\ sup'.stops = {})
      BY <1>5
    <3> QED
      BY <3>1, <3>2, <3>3 DEF PauseInv, PauseHonoured
  <2> QED
    BY <2>1, <2>2
<1>6. CASE SupervisorDisarm \/ SupervisorRecheck \/ SupervisorFinish
  BY <1>6 DEF PauseInv, PauseHonoured, SupervisorDisarm, SupervisorRecheck
<1> QED
  BY <1>1, <1>2, <1>3, <1>4, <1>5, <1>6 DEF Supervisor

\* What the monitor and the policy do to the cycle: a pause is not theirs, and a
\* decision to arm takes back the stop by a disarm.
LEMMA OtherSteps ==
  ASSUME TypeOK, Monitor \/ Policy
  PROVE  /\ operator'.paused = operator.paused
         /\ sup'.pc = sup.pc /\ sup'.claim = sup.claim /\ sup'.entryArmed = sup.entryArmed
         /\ sup'.stops = sup.stops \/ sup'.stops = sup.stops \ {"disarmed"}
<1> USE TypedCycle
<1>a. sup' = sup \/ sup' = StopLifted("disarmed") =>
        /\ sup'.pc = sup.pc /\ sup'.claim = sup.claim /\ sup'.entryArmed = sup.entryArmed
        /\ sup'.stops = sup.stops \/ sup'.stops = sup.stops \ {"disarmed"}
  BY StopLiftedType
<1>1. CASE MonitorDisarm
  BY <1>1, DisarmType DEF MonitorDisarm
<1>2. CASE RearmRecord
  BY <1>2, ArmType DEF RearmRecord
<1>3. CASE ControllerArms
  BY <1>3, ArmType DEF ControllerArms
<1>4. CASE FastFollowArms
  BY <1>4, ArmType DEF FastFollowArms
<1>5. CASE CleanupDisarms
  BY <1>5, DisarmType DEF CleanupDisarms
<1>6. ASSUME NEW other, MonitorCheck(other) PROVE operator' = operator /\ sup' = sup
  BY <1>6 DEF MonitorCheck, approvalVars
<1>7. RearmGate => operator' = operator /\ sup' = sup
  BY DEF RearmGate, approvalVars
<1>8. ASSUME RearmReadOperator \/ FastFollowProof \/ \E e \in Epoch : ControllerOpensEpoch(e)
      PROVE  operator' = operator /\ (sup' = sup \/ sup' = StopLifted("disarmed"))
  BY <1>8 DEF RearmReadOperator, FastFollowProof, ControllerOpensEpoch, approvalVars
<1>9. PolicyStart \/ ControllerHolds \/ ControllerBlocked \/ ApprovalAlreadyActive
        => operator' = operator /\ sup' = sup
  BY DEF PolicyStart, ControllerHolds, ControllerBlocked, ApprovalAlreadyActive, approvalVars
<1>10. ControllerGate \/ PolicyObserves \/ CleanupCloses => operator' = operator /\ sup' = sup
  BY DEF ControllerGate, PolicyObserves, CleanupCloses, approvalVars
<1> QED
  BY <1>a, <1>1, <1>2, <1>3, <1>4, <1>5, <1>6, <1>7, <1>8, <1>9, <1>10
  DEF Monitor, Policy, ControllerDecides

LEMMA CrashSteps ==
  ASSUME Crash
  PROVE  /\ operator' = operator /\ (sup' = sup \/ sup' = IdleSup)
         /\ (mon' = mon \/ mon' = IdleMon) /\ (pol' = pol \/ pol' = IdlePol)
BY DEF Crash, approvalVars

LEMMA PauseInvariant == Spec => []PauseInv
<1>1. Init => PauseInv
  BY IdleTypes DEF Init, PauseInv, PauseHonoured
<1>2. TypeOK /\ PauseInv /\ [Next]_vars => PauseInv'
  <2> SUFFICES ASSUME TypeOK, PauseInv, [Next]_vars PROVE PauseInv'
    OBVIOUS
  <2>1. CASE Operator
    BY <2>1, OperatorSteps DEF PauseInv, PauseHonoured, Binding
  <2>2. CASE Monitor \/ Policy
    BY <2>2, OtherSteps DEF PauseInv, PauseHonoured
  <2>3. CASE Crash
    BY <2>3, CrashSteps, IdleTypes DEF PauseInv, PauseHonoured
  <2>4. CASE UNCHANGED vars
    BY <2>4 DEF vars, PauseInv, PauseHonoured
  <2> QED
    BY <2>1, <2>2, <2>3, <2>4, SupervisorKeepsPause DEF Next
<1> QED
  BY <1>1, <1>2, TypeCorrect, PTL DEF Spec

\* A pause or kill-switch between the delta runner's entry read and its submit
\* stops the orders (mainnet_delta_execution_runner.py, pre-submit revalidation).
THEOREM PauseIsHonoured == Spec => []PauseHonoured
<1>1. PauseInv => PauseHonoured
  BY DEF PauseInv
<1> QED
  BY <1>1, PauseInvariant, PTL

--------------------------------------------------------------------------------
\* The disarm, which binds as long as nobody is about to arm.
LEMMA OperatorKeepsDisarm ==
  ASSUME TypeOK, DisarmInv, Operator
  PROVE  DisarmInv'
<1>1. UNCHANGED <<mon, pol>>
  BY DEF Operator, OperatorPause, OperatorResume, OperatorKillSwitch, OperatorArm, OperatorDisarm
<1>2. ArmPending' = ArmPending
  BY <1>1 DEF ArmPending
<1>3. Binding({"paused"}) = {"paused"}
  BY DEF Binding
<1>4. "disarmed" \in Binding({"disarmed"}) \/ "disarmed" \in Binding({"paused", "disarmed"}) => ~ArmPending
  BY DEF Binding
<1> QED
  BY <1>2, <1>3, <1>4, OperatorSteps DEF DisarmInv, DisarmHonoured

LEMMA SupervisorKeepsDisarm ==
  ASSUME TypeOK, PauseInv, DisarmInv, Supervisor
  PROVE  DisarmInv'
<1>0. UNCHANGED <<mon, pol>>
  BY DEF Supervisor, SupervisorStart, SupervisorCycle, CoreLoopPlan, OwnerIntentGate, ReserveBudget,
         DeltaEntry, PreSubmitRevalidation, SubmitOrders, ReconcileBudget, CoreLoopRaises,
         SupervisorDisarm, SupervisorRecheck, SupervisorFinish
<1>a. ASSUME sup'.pc \notin {"revalidate", "submit"} PROVE DisarmInv'
  BY <1>a DEF DisarmInv, DisarmHonoured
<1> USE TypedCycle, SupervisorSteps, <1>a DEF SupLeaves, SupResets, SupMoves
<1>1. ASSUME NEW pre \in {"none", "soft"}, SupervisorStart(pre) PROVE DisarmInv'
  BY <1>1
<1>2. CASE SupervisorCycle \/ CoreLoopPlan \/ OwnerIntentGate \/ ReserveBudget
  BY <1>2
<1>3. CASE DeltaEntry
  <2>1. sup.stops = {}
    BY <1>3 DEF DeltaEntry, PauseInv
  <2>2. sup'.pc # "submit" /\ sup'.stops = {}
    BY <1>3, <2>1
  <2> QED
    BY <2>2 DEF DisarmInv, DisarmHonoured
<1>4. CASE PreSubmitRevalidation
  <2>1. CASE Stopped
    <3>1. sup' = [sup EXCEPT !.pc = "reconcile", !.blocker = "soft", !.entryArmed = FALSE, !.stops = {}]
      BY <1>4, <2>1 DEF PreSubmitRevalidation, SupUnsent
    <3>2. sup'.pc = "reconcile"
      BY <3>1 DEF SupState
    <3> QED
      BY <3>2
  <2>2. CASE ~Stopped
    <3>1. sup' = [sup EXCEPT !.pc = "submit"]
      BY <1>4, <2>2 DEF PreSubmitRevalidation, SupGoto
    <3>2. sup'.pc = "submit" /\ sup'.entryArmed = sup.entryArmed /\ sup'.stops = sup.stops
      BY <3>1 DEF SupState
    <3>3. sup.entryArmed => "disarmed" \notin sup.stops
      BY <1>4, <2>2 DEF Stopped, DisarmInv, PreSubmitRevalidation
    <3> QED
      BY <3>2, <3>3 DEF DisarmInv, DisarmHonoured
  <2> QED
    BY <2>1, <2>2
<1>5. CASE SubmitOrders \/ ReconcileBudget \/ CoreLoopRaises
  BY <1>5
<1>6. CASE SupervisorDisarm \/ SupervisorRecheck \/ SupervisorFinish
  BY <1>6
<1> QED
  BY <1>1, <1>2, <1>3, <1>4, <1>5, <1>6 DEF Supervisor

\* A step that leaves a binding disarm alone does not arm, and makes no arm pending.
LEMMA DisarmKept ==
  ASSUME TypeOK, DisarmInv, Monitor \/ Policy,
         "disarmed" \in sup'.stops /\ ~ArmPending => ~ArmPending' /\ (operator'.armed => operator.armed)
  PROVE  DisarmInv'
BY OtherSteps DEF DisarmInv, DisarmHonoured

LEMMA MonitorKeepsDisarm ==
  ASSUME TypeOK, DisarmInv, Monitor
  PROVE  DisarmInv'
<1> USE TypedCycle, OtherIdleTypes DEF ArmPending
<1>0. pol' = pol
  BY DEF Monitor, MonitorCheck, MonitorDisarm, RearmReadOperator, RearmGate, RearmRecord
<1>1. ASSUME NEW other, MonitorCheck(other)
      PROVE  operator' = operator /\ mon'.pc \in {"idle", "rearm", "disarm"}
  <2>1. operator' = operator
    BY <1>1 DEF MonitorCheck, approvalVars
  <2>2. \E pc \in {"disarm", "rearm", "idle"} : \E started, old, blocker :
          mon' = [IdleMon EXCEPT !.pc = pc, !.started = started, !.runs = old, !.blocker = blocker]
    <3> DEFINE seen == {runs[i].blocker : i \in DOMAIN runs}
               alert == \/ other # "none"
                        \/ ArmedWithoutEpoch(RuntimeGate(lastArm, clock))
                        \/ RuntimeGate(lastArm, clock) /\ (Len(runs) < RecentRuns \/ seen # {"none"})
               pc == IF alert THEN "disarm" ELSE IF AutoRearm THEN "rearm" ELSE "idle"
               started == IF ~alert /\ AutoRearm THEN clock ELSE 0
               old == IF ~alert /\ AutoRearm THEN runs ELSE <<>>
               blocker == IF alert THEN Worst(seen \cup {other}) ELSE "none"
    <3>1. mon' = [IdleMon EXCEPT !.pc = pc, !.started = started, !.runs = old, !.blocker = blocker]
      BY <1>1 DEF MonitorCheck
    <3>2. pc \in {"disarm", "rearm", "idle"}
      OBVIOUS
    <3> HIDE DEF pc, started, old, blocker
    <3> QED
      BY <3>1, <3>2
  <2> QED
    BY <2>1, <2>2 DEF MonState
<1>2. CASE MonitorDisarm
  <2>1. operator'.armed = FALSE
    BY <1>2, DisarmType DEF MonitorDisarm
  <2>2. mon'.pc = "idle"
    BY <1>2 DEF MonitorDisarm, IdleMon
  <2> QED
    BY <1>0, <2>1, <2>2, DisarmKept
<1>3. CASE RearmReadOperator
  <2>1. operator' = operator
    BY <1>3 DEF RearmReadOperator, approvalVars
  <2>2. mon' = IdleMon \/ sup' = StopLifted("disarmed")
    BY <1>3 DEF RearmReadOperator
  <2>3. mon'.pc = "idle" \/ "disarmed" \notin sup'.stops
    BY <2>2, StopLiftedType DEF IdleMon
  <2> QED
    BY <1>0, <2>1, <2>3, DisarmKept
<1>4. CASE RearmGate \/ RearmRecord
  BY <1>4, DisarmKept DEF RearmGate, RearmRecord
<1> QED
  BY <1>0, <1>1, <1>2, <1>3, <1>4, DisarmKept DEF Monitor

LEMMA PolicyKeepsDisarm ==
  ASSUME TypeOK, DisarmInv, Policy
  PROVE  DisarmInv'
<1> USE TypedCycle, OtherIdleTypes DEF ArmPending
<1>0. pol \in PolState
  BY DEF TypeOK
<1>1. mon' = mon
  BY DEF Policy, PolicyStart, ControllerHolds, ControllerDecides, ControllerBlocked, ApprovalAlreadyActive,
         ControllerOpensEpoch, ControllerArms, ControllerGate, PolicyObserves, FastFollowProof, FastFollowArms,
         CleanupCloses, CleanupDisarms
<1>2. CASE ControllerArms \/ FastFollowArms
  BY <1>2, DisarmKept DEF ControllerArms, FastFollowArms
<1>3. ASSUME FastFollowProof \/ \E e \in Epoch : ControllerOpensEpoch(e) PROVE DisarmInv'
  <2>1. sup' = StopLifted("disarmed")
    BY <1>3 DEF FastFollowProof, ControllerOpensEpoch
  <2>2. "disarmed" \notin sup'.stops
    BY <2>1, StopLiftedType
  <2> QED
    BY <2>2, DisarmKept
<1>4. CASE CleanupDisarms
  <2>1. operator'.armed = FALSE
    BY <1>4, DisarmType DEF CleanupDisarms
  <2>2. pol'.pc = "idle"
    BY <1>4 DEF CleanupDisarms, IdlePol
  <2> QED
    BY <1>1, <2>1, <2>2, DisarmKept
<1>5. ASSUME operator' = operator, pol'.pc \notin {"arm", "fast_follow"} PROVE DisarmInv'
  BY <1>1, <1>5, DisarmKept
<1>6. CASE PolicyStart \/ ControllerHolds \/ ControllerBlocked \/ ApprovalAlreadyActive
  <2>1. operator' = operator
    BY <1>6 DEF PolicyStart, ControllerHolds, ControllerBlocked, ApprovalAlreadyActive, approvalVars
  <2>2. CASE PolicyStart \/ ControllerHolds
    <3>1. pol' = IdlePol \/ \E at : pol' = [IdlePol EXCEPT !.pc = "decide", !.started = at, !.seen = at]
      BY <2>2 DEF PolicyStart, ControllerHolds
    <3>2. pol'.pc \in {"idle", "decide"}
      <4>1. IdlePol.pc = "idle"
        BY DEF IdlePol
      <4> QED
        BY <3>1, <4>1 DEF PolState
    <3> QED
      BY <1>5, <2>1, <3>2
  <2>3. CASE ControllerBlocked \/ ApprovalAlreadyActive
    <3>1. pol'.pc \in {"close", "wait"}
      BY <1>0, <2>3 DEF ControllerBlocked, ApprovalAlreadyActive, PolState
    <3> QED
      BY <1>5, <2>1, <3>1
  <2> QED
    BY <1>6, <2>2, <2>3
<1>7. CASE ControllerGate \/ PolicyObserves \/ CleanupCloses
  <2>1. operator' = operator
    BY <1>7 DEF ControllerGate, PolicyObserves, CleanupCloses, approvalVars
  <2>2. CASE ControllerGate \/ CleanupCloses
    BY <1>0, <1>5, <2>1, <2>2 DEF ControllerGate, CleanupCloses, PolState
  <2>3. CASE PolicyObserves
    <3>1. \E blocker : pol' = [IdlePol EXCEPT !.pc = "close", !.started = pol.started, !.blocker = blocker]
      BY <2>3 DEF PolicyObserves
    <3>2. pol'.pc = "close"
      BY <3>1 DEF PolState
    <3> QED
      BY <1>5, <2>1, <3>2
  <2> QED
    BY <1>7, <2>2, <2>3
<1> QED
  BY <1>2, <1>3, <1>4, <1>6, <1>7 DEF Policy, ControllerDecides

\* A disarm in that window stops the orders too, if nobody was about to record an
\* arm and nobody decides to arm afterwards: with or without auto-rearm, and
\* whoever else records a disarm or dies (mainnet_delta_execution_runner.py,
\* pre-submit revalidation; state_store.py, record_operator_action).
THEOREM StopIsHonoured == Spec => []StopHonoured
<1>1. Init => PauseInv /\ DisarmInv
  BY IdleTypes DEF Init, PauseInv, PauseHonoured, DisarmInv, DisarmHonoured
<1>2. TypeOK /\ PauseInv /\ DisarmInv /\ [Next]_vars => DisarmInv'
  <2> SUFFICES ASSUME TypeOK, PauseInv, DisarmInv, [Next]_vars PROVE DisarmInv'
    OBVIOUS
  <2>1. CASE Crash
    <3>1. ArmPending' => ArmPending
      BY <2>1, CrashSteps DEF ArmPending, IdleMon, IdlePol
    <3> QED
      BY <2>1, <3>1, CrashSteps, IdleTypes DEF DisarmInv, DisarmHonoured
  <2>2. CASE UNCHANGED vars
    BY <2>2 DEF vars, DisarmInv, DisarmHonoured, ArmPending
  <2> QED
    BY <2>1, <2>2, OperatorKeepsDisarm, SupervisorKeepsDisarm, MonitorKeepsDisarm, PolicyKeepsDisarm DEF Next
<1>3. DisarmInv /\ PauseHonoured => StopHonoured
  BY DEF DisarmInv, StopHonoured
<1>4. Spec => []PauseInv
  BY PauseInvariant
<1> QED
  BY <1>1, <1>2, <1>3, <1>4, TypeCorrect, PauseIsHonoured, PTL DEF Spec

--------------------------------------------------------------------------------
\* A cycle between its reservation and its reconcile has one to reconcile.
BookInv == sup.pc \in InDelta => sup.claim \in orphans

LEMMA ReserveCharges ==
  ASSUME TypeOK, ReserveBudget
  PROVE  BookInv' /\ [Book!BNext]_(Book!bvars)
<1> USE TypedCycle
<1>1. CASE BudgetBlocked
  <2>1. sup'.pc = "disarm" /\ UNCHANGED <<epoch, usedEpochs, orphans>>
    BY <1>1, BlockedType, BlockerKinds DEF ReserveBudget, SupBlocked, budgetVars
  <2> QED
    BY <2>1 DEF BookInv, InDelta, Book!bvars
<1>2. CASE ~BudgetBlocked
  <2>1. PICK c \in Claim : Claims(c) /\ SupLeaves("delta_entry", sup.stops, c)
    <3>1. ~SupResets("disarm")
      BY <1>2 DEF ReserveBudget, SupResets, SupLeaves, SupState
    <3> QED
      BY <3>1, SupervisorSteps
  <2>2. EpochOf(c) = epoch /\ \A d \in orphans : EpochOf(d) # epoch
    BY <1>2, <2>1 DEF Claims, EpochOf, BudgetBlocked
  <2>3. orphans' = orphans \cup {c} /\ sup'.claim = c
    BY <2>1 DEF Claims, SupLeaves
  <2>4. epoch' \in {epoch, NoEpoch} /\ UNCHANGED usedEpochs
    BY <1>2 DEF ReserveBudget
  <2>5. Book!Charge(c)
    BY <2>2, <2>3, <2>4 DEF Book!Charge
  <2> QED
    BY <2>3, <2>5 DEF BookInv, Book!BNext
<1> QED
  BY <1>1, <1>2

LEMMA ReconcileSettles ==
  ASSUME TypeOK, BookInv, ReconcileBudget
  PROVE  BookInv' /\ [Book!BNext]_(Book!bvars)
<1>1. sup'.pc \notin InDelta
  BY TypedCycle, SupervisorSteps DEF SupResets, SupLeaves, InDelta
<1>2. sup.claim \in orphans /\ sup.claim \in Claim
  BY DEF ReconcileBudget, BookInv, InDelta, TypeOK, BudgetOK, Claim
<1>3. Book!Settle(sup.claim) \/ UNCHANGED <<epoch, usedEpochs, orphans>>
  BY <1>2 DEF ReconcileBudget, Book!Settle
<1> QED
  BY <1>1, <1>2, <1>3 DEF BookInv, Book!BNext, Book!bvars

\* The rest of the supervisor leaves the epochs alone, and enters the delta
\* runner through ReserveBudget only.
LEMMA OtherCyclesKeepBook ==
  ASSUME TypeOK, BookInv, Supervisor, ~ReserveBudget, ~ReconcileBudget
  PROVE  BookInv' /\ UNCHANGED <<epoch, usedEpochs, orphans>>
<1> USE TypedCycle, SupervisorSteps DEF SupResets, SupMoves, SupLeaves, InDelta, budgetVars, BookInv
<1>1. ASSUME NEW pre \in {"none", "soft"}, SupervisorStart(pre)
      PROVE  BookInv' /\ UNCHANGED <<epoch, usedEpochs, orphans>>
  BY <1>1 DEF SupervisorStart
<1>2. CASE SupervisorCycle
  BY <1>2 DEF SupervisorCycle
<1>3. CASE CoreLoopPlan
  BY <1>3 DEF CoreLoopPlan
<1>4. CASE OwnerIntentGate
  BY <1>4 DEF OwnerIntentGate
<1>5. CASE DeltaEntry
  BY <1>5 DEF DeltaEntry
<1>6. CASE PreSubmitRevalidation
  BY <1>6 DEF PreSubmitRevalidation
<1>7. CASE SubmitOrders
  BY <1>7 DEF SubmitOrders
<1>8. CASE CoreLoopRaises
  BY <1>8 DEF CoreLoopRaises
<1>9. CASE SupervisorDisarm
  BY <1>9 DEF SupervisorDisarm
<1>10. CASE SupervisorRecheck
  BY <1>10 DEF SupervisorRecheck
<1>11. CASE SupervisorFinish
  BY <1>11 DEF SupervisorFinish
<1> QED
  BY <1>1, <1>2, <1>3, <1>4, <1>5, <1>6, <1>7, <1>8, <1>9, <1>10, <1>11 DEF Supervisor

\* The policy opens and closes epochs; only it opens one.
LEMMA PolicyKeepsBook ==
  ASSUME TypeOK, Policy
  PROVE  [Book!BNext]_(Book!bvars) /\ UNCHANGED orphans
<1> USE DEF budgetVars
<1>1. ASSUME NEW e \in Epoch, ControllerOpensEpoch(e) PROVE Book!Open(e) /\ UNCHANGED orphans
  BY <1>1 DEF ControllerOpensEpoch, Book!Open
<1>2. CASE CleanupCloses
  BY <1>2 DEF CleanupCloses, Book!BNext, Book!Close, Book!bvars
<1>3. PolicyStart \/ ControllerHolds \/ ControllerBlocked \/ ApprovalAlreadyActive
        => UNCHANGED <<epoch, usedEpochs, orphans>>
  BY DEF PolicyStart, ControllerHolds, ControllerBlocked, ApprovalAlreadyActive
<1>4. ControllerArms \/ ControllerGate \/ PolicyObserves \/ FastFollowProof \/ FastFollowArms \/ CleanupDisarms
        => UNCHANGED <<epoch, usedEpochs, orphans>>
  BY DEF ControllerArms, ControllerGate, PolicyObserves, FastFollowProof, FastFollowArms, CleanupDisarms
<1> QED
  BY <1>1, <1>2, <1>3, <1>4 DEF Policy, ControllerDecides, Book!BNext, Book!bvars

LEMMA OthersLeaveBook ==
  ASSUME Operator \/ Monitor \/ Crash
  PROVE  UNCHANGED <<epoch, usedEpochs, orphans>>
<1> USE DEF budgetVars
<1>1. CASE Operator
  BY <1>1 DEF Operator, OperatorPause, OperatorResume, OperatorKillSwitch, OperatorArm, OperatorDisarm
<1>2. CASE Monitor
  BY <1>2 DEF Monitor, MonitorCheck, MonitorDisarm, RearmReadOperator, RearmGate, RearmRecord
<1>3. CASE Crash
  BY <1>3 DEF Crash
<1> QED
  BY <1>1, <1>2, <1>3

\* The switch, whoever turns it and whoever dies, uses the budget as EpochBook
\* allows: every claim it charges is new, of the current epoch, and charged while
\* no claim of that epoch is unreconciled; it opens no epoch twice, and settles
\* what was charged
\* (mainnet_core_loop_runner.py, _run_cycle; unattended_epoch_controller.py).
THEOREM SwitchKeepsBook == Spec => KeepsBook
<1>1. Init => BookInv /\ Book!BInit
  BY IdleTypes DEF Init, BookInv, InDelta, Book!BInit
<1>2. TypeOK /\ BookInv /\ [Next]_vars => BookInv' /\ [Book!BNext]_(Book!bvars)
  <2> SUFFICES ASSUME TypeOK, BookInv, [Next]_vars PROVE BookInv' /\ [Book!BNext]_(Book!bvars)
    OBVIOUS
  <2>1. CASE Operator
    BY <2>1, TypedCycle, OperatorSteps, OthersLeaveBook DEF BookInv, Book!bvars
  <2>2. CASE Monitor
    BY <2>2, OtherSteps, OthersLeaveBook DEF BookInv, Book!bvars
  <2>3. CASE Policy
    BY <2>3, OtherSteps, PolicyKeepsBook DEF BookInv
  <2>4. CASE Crash
    BY <2>4, CrashSteps, IdleTypes, OthersLeaveBook DEF BookInv, InDelta, Book!bvars
  <2>5. CASE Supervisor
    BY <2>5, ReserveCharges, ReconcileSettles, OtherCyclesKeepBook DEF Book!bvars
  <2>6. CASE UNCHANGED vars
    BY <2>6 DEF vars, BookInv, Book!bvars
  <2> QED
    BY <2>1, <2>2, <2>3, <2>4, <2>5, <2>6 DEF Next
<1> QED
  BY <1>1, <1>2, TypeCorrect, PTL DEF Spec, KeepsBook, Book!BSpec
================================================================================
