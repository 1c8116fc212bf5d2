---------------------------- MODULE BudgetRefinement ----------------------------
(***************************************************************************)
(* The store implements TurnoverAccount: each of its transactions is one     *)
(* step of the abstract account, and every other step of a cycle stutters.   *)
(* With one cycle at a time it implements EpochBook as well, which is what    *)
(* the live-delta switch is written against.                                 *)
(***************************************************************************)
EXTENDS BudgetProofs

\* The abstract grants of an account are the claimed keys of its epoch.
LEMMA GrantsAreClaims ==
  \A e \in Epoch : Abstract!GrantsOf(e) = Claimed(e)
  BY DEF Abstract!GrantsOf, EpochOf, GrantedKeys, Claimed, KeysOf

\* The instance's Cardinality is the one the proofs count with.
LEMMA SameCardinality == \A S : Abstract!Cardinality(S) = Cardinality(S)
  BY DEF Abstract!Cardinality, Cardinality

\* A step that leaves all rows but one alone changes the maps at one epoch.
LEMMA MapsAt ==
  ASSUME TypeOK, NEW e \in Epoch, \A d \in Epoch \ {e} : ledger'[d] = ledger[d]
  PROVE  /\ PhaseOf' = [PhaseOf EXCEPT ![e] = PhaseOf'[e]]
         /\ CapOf' = [CapOf EXCEPT ![e] = CapOf'[e]]
         /\ SpentOf' = [SpentOf EXCEPT ![e] = SpentOf'[e]]
  <1>1. PhaseOf' = [PhaseOf EXCEPT ![e] = PhaseOf'[e]]
    BY DEF PhaseOf
  <1>2. CapOf' = [CapOf EXCEPT ![e] = CapOf'[e]]
    BY DEF CapOf
  <1>3. SpentOf' = [SpentOf EXCEPT ![e] = SpentOf'[e]]
    BY DEF SpentOf
  <1> QED
    BY <1>1, <1>2, <1>3

LEMMA MapValues ==
  ASSUME NEW e \in Epoch
  PROVE  /\ PhaseOf[e] = IF ledger[e].status \in {"none", "open"} THEN ledger[e].status ELSE "over"
         /\ CapOf[e].cycles = ledger[e].max_live_cycles
         /\ CapOf[e].turnover = ledger[e].max_gross_turnover
         /\ SpentOf[e] = ledger[e].consumed_turnover
         /\ PhaseOf'[e] = IF ledger'[e].status \in {"none", "open"} THEN ledger'[e].status ELSE "over"
         /\ CapOf'[e].cycles = ledger'[e].max_live_cycles
         /\ CapOf'[e].turnover = ledger'[e].max_gross_turnover
         /\ SpentOf'[e] = ledger'[e].consumed_turnover
  BY DEF PhaseOf, CapOf, SpentOf

\* The maps are functions, so the value at the only changed epoch decides.
LEMMA MapUnchanged ==
  ASSUME NEW e \in Epoch
  PROVE  /\ CapOf' = [CapOf EXCEPT ![e] = CapOf'[e]]
              /\ ledger'[e].max_live_cycles = ledger[e].max_live_cycles
              /\ ledger'[e].max_gross_turnover = ledger[e].max_gross_turnover => UNCHANGED CapOf
         /\ SpentOf' = [SpentOf EXCEPT ![e] = SpentOf'[e]]
              /\ ledger'[e].consumed_turnover = ledger[e].consumed_turnover => UNCHANGED SpentOf
  <1>1. ASSUME CapOf' = [CapOf EXCEPT ![e] = CapOf'[e]],
               ledger'[e].max_live_cycles = ledger[e].max_live_cycles,
               ledger'[e].max_gross_turnover = ledger[e].max_gross_turnover
        PROVE  UNCHANGED CapOf
    <2>1. CapOf'[e] = CapOf[e]
      BY <1>1 DEF CapOf
    <2> QED
      BY <1>1, <2>1 DEF CapOf
  <1>2. ASSUME SpentOf' = [SpentOf EXCEPT ![e] = SpentOf'[e]],
               ledger'[e].consumed_turnover = ledger[e].consumed_turnover
        PROVE  UNCHANGED SpentOf
    <2>1. SpentOf'[e] = SpentOf[e]
      BY <1>2 DEF SpentOf
    <2> QED
      BY <1>2, <2>1 DEF SpentOf
  <1> QED
    BY <1>1, <1>2

LEMMA AccountInit == Init => Abstract!AInit
  BY DEF Init, Abstract!AInit, Abstract!NoCap, NoRow, NoReservation, PhaseOf, CapOf, SpentOf,
     GrantedKeys, SettledKeys

LEMMA OpensAccount ==
  ASSUME TypeOK, LedgerInv, NEW e \in Epoch, Opens(e)
  PROVE  Abstract!Open(e)
  <1>1. PICK row \in EpochRow :
          /\ row.status = "open" /\ row.consumed_turnover = 0
          /\ row.max_live_cycles > 0 /\ row.max_gross_turnover > 0
          /\ ledger' = [ledger EXCEPT ![e] = row]
    BY DEF Opens
  <1>2. ledger'[e] = row /\ \A d \in Epoch \ {e} : ledger'[d] = ledger[d]
    BY <1>1 DEF TypeOK
  <1>3. ledger[e].consumed_turnover = 0
    BY DEF Opens, LedgerInv
  <1>4. UNCHANGED <<GrantedKeys, SettledKeys>>
    BY DEF Opens, GrantedKeys, SettledKeys
  <1>5. UNCHANGED SpentOf
    BY <1>1, <1>2, <1>3, MapsAt, MapUnchanged
  <1>6. PhaseOf[e] = "none" /\ \A b \in Epoch : PhaseOf[b] # "open"
    BY DEF Opens, OpenEpochs, PhaseOf
  <1> QED
    BY <1>1, <1>2, <1>4, <1>5, <1>6, MapsAt, MapValues DEF Abstract!Open

LEMMA ClosesAccount ==
  ASSUME TypeOK, NEW e \in Epoch, Closes(e)
  PROVE  Abstract!Close(e)
  <1>1. /\ ledger'[e].status = "closed"
        /\ ledger'[e].max_live_cycles = ledger[e].max_live_cycles
        /\ ledger'[e].max_gross_turnover = ledger[e].max_gross_turnover
        /\ ledger'[e].consumed_turnover = ledger[e].consumed_turnover
        /\ \A d \in Epoch \ {e} : ledger'[d] = ledger[d]
    BY DEF Closes, TypeOK, EpochRow
  <1>2. UNCHANGED <<CapOf, SpentOf>>
    BY <1>1, MapsAt, MapUnchanged
  <1>3. UNCHANGED <<GrantedKeys, SettledKeys>>
    BY DEF Closes, GrantedKeys, SettledKeys
  <1>4. PhaseOf[e] # "none" /\ PhaseOf' = [PhaseOf EXCEPT ![e] = "over"]
    BY <1>1, MapsAt, MapValues DEF Closes
  <1> QED
    BY <1>2, <1>3, <1>4 DEF Abstract!Close

LEMMA DebitsAccount ==
  ASSUME TypeOK, LedgerInv, NEW k \in Key, Debits(k)
  PROVE  Abstract!GiveGrant(k)
  <1> DEFINE e == k[1]
  <1>1. e \in Epoch /\ EpochOf(k) = e
    BY DEF Key, EpochOf
  <1>2. Cardinality(Abstract!GrantsOf(e)) = ledger[e].consumed_cycles
    BY <1>1, GrantsAreClaims DEF LedgerInv, CyclesMatchReservations
  <1>ty. ledger[e] \in EpochRow
    BY <1>1 DEF TypeOK
  <1>3. k \notin GrantedKeys /\ GrantedKeys' = GrantedKeys \cup {k} /\ UNCHANGED SettledKeys
    <2>1. reservations[k].status = "none" /\ reservations'[k].status = "reserved"
          /\ \A j \in Key \ {k} : reservations'[j] = reservations[j]
      BY DEF Debits, TypeOK
    <2> QED
      BY <2>1 DEF GrantedKeys, SettledKeys
  <1>4. UNCHANGED CapOf
    BY <1>1, DebitedRow, MapsAt, MapUnchanged
  <1>5. PhaseOf[e] = "open" /\ PhaseOf'[e] = IF ledger'[e].status = "open" THEN "open" ELSE "over"
    BY <1>1, DebitedRow, MapValues
  <1>6. Abstract!Drained(e, ledger[e].consumed_cycles + 1, SpentOf'[e])
          <=> ledger'[e].status # "open"
    <2>1. /\ ledger'[e].consumed_cycles = ledger[e].consumed_cycles + 1
          /\ ledger'[e].max_live_cycles = ledger[e].max_live_cycles
          /\ ledger'[e].max_gross_turnover = ledger[e].max_gross_turnover
          /\ (ledger'[e].status = "open" <=>
                /\ ledger'[e].consumed_cycles < ledger'[e].max_live_cycles
                /\ ledger'[e].consumed_turnover < ledger'[e].max_gross_turnover)
      BY DebitedRow
    <2>2. ledger'[e].consumed_turnover \in Int
      BY DebitedRow
    <2> QED
      BY <1>1, <1>ty, <2>1, <2>2, MapValues DEF Abstract!Drained, EpochRow
  <1>7. /\ ledger[e].consumed_cycles + 1 <= CapOf[e].cycles
        /\ SpentOf'[e] >= SpentOf[e] /\ SpentOf'[e] <= CapOf[e].turnover
    BY <1>1, <1>ty, DebitedRow, MapValues DEF EpochRow
  <1>8. /\ PhaseOf' = [PhaseOf EXCEPT ![e] = PhaseOf'[e]]
        /\ SpentOf' = [SpentOf EXCEPT ![e] = SpentOf'[e]]
    BY <1>1, DebitedRow, MapsAt
  <1>9. PhaseOf' = [PhaseOf EXCEPT ![e] =
          IF Abstract!Drained(e, Abstract!Cardinality(Abstract!GrantsOf(e)) + 1, SpentOf'[e])
            THEN "over" ELSE "open"]
    BY <1>2, <1>5, <1>6, <1>8, SameCardinality
  <1> QED
    BY <1>1, <1>2, <1>3, <1>4, <1>5, <1>7, <1>8, <1>9, SameCardinality DEF Abstract!GiveGrant

LEMMA ReconcilesAccount ==
  ASSUME TypeOK, LedgerInv, NEW k \in Key, Reconciles(k)
  PROVE  Abstract!Settle(k)
  <1> DEFINE e == k[1]
  <1>1. e \in Epoch /\ EpochOf(k) = e
    BY DEF Key, EpochOf
  <1>2. Cardinality(Abstract!GrantsOf(e)) = ledger[e].consumed_cycles
    BY <1>1, GrantsAreClaims DEF LedgerInv, CyclesMatchReservations
  <1>3. k \in GrantedKeys /\ UNCHANGED GrantedKeys /\ SettledKeys' = SettledKeys \cup {k}
    BY DEF Reconciles, GrantedKeys, SettledKeys
  <1>4. /\ ledger'[e].consumed_cycles = ledger[e].consumed_cycles
        /\ ledger'[e].max_live_cycles = ledger[e].max_live_cycles
        /\ ledger'[e].max_gross_turnover = ledger[e].max_gross_turnover
        /\ ledger'[e].consumed_turnover \in Nat
        /\ ledger'[e].consumed_turnover >= ledger[e].consumed_turnover
        /\ ledger[e].status # "open" => ledger'[e].status = ledger[e].status
        /\ ledger[e].status = "open" =>
             /\ ledger'[e].status \in {"open", "exhausted"}
             /\ ledger'[e].status = "open" <=>
                  /\ ledger'[e].consumed_cycles < ledger'[e].max_live_cycles
                  /\ ledger'[e].consumed_turnover < ledger'[e].max_gross_turnover
    <2>1. ledger[e] \in EpochRow /\ (ledger[e].status = "open" =>
                  /\ ledger[e].consumed_cycles < ledger[e].max_live_cycles
                  /\ ledger[e].consumed_turnover < ledger[e].max_gross_turnover)
      BY <1>1 DEF TypeOK, LedgerInv, OpenEpochHasBudget, OpenEpochs
    <2>2. CASE ledger'[e] = ledger[e]
      BY <2>1, <2>2 DEF EpochRow
    <2>3. CASE ledger'[e] # ledger[e]
      BY <2>3, ReconciledRow
    <2> QED
      BY <2>2, <2>3
  <1>5. UNCHANGED CapOf
    BY <1>1, <1>4, ReconciledRow, MapsAt, MapUnchanged
  <1>6. SpentOf'[e] >= SpentOf[e] /\ SpentOf' = [SpentOf EXCEPT ![e] = SpentOf'[e]]
    BY <1>1, <1>4, ReconciledRow, MapsAt, MapValues
  <1>7. Abstract!Drained(e, ledger[e].consumed_cycles, SpentOf'[e])
          <=> ~(/\ ledger'[e].consumed_cycles < ledger'[e].max_live_cycles
                /\ ledger'[e].consumed_turnover < ledger'[e].max_gross_turnover)
    <2>1. ledger[e] \in EpochRow
      BY <1>1 DEF TypeOK
    <2> QED
      BY <1>1, <1>4, <2>1, MapValues DEF Abstract!Drained, EpochRow
  <1>8. PhaseOf'[e] = IF PhaseOf[e] = "open" /\ Abstract!Drained(e, ledger[e].consumed_cycles, SpentOf'[e])
                        THEN "over" ELSE PhaseOf[e]
    <2>1. CASE ledger[e].status = "open"
      BY <1>1, <1>4, <1>7, <2>1, MapValues
    <2>2. CASE ledger[e].status # "open"
      BY <1>1, <1>4, <2>2, MapValues
    <2> QED
      BY <2>1, <2>2
  <1>9. PhaseOf' = [PhaseOf EXCEPT ![e] =
          IF @ = "open" /\ Abstract!Drained(e, Abstract!Cardinality(Abstract!GrantsOf(e)), SpentOf'[e])
            THEN "over" ELSE @]
    <2>1. PhaseOf' = [PhaseOf EXCEPT ![e] = PhaseOf'[e]]
      BY <1>1, ReconciledRow, MapsAt
    <2> QED
      BY <1>2, <1>8, <2>1, SameCardinality
  <1> QED
    BY <1>1, <1>3, <1>5, <1>6, <1>9, SameCardinality DEF Abstract!Settle

LEMMA AccountStep == TypeOK /\ RunInv /\ LedgerInv /\ [Next]_vars => [Abstract!ANext]_(Abstract!avars)
  <1> SUFFICES ASSUME TypeOK, RunInv, LedgerInv, [Next]_vars
               PROVE  [Abstract!ANext]_(Abstract!avars)
    OBVIOUS
  <1>1. TableStep
    BY StepIsTableStep
  <1>2. CASE UNCHANGED <<ledger, reservations>>
    BY <1>2 DEF Abstract!avars, PhaseOf, CapOf, SpentOf, GrantedKeys, SettledKeys
  <1> QED
    BY <1>1, <1>2, OpensAccount, ClosesAccount, DebitsAccount, ReconcilesAccount
       DEF TableStep, Abstract!ANext

\* The store, under any interleaving and any crash, is the abstract account.
THEOREM StoreKeepsAccount == Spec => KeepsAccount
  BY AccountInit, AccountStep, LedgerCorrect, PTL DEF Spec, KeepsAccount, Abstract!ASpec

--------------------------------------------------------------------------------
LEMMA CurrentIsOpen ==
  ASSUME TypeOK, OneOpenEpoch
  PROVE  /\ OpenEpochs = {} => CurrentEpoch = NoEpoch
         /\ \A e \in OpenEpochs : OpenEpochs = {e} /\ CurrentEpoch = e
  <1>1. ASSUME NEW e \in OpenEpochs PROVE OpenEpochs = {e} /\ CurrentEpoch = e
    <2>1. OpenEpochs = {e}
      BY DEF OneOpenEpoch
    <2> QED
      BY <2>1 DEF CurrentEpoch
  <1> QED
    BY <1>1 DEF CurrentEpoch

\* The current epoch after a step is decided by the set of open ones.
LEMMA CurrentAfter ==
  ASSUME OneOpenEpoch'
  PROVE  /\ OpenEpochs' = {} => CurrentEpoch' = NoEpoch
         /\ \A e : OpenEpochs' = {e} => CurrentEpoch' = e
  BY DEF CurrentEpoch

\* A step that opens nothing and changes at most the row of e leaves the current
\* epoch, or takes e away from it.
LEMMA CurrentKept ==
  ASSUME TypeOK, OneOpenEpoch, OneOpenEpoch', NEW e \in Epoch,
         OpenEpochs' \subseteq OpenEpochs, \A d \in Epoch \ {e} : ledger'[d] = ledger[d]
  PROVE  CurrentEpoch' \in {CurrentEpoch, IF e = CurrentEpoch THEN NoEpoch ELSE CurrentEpoch}
  <1>1. OpenEpochs \ {e} \subseteq OpenEpochs' /\ NoEpoch \notin Epoch
    BY BudgetAssumption DEF OpenEpochs
  <1>2. CASE OpenEpochs = {}
    BY <1>2, CurrentIsOpen, CurrentAfter
  <1>3. ASSUME NEW d \in OpenEpochs
        PROVE  CurrentEpoch' \in {CurrentEpoch, IF e = CurrentEpoch THEN NoEpoch ELSE CurrentEpoch}
    <2>1. OpenEpochs = {d} /\ CurrentEpoch = d
      BY <1>3, CurrentIsOpen
    <2>2. OpenEpochs' = {d} \/ (OpenEpochs' = {} /\ d = e)
      BY <1>1, <2>1
    <2> QED
      BY <2>1, <2>2, CurrentAfter
  <1> QED
    BY <1>2, <1>3

LEMMA OpensBook ==
  ASSUME TypeOK, OneOpenEpoch, OneOpenEpoch', NEW e \in Epoch, Opens(e)
  PROVE  Book!Open(e)
  <1>1. /\ ledger[e].status = "none" /\ OpenEpochs = {} /\ ledger'[e].status = "open"
        /\ \A d \in Epoch \ {e} : ledger'[d] = ledger[d]
        /\ UNCHANGED reservations
    BY DEF Opens, TypeOK
  <1>2. OpenEpochs' = {e}
    BY <1>1 DEF OpenEpochs
  <1>3. CurrentEpoch = NoEpoch /\ CurrentEpoch' = e
    BY <1>1, <1>2, CurrentIsOpen, CurrentAfter
  <1>4. e \notin OpenedEpochs /\ OpenedEpochs' = OpenedEpochs \cup {e}
    BY <1>1 DEF OpenedEpochs
  <1> QED
    BY <1>1, <1>3, <1>4 DEF Book!Open, ReservedKeys

LEMMA ClosesBook ==
  ASSUME TypeOK, OneOpenEpoch, OneOpenEpoch', NEW e \in Epoch, Closes(e)
  PROVE  [Book!BNext]_(Book!bvars)
  <1>1. /\ ledger[e].status # "none" /\ ledger'[e].status = "closed"
        /\ \A d \in Epoch \ {e} : ledger'[d] = ledger[d]
        /\ UNCHANGED reservations
    BY DEF Closes, TypeOK, EpochRow
  <1>2. OpenEpochs' \subseteq OpenEpochs
    BY <1>1 DEF OpenEpochs
  <1>3. CurrentEpoch' = CurrentEpoch \/ CurrentEpoch' = NoEpoch
    BY <1>1, <1>2, CurrentKept
  <1>4. UNCHANGED <<OpenedEpochs, ReservedKeys>>
    BY <1>1 DEF OpenedEpochs, ReservedKeys
  <1> QED
    BY <1>3, <1>4 DEF Book!BNext, Book!Close, Book!bvars

\* A debit is a charge if its epoch owes nothing else, which one cycle at a time
\* has checked before.
LEMMA DebitsBook ==
  ASSUME TypeOK, OneOpenEpoch, OneOpenEpoch', NEW k \in Key, Debits(k), Unreconciled(k[1]) = {}
  PROVE  Book!Charge(k)
  <1> DEFINE e == k[1]
  <1>1. e \in Epoch /\ EpochOf(k) = e
    BY DEF Key, EpochOf
  <1>2. /\ ledger[e].status = "open" /\ ledger'[e].status # "none"
        /\ \A d \in Epoch \ {e} : ledger'[d] = ledger[d]
    BY <1>1, DebitedRow
  <1>3. /\ reservations'[k].status = "reserved"
        /\ \A j \in Key \ {k} : reservations'[j] = reservations[j]
    BY DEF Debits, TypeOK
  <1>4. OpenEpochs' \subseteq OpenEpochs /\ CurrentEpoch = e
    BY <1>1, <1>2, CurrentIsOpen DEF OpenEpochs
  <1>5. CurrentEpoch' \in {CurrentEpoch, NoEpoch}
    BY <1>1, <1>2, <1>4, CurrentKept
  <1>6. UNCHANGED OpenedEpochs /\ ReservedKeys' = ReservedKeys \cup {k}
    BY <1>1, <1>2, <1>3 DEF OpenedEpochs, ReservedKeys
  <1>7. \A j \in ReservedKeys : EpochOf(j) # CurrentEpoch
    BY <1>4 DEF ReservedKeys, EpochOf, Unreconciled
  <1> QED
    BY <1>1, <1>4, <1>5, <1>6, <1>7 DEF Book!Charge

LEMMA ReconcilesBook ==
  ASSUME TypeOK, OneOpenEpoch, OneOpenEpoch', NEW k \in Key, Reconciles(k)
  PROVE  [Book!BNext]_(Book!bvars)
  <1> DEFINE e == k[1]
  <1>1. e \in Epoch /\ EpochOf(k) = e
    BY DEF Key, EpochOf
  <1>2. /\ OpenEpochs' \subseteq OpenEpochs /\ UNCHANGED OpenedEpochs
        /\ \A d \in Epoch \ {e} : ledger'[d] = ledger[d]
    <2>1. CASE UNCHANGED ledger
      BY <2>1 DEF OpenEpochs, OpenedEpochs
    <2>2. CASE ~UNCHANGED ledger
      <3>1. ledger'[e] # ledger[e]
        BY <2>2, <1>1 DEF Reconciles, TypeOK
      <3> QED
        BY <1>1, <3>1, ReconciledRow DEF OpenEpochs, OpenedEpochs, TypeOK, EpochRow
    <2> QED
      BY <2>1, <2>2
  <1>3. CurrentEpoch' \in {CurrentEpoch, IF e = CurrentEpoch THEN NoEpoch ELSE CurrentEpoch}
    BY <1>1, <1>2, CurrentKept
  <1>4. ReservedKeys' = ReservedKeys \ {k}
    BY DEF Reconciles, ReservedKeys
  <1>5. CASE k \in ReservedKeys
    BY <1>1, <1>2, <1>3, <1>4, <1>5 DEF Book!BNext, Book!Settle
  <1>6. CASE k \notin ReservedKeys
    BY <1>2, <1>3, <1>4, <1>6 DEF Book!BNext, Book!Close, Book!bvars
  <1> QED
    BY <1>5, <1>6

\* Only the cycle past its orphan check debits, and it debits a key nobody
\* claimed: with one cycle at a time its epoch has no reserved key.
LEMMA DebitIsFirst ==
  ASSUME TypeOK, RunInv, OnlyOwnReservation, [Next]_vars, NEW k \in Key, Debits(k)
  PROVE  Unreconciled(k[1]) = {}
  <1>1. reservations[k].status = "none" /\ reservations'[k] # reservations[k]
    BY DEF Debits, TypeOK, ReservationRow
  <1>2. PICK r \in Run : Cycle(r) \/ CrashRun(r)
    BY <1>1 DEF Next, OpenEpochSelect, OpenEpochInsert, CrashOpener, CloseEpoch, Tick, vars
  <1>3. PastOrphanCheck(r) /\ k = KeyOf(r)
    BY <1>1, <1>2, CyclesStep DEF CycleStep
  <1>4. k[1] = run[r].epoch
    BY <1>3 DEF KeyOf
  <1> QED
    BY <1>1, <1>3, <1>4 DEF OnlyOwnReservation, Unreconciled, KeysOf

LEMMA BookStep ==
  ASSUME TypeOK, RunInv, LedgerInv, LedgerInv', OnlyOwnReservation, [Next]_vars
  PROVE  [Book!BNext]_(Book!bvars)
  <1>1. TableStep
    BY StepIsTableStep
  <1>2. OneOpenEpoch /\ OneOpenEpoch'
    BY DEF LedgerInv
  <1>3. CASE UNCHANGED <<ledger, reservations>>
    BY <1>3 DEF Book!bvars, CurrentEpoch, OpenEpochs, OpenedEpochs, ReservedKeys
  <1>4. ASSUME NEW k \in Key, Debits(k) PROVE Book!Charge(k)
    BY <1>2, <1>4, DebitIsFirst, DebitsBook
  <1> QED
    BY <1>1, <1>2, <1>3, <1>4, OpensBook, ClosesBook, ReconcilesBook DEF TableStep, Book!BNext

\* With one cycle at a time, however often it crashes or asks for a key again,
\* the store charges the current epoch only and never beside an unreconciled
\* reservation, and no epoch is current twice: it is the book that the
\* live-delta switch is shown to keep (LiveDeltaProofs).
THEOREM StoreKeepsBook == Spec /\ OneCycleAtATime => KeepsBook
  <1> SUFFICES ASSUME OneCycleAtATime PROVE Spec => KeepsBook
    OBVIOUS
  <1>1. Init => OnlyOwnReservation /\ Book!BInit
    BY DEF Init, OnlyOwnReservation, PastOrphanCheck, IdleRun, Book!BInit, CurrentEpoch, OpenEpochs,
       OpenedEpochs, ReservedKeys, NoRow, NoReservation
  <1>2. TypeOK /\ RunInv /\ OnlyOwnReservation /\ [Next]_vars => OnlyOwnReservation'
    BY OnlyOwnStep
  <1>3. TypeOK /\ RunInv /\ LedgerInv /\ LedgerInv' /\ OnlyOwnReservation /\ [Next]_vars
          => [Book!BNext]_(Book!bvars)
    BY BookStep
  <1> QED
    BY <1>1, <1>2, <1>3, LedgerCorrect, PTL DEF Spec, KeepsBook, Book!BSpec

================================================================================
