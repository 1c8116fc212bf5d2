------------------------------ MODULE BudgetProps ------------------------------
(* The properties of the budget store, stated apart from the proofs. *)
EXTENDS BudgetStore, FiniteSetsExt

KeysOf(e) == {k \in Key : k[1] = e}
Claimed(e) == {k \in KeysOf(e) : reservations[k].status # "none"}

\* What a reservation must at least have cost the ledger.
Charge(row) ==
  IF row.realized_turnover > row.reserved_turnover
    THEN row.realized_turnover ELSE row.reserved_turnover

\* The partial unique index keeps a single current epoch, whichever controllers
\* race through open_epoch (unattended_budget_store.py, open_epoch).
OneOpenEpoch == \A d, e \in OpenEpochs : d = e

\* The two tables agree: an epoch has consumed exactly one cycle per claimed
\* key, a retry that found its key claimed having rolled its debit back, and
\* never more cycles than it was opened with.
CyclesMatchReservations ==
  \A e \in Epoch :
    /\ ledger[e].consumed_cycles = Cardinality(Claimed(e))
    /\ ledger[e].consumed_cycles <= ledger[e].max_live_cycles

\* The budget is never under-counted: the ledger holds at least the larger of
\* the reserved and the realized turnover of every key claimed in the epoch.
NeverUndercounted ==
  \A e \in Epoch :
    ledger[e].consumed_turnover
      >= MapThenSumSet(LAMBDA k : Charge(reservations[k]), Claimed(e))

\* Reserve-before-submit: orders that reached the exchange, measured or not and
\* whatever crashed since, were debited first.
SubmittedWasDebited ==
  \A k \in submitted : reservations[k].status # "none"

\* An open epoch has budget left: one that has none was closed or exhausted in
\* the transaction that spent it, so no reader sees it as the current epoch.
OpenEpochHasBudget ==
  \A e \in OpenEpochs :
    /\ ledger[e].consumed_cycles < ledger[e].max_live_cycles
    /\ ledger[e].consumed_turnover < ledger[e].max_gross_turnover

\* A terminal epoch is never current again and a closed one stays closed, even
\* under a cycle that read it while it was open.
TerminalEpochsStayTerminal ==
  [][\A e \in Epoch :
       /\ ledger[e].status = "exhausted" => ledger'[e].status \in {"exhausted", "closed"}
       /\ ledger[e].status = "closed" => ledger'[e].status = "closed"]_vars

\* A reservation whose cycle died, or could not measure what it traded.
Orphan(k) ==
  /\ reservations[k].status = "reserved"
  /\ \A r \in Run : run[r].pc \in {"submit", "executed", "reconcile"} => KeyOf(r) # k

PastOrphanCheck(r) ==
  run[r].pc \in {"reserve_select", "reserve_debit", "submit", "executed", "reconcile"}

\* Once an epoch holds an orphan and no cycle of it is past its orphan check,
\* none ever gets past it again: the epoch is frozen until it is replaced.
Frozen(e) ==
  /\ \E k \in KeysOf(e) : Orphan(k)
  /\ \A r \in Run : PastOrphanCheck(r) => run[r].epoch # e
FrozenEpochStaysFrozen == [][\A e \in Epoch : Frozen(e) => Frozen(e)']_vars

\* With one cycle at a time, a cycle that may submit has no unreconciled
\* predecessor in its own epoch.
NoOrphanInOwnEpoch ==
  \A r \in Run :
    run[r].pc \in {"submit", "executed"} =>
      \A k \in KeysOf(run[r].epoch) : reservations[k].status = "reserved" => k = KeyOf(r)

\* What the abstract account sees of the two tables: exhausted and closed are
\* both "over", and the number of cycles spent is the number of granted keys.
PhaseOf == [e \in Epoch |->
  IF ledger[e].status \in {"none", "open"} THEN ledger[e].status ELSE "over"]
CapOf == [e \in Epoch |-> [cycles |-> ledger[e].max_live_cycles,
                          turnover |-> ledger[e].max_gross_turnover]]
SpentOf == [e \in Epoch |-> ledger[e].consumed_turnover]
GrantedKeys == {k \in Key : reservations[k].status # "none"}
SettledKeys == {k \in Key : reservations[k].status = "reconciled"}
EpochOf(k) == k[1]

Abstract == INSTANCE TurnoverAccount WITH
  Account <- Epoch, Grant <- Key, AccountOf <- EpochOf,
  phase <- PhaseOf, cap <- CapOf, spent <- SpentOf,
  granted <- GrantedKeys, settled <- SettledKeys

\* The store keeps the promise of TurnoverAccount, transaction by transaction.
KeepsAccount == Abstract!ASpec

\* What those who only turn the switch see of the tables: the open epoch, the
\* epochs opened so far and the keys reserved and not reconciled.
CurrentEpoch == IF OpenEpochs = {} THEN NoEpoch ELSE CHOOSE e \in OpenEpochs : TRUE
OpenedEpochs == {e \in Epoch : ledger[e].status # "none"}
ReservedKeys == {k \in Key : reservations[k].status = "reserved"}

Book == INSTANCE EpochBook WITH Claim <- Key,
  current <- CurrentEpoch, used <- OpenedEpochs, unsettled <- ReservedKeys

\* With one cycle at a time the store is the book the live-delta switch relies
\* on: a reservation is charged to the current epoch only, and never beside an
\* unreconciled one (unattended_budget_hook.py, pre_submit_budget_blockers).
KeepsBook == Book!BSpec
================================================================================
