---------------------------- MODULE TurnoverAccount ----------------------------
(***************************************************************************)
(* What the unattended budget promises, without processes, SELECTs or       *)
(* retries: one account at a time may be open; a key is granted an amount   *)
(* at most once, only from the open account and only while the account has  *)
(* both a cycle and the whole amount left; a granted key is settled later,  *)
(* which can only make it dearer; an account that has nothing left, or was  *)
(* closed, grants nothing any more.                                         *)
(***************************************************************************)
EXTENDS Integers, FiniteSets

CONSTANTS Account, Grant, AccountOf(_)

VARIABLES
  phase,     \* phase[a]: "none", "open" or "over"
  cap,       \* cap[a]: the grants and the turnover account a may give
  spent,     \* spent[a]: the turnover given so far
  granted,   \* keys that were granted
  settled    \* granted keys whose real cost is known

avars == <<phase, cap, spent, granted, settled>>

NoCap == [cycles |-> 0, turnover |-> 0]

AInit ==
  /\ phase = [a \in Account |-> "none"]
  /\ cap = [a \in Account |-> NoCap]
  /\ spent = [a \in Account |-> 0]
  /\ granted = {}
  /\ settled = {}

GrantsOf(a) == {g \in granted : AccountOf(g) = a}

Drained(a, cycles, turnover) == cycles >= cap[a].cycles \/ turnover >= cap[a].turnover

Open(a) ==
  /\ phase[a] = "none" /\ \A b \in Account : phase[b] # "open"
  /\ phase' = [phase EXCEPT ![a] = "open"]
  /\ cap'[a].cycles > 0 /\ cap'[a].turnover > 0
  /\ cap' = [cap EXCEPT ![a] = cap'[a]]
  /\ UNCHANGED <<spent, granted, settled>>

GiveGrant(g) ==
  LET a == AccountOf(g)
      cycles == Cardinality(GrantsOf(a)) + 1
  IN
  /\ g \notin granted /\ phase[a] = "open"
  /\ cycles <= cap[a].cycles
  /\ spent'[a] >= spent[a] /\ spent'[a] <= cap[a].turnover
  /\ spent' = [spent EXCEPT ![a] = spent'[a]]
  /\ phase' = [phase EXCEPT ![a] = IF Drained(a, cycles, spent'[a]) THEN "over" ELSE "open"]
  /\ granted' = granted \cup {g}
  /\ UNCHANGED <<cap, settled>>

Settle(g) ==
  LET a == AccountOf(g) IN
  /\ g \in granted
  /\ spent'[a] >= spent[a]
  /\ spent' = [spent EXCEPT ![a] = spent'[a]]
  /\ phase' = [phase EXCEPT ![a] =
        IF @ = "open" /\ Drained(a, Cardinality(GrantsOf(a)), spent'[a]) THEN "over" ELSE @]
  /\ settled' = settled \cup {g}
  /\ UNCHANGED <<cap, granted>>

Close(a) ==
  /\ phase[a] # "none"
  /\ phase' = [phase EXCEPT ![a] = "over"]
  /\ UNCHANGED <<cap, spent, granted, settled>>

ANext ==
  \/ \E a \in Account : Open(a) \/ Close(a)
  \/ \E g \in Grant : GiveGrant(g) \/ Settle(g)

ASpec == AInit /\ [][ANext]_avars
================================================================================
