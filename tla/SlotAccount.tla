------------------------------ MODULE SlotAccount ------------------------------
(***************************************************************************)
(* What a rebalance slot promises about the account, without plans, orders   *)
(* or runs: its target is fixed once; the account only ever moves towards it *)
(* and nothing grows while something has to shrink; the slot is completed    *)
(* when nothing is left to do, but for positions that are being turned and   *)
(* are flat; and a completed slot trades no more, unless its owner allowed   *)
(* it, for once and only to shrink, or without limits.  After a trade from   *)
(* outside nothing is promised until somebody has looked at the account.     *)
(***************************************************************************)
EXTENDS Integers

CONSTANTS
  Symbol,
  Turns(_, _),       \* the position is on the other side of its target
  MustShrink(_, _),  \* the position is to be reduced before anything grows
  Done(_, _)         \* there is nothing to do from the position to the target

VARIABLES
  position,
  phase,      \* of the slot: "none", "open" or "completed"
  target,     \* the slot's, or that of the slot before if it has none yet
  grants,     \* what the owner allowed in the completed slot
  consumed,   \* the grant that holds once was used
  turning,    \* symbols being turned, which have to be flat in between
  disturbed   \* traded from outside since the account was last looked at

slotVars == <<phase, target, grants, consumed>>
svars == <<position, slotVars, turning, disturbed>>

SInit ==
  /\ position = [s \in Symbol |-> 0]
  /\ phase = "none" /\ target = [s \in Symbol |-> 0]
  /\ grants = {} /\ consumed = FALSE
  /\ turning = {}
  /\ disturbed = FALSE

Size(n) == IF n < 0 THEN -n ELSE n
Towards(old, new, t) == (old <= new /\ new <= t) \/ (t <= new /\ new <= old)

Allowed(shrinking) ==
  \/ phase # "completed"
  \/ "reexecution" \in grants
  \/ shrinking /\ "risk_only" \in grants /\ ~consumed

Trade(s) ==
  LET grows == Size(position'[s]) > Size(position[s]) IN
  /\ ~disturbed
  /\ position' = [position EXCEPT ![s] = position'[s]]
  /\ Towards(position[s], position'[s], target[s])
  /\ grows => \A r \in Symbol : ~MustShrink(position[r], target[r])
  /\ Allowed(~grows)
  /\ UNCHANGED <<slotVars, turning, disturbed>>

Outside ==
  /\ disturbed' = TRUE
  /\ UNCHANGED <<slotVars, turning>>

LookAt ==
  /\ disturbed' = FALSE
  /\ UNCHANGED <<position, slotVars, turning>>

Freeze ==
  /\ phase = "none"
  /\ target' = [s \in Symbol |-> target'[s]]
  /\ \/ phase' = "open"
     \/ phase' = "completed" /\ \A s \in Symbol : Done(position[s], target'[s])
  /\ turning' \subseteq {s \in Symbol : Turns(position[s], target'[s])}
  /\ UNCHANGED <<position, grants, consumed, disturbed>>

Turn ==
  /\ phase # "none"
  /\ turning' \subseteq {s \in Symbol : Turns(position[s], target[s])}
  /\ UNCHANGED <<position, slotVars, disturbed>>

Complete ==
  /\ phase = "open" /\ phase' = "completed"
  /\ ~disturbed => \A s \in Symbol :
       Done(position[s], target[s]) \/ (s \in turning /\ position[s] = 0)
  /\ turning' \in {turning, {}}
  /\ UNCHANGED <<position, target, grants, consumed, disturbed>>

GiveUp ==
  /\ turning' = {}
  /\ UNCHANGED <<position, slotVars, disturbed>>

Authorize(grant) ==
  /\ phase = "completed"
  /\ grants' = grants \cup {grant}
  /\ UNCHANGED <<position, phase, target, consumed, turning, disturbed>>

Consume ==
  /\ phase = "completed" /\ "risk_only" \in grants
  /\ consumed' = TRUE
  /\ turning' = {}
  /\ UNCHANGED <<position, phase, target, grants, disturbed>>

NewSlot ==
  /\ phase # "none" /\ phase' = "none"
  /\ grants' = {} /\ consumed' = FALSE
  /\ UNCHANGED <<position, target, turning, disturbed>>

SNext ==
  \/ \E s \in Symbol : Trade(s)
  \/ Outside \/ LookAt
  \/ Freeze
  \/ Turn \/ Complete \/ GiveUp
  \/ \E grant \in {"reexecution", "risk_only"} : Authorize(grant)
  \/ Consume \/ NewSlot

SSpec == SInit /\ [][SNext]_svars
================================================================================
