------------------------------- MODULE EpochBook -------------------------------
(***************************************************************************)
(* The budget as those see it who only turn the live-delta switch: no       *)
(* turnover and no cycle count, but a current epoch, which is never one that *)
(* was current before, and the claims that were charged and are not settled. *)
(* An epoch may be used up by a charge and by its settlement; while it has   *)
(* an unsettled claim nothing more is charged to it.  The store keeps this   *)
(* book (BudgetProps) and the switch is written against it (LiveDelta).      *)
(***************************************************************************)
CONSTANTS Epoch, NoEpoch, Claim, EpochOf(_)

VARIABLES
  current,    \* the epoch that may be charged, or NoEpoch
  used,       \* the epochs that have been current
  unsettled   \* claims charged and not settled

bvars == <<current, used, unsettled>>

BInit ==
  /\ current = NoEpoch
  /\ used = {}
  /\ unsettled = {}

Open(e) ==
  /\ current = NoEpoch /\ e \notin used
  /\ current' = e
  /\ used' = used \cup {e}
  /\ UNCHANGED unsettled

Close ==
  /\ current' = NoEpoch
  /\ UNCHANGED <<used, unsettled>>

Charge(c) ==
  /\ EpochOf(c) = current
  /\ \A d \in unsettled : EpochOf(d) # current
  /\ unsettled' = unsettled \cup {c}
  /\ current' \in {current, NoEpoch}
  /\ UNCHANGED used

Settle(c) ==
  /\ c \in unsettled
  /\ unsettled' = unsettled \ {c}
  /\ current' \in {current, IF EpochOf(c) = current THEN NoEpoch ELSE current}
  /\ UNCHANGED used

BNext ==
  \/ Close
  \/ \E e \in Epoch : Open(e)
  \/ \E c \in Claim : Charge(c) \/ Settle(c)

BSpec == BInit /\ [][BNext]_bvars
================================================================================
