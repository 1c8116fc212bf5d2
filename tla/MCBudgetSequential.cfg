\* One core-loop process, as the timers are meant to start them, that may crash
\* at any point of its cycles and may ask for a key it claimed before.
SPECIFICATION Spec
CONSTANTS
  Epoch = {e1, e2}
  NoEpoch = NoEpoch
  Opener = {c1}
  Run = {r1}
  Plan = {p1, p2}
  NoPlan = NoPlan
  CycleBound = {2}
  TurnoverBound = {2}
  Turnover = {1, 2}
  MaxAge = 1
  MaxClock = 2
  PlanReuse = TRUE
SYMMETRY Symmetry
INVARIANTS
  NoOrphanInOwnEpoch
  CyclesMatchReservations
PROPERTIES
  KeepsBook
