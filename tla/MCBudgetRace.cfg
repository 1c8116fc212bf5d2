\* Two core-loop processes and two controllers race over the store; every cycle
\* has a plan of its own, as in the core loop.
SPECIFICATION Spec
CONSTANTS
  Epoch = {e1, e2}
  NoEpoch = NoEpoch
  Opener = {c1, c2}
  Run = {r1, r2}
  Plan = {p1, p2}
  NoPlan = NoPlan
  CycleBound = {1, 2}
  TurnoverBound = {2}
  Turnover = {1, 2}
  MaxAge = 1
  MaxClock = 0
  PlanReuse = FALSE
SYMMETRY Symmetry
INVARIANTS
  TypeOK
  OneOpenEpoch
  SubmittedWasDebited
  OpenEpochHasBudget
  NeverUndercounted
PROPERTIES
  TerminalEpochsStayTerminal
  FrozenEpochStaysFrozen
  KeepsAccount
