\* The monitor arms by itself, the operator disarms; a cycle that raises after its
\* reserve leaves an orphan.
SPECIFICATION Spec
CONSTANTS
  Epoch = {e1}
  NoEpoch = NoEpoch
  Plan = {p1, p2}
  OperatorActions = {"disarm-live-delta"}
  Services = {"health_monitor", "daily_policy"}
  Alerts = {}
  AutoRearm = TRUE
  RecentRuns = 1
  Ttl = 2
  MaxClock = 2
  MaxCrashes = 0
INVARIANTS
  StopHonoured
PROPERTIES
  KeepsBook
SYMMETRY Symmetry
