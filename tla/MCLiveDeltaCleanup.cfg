\* Processes die in the middle; the timers of the others fire for ever.
SPECIFICATION FairSpec
CONSTANTS
  Epoch = {e1}
  NoEpoch = NoEpoch
  Plan = {p1}
  OperatorActions = {}
  Services = {"health_monitor", "daily_policy"}
  Alerts = {}
  AutoRearm = FALSE
  RecentRuns = 1
  Ttl = 0
  MaxClock = 1
  MaxCrashes = 1
PROPERTIES
  UnbackedIsDisarmed
  EpochIsClosed
