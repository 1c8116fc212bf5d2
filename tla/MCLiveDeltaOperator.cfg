\* The operator against a cycle in flight, while the policy arms by itself.
SPECIFICATION Spec
CONSTANTS
  Epoch = {e1}
  NoEpoch = NoEpoch
  Plan = {p1}
  OperatorActions = {"pause", "resume", "kill-switch", "arm-live-delta", "disarm-live-delta"}
  Services = {"daily_policy"}
  Alerts = {}
  AutoRearm = TRUE
  RecentRuns = 1
  Ttl = 2
  MaxClock = 2
  MaxCrashes = 0
INVARIANTS
  StopHonoured
