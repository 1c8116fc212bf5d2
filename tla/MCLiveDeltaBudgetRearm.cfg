\* A later, softer disarm hides the one for the budget.
SPECIFICATION Spec
CONSTANTS
  Epoch = {e1}
  NoEpoch = NoEpoch
  Plan = {p1}
  OperatorActions = {}
  Services = {"health_monitor", "daily_policy"}
  Alerts = {"soft", "hard"}
  AutoRearm = TRUE
  RecentRuns = 1
  Ttl = 4
  MaxClock = 4
  MaxCrashes = 0
PROPERTIES
  BudgetStopIsTerminal
