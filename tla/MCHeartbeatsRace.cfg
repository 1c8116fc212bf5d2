\* A supervisor, an operator's delta runner and an epoch controller; a policy and
\* a controller that may live long; one death.
SPECIFICATION FairSpec
CONSTANTS
  Runners = {"supervisor", "operator", "controller"}
  First <- MCFirst
  Controllers = {"controller"}
  Orchestrators = {"daily_policy"}
  Outlasting = {"daily_policy", "controller"}
  MaxCrashes = 1
INVARIANTS
  OneSubmits
  PlanNotOvertaken
PROPERTIES
  ResidueIsRecovered
CHECK_DEADLOCK FALSE
