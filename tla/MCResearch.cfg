\* One batch that may be retried, over many passes; two batches over two objects.
SPECIFICATION Spec
CONSTANTS
  Signal <- MCSignal
  Facts <- MCFacts
  Object = {"x", "y"}
  Profile <- MCProfile
  Batch = {"first", "second"}
  Plans <- MCPlans
  FileName <- MCFileName
  MaxAttempts = 2
  MaxDeaths = 1
INVARIANTS
  TypeOK
  SavedIsSound
PROPERTIES
  NothingUndone
  FailsOnlyOnTheStore
