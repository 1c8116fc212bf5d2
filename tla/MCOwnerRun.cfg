\* One process at a time; deaths anywhere; a retry may compile another draft.
SPECIFICATION Spec
CONSTANTS
  Owner = {o1}
  Request = {a, b}
  Take = {t1, t2}
  NoRequest = NoRequest
  NoDraft = NoDraft
  Reviewed = TRUE
  MaxAttempts = 3
  MaxDeaths = 2
  MaxContext = 3
SYMMETRY Symmetry
INVARIANTS
  FinalizedIsBacked
  DraftFitsUnlessOneDied
PROPERTIES
  RecordedIsNotRewritten
  ConclusionStands
  KeepsLedger
CHECK_DEADLOCK FALSE
