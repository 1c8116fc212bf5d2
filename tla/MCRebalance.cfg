\* Two symbols whose targets have both signs.  Partial fills of an order of four
\* leave rows of one lot (dust, or a plan that blocks) and of two (deadband).
SPECIFICATION Spec
CONSTANTS
  Symbol = {s1, s2}
  Position = {3}
  Target <- MCTarget
  MinQty = 2
  DeadbandQty = 2
SYMMETRY Symmetry
INVARIANTS
  OrdersAreExplained
PROPERTIES
  CleanRunIsDone
  MovesTowardsTarget
  OnlyFlipsMissing
  KeepsSlot
