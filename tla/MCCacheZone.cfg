SPECIFICATION Spec
CONSTANTS
  Keys = {k1, k2, k3}
  Data = {d1, d2}
  Limits = {0, 1, 2, 3}
  AgeBound = 5
SYMMETRY Symmetry
INVARIANTS
  TypeOK
  IteratorsValid
  SizeBounded
PROPERTIES
  EvictsOnlyToFit
  FreshStoreSurvives
