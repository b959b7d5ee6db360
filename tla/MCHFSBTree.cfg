SPECIFICATION Spec
CONSTANTS
  Trees <- MCTrees
  Searches <- MCSearches
INVARIANTS
  OnTheWay
  InOrder
PROPERTY
  SearchContract
