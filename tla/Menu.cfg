SPECIFICATION Spec
CONSTANTS
  Order <- MCOrder
  Files <- MCFiles
  Orders <- MCOrders
INVARIANTS
  TreeIntact
  DependenciesInherited
  SelectsCollected
  NothingHidden
  RecursionFound
CHECK_DEADLOCK FALSE
