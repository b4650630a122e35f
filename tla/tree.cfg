SPECIFICATION Spec
CONSTANTS
  Keys <- KeysDef
INVARIANTS
  Balanced
  NeighborsExact
PROPERTIES
  ImplementsKeySet
