SPECIFICATION Spec
CONSTANTS
  NumObjects = 4
  CountLimit = 16
  Leftover <- MCLeftover
  NULL = NULL
INVARIANTS
  TypeOK
  ListsSound
PROPERTIES
  ImplementsPool
  ExcessShrinks
