SPECIFICATION Spec
CONSTANTS
  x = x
  y = y
  enable = enable
  Data = {x, y}
  Positions <- MCPositions
  Addresses = {a1, a2, a3, a4}
  NULL = NULL
  Words <- MCWords
  Files <- MCFiles
  NoFile = NoFile
INVARIANTS
  WellLinked
  LoadedInOrder
PROPERTY
  ImplementsCursorList
