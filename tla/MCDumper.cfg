SPECIFICATION FairSpec
CONSTANTS
  p1 = p1
  p2 = p2
  p3 = p3
  Packets <- MCPackets
  None = None
  Ids = {1}
  FreeIds <- AnyFree
INVARIANTS
  TypeOK
  CopiesAccounted
PROPERTIES
  PrintsInOrder
  QueuedGetsPrinted
  ErrorEndsIt
  ShutdownEnds
