SPECIFICATION FairSpec
CONSTANTS
  QueueSize = 3
  PtrSize = 2
  NULL = NULL
  Garbage = Garbage
  any = any
  test = test
  Packets = {t1, u1, b1}
  Ids = {1, 2}
  FreeIds <- Lowest
  TcpPackets = {t1}
  BarePackets = {b1}
  Workers = {w1}
  Patching = patching
  Nobody = Nobody
  ModuleList <- MCModules
  Reply <- MCReply
  Exiting <- MCExiting
  Backlog = 2
  Recorded = {}
INVARIANT
  TypeOK
  BacklogBound
  AskedInOrder
  CrashOnlyOnBare
PROPERTY
  ImplementsHandoff
  QueueDrains
