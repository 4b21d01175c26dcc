SPECIFICATION Spec
CONSTANTS
  QueueSize = 3
  PtrSize = 2
  NULL = NULL
  Garbage = Garbage
  any = any
  test = test
  Packets = {t1, t2, u1}
  Ids = {1, 2}
  FreeIds <- Lowest
  TcpPackets = {t1, t2}
  BarePackets = {}
  Workers = {w1}
  Patching = patching
  Nobody = Nobody
  ModuleList <- MCModules
  Reply <- MCReply
  Exiting <- MCExiting
  Backlog = 2
  Recorded = {}
INVARIANT
  StopsWhenDenied
