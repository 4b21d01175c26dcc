SPECIFICATION Spec
CONSTANTS
  QueueSize = 3
  PtrSize = 2
  NULL = NULL
  Garbage = Garbage
  any = any
  w1 = w1
  w2 = w2
  Packets = {t1, u1}
  Ids = {1, 2}
  FreeIds <- Lowest
  TcpPackets = {t1}
  BarePackets = {}
  Workers <- MCWorkers
  Patching = patching
  Nobody = Nobody
  ModuleList <- OneModule
  Reply <- MCReply
  Exiting = {}
  Backlog = 2
  Recorded = {1, 2}
INVARIANT
  LockHeld
  DequeueDefined
  OnePlace
  LostOnlyByReuse
PROPERTY
  ImplementsHandoff
SYMMETRY WorkerSymmetry
