CONSTANTS
  a = a
  b = b
  c = c
  NULL = NULL
  Garbage = Garbage
  QueueSize = 4
  PtrSize = 2
  Elements <- MCElements

SPECIFICATION Spec

INVARIANT RingOK
INVARIANT OnlyStoredElements
PROPERTY RingIsFifo
