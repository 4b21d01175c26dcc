SPECIFICATION Spec
CONSTANTS
  w1 = w1
  w2 = w2
  Workers <- MCWorkers
  Patching = patching
  Nobody = Nobody
  Backlog = 1
  MaxMessages = 2
INVARIANTS
  OpenedOnce
  ReturnedIsWritten
  LogInOrder
SYMMETRY WorkerSymmetry
