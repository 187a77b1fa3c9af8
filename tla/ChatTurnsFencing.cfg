\* One turn, three workers that lose it, get it back and store late results.
SPECIFICATION Spec
CONSTANTS
  Turns = {1}
  Sessions = {s1}
  SessionOf <- OneSession
  Workers = {w1, w2, w3}
  NoWorker = NoWorker
  MaxAttempts = 2
  Capacity = 2
SYMMETRY WorkerSymmetry
CHECK_DEADLOCK FALSE
INVARIANTS FenceIsExact ReplyOnce SweepIsCurrent
PROPERTIES LateResultDiscarded ImplementsExecutions
