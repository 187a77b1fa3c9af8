\* Two attempts, a worker that stops, fails or crashes: how the task and its attempts end.
SPECIFICATION Spec
CONSTANTS
  k1 = k1
  k2 = k2
  w1 = w1
  w2 = w2
  NoWorker = NoWorker
  MaxNumber = 2
  MaxStarts = 1
  Keys = {k1, k2}
  Workers = {w1}
  MaxRecoveries = 1
  Writes = FALSE
  Zombies = FALSE
CHECK_DEADLOCK FALSE
INVARIANTS TaskFollowsAttempts
PROPERTIES ImplementsHistory
