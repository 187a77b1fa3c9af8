\* A git commit outlives the run a stopping worker hands back, and lands in the next run.
SPECIFICATION Spec
CONSTANTS
  k1 = k1
  k2 = k2
  w1 = w1
  w2 = w2
  NoWorker = NoWorker
  MaxNumber = 1
  MaxStarts = 1
  Keys = {k1}
  Workers = {w1, w2}
  MaxRecoveries = 1
  Writes = TRUE
  Zombies = FALSE
SYMMETRY WorkerSymmetry
CHECK_DEADLOCK FALSE
INVARIANT CommitExactlyOnce
