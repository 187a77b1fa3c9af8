\* One attempt and two workers, of which either may lose its lease and go on all the same.
SPECIFICATION FairSpec
CONSTANTS
  k1 = k1
  k2 = k2
  w1 = w1
  w2 = w2
  NoWorker = NoWorker
  MaxNumber = 1
  MaxStarts = 1
  Keys = {k1}
  Workers = {w1, w2}
  MaxRecoveries = 1
  Writes = TRUE
  Zombies = TRUE
CHECK_DEADLOCK FALSE
INVARIANTS FenceIsExact CommitIsRecorded CommittedWasVerified
PROPERTIES AttemptIsFinal RenewedIsKept EveryAttemptSettles
