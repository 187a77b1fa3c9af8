\* Two turns and one worker process that may stop or crash at any moment.
SPECIFICATION FairSpec
CONSTANTS
  Turns = {1, 2}
  Sessions = {s1}
  SessionOf <- OneSession
  Workers = {w1}
  NoWorker = NoWorker
  MaxAttempts = 2
  Capacity = 1
CHECK_DEADLOCK FALSE
INVARIANT SessionOrder
PROPERTIES OutcomeIsFinal ImplementsFairQueue
