\* A cancel request whose two statements straddle a hand-back.
SPECIFICATION Spec
CONSTANTS
  Turns = {1}
  Sessions = {s1}
  SessionOf <- OneSession
  Workers = {w1, w2}
  NoWorker = NoWorker
  MaxAttempts = 2
  Capacity = 1
CHECK_DEADLOCK FALSE
PROPERTY CancelIsDurable
