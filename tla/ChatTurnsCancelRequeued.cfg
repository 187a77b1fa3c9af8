\* A shutdown hands back a turn whose cancel was accepted.
SPECIFICATION Spec
CONSTANTS
  Turns = {1}
  Sessions = {s1}
  SessionOf <- OneSession
  Workers = {w1}
  NoWorker = NoWorker
  MaxAttempts = 2
  Capacity = 1
CHECK_DEADLOCK FALSE
INVARIANT CancelledNotRequeued
