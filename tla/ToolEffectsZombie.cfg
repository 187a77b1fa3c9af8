\* A worker that lost its turn, before the turn is claimed again.
SPECIFICATION Spec
CONSTANTS
  note = note
  message = message
  s1 = s1
  s2 = s2
  Slots = {s1}
  Contents = {message}
  ClassOf <- OnlyMessage
  MaxEpoch = 1
  MaxTakes <- OneEach
CHECK_DEADLOCK FALSE
PROPERTY ZombieOpensNothing
