\* Two slots and two executions of the turn: safe and unsafe calls, one slot claimed twice.
SPECIFICATION FairSpec
CONSTANTS
  note = note
  message = message
  s1 = s1
  s2 = s2
  Slots = {s1, s2}
  Contents = {note, message}
  ClassOf <- NoteAndMessage
  MaxEpoch = 2
  MaxTakes <- TwiceAndOnce
CHECK_DEADLOCK FALSE
INVARIANTS AtMostOnce ReplayIsTrue OneOpener
PROPERTIES LiveClaimIsHeld NoRowHangs
