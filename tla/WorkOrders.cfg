\* Two children of one order, each with two attempts, and every request at any moment.
SPECIFICATION Spec
CONSTANTS
  c1 = c1
  c2 = c2
  NoOne = NoOne
  Manager = Manager
  Children = {c1, c2}
  MaxAttempts = 2
SYMMETRY ChildSymmetry
CHECK_DEADLOCK FALSE
INVARIANTS CompletedMeansAll NoMissedCompletion InReviewIsWaiting
PROPERTIES ImplementsPlan OrderIsFinal
