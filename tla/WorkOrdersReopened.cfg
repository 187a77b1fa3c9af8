\* A rejection's retry reopens an order that another child has failed for good.
SPECIFICATION Spec
CONSTANTS
  c1 = c1
  c2 = c2
  NoOne = NoOne
  Manager = Manager
  Children = {c1, c2}
  MaxAttempts = 2
SYMMETRY ChildSymmetry
CHECK_DEADLOCK FALSE
INVARIANT OutOfAttemptsFailsOrder
