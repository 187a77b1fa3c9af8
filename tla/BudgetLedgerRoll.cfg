\* A roll decided on an old read erases spend of the new window, and calls pass its limit.
SPECIFICATION Spec
CONSTANTS
  company = company
  agent = agent
  c1 = c1
  c2 = c2
  c3 = c3
  NoPolicy = none
  Sweeper = sweeper
  Calls = {c1, c2, c3}
  Policies = {company}
  Chain <- CompanyOnly
  Limit <- LimitTwo
  Estimate <- HoldOne
  Costs = {1}
  FailOpen = FALSE
  MayLapse = {}
  MaxPeriod = 2
CHECK_DEADLOCK FALSE
INVARIANT WithinLimit
