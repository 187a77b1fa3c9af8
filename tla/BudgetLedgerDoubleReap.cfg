\* Two reapers give the same expired hold back twice, and the limit with it.
SPECIFICATION Spec
CONSTANTS
  company = company
  agent = agent
  c1 = c1
  c2 = c2
  c3 = c3
  NoPolicy = none
  Sweeper = sweeper
  Calls = {c1, c2, c3}
  Policies = {company}
  Chain <- CompanyOnly
  Limit <- LimitOne
  Estimate <- HoldOne
  Costs = {0, 1}
  FailOpen = FALSE
  MayLapse = {c1}
  MaxPeriod = 1
CHECK_DEADLOCK FALSE
INVARIANT WithinLimit
