\* Holds outlive their TTL, calls may die or fail anywhere, and calls and the sweep reap.
SPECIFICATION FairSpec
CONSTANTS
  company = company
  agent = agent
  c1 = c1
  c2 = c2
  c3 = c3
  NoPolicy = none
  Sweeper = sweeper
  Calls = {c1, c2}
  Policies = {company, agent}
  Chain <- OneAgent
  Limit <- TightAgent
  Estimate <- HoldOne
  Costs = {0, 2}
  FailOpen = TRUE
  MayLapse = {c1, c2}
  MaxPeriod = 1
CHECK_DEADLOCK FALSE
INVARIANTS TypeOK HoldsAreBacked SpentIsCommitted RefusedHoldsNothing
PROPERTIES ClosedIsFinal EveryHoldCloses
