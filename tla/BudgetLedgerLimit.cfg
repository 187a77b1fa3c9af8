\* Three calls race for the budget of the company and of one agent, over two windows.
SPECIFICATION Spec
CONSTANTS
  company = company
  agent = agent
  c1 = c1
  c2 = c2
  c3 = c3
  NoPolicy = none
  Sweeper = sweeper
  Calls = {c1, c2, c3}
  Policies = {company, agent}
  Chain <- TwoAgents
  Limit <- TightAgent
  Estimate <- HoldOne
  Costs = {0, 1, 2}
  FailOpen = FALSE
  MayLapse = {c3}
  MaxPeriod = 2
CHECK_DEADLOCK FALSE
SYMMETRY CallSymmetry
INVARIANTS LimitIsKept HeldInEveryScope
