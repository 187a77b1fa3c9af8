--------------------------- MODULE MCBudgetLedger ---------------------------
(* Small instances of BudgetLedger for TLC.                                *)
EXTENDS BudgetLedger, TLC

CONSTANTS company, agent, c1, c2, c3

\* Calls of one agent; a third call, of an agent that has no policy of its own.
OneAgent == [c \in Calls |-> <<company, agent>>]
TwoAgents == [c \in Calls |-> IF c = c3 THEN <<company, NoPolicy>> ELSE <<company, agent>>]
CompanyOnly == [c \in Calls |-> <<company, NoPolicy>>]

\* The agent's cap is reached before the company's.
TightAgent == [p \in Policies |-> IF p = company THEN 2 ELSE 1]
LimitOne == [p \in Policies |-> 1]
LimitTwo == [p \in Policies |-> 2]

HoldOne == [c \in Calls |-> 1]

\* The two calls of the one agent.
CallSymmetry == Permutations({c1, c2})
=============================================================================
