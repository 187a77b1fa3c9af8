--------------------------- MODULE AttemptHistory ---------------------------
(***************************************************************************)
(* What task attempts promise to whoever reads a task                      *)
(* (src/src/nexus/models/task_attempt.py, its docstring): attempts are     *)
(* tried one at a time, each one is closed exactly once, a closed attempt  *)
(* is never rewritten, and the task is done exactly when an attempt        *)
(* completed it.  Nothing about workers, leases, sweeps or crashes.        *)
(***************************************************************************)
EXTENDS Naturals, Sequences

VARIABLES
  closed,  \* the outcomes of the closed attempts, by attempt number
  open,    \* whether the next attempt is being tried
  done     \* whether the task is completed

vars == <<closed, open, done>>

Outcomes == {"completed", "failed", "blocked", "cancelled", "expired"}

Init ==
  /\ closed = <<>>
  /\ open = FALSE
  /\ done = FALSE

Open ==
  /\ ~open
  /\ open' = TRUE
  /\ UNCHANGED <<closed, done>>

Close(outcome) ==
  /\ open
  /\ open' = FALSE
  /\ closed' = Append(closed, outcome)
  /\ done' = (done \/ outcome = "completed")

Next == Open \/ \E outcome \in Outcomes : Close(outcome)

Spec == Init /\ [][Next]_vars
=============================================================================
