----------------------------- MODULE OrderPlan ------------------------------
(***************************************************************************)
(* What a work order promises its manager (src/src/nexus/services/         *)
(* work_service.py, its docstring), without attempts, reviews, locks or    *)
(* requests that come late.  Children are added while the plan is open.    *)
(* The order completes in the very step in which its final plan is done,   *)
(* be that the completion of the last child or the end of the plan.  A     *)
(* child out of attempts fails the order and is never completed; a closed  *)
(* order or child stays closed.                                            *)
(***************************************************************************)
CONSTANT Children

VARIABLES
  order,  \* the order's status
  final,  \* the plan is final
  work    \* child -> "none" (not added), "open", "dead" (out of attempts) or how it closed

vars == <<order, final, work>>

InWork == {"delegated", "in_progress"}
Closed == {"completed", "cancelled"}

Init ==
  /\ order = "pending"
  /\ final = FALSE
  /\ work = [c \in Children |-> "none"]

Added == {c \in Children : work[c] # "none"}
Done(C) == \A c \in C : work[c] = "completed"

\* The order completes if it is in work and done says so.
Completes(done) == order' = IF order \in InWork /\ done THEN "completed" ELSE order

Delegate ==
  /\ order = "pending"
  /\ order' = "delegated"
  /\ UNCHANGED <<final, work>>

Add(c) ==
  /\ order \in InWork /\ ~final
  /\ work[c] = "none"
  /\ work' = [work EXCEPT ![c] = "open"]
  /\ order' = "in_progress"
  /\ UNCHANGED final

Finalize ==
  /\ order \in InWork /\ ~final
  /\ Added # {}
  /\ final' = TRUE
  /\ Completes(Done(Added))
  /\ UNCHANGED work

Complete(c) ==
  /\ work[c] = "open"
  /\ work' = [work EXCEPT ![c] = "completed"]
  /\ Completes(final /\ Done(Added \ {c}))
  /\ UNCHANGED final

\* The last attempt at a child brought nothing, though it may have been cancelled before.
Fail(c) ==
  /\ work[c] \in {"open", "cancelled"}
  /\ work' = [work EXCEPT ![c] = IF @ = "open" THEN "dead" ELSE @]
  /\ order' = IF order \in InWork THEN "failed" ELSE order
  /\ UNCHANGED final

Reopen ==
  /\ order = "failed"
  /\ order' = "in_progress"
  /\ UNCHANGED <<final, work>>

Dropped(C) ==
  work' = [c \in Children |->
             IF c \in C /\ work[c] \in {"open", "dead"} THEN "cancelled" ELSE work[c]]

CancelChild(c) ==
  /\ c \in Added
  /\ Dropped({c})
  /\ UNCHANGED <<order, final>>

CancelOrder(C) ==
  /\ C \subseteq Added
  /\ Dropped(C)
  /\ order' = IF order \in Closed THEN order ELSE "cancelled"
  /\ UNCHANGED final

Next ==
  \/ Delegate \/ Finalize \/ Reopen
  \/ \E c \in Children : Add(c) \/ Complete(c) \/ Fail(c) \/ CancelChild(c)
  \/ \E C \in SUBSET Children : CancelOrder(C)

Spec == Init /\ [][Next]_vars
=============================================================================
