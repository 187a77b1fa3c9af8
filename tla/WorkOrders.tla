----------------------------- MODULE WorkOrders -----------------------------
(***************************************************************************)
(* Work orders and the text work of their children                         *)
(* (src/src/nexus/services/work_service.py).                               *)
(*                                                                         *)
(* A manager owns a work order, adds children to its open plan, finalizes  *)
(* the plan, and reviews what employees deliver.  Each child is tried by   *)
(* text attempts (TaskAttempts, here without workers and leases: running   *)
(* is claimed or running; parked is verifying with claimed_by NULL).  The  *)
(* order closes by roll-up: when the last child of a final plan completes, *)
(* when a child runs out of attempts, or when it is cancelled.             *)
(*                                                                         *)
(* The transaction that ends an attempt writes the attempt and its child,  *)
(* takes the order's row lock, reads the children and commits: its writes  *)
(* are seen by nobody before.  It is three actions here, and so is what a  *)
(* request read before its own transaction kept: that is where orders get  *)
(* lost.  A statement that needs a locked row waits: its action is not     *)
(* enabled.  Two transactions that wait for each other are not modelled:   *)
(* the database aborts one of them, which leaves no trace.                 *)
(***************************************************************************)
EXTENDS Naturals, FiniteSets

CONSTANTS
  Children,     \* the children a manager may add, by idempotency key
  MaxAttempts,  \* max_attempts of a child's work spec
  NoOne,        \* the order's row is not locked
  Manager       \* finalize_plan as the holder of that lock

ASSUME AttemptAssumption == MaxAttempts \in Nat \ {0}
ASSUME HolderAssumption  == NoOne \notin Children /\ Manager \notin Children /\ NoOne # Manager

VARIABLES
  order,      \* the order's status
  planFinal,  \* plan_finalized_at is stamped
  lock,       \* the transaction that holds the order's row
  child,      \* a child's status ("none": not added)
  number,     \* attempt_number of its latest attempt, 0 before the first
  attempt,    \* status of its latest attempt
  cancel,     \* that attempt's cancel_requested_at IS NOT NULL
  ending,     \* the transaction that ends that attempt
  retrying,   \* rejections that asked for a retry, past their commit
  assigning,  \* assign requests that read the order as open
  finalizing, \* finalize_plan past its UPDATE, with what it read of the children
  cancelling, \* cancel_work requests that read the order's children
  following   \* children whose attempt a committed cancel_work goes on to cancel

childVars == <<child, number, attempt, cancel>>
vars == <<order, planFinal, lock, childVars, ending, retrying, assigning, finalizing,
          cancelling, following>>

-----------------------------------------------------------------------------
OpenOrder == {"delegated", "in_progress"}
ClosedStatus == {"completed", "cancelled"}   \* CLOSED_STATUSES
OrderStatus == {"pending", "failed"} \cup OpenOrder \cup ClosedStatus

Working == {"pending", "in_progress", "in_review"}
ChildStatus == {"none", "failed"} \cup Working \cup ClosedStatus

Ended == {"completed", "failed", "cancelled", "expired"}
Active == {"queued", "running", "parked"}

\* How an attempt ends; rejected is failed, with the retry the reviewer asked for.
Outcome == Ended \cup {"rejected"}

\* settled, last: a completed attempt's transaction after it locked the order and read
\* the other children (last: all of them completed).
Ending == {"none", "settled", "last"} \cup Outcome

\* A rejected attempt by its child and number, and what _retry does next.
Retry == [child : Children, number : 1..MaxAttempts, stage : {"reopen", "start"}]

TypeOK ==
  /\ order \in OrderStatus
  /\ planFinal \in BOOLEAN
  /\ lock \in Children \cup {NoOne, Manager}
  /\ child \in [Children -> ChildStatus]
  /\ number \in [Children -> 0..MaxAttempts]
  /\ attempt \in [Children -> {"none"} \cup Active \cup Ended]
  /\ cancel \in [Children -> BOOLEAN]
  /\ ending \in [Children -> Ending]
  /\ retrying \subseteq Retry
  /\ assigning \subseteq Children
  /\ finalizing \in {"no", "some", "all"}
  /\ cancelling \subseteq SUBSET Children
  /\ following \subseteq Children

Init ==
  /\ order = "pending"
  /\ planFinal = FALSE
  /\ lock = NoOne
  /\ child = [c \in Children |-> "none"]
  /\ number = [c \in Children |-> 0]
  /\ attempt = [c \in Children |-> "none"]
  /\ cancel = [c \in Children |-> FALSE]
  /\ ending = [c \in Children |-> "none"]
  /\ retrying = {}
  /\ assigning = {}
  /\ finalizing = "no"
  /\ cancelling = {}
  /\ following = {}

-----------------------------------------------------------------------------
Added == {c \in Children : child[c] # "none"}

\* _complete_if_done's look at the committed children.
AllCompleted(C) == \A c \in C : child[c] = "completed"

\* The condition of every new child and of finalize_plan.
TakesChildren == order \in OpenOrder /\ ~planFinal

\* A child's status after a write that spares closed tasks.
Unless(c, s) == IF child[c] \in ClosedStatus THEN child[c] ELSE s

\* Seeded fault of MayComplete: the plan may still be open.
Faulty_MayComplete == order \in OpenOrder

\* The conditions of _complete_if_done's UPDATE.
MayComplete == order \in OpenOrder /\ planFinal

-----------------------------------------------------------------------------
(* The manager's plan.                                                     *)

\* delegate_to_manager: one conditional UPDATE, one winner.
Delegate ==
  /\ order = "pending"
  /\ lock = NoOne
  /\ order' = "delegated"
  /\ UNCHANGED <<planFinal, lock, childVars, ending, retrying, assigning, finalizing, cancelling,
                 following>>

\* assign_task up to _require_open_for_children, on the order it read.
AssignRead(c) ==
  /\ child[c] = "none"
  /\ TakesChildren
  /\ assigning' = assigning \cup {c}
  /\ UNCHANGED <<order, planFinal, lock, childVars, ending, retrying, finalizing, cancelling,
                 following>>

\* Seeded fault of AssignInsert: the child is inserted on the strength of the earlier read.
Faulty_AssignInsert(c) ==
  /\ c \in assigning
  /\ assigning' = assigning \ {c}
  /\ child' = [child EXCEPT ![c] = "pending"]
  /\ order' = IF order = "delegated" THEN "in_progress" ELSE order
  /\ UNCHANGED <<planFinal, lock, number, attempt, cancel, ending, retrying, finalizing,
                 cancelling, following>>

\* Its transaction: the order's row under its conditions, then the child.
AssignInsert(c) ==
  /\ c \in assigning
  /\ lock = NoOne
  /\ assigning' = assigning \ {c}
  /\ IF TakesChildren /\ child[c] = "none"
     THEN /\ child' = [child EXCEPT ![c] = "pending"]
          /\ order' = "in_progress"
     ELSE UNCHANGED <<child, order>>
  /\ UNCHANGED <<planFinal, lock, number, attempt, cancel, ending, retrying, finalizing,
                 cancelling, following>>

\* The attempt of an added child: by the same call, or by its replay after a crash.
AssignStart(c) ==
  /\ child[c] \notin {"none", "completed"}
  /\ number[c] = 0
  /\ number' = [number EXCEPT ![c] = 1]
  /\ attempt' = [attempt EXCEPT ![c] = "queued"]
  /\ UNCHANGED <<order, planFinal, lock, child, cancel, ending, retrying, assigning,
                 finalizing, cancelling,
                 following>>

\* finalize_plan's UPDATE takes the row; an empty plan is rolled back.  Then the children
\* are read.
FinalizeStamp ==
  /\ TakesChildren
  /\ lock = NoOne
  /\ Added # {}
  /\ lock' = Manager
  /\ finalizing' = IF AllCompleted(Added) THEN "all" ELSE "some"
  /\ UNCHANGED <<order, planFinal, childVars, ending, retrying, assigning, cancelling, following>>

FinalizeCommit ==
  /\ finalizing # "no"
  /\ planFinal' = TRUE
  /\ order' = IF finalizing = "all" /\ order \in OpenOrder THEN "completed" ELSE order
  /\ finalizing' = "no"
  /\ lock' = IF lock = Manager THEN NoOne ELSE lock
  /\ UNCHANGED <<childVars, ending, retrying, assigning, cancelling, following>>

-----------------------------------------------------------------------------
(* Attempts, as far as the order sees them.                                *)

\* A worker claims and runs the attempt.
Run(c) ==
  /\ attempt[c] = "queued" /\ ending[c] = "none"
  /\ ~cancel[c]
  /\ attempt' = [attempt EXCEPT ![c] = "running"]
  /\ child' = [child EXCEPT ![c] = Unless(c, "in_progress")]
  /\ UNCHANGED <<order, planFinal, lock, number, cancel, ending, retrying, assigning,
                 finalizing, cancelling,
                 following>>

\* Seeded fault of Requeue: a parked deliverable keeps a lease, and the sweep finds it.
Faulty_Requeue(c) ==
  /\ attempt[c] \in {"running", "parked"} /\ ending[c] = "none"
  /\ attempt' = [attempt EXCEPT ![c] = "queued"]
  /\ UNCHANGED <<order, planFinal, lock, child, number, cancel, ending, retrying, assigning,
                 finalizing, cancelling, following>>

\* Recovery, or a worker that stops, gives it back.
Requeue(c) ==
  /\ attempt[c] = "running" /\ ending[c] = "none"
  /\ attempt' = [attempt EXCEPT ![c] = "queued"]
  /\ UNCHANGED <<order, planFinal, lock, child, number, cancel, ending, retrying, assigning,
                 finalizing, cancelling,
                 following>>

\* submit_deliverable: parked for review, unless a cancel won.
Submit(c) ==
  /\ attempt[c] = "running" /\ ending[c] = "none"
  /\ ~cancel[c]
  /\ attempt' = [attempt EXCEPT ![c] = "parked"]
  /\ child' = [child EXCEPT ![c] = Unless(c, "in_review")]
  /\ UNCHANGED <<order, planFinal, lock, number, cancel, ending, retrying, assigning,
                 finalizing, cancelling,
                 following>>

\* Which end the attempt can take from where it stands: the queue's TTL; the worker or the
\* recovery, with or without a look at the cancel; the review.
MayEnd(c, outcome) ==
  CASE attempt[c] = "queued"  -> outcome = "expired"
    [] attempt[c] = "running" -> outcome = "failed" \/ (outcome = "cancelled" /\ cancel[c])
    [] attempt[c] = "parked"  -> outcome \in {"completed", "failed", "rejected"}
    [] OTHER -> FALSE

\* _finish_in: the attempt's row and its child's are written, and locked.
EndBegin(c, outcome) ==
  /\ ending[c] = "none"
  /\ MayEnd(c, outcome)
  /\ outcome = "rejected" => number[c] < MaxAttempts
  /\ ending' = [ending EXCEPT ![c] = outcome]
  /\ UNCHANGED <<order, planFinal, lock, childVars, retrying, assigning, finalizing, cancelling,
                 following>>

\* Seeded fault of Settle: the children are read without the order's row lock.
Faulty_Settle(c) ==
  /\ ending[c] = "completed"
  /\ ending' = [ending EXCEPT ![c] =
                  IF order \in OpenOrder /\ AllCompleted(Added \ {c}) THEN "last" ELSE "settled"]
  /\ UNCHANGED <<order, planFinal, lock, childVars, retrying, assigning, finalizing, cancelling,
                 following>>

\* after_terminal of a completed attempt: lock the open order, then read the children.
Settle(c) ==
  /\ ending[c] = "completed"
  /\ lock = NoOne
  /\ IF order \in OpenOrder
     THEN /\ lock' = c
          /\ ending' = [ending EXCEPT ![c] =
                          IF AllCompleted(Added \ {c}) THEN "last" ELSE "settled"]
     ELSE /\ ending' = [ending EXCEPT ![c] = "settled"]
          /\ UNCHANGED lock
  /\ UNCHANGED <<order, planFinal, childVars, retrying, assigning, finalizing, cancelling,
                 following>>

\* Commit of a completed attempt: the child, and the order if it was the last of a final
\* plan.
EndCompleted(c) ==
  /\ ending[c] \in {"settled", "last"}
  /\ attempt' = [attempt EXCEPT ![c] = "completed"]
  /\ child' = [child EXCEPT ![c] = Unless(c, "completed")]
  /\ order' = IF ending[c] = "last" /\ Unless(c, "completed") = "completed" /\ MayComplete
              THEN "completed" ELSE order
  /\ ending' = [ending EXCEPT ![c] = "none"]
  /\ lock' = IF lock = c THEN NoOne ELSE lock
  /\ UNCHANGED <<planFinal, number, cancel, retrying, assigning, finalizing, cancelling,
                 following>>

\* The end of an attempt that was the child's last and brought nothing fails the order.
OutOfAttempts(c) == number[c] >= MaxAttempts /\ ending[c] \in {"failed", "expired"}

\* Commit of any other end.  A rejection goes on to its retry.
EndOther(c) ==
  /\ ending[c] \in Outcome \ {"completed"}
  /\ OutOfAttempts(c) => lock = NoOne
  /\ attempt' = [attempt EXCEPT ![c] = IF ending[c] = "rejected" THEN "failed" ELSE ending[c]]
  /\ child' = [child EXCEPT ![c] =
                 Unless(c, IF ending[c] \in {"failed", "rejected"} THEN "failed" ELSE "pending")]
  /\ order' = IF OutOfAttempts(c) /\ order \in OpenOrder THEN "failed" ELSE order
  /\ retrying' = IF ending[c] = "rejected"
                  THEN retrying \cup {[child |-> c, number |-> number[c], stage |-> "reopen"]}
                  ELSE retrying
  /\ ending' = [ending EXCEPT ![c] = "none"]
  /\ UNCHANGED <<planFinal, lock, number, cancel, assigning, finalizing, cancelling,
                 following>>

\* _retry's first transaction: the child back to pending, the order back to work,
\* whatever failed it.
RetryReopen(r) ==
  /\ r \in retrying /\ r.stage = "reopen"
  /\ lock = NoOne
  /\ child' = [child EXCEPT ![r.child] = IF @ = "failed" THEN "pending" ELSE @]
  /\ order' = IF order = "failed" THEN "in_progress" ELSE order
  /\ retrying' = (retrying \ {r}) \cup {[r EXCEPT !.stage = "start"]}
  /\ UNCHANGED <<planFinal, lock, number, attempt, cancel, ending, assigning, finalizing,
                 cancelling, following>>

\* start_attempt asks whether the task is completed, not whether it was cancelled.
Starts(c) ==
  /\ number' = [number EXCEPT ![c] = @ + 1]
  /\ attempt' = [attempt EXCEPT ![c] = "queued"]
  /\ cancel' = [cancel EXCEPT ![c] = FALSE]

\* Its second: retry_attempt, which refuses when another attempt was started meanwhile.
RetryStart(r) ==
  /\ r \in retrying /\ r.stage = "start"
  /\ retrying' = retrying \ {r}
  /\ IF number[r.child] = r.number THEN Starts(r.child) ELSE UNCHANGED <<number, attempt, cancel>>
  /\ UNCHANGED <<order, planFinal, lock, child, ending, assigning, finalizing, cancelling,
                 following>>

\* The reviewer's process dies between the rejection and its retry.
RetryLost(r) ==
  /\ r \in retrying
  /\ retrying' = retrying \ {r}
  /\ UNCHANGED <<order, planFinal, lock, childVars, ending, assigning, finalizing, cancelling,
                 following>>

\* By route, a new attempt after one that ended: start_attempt, or retry_attempt.
StartAgain(c) ==
  /\ attempt[c] \in Ended
  /\ child[c] # "completed"
  /\ number[c] < MaxAttempts
  /\ Starts(c)
  /\ UNCHANGED <<order, planFinal, lock, child, ending, retrying, assigning, finalizing,
                 cancelling, following>>

-----------------------------------------------------------------------------
(* Cancel.                                                                 *)

\* What cancel_work writes to one child: the task, a deliverable that waits, a flag.
CancelledChild(C) ==
  /\ child' = [c \in Children |-> IF c \in C THEN Unless(c, "cancelled") ELSE child[c]]
  /\ attempt' = [c \in Children |->
                   IF c \in C /\ attempt[c] = "parked" THEN "cancelled" ELSE attempt[c]]
  /\ cancel' = [c \in Children |-> cancel[c] \/ (c \in C /\ attempt[c] \in Active)]

\* cancel_work of one child.
CancelChild(c) ==
  /\ child[c] \notin ClosedStatus \cup {"none"}
  /\ ending[c] = "none"
  /\ CancelledChild({c})
  /\ following' = following \cup {c}
  /\ UNCHANGED <<order, planFinal, lock, number, ending, retrying, assigning, finalizing,
                 cancelling>>

\* cancel_work of the order reads the children ...
CancelRead ==
  /\ order \notin ClosedStatus
  /\ cancelling' = cancelling \cup {Added}
  /\ UNCHANGED <<order, planFinal, lock, childVars, ending, retrying, assigning, finalizing,
                 following>>

\* Seeded fault of CancelApply: a completed order is cancelled too.
Faulty_CancelApply(C) ==
  /\ C \in cancelling
  /\ lock = NoOne
  /\ \A c \in C : ending[c] = "none"
  /\ cancelling' = cancelling \ {C}
  /\ order' = "cancelled"
  /\ CancelledChild(C)
  /\ following' = following \cup C
  /\ UNCHANGED <<planFinal, lock, number, ending, retrying, assigning, finalizing>>

\* ... and then writes the order and those children, in one transaction.
CancelApply(C) ==
  /\ C \in cancelling
  /\ lock = NoOne
  /\ \A c \in C : ending[c] = "none"
  /\ cancelling' = cancelling \ {C}
  /\ order' = IF order \in ClosedStatus THEN order ELSE "cancelled"
  /\ CancelledChild(C)
  /\ following' = following \cup C
  /\ UNCHANGED <<planFinal, lock, number, ending, retrying, assigning, finalizing>>

\* cancel_attempt: one that waits ends in this transaction, a running one is asked to.
AttemptCancelled(c) ==
  /\ ending[c] = "none"
  /\ ending' = [ending EXCEPT ![c] = IF attempt[c] \in {"queued", "parked"} THEN "cancelled" ELSE @]
  /\ cancel' = [cancel EXCEPT ![c] = @ \/ attempt[c] \in Active]

\* After the commit, of whatever attempt of the child is active by now.
CancelFollow(c) ==
  /\ c \in following
  /\ following' = following \ {c}
  /\ AttemptCancelled(c)
  /\ UNCHANGED <<order, planFinal, lock, child, number, attempt, retrying, assigning,
                 finalizing, cancelling>>

\* By route, of one attempt: the child is not cancelled, and goes back to pending.
CancelAttempt(c) ==
  /\ attempt[c] \in Active
  /\ AttemptCancelled(c)
  /\ UNCHANGED <<order, planFinal, lock, child, number, attempt, retrying, assigning,
                 finalizing, cancelling, following>>

\* The process that cancels dies before that.
FollowLost(c) ==
  /\ c \in following
  /\ following' = following \ {c}
  /\ UNCHANGED <<order, planFinal, lock, childVars, ending, retrying, assigning, finalizing,
                 cancelling>>

-----------------------------------------------------------------------------
Next ==
  \/ Delegate \/ FinalizeStamp \/ FinalizeCommit \/ CancelRead
  \/ \E C \in SUBSET Children : CancelApply(C)
  \/ \E c \in Children :
       \/ AssignRead(c) \/ AssignInsert(c) \/ AssignStart(c)
       \/ Run(c) \/ Requeue(c) \/ Submit(c)
       \/ (\E outcome \in Outcome : EndBegin(c, outcome))
       \/ Settle(c) \/ EndCompleted(c) \/ EndOther(c)
       \/ StartAgain(c)
       \/ CancelChild(c) \/ CancelFollow(c) \/ FollowLost(c) \/ CancelAttempt(c)
  \/ \E r \in Retry : RetryReopen(r) \/ RetryStart(r) \/ RetryLost(r)

Spec == Init /\ [][Next]_vars

-----------------------------------------------------------------------------
(* Properties.                                                             *)

\* An order completes only with its plan final and every child of it completed, whatever
\* was added, retried or cancelled meanwhile.
CompletedMeansAll ==
  order = "completed" => planFinal /\ Added # {} /\ AllCompleted(Added)

\* No completion is missed: once the plan is final and every child completed, the order is
\* not left open.  (Two last children, or the last child and finalize_plan, commit at the
\* same time and neither sees the other, if they do not take the order's row first.)
NoMissedCompletion ==
  ~(planFinal /\ order \in OpenOrder /\ AllCompleted(Added))

\* What is in review has a deliverable that waits for the manager, and what waits is shown
\* in review unless the task was closed.
InReviewIsWaiting ==
  \A c \in Children :
    /\ child[c] = "in_review" => attempt[c] = "parked"
    /\ attempt[c] = "parked" => child[c] \in {"in_review"} \cup ClosedStatus

\* Completed work is never overwritten and a cancelled order never reopened.
OrderIsFinal ==
  [][/\ order \in ClosedStatus => order' = order
     /\ \A c \in Children : child[c] \in ClosedStatus => child'[c] = child[c]]_vars

(* The order, as its manager sees it.                                      *)

\* Out of attempts: the last one a child may have ended and brought nothing.
Spent(c) == number[c] = MaxAttempts /\ attempt[c] \in {"failed", "expired"}

Phase(c) ==
  IF child[c] \in {"none"} \cup ClosedStatus THEN child[c]
  ELSE IF Spent(c) THEN "dead" ELSE "open"

Plan == INSTANCE OrderPlan WITH final <- planFinal, work <- [c \in Children |-> Phase(c)]

\* The order completes in the step that completes the last child of a final plan or that
\* finalizes a plan whose children are done, and at no other time, although both look at
\* the children before they commit; a plan takes children only while it is open, and a child
\* out of attempts is never completed (_complete_if_done, finalize_plan).
ImplementsPlan == Plan!Spec

(* What the code or its documentation says and the code does not do.       *)

\* "A child out of attempts fails the order (fail fast)."
OutOfAttemptsFailsOrder ==
  \A c \in Children :
    child[c] = "failed" /\ attempt[c] = "failed" /\ number[c] = MaxAttempts
      => order \notin OpenOrder

\* "Cancel a work order or task and its open work."
CancelReachesAll ==
  order = "cancelled" => \A c \in Added : child[c] \in ClosedStatus
=============================================================================
