-------------------------- MODULE WorkOrders_proofs --------------------------
(***************************************************************************)
(* Theorems about WorkOrders, for any children and any number of attempts. *)
(***************************************************************************)
EXTENDS WorkOrders, TLAPS

USE AttemptAssumption, HolderAssumption

-----------------------------------------------------------------------------
(* The inductive invariant.                                                *)

\* What a child's columns say together: the attempt of a transaction is active until it
\* commits, completed work has a completed attempt.
ChildInv ==
  /\ \A c \in Children :
       /\ child[c] = "none" => number[c] = 0 /\ c \notin following
       /\ number[c] = 0 <=> attempt[c] = "none"
       /\ ending[c] # "none" => attempt[c] \in Active
       /\ ending[c] = "rejected" => number[c] < MaxAttempts
       /\ child[c] = "completed" => attempt[c] = "completed"
  /\ \A C \in cancelling : C \subseteq Added

\* A pending retry was granted below the cap, to an attempt that failed; it is still the
\* child's latest unless another was started by route meanwhile.
RetryInv ==
  \A r \in retrying :
    /\ r.number <= number[r.child] /\ r.number < MaxAttempts
    /\ r.number = number[r.child] => attempt[r.child] = "failed"

\* A child that can never complete: its last attempt ended and brought nothing.
Dead(c) ==
  /\ child[c] # "completed"
  /\ number[c] = MaxAttempts
  /\ attempt[c] \in {"failed", "expired"}

SomeDead == \E c \in Children : Dead(c)

\* What the holder of the order's row has read still holds, because nobody adds a child or
\* commits a completion without the row; a completion that skipped the row, because the
\* order had ended, concerns an order that stays closed or has a dead child.
LockInv ==
  /\ lock = Manager <=> finalizing # "no"
  /\ lock # NoOne => order \in OpenOrder
  /\ \A c \in Children :
       /\ lock = c => ending[c] \in {"settled", "last"}
       /\ ending[c] = "last" => lock = c /\ AllCompleted(Added \ {c})
       /\ ending[c] = "settled" /\ lock = c => ~AllCompleted(Added \ {c})
       /\ ending[c] = "settled" /\ lock # c => order \in ClosedStatus \/ SomeDead
  /\ finalizing # "no" => Added # {} /\ ~planFinal
  /\ finalizing # "no" => (finalizing = "all" <=> AllCompleted(Added))
  /\ planFinal => Added # {}
  /\ order = "failed" => SomeDead
  /\ order = "pending" => Added = {}

IInv == TypeOK /\ ChildInv /\ RetryInv /\ LockInv /\ InReviewIsWaiting

-----------------------------------------------------------------------------
(* Types and children.                                                     *)

\* The second half of a retry starts an attempt after one that failed below the cap, or
\* leaves the child alone.
LEMMA RetryStartStarts ==
  ASSUME TypeOK, RetryInv, NEW r \in Retry, RetryStart(r)
  PROVE  /\ UNCHANGED <<order, planFinal, lock, child, ending, assigning, finalizing, cancelling,
                        following>>
         /\ retrying' \subseteq Retry
         /\ \/ UNCHANGED <<number, attempt, cancel>>
            \/ \E c \in Children : attempt[c] = "failed" /\ number[c] < MaxAttempts /\ Starts(c)
BY DEF TypeOK, RetryInv, Retry, RetryStart

LEMMA TypeStep == TypeOK /\ ChildInv /\ RetryInv /\ [Next]_vars => TypeOK'
<1> SUFFICES ASSUME TypeOK, ChildInv, RetryInv, [Next]_vars PROVE TypeOK'
  OBVIOUS
<1> USE DEF TypeOK, vars, childVars, OrderStatus, OpenOrder, ClosedStatus, Working, ChildStatus,
            Ended, Active, Outcome, Ending, Unless, ChildInv, Added, TakesChildren
<1>1. CASE Delegate
  BY <1>1 DEF Delegate
<1>2. CASE FinalizeStamp
  BY <1>2 DEF FinalizeStamp
<1>3. CASE FinalizeCommit
  BY <1>3 DEF FinalizeCommit
<1>4. CASE CancelRead
  BY <1>4 DEF CancelRead
<1>5. ASSUME NEW C \in SUBSET Children, CancelApply(C) PROVE TypeOK'
  BY <1>5 DEF CancelApply, CancelledChild
<1>6. ASSUME NEW c \in Children, NEW o \in Outcome, EndBegin(c, o) PROVE TypeOK'
  BY <1>6 DEF EndBegin, MayEnd
<1>7. ASSUME NEW c \in Children, AssignRead(c) PROVE TypeOK'
  BY <1>7 DEF AssignRead
<1>8. ASSUME NEW c \in Children, AssignInsert(c) PROVE TypeOK'
  BY <1>8 DEF AssignInsert
<1>9. ASSUME NEW c \in Children, AssignStart(c) PROVE TypeOK'
  BY <1>9 DEF AssignStart
<1>10. ASSUME NEW c \in Children, Run(c) PROVE TypeOK'
  BY <1>10 DEF Run
<1>11. ASSUME NEW c \in Children, Requeue(c) PROVE TypeOK'
  BY <1>11 DEF Requeue
<1>12. ASSUME NEW c \in Children, Submit(c) PROVE TypeOK'
  BY <1>12 DEF Submit
<1>13. ASSUME NEW c \in Children, Settle(c) PROVE TypeOK'
  BY <1>13 DEF Settle
<1>14. ASSUME NEW c \in Children, EndCompleted(c) PROVE TypeOK'
  BY <1>14 DEF EndCompleted, MayComplete
<1>15. ASSUME NEW c \in Children, EndOther(c) PROVE TypeOK'
  <2>1. retrying' \subseteq Retry
    <3>1. ending[c] = "rejected" => [child |-> c, number |-> number[c], stage |-> "reopen"] \in Retry
      BY <1>15 DEF EndOther, Retry
    <3> QED
      BY <1>15, <3>1 DEF EndOther
  <2> QED
    BY <1>15, <2>1 DEF EndOther, OutOfAttempts
<1>16. ASSUME NEW r \in Retry, RetryReopen(r) PROVE TypeOK'
  BY <1>16 DEF RetryReopen, Retry
<1>17. ASSUME NEW r \in Retry, RetryStart(r) PROVE TypeOK'
  <2>1. number' \in [Children -> 0..MaxAttempts]
    BY <1>17, RetryStartStarts DEF Starts
  <2>2. attempt' \in [Children -> {"none"} \cup Active \cup Ended] /\ cancel' \in [Children -> BOOLEAN]
    BY <1>17, RetryStartStarts DEF Starts
  <2> QED
    BY <1>17, <2>1, <2>2, RetryStartStarts
<1>18. ASSUME NEW r \in Retry, RetryLost(r) PROVE TypeOK'
  BY <1>18 DEF RetryLost, Retry
<1>19. ASSUME NEW c \in Children, CancelChild(c) PROVE TypeOK'
  BY <1>19 DEF CancelChild, CancelledChild
<1>20. ASSUME NEW c \in Children, CancelFollow(c) PROVE TypeOK'
  BY <1>20 DEF CancelFollow, AttemptCancelled
<1>21. ASSUME NEW c \in Children, FollowLost(c) PROVE TypeOK'
  BY <1>21 DEF FollowLost
<1>22. ASSUME NEW c \in Children, StartAgain(c) PROVE TypeOK'
  BY <1>22 DEF StartAgain, Starts
<1>23. ASSUME NEW c \in Children, CancelAttempt(c) PROVE TypeOK'
  BY <1>23 DEF CancelAttempt, AttemptCancelled
<1>24. CASE UNCHANGED vars
  BY <1>24 DEF vars
<1> QED
  BY <1>1, <1>2, <1>3, <1>4, <1>5, <1>6, <1>7, <1>8, <1>9, <1>10, <1>11, <1>12, <1>13, <1>14,
     <1>15, <1>16, <1>17, <1>18, <1>19, <1>20, <1>21, <1>22, <1>23,
     <1>24 DEF Next

\* The children's columns stay consistent.
LEMMA ChildStep ==
  TypeOK /\ ChildInv /\ RetryInv /\ InReviewIsWaiting /\ [Next]_vars => ChildInv'
<1> SUFFICES ASSUME TypeOK, ChildInv, RetryInv, InReviewIsWaiting, [Next]_vars PROVE ChildInv'
  OBVIOUS
<1> USE DEF TypeOK, vars, childVars, OpenOrder, ClosedStatus, Ended, Active, Outcome, Unless,
            ChildInv, Added, TakesChildren, InReviewIsWaiting
<1>1. CASE Delegate
  BY <1>1 DEF Delegate
<1>2. CASE FinalizeStamp
  BY <1>2 DEF FinalizeStamp
<1>3. CASE FinalizeCommit
  BY <1>3 DEF FinalizeCommit
<1>4. CASE CancelRead
  BY <1>4 DEF CancelRead
<1>5. ASSUME NEW C \in SUBSET Children, CancelApply(C) PROVE ChildInv'
  BY <1>5 DEF CancelApply, CancelledChild
<1>6. ASSUME NEW c \in Children, NEW o \in Outcome, EndBegin(c, o) PROVE ChildInv'
  BY <1>6 DEF EndBegin, MayEnd
<1>7. ASSUME NEW c \in Children, AssignRead(c) PROVE ChildInv'
  BY <1>7 DEF AssignRead
<1>8. ASSUME NEW c \in Children, AssignInsert(c) PROVE ChildInv'
  BY <1>8 DEF AssignInsert
<1>9. ASSUME NEW c \in Children, AssignStart(c) PROVE ChildInv'
  BY <1>9 DEF AssignStart
<1>10. ASSUME NEW c \in Children, Run(c) PROVE ChildInv'
  BY <1>10 DEF Run
<1>11. ASSUME NEW c \in Children, Requeue(c) PROVE ChildInv'
  BY <1>11 DEF Requeue
<1>12. ASSUME NEW c \in Children, Submit(c) PROVE ChildInv'
  BY <1>12 DEF Submit
<1>13. ASSUME NEW c \in Children, Settle(c) PROVE ChildInv'
  BY <1>13 DEF Settle
<1>14. ASSUME NEW c \in Children, EndCompleted(c) PROVE ChildInv'
  BY <1>14 DEF EndCompleted, MayComplete
<1>15. ASSUME NEW c \in Children, EndOther(c) PROVE ChildInv'
  BY <1>15 DEF EndOther, OutOfAttempts
<1>16. ASSUME NEW r \in Retry, RetryReopen(r) PROVE ChildInv'
  BY <1>16 DEF RetryReopen, Retry
<1>17. ASSUME NEW r \in Retry, RetryStart(r) PROVE ChildInv'
  BY <1>17, RetryStartStarts DEF Starts
<1>18. ASSUME NEW r \in Retry, RetryLost(r) PROVE ChildInv'
  BY <1>18 DEF RetryLost, Retry
<1>19. ASSUME NEW c \in Children, CancelChild(c) PROVE ChildInv'
  BY <1>19 DEF CancelChild, CancelledChild
<1>20. ASSUME NEW c \in Children, CancelFollow(c) PROVE ChildInv'
  BY <1>20 DEF CancelFollow, AttemptCancelled
<1>21. ASSUME NEW c \in Children, FollowLost(c) PROVE ChildInv'
  BY <1>21 DEF FollowLost
<1>22. ASSUME NEW c \in Children, StartAgain(c) PROVE ChildInv'
  BY <1>22 DEF StartAgain, Starts
<1>23. ASSUME NEW c \in Children, CancelAttempt(c) PROVE ChildInv'
  BY <1>23 DEF CancelAttempt, AttemptCancelled
<1>24. CASE UNCHANGED vars
  BY <1>24 DEF vars
<1> QED
  BY <1>1, <1>2, <1>3, <1>4, <1>5, <1>6, <1>7, <1>8, <1>9, <1>10, <1>11, <1>12, <1>13, <1>14,
     <1>15, <1>16, <1>17, <1>18, <1>19, <1>20, <1>21, <1>22, <1>23,
     <1>24 DEF Next

\* A pending retry stays one: whatever starts or ends an attempt of its child leaves it
\* behind.
LEMMA RetryStep == TypeOK /\ ChildInv /\ RetryInv /\ [Next]_vars => RetryInv'
<1> SUFFICES ASSUME TypeOK, ChildInv, RetryInv, [Next]_vars PROVE RetryInv'
  OBVIOUS
<1>0. \A r \in retrying :
        /\ r.child \in Children /\ r.number \in Nat \ {0} /\ number[r.child] \in Nat
        /\ r.number <= number[r.child] /\ r.number < MaxAttempts
        /\ r.number = number[r.child] => attempt[r.child] = "failed"
  BY DEF TypeOK, RetryInv, Retry
\* A step that adds no retry and starts or ends only what no retry waits for.
<1>q. ASSUME retrying' \subseteq retrying,
             \A c \in Children :
               /\ number[c] \in Nat => number'[c] \in Nat /\ number'[c] >= number[c]
               /\ number'[c] = number[c] /\ attempt[c] = "failed" => attempt'[c] = "failed"
      PROVE  RetryInv'
  <2> SUFFICES ASSUME NEW r \in retrying
               PROVE  /\ r.number <= number'[r.child] /\ r.number < MaxAttempts
                      /\ r.number = number'[r.child] => attempt'[r.child] = "failed"
    BY <1>q DEF RetryInv
  <2> QED
    BY <1>0, <1>q
<1> USE DEF childVars, Ended, Active
<1>1. CASE Delegate
  BY <1>1, <1>q DEF Delegate
<1>2. CASE FinalizeStamp
  BY <1>2, <1>q DEF FinalizeStamp
<1>3. CASE FinalizeCommit
  BY <1>3, <1>q DEF FinalizeCommit
<1>4. CASE CancelRead
  BY <1>4, <1>q DEF CancelRead
<1>5. ASSUME NEW C \in SUBSET Children, CancelApply(C) PROVE RetryInv'
  BY <1>5, <1>q DEF CancelApply, CancelledChild
<1>6. ASSUME NEW c \in Children, NEW o \in Outcome, EndBegin(c, o) PROVE RetryInv'
  BY <1>6, <1>q DEF EndBegin
<1>7. ASSUME NEW c \in Children, AssignRead(c) PROVE RetryInv'
  BY <1>7, <1>q DEF AssignRead
<1>8. ASSUME NEW c \in Children, AssignInsert(c) PROVE RetryInv'
  BY <1>8, <1>q DEF AssignInsert
<1>9. ASSUME NEW c \in Children, AssignStart(c) PROVE RetryInv'
  BY <1>9, <1>q DEF AssignStart, TypeOK
<1>10. ASSUME NEW c \in Children, Run(c) PROVE RetryInv'
  BY <1>10, <1>q DEF Run, TypeOK
<1>11. ASSUME NEW c \in Children, Requeue(c) PROVE RetryInv'
  BY <1>11, <1>q DEF Requeue, TypeOK
<1>12. ASSUME NEW c \in Children, Submit(c) PROVE RetryInv'
  BY <1>12, <1>q DEF Submit, TypeOK
<1>13. ASSUME NEW c \in Children, Settle(c) PROVE RetryInv'
  BY <1>13, <1>q DEF Settle
<1>14. ASSUME NEW c \in Children, EndCompleted(c) PROVE RetryInv'
  BY <1>14, <1>q DEF EndCompleted, TypeOK, ChildInv
<1>15. ASSUME NEW c \in Children, EndOther(c) PROVE RetryInv'
  <2>1. attempt[c] \in Active /\ number' = number /\ \A d \in Children \ {c} : attempt'[d] = attempt[d]
    BY <1>15 DEF EndOther, TypeOK, ChildInv, Outcome
  <2>2. CASE ending[c] = "rejected"
    <3>1. attempt'[c] = "failed" /\ number[c] < MaxAttempts /\ number[c] \in Nat
      BY <1>15, <2>2 DEF EndOther, TypeOK, ChildInv
    <3>2. retrying' = retrying \cup {[child |-> c, number |-> number[c], stage |-> "reopen"]}
      BY <1>15, <2>2 DEF EndOther
    <3> QED
      BY <1>0, <2>1, <3>1, <3>2 DEF RetryInv
  <2>3. CASE ending[c] # "rejected"
    <3>1. retrying' = retrying
      BY <1>15, <2>3 DEF EndOther
    <3> QED
      BY <1>q, <2>1, <3>1
  <2> QED
    BY <2>2, <2>3
<1>16. ASSUME NEW r \in Retry, RetryReopen(r) PROVE RetryInv'
  <2>1. [r EXCEPT !.stage = "start"].child = r.child /\ [r EXCEPT !.stage = "start"].number = r.number
    BY DEF Retry
  <2>2. UNCHANGED <<number, attempt>> /\ retrying' \subseteq retrying \cup {[r EXCEPT !.stage = "start"]}
    BY <1>16 DEF RetryReopen
  <2>3. r \in retrying
    BY <1>16 DEF RetryReopen
  <2> QED
    BY <1>0, <2>1, <2>2, <2>3 DEF RetryInv
<1>17. ASSUME NEW r \in Retry, RetryStart(r) PROVE RetryInv'
  BY <1>17, <1>q DEF RetryStart, Starts, TypeOK, Retry
<1>18. ASSUME NEW r \in Retry, RetryLost(r) PROVE RetryInv'
  BY <1>18, <1>q DEF RetryLost
<1>19. ASSUME NEW c \in Children, CancelChild(c) PROVE RetryInv'
  BY <1>19, <1>q DEF CancelChild, CancelledChild
<1>20. ASSUME NEW c \in Children, CancelFollow(c) PROVE RetryInv'
  BY <1>20, <1>q DEF CancelFollow
<1>21. ASSUME NEW c \in Children, FollowLost(c) PROVE RetryInv'
  BY <1>21, <1>q DEF FollowLost
<1>22. ASSUME NEW c \in Children, StartAgain(c) PROVE RetryInv'
  BY <1>22, <1>q DEF StartAgain, Starts, TypeOK
<1>23. ASSUME NEW c \in Children, CancelAttempt(c) PROVE RetryInv'
  BY <1>23, <1>q DEF CancelAttempt
<1>24. CASE UNCHANGED vars
  BY <1>24, <1>q DEF vars
<1> QED
  BY <1>1, <1>2, <1>3, <1>4, <1>5, <1>6, <1>7, <1>8, <1>9, <1>10, <1>11, <1>12, <1>13, <1>14,
     <1>15, <1>16, <1>17, <1>18, <1>19, <1>20, <1>21, <1>22, <1>23,
     <1>24 DEF Next

LEMMA ReviewStep ==
  TypeOK /\ ChildInv /\ RetryInv /\ InReviewIsWaiting /\ [Next]_vars => InReviewIsWaiting'
<1> SUFFICES ASSUME TypeOK, ChildInv, RetryInv, InReviewIsWaiting, [Next]_vars PROVE InReviewIsWaiting'
  OBVIOUS
<1> USE DEF TypeOK, vars, childVars, OpenOrder, ClosedStatus, Ended, Active, Outcome, Unless,
            ChildInv, Added, TakesChildren, InReviewIsWaiting
<1>1. CASE Delegate
  BY <1>1 DEF Delegate
<1>2. CASE FinalizeStamp
  BY <1>2 DEF FinalizeStamp
<1>3. CASE FinalizeCommit
  BY <1>3 DEF FinalizeCommit
<1>4. CASE CancelRead
  BY <1>4 DEF CancelRead
<1>5. ASSUME NEW C \in SUBSET Children, CancelApply(C) PROVE InReviewIsWaiting'
  BY <1>5 DEF CancelApply, CancelledChild
<1>6. ASSUME NEW c \in Children, NEW o \in Outcome, EndBegin(c, o) PROVE InReviewIsWaiting'
  BY <1>6 DEF EndBegin, MayEnd
<1>7. ASSUME NEW c \in Children, AssignRead(c) PROVE InReviewIsWaiting'
  BY <1>7 DEF AssignRead
<1>8. ASSUME NEW c \in Children, AssignInsert(c) PROVE InReviewIsWaiting'
  BY <1>8 DEF AssignInsert
<1>9. ASSUME NEW c \in Children, AssignStart(c) PROVE InReviewIsWaiting'
  BY <1>9 DEF AssignStart
<1>10. ASSUME NEW c \in Children, Run(c) PROVE InReviewIsWaiting'
  BY <1>10 DEF Run
<1>11. ASSUME NEW c \in Children, Requeue(c) PROVE InReviewIsWaiting'
  BY <1>11 DEF Requeue
<1>12. ASSUME NEW c \in Children, Submit(c) PROVE InReviewIsWaiting'
  BY <1>12 DEF Submit
<1>13. ASSUME NEW c \in Children, Settle(c) PROVE InReviewIsWaiting'
  BY <1>13 DEF Settle
<1>14. ASSUME NEW c \in Children, EndCompleted(c) PROVE InReviewIsWaiting'
  BY <1>14 DEF EndCompleted, MayComplete
<1>15. ASSUME NEW c \in Children, EndOther(c) PROVE InReviewIsWaiting'
  BY <1>15 DEF EndOther, OutOfAttempts
<1>16. ASSUME NEW r \in Retry, RetryReopen(r) PROVE InReviewIsWaiting'
  BY <1>16 DEF RetryReopen, Retry
<1>17. ASSUME NEW r \in Retry, RetryStart(r) PROVE InReviewIsWaiting'
  BY <1>17, RetryStartStarts DEF Starts
<1>18. ASSUME NEW r \in Retry, RetryLost(r) PROVE InReviewIsWaiting'
  BY <1>18 DEF RetryLost, Retry
<1>19. ASSUME NEW c \in Children, CancelChild(c) PROVE InReviewIsWaiting'
  BY <1>19 DEF CancelChild, CancelledChild
<1>20. ASSUME NEW c \in Children, CancelFollow(c) PROVE InReviewIsWaiting'
  BY <1>20 DEF CancelFollow, AttemptCancelled
<1>21. ASSUME NEW c \in Children, FollowLost(c) PROVE InReviewIsWaiting'
  BY <1>21 DEF FollowLost
<1>22. ASSUME NEW c \in Children, StartAgain(c) PROVE InReviewIsWaiting'
  BY <1>22 DEF StartAgain, Starts
<1>23. ASSUME NEW c \in Children, CancelAttempt(c) PROVE InReviewIsWaiting'
  BY <1>23 DEF CancelAttempt, AttemptCancelled
<1>24. CASE UNCHANGED vars
  BY <1>24 DEF vars
<1> QED
  BY <1>1, <1>2, <1>3, <1>4, <1>5, <1>6, <1>7, <1>8, <1>9, <1>10, <1>11, <1>12, <1>13, <1>14,
     <1>15, <1>16, <1>17, <1>18, <1>19, <1>20, <1>21, <1>22, <1>23,
     <1>24 DEF Next

-----------------------------------------------------------------------------
(* The order's row.                                                        *)

\* A dead child stays dead: nothing starts it again, and nothing completes it.
LEMMA DeadStep ==
  TypeOK /\ ChildInv /\ RetryInv /\ [Next]_vars => \A e \in Children : Dead(e) => Dead(e)'
<1> SUFFICES ASSUME TypeOK, ChildInv, RetryInv, [Next]_vars, NEW e \in Children, Dead(e) PROVE Dead(e)'
  OBVIOUS
<1> USE DEF TypeOK, vars, childVars, OpenOrder, ClosedStatus, Ended, Active, Outcome, Unless,
            ChildInv, Dead
<1>1. CASE Delegate
  BY <1>1 DEF Delegate
<1>2. CASE FinalizeStamp
  BY <1>2 DEF FinalizeStamp
<1>3. CASE FinalizeCommit
  BY <1>3 DEF FinalizeCommit
<1>4. CASE CancelRead
  BY <1>4 DEF CancelRead
<1>5. ASSUME NEW C \in SUBSET Children, CancelApply(C) PROVE Dead(e)'
  BY <1>5 DEF CancelApply, CancelledChild
<1>6. ASSUME NEW c \in Children, NEW o \in Outcome, EndBegin(c, o) PROVE Dead(e)'
  BY <1>6 DEF EndBegin, MayEnd
<1>7. ASSUME NEW c \in Children, AssignRead(c) PROVE Dead(e)'
  BY <1>7 DEF AssignRead
<1>8. ASSUME NEW c \in Children, AssignInsert(c) PROVE Dead(e)'
  BY <1>8 DEF AssignInsert
<1>9. ASSUME NEW c \in Children, AssignStart(c) PROVE Dead(e)'
  BY <1>9 DEF AssignStart
<1>10. ASSUME NEW c \in Children, Run(c) PROVE Dead(e)'
  BY <1>10 DEF Run
<1>11. ASSUME NEW c \in Children, Requeue(c) PROVE Dead(e)'
  BY <1>11 DEF Requeue
<1>12. ASSUME NEW c \in Children, Submit(c) PROVE Dead(e)'
  BY <1>12 DEF Submit
<1>13. ASSUME NEW c \in Children, Settle(c) PROVE Dead(e)'
  BY <1>13 DEF Settle
<1>14. ASSUME NEW c \in Children, EndCompleted(c) PROVE Dead(e)'
  BY <1>14 DEF EndCompleted, MayComplete
<1>15. ASSUME NEW c \in Children, EndOther(c) PROVE Dead(e)'
  BY <1>15 DEF EndOther, OutOfAttempts
<1>16. ASSUME NEW r \in Retry, RetryReopen(r) PROVE Dead(e)'
  BY <1>16 DEF RetryReopen, Retry
<1>17. ASSUME NEW r \in Retry, RetryStart(r) PROVE Dead(e)'
  BY <1>17, RetryStartStarts DEF Starts
<1>18. ASSUME NEW r \in Retry, RetryLost(r) PROVE Dead(e)'
  BY <1>18 DEF RetryLost, Retry
<1>19. ASSUME NEW c \in Children, CancelChild(c) PROVE Dead(e)'
  BY <1>19 DEF CancelChild, CancelledChild
<1>20. ASSUME NEW c \in Children, CancelFollow(c) PROVE Dead(e)'
  BY <1>20 DEF CancelFollow, AttemptCancelled
<1>21. ASSUME NEW c \in Children, FollowLost(c) PROVE Dead(e)'
  BY <1>21 DEF FollowLost
<1>22. ASSUME NEW c \in Children, StartAgain(c) PROVE Dead(e)'
  BY <1>22 DEF StartAgain, Starts
<1>23. ASSUME NEW c \in Children, CancelAttempt(c) PROVE Dead(e)'
  BY <1>23 DEF CancelAttempt, AttemptCancelled
<1>24. CASE UNCHANGED vars
  BY <1>24 DEF vars
<1> QED
  BY <1>1, <1>2, <1>3, <1>4, <1>5, <1>6, <1>7, <1>8, <1>9, <1>10, <1>11, <1>12, <1>13, <1>14,
     <1>15, <1>16, <1>17, <1>18, <1>19, <1>20, <1>21, <1>22, <1>23,
     <1>24 DEF Next

LEMMA LockStep == TypeOK /\ ChildInv /\ RetryInv /\ LockInv /\ [Next]_vars => LockInv'
<1> SUFFICES ASSUME TypeOK, ChildInv, RetryInv, LockInv, [Next]_vars PROVE LockInv'
  OBVIOUS
<1>0. SomeDead => SomeDead'
  BY DeadStep DEF SomeDead
<1> USE DEF TypeOK, vars, childVars, OpenOrder, ClosedStatus, Ended, Active, Outcome, Ending,
            Unless, ChildInv, Added, TakesChildren, LockInv, AllCompleted, SomeDead, Dead
<1>1. CASE Delegate
  BY <1>1 DEF Delegate
<1>2. CASE FinalizeStamp
  BY <1>2 DEF FinalizeStamp
<1>3. CASE FinalizeCommit
  BY <1>3 DEF FinalizeCommit
<1>4. CASE CancelRead
  BY <1>4 DEF CancelRead
<1>5. ASSUME NEW C \in SUBSET Children, CancelApply(C) PROVE LockInv'
  BY <1>5 DEF CancelApply, CancelledChild
<1>6. ASSUME NEW c \in Children, NEW o \in Outcome, EndBegin(c, o) PROVE LockInv'
  BY <1>6 DEF EndBegin, MayEnd
<1>7. ASSUME NEW c \in Children, AssignRead(c) PROVE LockInv'
  BY <1>7 DEF AssignRead
<1>8. ASSUME NEW c \in Children, AssignInsert(c) PROVE LockInv'
  BY <1>8 DEF AssignInsert
<1>9. ASSUME NEW c \in Children, AssignStart(c) PROVE LockInv'
  BY <1>9 DEF AssignStart
<1>10. ASSUME NEW c \in Children, Run(c) PROVE LockInv'
  BY <1>10 DEF Run
<1>11. ASSUME NEW c \in Children, Requeue(c) PROVE LockInv'
  BY <1>11 DEF Requeue
<1>12. ASSUME NEW c \in Children, Submit(c) PROVE LockInv'
  BY <1>12 DEF Submit
<1>13. ASSUME NEW c \in Children, Settle(c) PROVE LockInv'
  <2>1. UNCHANGED <<order, planFinal, childVars, finalizing>> /\ (SomeDead' <=> SomeDead)
    BY <1>13 DEF Settle
  <2>2. Added' = Added /\ c \in Added /\ order # "pending"
    BY <1>13, <2>1 DEF Settle
  <2>3. AllCompleted(Added)' <=> AllCompleted(Added)
    BY <2>1, <2>2
  <2>4. \A d \in Children : AllCompleted(Added \ {d})' <=> AllCompleted(Added \ {d})
    BY <2>1, <2>2
  <2>5. ASSUME NEW d \in Children
        PROVE /\ lock' = d => ending'[d] \in {"settled", "last"}
              /\ ending'[d] = "last" => lock' = d /\ AllCompleted(Added \ {d})'
              /\ ending'[d] = "settled" /\ lock' = d => ~AllCompleted(Added \ {d})'
              /\ ending'[d] = "settled" /\ lock' # d => order' \in ClosedStatus \/ SomeDead'
    <3> HIDE DEF AllCompleted, SomeDead, Dead, Added, ChildInv
    <3>1. CASE d = c
      BY <3>1, <1>13, <2>1, <2>2, <2>4 DEF Settle, OrderStatus
    <3>2. CASE d # c
      <4>1. ending'[d] = ending[d] /\ (lock' = d => lock = d) /\ (lock = d => lock' = d)
        BY <3>2, <1>13 DEF Settle
      <4> QED
        BY <4>1, <2>1, <2>4
    <3> QED
      BY <3>1, <3>2
  <2> HIDE DEF AllCompleted, SomeDead, Dead, Added, ChildInv
  <2> QED
    BY <1>13, <2>1, <2>2, <2>3, <2>5 DEF Settle
<1>14. ASSUME NEW c \in Children, EndCompleted(c) PROVE LockInv'
  BY <1>14 DEF EndCompleted, MayComplete
<1>15. ASSUME NEW c \in Children, EndOther(c) PROVE LockInv'
  BY <1>15 DEF EndOther, OutOfAttempts
<1>16. ASSUME NEW r \in Retry, RetryReopen(r) PROVE LockInv'
  BY <1>16 DEF RetryReopen, Retry
<1>17. ASSUME NEW r \in Retry, RetryStart(r) PROVE LockInv'
  BY <1>17, RetryStartStarts DEF Starts
<1>18. ASSUME NEW r \in Retry, RetryLost(r) PROVE LockInv'
  BY <1>18 DEF RetryLost, Retry
<1>19. ASSUME NEW c \in Children, CancelChild(c) PROVE LockInv'
  BY <1>19 DEF CancelChild, CancelledChild
<1>20. ASSUME NEW c \in Children, CancelFollow(c) PROVE LockInv'
  BY <1>20 DEF CancelFollow, AttemptCancelled
<1>21. ASSUME NEW c \in Children, FollowLost(c) PROVE LockInv'
  BY <1>21 DEF FollowLost
<1>22. ASSUME NEW c \in Children, StartAgain(c) PROVE LockInv'
  BY <1>22 DEF StartAgain, Starts
<1>23. ASSUME NEW c \in Children, CancelAttempt(c) PROVE LockInv'
  BY <1>23 DEF CancelAttempt, AttemptCancelled
<1>24. CASE UNCHANGED vars
  BY <1>24 DEF vars
<1> QED
  BY <1>1, <1>2, <1>3, <1>4, <1>5, <1>6, <1>7, <1>8, <1>9, <1>10, <1>11, <1>12, <1>13, <1>14,
     <1>15, <1>16, <1>17, <1>18, <1>19, <1>20, <1>21, <1>22, <1>23,
     <1>24 DEF Next

-----------------------------------------------------------------------------
(* The theorems.                                                           *)

LEMMA Invariant == Spec => []IInv
<1>1. Init => IInv
  <2> SUFFICES ASSUME Init PROVE IInv
    OBVIOUS
  <2>1. TypeOK
    <3>1. 0 \in 0..MaxAttempts /\ {} \subseteq SUBSET Children /\ {} \subseteq Children
      OBVIOUS
    <3> QED
      BY <3>1 DEF Init, TypeOK, OrderStatus, ChildStatus, Working, Ending
  <2>2. ChildInv /\ RetryInv /\ InReviewIsWaiting
    BY DEF Init, ChildInv, RetryInv, InReviewIsWaiting
  <2>3. Added = {}
    BY DEF Init, Added
  <2>4. LockInv
    BY <2>3 DEF Init, LockInv
  <2> QED
    BY <2>1, <2>2, <2>4 DEF IInv
<1>2. IInv /\ [Next]_vars => IInv'
  BY TypeStep, ChildStep, RetryStep, ReviewStep, LockStep DEF IInv
<1> QED
  BY <1>1, <1>2, PTL DEF Spec

\* Every variable keeps its type (TypeOK).  An attempt's number stays below the cap because
\* a pending retry was granted below it, so this needs the invariant of the retries.
THEOREM TypeCorrect == Spec => []TypeOK
BY Invariant, PTL DEF IInv

\* What a manager finds in review has a deliverable that waits, and nothing else waits but
\* what was closed meanwhile (submit_deliverable, review_work, cancel_work).
THEOREM ReviewQueue == Spec => []InReviewIsWaiting
BY Invariant, PTL DEF IInv

-----------------------------------------------------------------------------
(* The order as its manager sees it.                                       *)

\* The abstract children are the added ones, done when they are completed.
LEMMA PlanChildren ==
  /\ Plan!Added = Added
  /\ \A C \in SUBSET Children : Plan!Done(C) <=> AllCompleted(C)
BY DEF Plan!Added, Added, Plan!Done, AllCompleted, Phase, ClosedStatus

\* A step that leaves the order and the phases alone is not seen.
LEMMA PlanStutter ==
  ASSUME UNCHANGED <<order, planFinal>>, \A c \in Children : Phase(c)' = Phase(c)
  PROVE  UNCHANGED Plan!vars
<1>1. [c \in Children |-> Phase(c)]' = [c \in Children |-> Phase(c)]
  OBVIOUS
<1> QED
  BY <1>1 DEF Plan!vars

\* A step that changes the phase of one child changes one entry of work.
LEMMA PhaseChange ==
  ASSUME NEW c \in Children, \A d \in Children \ {c} : Phase(d)' = Phase(d)
  PROVE  [d \in Children |-> Phase(d)]' = [[d \in Children |-> Phase(d)] EXCEPT ![c] = Phase(c)']
OBVIOUS

\* An active attempt is not spent, and its child was added and is not completed.
LEMMA ActiveIsOpen ==
  ASSUME TypeOK, ChildInv, NEW c \in Children, attempt[c] \in Active
  PROVE  child[c] # "none" /\ ~Spent(c) /\ child[c] # "completed"
BY DEF TypeOK, ChildInv, Active, Ended, Spent

\* The plan and its children: each step of the order's row is one of the abstract order.
LEMMA PlanStep == IInv /\ [Next]_vars => [Plan!Next]_(Plan!vars)
<1> SUFFICES ASSUME IInv, [Next]_vars PROVE [Plan!Next]_(Plan!vars)
  OBVIOUS
<1> USE DEF IInv, OpenOrder, ClosedStatus, Plan!InWork, Plan!Closed
<1>q. ASSUME UNCHANGED <<order, planFinal, child, number, attempt>> PROVE UNCHANGED Plan!vars
  BY <1>q, PlanStutter DEF Phase, Spent
<1>1. CASE Delegate
  <2>1. \A c \in Children : Phase(c)' = Phase(c)
    BY <1>1 DEF Delegate, childVars, Phase, Spent
  <2>2. [c \in Children |-> Phase(c)]' = [c \in Children |-> Phase(c)]
    BY <2>1
  <2>3. Plan!Delegate
    BY <1>1, <2>2 DEF Delegate, Plan!Delegate
  <2> QED
    BY <2>3 DEF Plan!Next
<1>2. CASE FinalizeStamp
  BY <1>2, <1>q DEF FinalizeStamp, childVars
<1>3. CASE FinalizeCommit
  <2>1. \A c \in Children : Phase(c)' = Phase(c)
    BY <1>3 DEF FinalizeCommit, childVars, Phase, Spent
  <2>2. [c \in Children |-> Phase(c)]' = [c \in Children |-> Phase(c)]
    BY <2>1
  <2>3. /\ order \in OpenOrder /\ ~planFinal /\ Added # {}
        /\ finalizing = "all" <=> AllCompleted(Added)
    BY <1>3 DEF FinalizeCommit, LockInv
  <2>4. Plan!Done(Plan!Added) <=> AllCompleted(Added)
    BY PlanChildren DEF Added
  <2>5. Plan!Finalize
    BY <1>3, <2>2, <2>3, <2>4, PlanChildren DEF FinalizeCommit, Plan!Finalize, Plan!Completes
  <2> QED
    BY <2>5 DEF Plan!Next
<1>4. CASE CancelRead
  BY <1>4, <1>q DEF CancelRead, childVars
<1>5. ASSUME NEW C \in SUBSET Children, CancelApply(C) PROVE [Plan!Next]_(Plan!vars)
  <2>1. \A c \in Children :
          Phase(c)' = IF c \in C /\ Phase(c) \in {"open", "dead"} THEN "cancelled" ELSE Phase(c)
    BY <1>5 DEF CancelApply, CancelledChild, Unless, Phase, Spent, TypeOK, ChildInv, Added
  <2>2. [c \in Children |-> Phase(c)]' =
          [c \in Children |-> IF c \in C /\ [d \in Children |-> Phase(d)][c] \in {"open", "dead"}
                              THEN "cancelled" ELSE [d \in Children |-> Phase(d)][c]]
    BY <2>1
  <2>3. C \subseteq Plan!Added
    BY <1>5, PlanChildren DEF CancelApply, ChildInv
  <2>4. Plan!CancelOrder(C)
    BY <1>5, <2>2, <2>3 DEF CancelApply, Plan!CancelOrder, Plan!Dropped
  <2> QED
    BY <2>4 DEF Plan!Next
<1>6. ASSUME NEW c \in Children, NEW o \in Outcome, EndBegin(c, o) PROVE [Plan!Next]_(Plan!vars)
  BY <1>6, <1>q DEF EndBegin, childVars
<1>7. ASSUME NEW c \in Children, AssignRead(c) PROVE [Plan!Next]_(Plan!vars)
  BY <1>7, <1>q DEF AssignRead, childVars
<1>8. ASSUME NEW c \in Children, AssignInsert(c) PROVE [Plan!Next]_(Plan!vars)
  <2>1. CASE TakesChildren /\ child[c] = "none"
    <3>1. Phase(c) = "none" /\ Phase(c)' = "open" /\ order' = "in_progress"
      BY <1>8, <2>1 DEF AssignInsert, Phase, Spent, TypeOK, ChildInv, Ended
    <3>2. \A d \in Children \ {c} : Phase(d)' = Phase(d)
      BY <1>8, <2>1 DEF AssignInsert, Phase, Spent, TypeOK
    <3>3. Plan!Add(c)
      BY <1>8, <2>1, <3>1, <3>2, PhaseChange DEF AssignInsert, TakesChildren, Plan!Add
    <3> QED
      BY <3>3 DEF Plan!Next
  <2>2. CASE ~(TakesChildren /\ child[c] = "none")
    BY <1>8, <2>2, <1>q DEF AssignInsert
  <2> QED
    BY <2>1, <2>2
<1>9. ASSUME NEW c \in Children, AssignStart(c) PROVE [Plan!Next]_(Plan!vars)
  <2>1. \A d \in Children : Phase(d)' = Phase(d)
    BY <1>9 DEF AssignStart, Phase, Spent, TypeOK, ChildInv, Ended
  <2> QED
    BY <1>9, <2>1, PlanStutter DEF AssignStart
<1>10. ASSUME NEW c \in Children, Run(c) PROVE [Plan!Next]_(Plan!vars)
  <2>1. \A d \in Children : Phase(d)' = Phase(d)
    BY <1>10, ActiveIsOpen DEF Run, Phase, Spent, TypeOK, Active, Unless
  <2> QED
    BY <1>10, <2>1, PlanStutter DEF Run
<1>11. ASSUME NEW c \in Children, Requeue(c) PROVE [Plan!Next]_(Plan!vars)
  <2>1. \A d \in Children : Phase(d)' = Phase(d)
    BY <1>11, ActiveIsOpen DEF Requeue, Phase, Spent, TypeOK, Active
  <2> QED
    BY <1>11, <2>1, PlanStutter DEF Requeue
<1>12. ASSUME NEW c \in Children, Submit(c) PROVE [Plan!Next]_(Plan!vars)
  <2>1. \A d \in Children : Phase(d)' = Phase(d)
    BY <1>12, ActiveIsOpen DEF Submit, Phase, Spent, TypeOK, Active, Unless
  <2> QED
    BY <1>12, <2>1, PlanStutter DEF Submit
<1>13. ASSUME NEW c \in Children, Settle(c) PROVE [Plan!Next]_(Plan!vars)
  BY <1>13, <1>q DEF Settle, childVars
<1>14. ASSUME NEW c \in Children, EndCompleted(c) PROVE [Plan!Next]_(Plan!vars)
  <2>1. attempt[c] \in Active /\ child[c] # "none" /\ ~Spent(c) /\ child[c] # "completed"
    BY <1>14, ActiveIsOpen DEF EndCompleted, ChildInv
  <2>2. \A d \in Children \ {c} : Phase(d)' = Phase(d)
    BY <1>14 DEF EndCompleted, Phase, Spent, TypeOK
  <2>3. CASE child[c] = "cancelled"
    <3>1. order' = order /\ Phase(c)' = Phase(c)
      BY <1>14, <2>3 DEF EndCompleted, Unless, Phase, TypeOK
    <3> QED
      BY <1>14, <2>2, <3>1, PlanStutter DEF EndCompleted
  <2>4. CASE child[c] # "cancelled"
    <3>1. Phase(c) = "open" /\ Phase(c)' = "completed"
      BY <1>14, <2>1, <2>4 DEF EndCompleted, Unless, Phase, TypeOK
    <3>2. Plan!Done(Plan!Added \ {c}) <=> AllCompleted(Added \ {c})
      BY PlanChildren DEF Added
    <3>3. order' = IF order \in OpenOrder /\ planFinal /\ AllCompleted(Added \ {c})
                   THEN "completed" ELSE order
      <4>0. order' = IF ending[c] = "last" /\ order \in OpenOrder /\ planFinal
                     THEN "completed" ELSE order
        BY <1>14, <2>1, <2>4 DEF EndCompleted, Unless, MayComplete
      <4>1. CASE ending[c] = "last"
        BY <4>0, <4>1 DEF LockInv
      <4>2. CASE ending[c] = "settled" /\ lock = c
        BY <4>0, <4>2 DEF LockInv
      <4>3. CASE ending[c] = "settled" /\ lock # c
        <5>1. order \in ClosedStatus \/ SomeDead
          BY <4>3 DEF LockInv
        <5>2. CASE order \in ClosedStatus
          BY <4>0, <5>2
        <5>3. CASE SomeDead
          <6>1. PICK e \in Children : Dead(e)
            BY <5>3 DEF SomeDead
          <6>2. e # c /\ e \in Added /\ child[e] # "completed"
            BY <6>1, <2>1 DEF Dead, Active, Added, ChildInv
          <6> QED
            BY <4>0, <4>3, <6>2 DEF AllCompleted
        <5> QED
          BY <5>1, <5>2, <5>3
      <4> QED
        BY <1>14, <4>1, <4>2, <4>3 DEF EndCompleted
    <3>4. Plan!Complete(c)
      BY <1>14, <3>1, <2>2, <3>2, <3>3, PhaseChange DEF EndCompleted, Plan!Complete, Plan!Completes
    <3> QED
      BY <3>4 DEF Plan!Next
  <2> QED
    BY <2>3, <2>4
<1>15. ASSUME NEW c \in Children, EndOther(c) PROVE [Plan!Next]_(Plan!vars)
  <2>1. attempt[c] \in Active /\ child[c] # "none" /\ ~Spent(c) /\ child[c] # "completed"
    BY <1>15, ActiveIsOpen DEF EndOther, ChildInv, Outcome, Ended
  <2>2. \A d \in Children \ {c} : Phase(d)' = Phase(d)
    BY <1>15 DEF EndOther, Phase, Spent, TypeOK
  <2>3. Phase(c) = IF child[c] = "cancelled" THEN "cancelled" ELSE "open"
    BY <2>1 DEF Phase
  <2>4. CASE OutOfAttempts(c)
    <3>1. Spent(c)'
      BY <1>15, <2>4 DEF EndOther, OutOfAttempts, Spent, TypeOK
    <3>2. Phase(c)' = IF Phase(c) = "open" THEN "dead" ELSE Phase(c)
      BY <1>15, <2>1, <2>3, <3>1 DEF EndOther, Unless, Phase, TypeOK
    <3>3. Plan!Fail(c)
      BY <1>15, <2>2, <2>3, <2>4, <3>2, PhaseChange DEF EndOther, Plan!Fail
    <3> QED
      BY <3>3 DEF Plan!Next
  <2>5. CASE ~OutOfAttempts(c)
    <3>1. ~Spent(c)'
      BY <1>15, <2>5 DEF EndOther, OutOfAttempts, Spent, TypeOK, ChildInv, Outcome, Ended
    <3>2. Phase(c)' = Phase(c)
      BY <1>15, <2>1, <2>3, <3>1 DEF EndOther, Unless, Phase, TypeOK
    <3> QED
      BY <1>15, <2>2, <2>5, <3>2, PlanStutter DEF EndOther
  <2> QED
    BY <2>4, <2>5
<1>16. ASSUME NEW r \in Retry, RetryReopen(r) PROVE [Plan!Next]_(Plan!vars)
  <2>1. \A d \in Children : Phase(d)' = Phase(d)
    BY <1>16 DEF RetryReopen, Phase, Spent, TypeOK, Retry, ClosedStatus
  <2>2. CASE order = "failed"
    <3>1. Plan!Reopen
      BY <1>16, <2>1, <2>2 DEF RetryReopen, Plan!Reopen
    <3> QED
      BY <3>1 DEF Plan!Next
  <2>3. CASE order # "failed"
    BY <1>16, <2>1, <2>3, PlanStutter DEF RetryReopen
  <2> QED
    BY <2>2, <2>3
<1>17. ASSUME NEW r \in Retry, RetryStart(r) PROVE [Plan!Next]_(Plan!vars)
  <2>1. \A d \in Children : Phase(d)' = Phase(d)
    BY <1>17 DEF RetryStart, Starts, Phase, Spent, TypeOK, RetryInv, Retry
  <2> QED
    BY <1>17, <2>1, PlanStutter DEF RetryStart
<1>18. ASSUME NEW r \in Retry, RetryLost(r) PROVE [Plan!Next]_(Plan!vars)
  BY <1>18, <1>q DEF RetryLost, childVars
<1>19. ASSUME NEW c \in Children, CancelChild(c) PROVE [Plan!Next]_(Plan!vars)
  <2>1. \A d \in Children :
          Phase(d)' = IF d \in {c} /\ Phase(d) \in {"open", "dead"} THEN "cancelled" ELSE Phase(d)
    BY <1>19 DEF CancelChild, CancelledChild, Unless, Phase, Spent, TypeOK
  <2>2. [d \in Children |-> Phase(d)]' =
          [d \in Children |-> IF d \in {c} /\ [e \in Children |-> Phase(e)][d] \in {"open", "dead"}
                              THEN "cancelled" ELSE [e \in Children |-> Phase(e)][d]]
    BY <2>1
  <2>3. c \in Plan!Added
    BY <1>19, PlanChildren DEF CancelChild, Added
  <2>4. Plan!CancelChild(c)
    BY <1>19, <2>2, <2>3 DEF CancelChild, Plan!CancelChild, Plan!Dropped
  <2> QED
    BY <2>4 DEF Plan!Next
<1>20. ASSUME NEW c \in Children, CancelFollow(c) PROVE [Plan!Next]_(Plan!vars)
  BY <1>20, <1>q DEF CancelFollow, AttemptCancelled
<1>21. ASSUME NEW c \in Children, FollowLost(c) PROVE [Plan!Next]_(Plan!vars)
  BY <1>21, <1>q DEF FollowLost, childVars
<1>22. ASSUME NEW c \in Children, StartAgain(c) PROVE [Plan!Next]_(Plan!vars)
  <2>1. \A d \in Children : Phase(d)' = Phase(d)
    BY <1>22 DEF StartAgain, Starts, Phase, Spent, TypeOK, Ended
  <2> QED
    BY <1>22, <2>1, PlanStutter DEF StartAgain
<1>23. ASSUME NEW c \in Children, CancelAttempt(c) PROVE [Plan!Next]_(Plan!vars)
  BY <1>23, <1>q DEF CancelAttempt, AttemptCancelled
<1>24. CASE UNCHANGED vars
  BY <1>24, <1>q DEF vars, childVars
<1> QED
  BY <1>1, <1>2, <1>3, <1>4, <1>5, <1>6, <1>7, <1>8, <1>9, <1>10, <1>11, <1>12, <1>13, <1>14,
     <1>15, <1>16, <1>17, <1>18, <1>19, <1>20, <1>21, <1>22, <1>23,
     <1>24 DEF Next

\* Every step of the order, its children and the requests that come late is a step of the
\* abstract order or leaves it alone, whatever the number of children: it completes in the
\* step that completes its final plan and at no other time (ImplementsPlan;
\* _complete_if_done, finalize_plan, assign_task).
THEOREM PlanImplemented == Spec => ImplementsPlan
<1>1. Init => Plan!Init
  BY DEF Init, Plan!Init, Phase
<1> QED
  BY <1>1, PlanStep, Invariant, PTL DEF Spec, ImplementsPlan, Plan!Spec

-----------------------------------------------------------------------------
(* What follows from the abstract order alone.                             *)

\* A completed order is a final plan that is done; an order in work is not; and one that
\* failed has a child that keeps it from being done when a retry reopens it.
PlanInv ==
  /\ order = "pending" => ~planFinal
  /\ planFinal => Plan!Added # {}
  /\ order = "completed" => planFinal /\ Plan!Done(Plan!Added)
  /\ order \in Plan!InWork /\ planFinal => ~Plan!Done(Plan!Added)
  /\ order = "failed" => \E c \in Children : Phase(c) \in {"dead", "cancelled"}

LEMMA PlanInvStep == PlanInv /\ [Plan!Next]_(Plan!vars) => PlanInv'
<1> SUFFICES ASSUME PlanInv, [Plan!Next]_(Plan!vars) PROVE PlanInv'
  OBVIOUS
<1> USE DEF PlanInv, Plan!Added, Plan!Done, Plan!InWork, Plan!Closed, Plan!Completes
<1>1. CASE Plan!Delegate
  BY <1>1 DEF Plan!Delegate
<1>2. CASE Plan!Finalize
  BY <1>2 DEF Plan!Finalize
<1>3. CASE Plan!Reopen
  BY <1>3 DEF Plan!Reopen
<1>4. ASSUME NEW c \in Children, Plan!Add(c) PROVE PlanInv'
  BY <1>4 DEF Plan!Add
<1>5. ASSUME NEW c \in Children, Plan!Complete(c) PROVE PlanInv'
  <2>1. /\ Phase(c) = "open" /\ Phase(c)' = "completed"
        /\ \A d \in Children \ {c} : Phase(d)' = Phase(d)
    BY <1>5 DEF Plan!Complete
  <2>2. Plan!Added' = Plan!Added /\ c \in Plan!Added
    BY <2>1
  <2>3. /\ ~Plan!Done(Plan!Added)
        /\ Plan!Done(Plan!Added)' <=> Plan!Done(Plan!Added \ {c})
    BY <2>1, <2>2
  <2> HIDE DEF Plan!Added, Plan!Done
  <2> QED
    BY <1>5, <2>2, <2>3 DEF Plan!Complete
<1>6. ASSUME NEW c \in Children, Plan!Fail(c) PROVE PlanInv'
  <2>1. Phase(c)' \in {"dead", "cancelled"} /\ \A d \in Children \ {c} : Phase(d)' = Phase(d)
    BY <1>6 DEF Plan!Fail
  <2>2. Plan!Added' = Plan!Added /\ c \in Plan!Added
    BY <1>6, <2>1 DEF Plan!Fail
  <2>3. ~Plan!Done(Plan!Added) /\ ~Plan!Done(Plan!Added)'
    BY <1>6, <2>1, <2>2 DEF Plan!Fail
  <2> HIDE DEF Plan!Added, Plan!Done
  <2> QED
    BY <1>6, <2>2, <2>3 DEF Plan!Fail
<1>d. ASSUME NEW C \in SUBSET Children, Plan!Dropped(C)
      PROVE  /\ Plan!Added' = Plan!Added /\ (Plan!Done(Plan!Added)' <=> Plan!Done(Plan!Added))
             /\ \A c \in Children :
                  Phase(c) \in {"dead", "cancelled"} => Phase(c)' \in {"dead", "cancelled"}
  <2>1. \A c \in Children :
          Phase(c)' = IF c \in C /\ Phase(c) \in {"open", "dead"} THEN "cancelled" ELSE Phase(c)
    BY <1>d DEF Plan!Dropped
  <2> QED
    BY <2>1
<1>7. ASSUME NEW c \in Children, Plan!CancelChild(c) PROVE PlanInv'
  <2> HIDE DEF Plan!Added, Plan!Done
  <2> QED
    BY <1>7, <1>d DEF Plan!CancelChild
<1>8. ASSUME NEW C \in SUBSET Children, Plan!CancelOrder(C) PROVE PlanInv'
  <2> HIDE DEF Plan!Added, Plan!Done
  <2> QED
    BY <1>8, <1>d DEF Plan!CancelOrder
<1>9. CASE UNCHANGED Plan!vars
  BY <1>9 DEF Plan!vars
<1> QED
  BY <1>1, <1>2, <1>3, <1>4, <1>5, <1>6, <1>7, <1>8, <1>9 DEF Plan!Next

LEMMA PlanInvariant == Spec => []PlanInv
<1>1. Init => PlanInv
  BY DEF Init, PlanInv, Plan!InWork
<1> QED
  BY <1>1, PlanInvStep, PlanStep, Invariant, PTL DEF Spec

\* A completed order has a final plan and every child of it completed, of however many
\* children and in whatever order they were added, retried, cancelled and completed.
THEOREM CompletedIsComplete == Spec => []CompletedMeansAll
<1>1. PlanInv => CompletedMeansAll
  BY PlanChildren DEF PlanInv, CompletedMeansAll, Added
<1> QED
  BY <1>1, PlanInvariant, PTL

\* No order stays open with its plan final and every child completed: of two last
\* children, or a last child and finalize_plan, the one that takes the order's row second
\* sees what the other wrote (_complete_if_done, finalize_plan).
THEOREM NothingIsMissed == Spec => []NoMissedCompletion
<1>1. PlanInv => NoMissedCompletion
  BY PlanChildren DEF PlanInv, NoMissedCompletion, Added, OpenOrder, Plan!InWork
<1> QED
  BY <1>1, PlanInvariant, PTL

\* A completed or cancelled order, and a completed or cancelled child, is never written
\* again (the conditions of _complete_if_done, _fail_order, cancel_work and every write of
\* a task's status).
THEOREM OrderStaysFinal == Spec => OrderIsFinal
<1> DEFINE Final == /\ order \in ClosedStatus => order' = order
                    /\ \A c \in Children : child[c] \in ClosedStatus => child'[c] = child[c]
<1>1. [Plan!Next]_(Plan!vars) => /\ order \in ClosedStatus => order' = order
                                 /\ \A c \in Children : Phase(c) \in ClosedStatus => Phase(c)' = Phase(c)
  <2> SUFFICES ASSUME [Plan!Next]_(Plan!vars)
               PROVE  /\ order \in ClosedStatus => order' = order
                      /\ \A c \in Children : Phase(c) \in ClosedStatus => Phase(c)' = Phase(c)
    OBVIOUS
  <2> USE DEF ClosedStatus, Plan!InWork, Plan!Closed, Plan!Completes, Plan!Dropped
  <2>1. CASE Plan!Delegate \/ Plan!Finalize \/ Plan!Reopen
    BY <2>1 DEF Plan!Delegate, Plan!Finalize, Plan!Reopen
  <2>2. ASSUME NEW c \in Children, Plan!Add(c) \/ Plan!Complete(c) \/ Plan!Fail(c)
        PROVE  /\ order \in ClosedStatus => order' = order
               /\ \A d \in Children : Phase(d) \in ClosedStatus => Phase(d)' = Phase(d)
    BY <2>2 DEF Plan!Add, Plan!Complete, Plan!Fail
  <2>3. ASSUME NEW c \in Children, Plan!CancelChild(c)
        PROVE  /\ order \in ClosedStatus => order' = order
               /\ \A d \in Children : Phase(d) \in ClosedStatus => Phase(d)' = Phase(d)
    BY <2>3 DEF Plan!CancelChild
  <2>4. ASSUME NEW C \in SUBSET Children, Plan!CancelOrder(C)
        PROVE  /\ order \in ClosedStatus => order' = order
               /\ \A d \in Children : Phase(d) \in ClosedStatus => Phase(d)' = Phase(d)
    BY <2>4 DEF Plan!CancelOrder
  <2>5. CASE UNCHANGED Plan!vars
    BY <2>5 DEF Plan!vars
  <2> QED
    BY <2>1, <2>2, <2>3, <2>4, <2>5 DEF Plan!Next
<1>2. \A c \in Children : child[c] \in ClosedStatus => Phase(c) = child[c]
  BY DEF Phase, ClosedStatus
<1>3. \A c \in Children : Phase(c)' \in ClosedStatus => Phase(c)' = child'[c]
  BY DEF Phase, ClosedStatus
<1>4. IInv /\ [Next]_vars => Final
  BY <1>1, <1>2, <1>3, PlanStep
<1> QED
  BY <1>4, Invariant, PTL DEF Spec, OrderIsFinal
=============================================================================
