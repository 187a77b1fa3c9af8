-------------------------- MODULE ChatTurns_proofs --------------------------
(***************************************************************************)
(* Theorems about ChatTurns, for any turns, sessions, workers and bounds.  *)
(***************************************************************************)
EXTENDS ChatTurns, TLAPS

USE TurnsAssumption, SessionAssumption, WorkerAssumption, BoundAssumption

-----------------------------------------------------------------------------
(* Types.                                                                  *)

\* Replacing a task's stage, or dropping a task, keeps a set of tasks.
LEMMA TaskEdits ==
  ASSUME tasks \subseteq Task, NEW k \in tasks, NEW s \in Stage
  PROVE  /\ EndTask(k) => tasks' \subseteq Task
         /\ SetStage(k, s) => tasks' \subseteq Task
BY DEF Task, EndTask, SetStage

\* Every variable keeps its type (TypeOK): the columns of chat_turns, the sweep and
\* cancel requests in progress, and the workers' tasks.
THEOREM TypeCorrect == Spec => []TypeOK
<1>1. Init => TypeOK
  BY DEF Init, TypeOK, Status
<1>2. TypeOK /\ [Next]_vars => TypeOK'
  <2> SUFFICES ASSUME TypeOK, [Next]_vars PROVE TypeOK'
    OBVIOUS
  <2>1. ASSUME NEW t \in Turns, TurnStep(t) PROVE TypeOK'
    <3>1. CASE Create(t)
      BY <3>1 DEF Create, TypeOK, Status
    <3>2. CASE CancelQueued(t)
      <4>1. CASE status' = [status EXCEPT ![t] = "cancelled"] /\ cancel' = [cancel EXCEPT ![t] = TRUE]
                 /\ UNCHANGED <<claimedBy, lease, attempts, replies, sweeps,
                                cancelling, mode, tasks>>
        BY <4>1 DEF TypeOK, Status, Terminal
      <4>2. CASE /\ cancelling' = [cancelling EXCEPT ![t] = @ \cup {"flag"}]
                 /\ UNCHANGED <<rowVars, sweeps, mode, tasks>>
        BY <4>2 DEF TypeOK, rowVars
      <4> QED
        BY <3>2, <4>1, <4>2 DEF CancelQueued
    <3>3. CASE CancelActive(t)
      BY <3>3 DEF CancelActive, TypeOK, Active
    <3>4. CASE LeaseLapses(t)
      BY <3>4 DEF LeaseLapses, TypeOK
    <3>5. CASE SweepReads(t)
      BY <3>5 DEF SweepReads, Decide, TypeOK, Decision, Outcome, rowVars
    <3>6. CASE QueueExpires(t)
      BY <3>6 DEF QueueExpires, TypeOK, Status, Terminal
    <3>7. ASSUME NEW d \in Decision, SweepApplies(t, d) PROVE TypeOK'
      BY <3>7 DEF SweepApplies, TypeOK, Decision, Outcome, Status, Terminal
    <3> QED
      BY <2>1, <3>1, <3>2, <3>3, <3>4, <3>5, <3>6, <3>7 DEF TurnStep
  <2>2. ASSUME NEW w \in Workers, WorkerStep(w) PROVE TypeOK'
    <3>1. ASSUME NEW t \in Turns, ClaimRow(w, t)
          PROVE  tasks' \subseteq Task => TypeOK'
      BY <3>1 DEF ClaimRow, TypeOK, Status, Active
    <3>2. ASSUME NEW t \in Turns, Claim(w, t) PROVE TypeOK'
      <4>1. [worker |-> w, turn |-> t, epoch |-> attempts[t] + 1,
             stage |-> "starting", notified |-> FALSE] \in Task
        BY DEF TypeOK, Task, Stage
      <4>2. tasks' \subseteq Task
        BY <3>2, <4>1 DEF Claim, TypeOK
      <4> QED
        BY <3>1, <3>2, <4>2 DEF Claim
    <3>3. ASSUME NEW t \in Turns, ClaimOrphaned(w, t) PROVE TypeOK'
      BY <3>1, <3>3 DEF ClaimOrphaned, TypeOK
    <3>4. ASSUME NEW t \in Turns, NotifyCancel(w, t) PROVE TypeOK'
      <4>1. tasks' \subseteq Task
        <5>1. \A k \in Task : [k EXCEPT !.notified = TRUE] \in Task
          BY DEF Task
        <5> QED
          BY <3>4, <5>1 DEF NotifyCancel, TypeOK
      <4> QED
        BY <3>4, <4>1 DEF NotifyCancel, TypeOK, rowVars
    <3>5. CASE Stop(w)
      BY <3>5 DEF Stop, TypeOK, rowVars
    <3>6. CASE Crash(w)
      BY <3>6 DEF Crash, TypeOK, rowVars
    <3> QED
      BY <2>2, <3>2, <3>3, <3>4, <3>5, <3>6 DEF WorkerStep
  <2>3. ASSUME NEW k \in tasks, TaskStep(k) PROVE TypeOK'
    <3> k \in Task
      BY DEF TypeOK
    <3> USE TaskEdits DEF Stage, Finishing, Outcome
    <3>1. CASE MarkRunning(k)
      BY <3>1 DEF MarkRunning, TypeOK, Status, Active, Task
    <3>2. CASE SetupFails(k)
      BY <3>2 DEF SetupFails, TypeOK, rowVars
    <3>3. CASE RenewUnstarted(k)
      BY <3>3 DEF RenewUnstarted, RenewRow, TypeOK, rowVars, Task
    <3>4. CASE Renew(k)
      BY <3>4 DEF Renew, RenewRow, TypeOK, rowVars, Task
    <3>5. CASE CallReturns(k)
      BY <3>5 DEF CallReturns, TypeOK, rowVars
    <3>6. CASE CallCancelled(k)
      BY <3>6 DEF CallCancelled, TypeOK, rowVars
    <3>7. CASE Finalize(k)
      BY <3>7 DEF Finalize, Verdict, StoredReplies, TypeOK, rowVars, Task, Status, Terminal
    <3>8. CASE FinalizeFails(k)
      BY <3>8 DEF FinalizeFails, TypeOK, rowVars
    <3>9. CASE Release(k)
      BY <3>9 DEF Release, TypeOK, rowVars, Task, Status
    <3>10. CASE ReleaseFails(k)
      BY <3>10 DEF ReleaseFails, TypeOK, rowVars
    <3> QED
      BY <2>3, <3>1, <3>2, <3>3, <3>4, <3>5, <3>6, <3>7, <3>8, <3>9, <3>10 DEF TaskStep
  <2>4. CASE UNCHANGED vars
    BY <2>4 DEF vars, rowVars, TypeOK
  <2> QED
    BY <2>1, <2>2, <2>3, <2>4 DEF Next
<1> QED
  BY <1>1, <1>2, PTL DEF Spec

-----------------------------------------------------------------------------
(* What a step can do to the statuses.                                     *)

Moves(t, from, to) == status[t] \in from /\ status' = [status EXCEPT ![t] = to]

Created(t)    == Moves(t, {"absent"}, "queued") /\ \A u \in Turns : Ahead(u, t) => status[u] # "absent"
Claimed(t)    == Moves(t, {"queued"}, "claimed") /\ NoTurnAhead(t)
Started(t)    == Moves(t, {"claimed"}, "running")
HandedBack(t) == Moves(t, Active, "queued")
Closed(t)     == \E o \in Terminal \ {"completed"} : Moves(t, {"queued"} \cup Active, o)
Completed(t)  == Moves(t, Active, "completed")

StatusStep ==
  \E t \in Turns : Created(t) \/ Claimed(t) \/ Started(t) \/ HandedBack(t) \/ Closed(t) \/ Completed(t)

\* Every step leaves the statuses alone or moves one turn along its lifecycle.
LEMMA StatusSteps == TypeOK /\ [Next]_vars => StatusStep \/ UNCHANGED status
<1> SUFFICES ASSUME TypeOK, [Next]_vars PROVE StatusStep \/ UNCHANGED status
  OBVIOUS
<1> USE DEF StatusStep, Moves
<1>1. ASSUME NEW t \in Turns, TurnStep(t) PROVE StatusStep \/ UNCHANGED status
  <2>1. CASE Create(t)
    BY <2>1 DEF Create, Created
  <2>2. CASE CancelQueued(t)
    BY <2>2 DEF CancelQueued, Closed, Terminal, rowVars
  <2>3. CASE CancelActive(t) \/ LeaseLapses(t) \/ SweepReads(t)
    BY <2>3 DEF CancelActive, LeaseLapses, SweepReads, rowVars
  <2>4. CASE QueueExpires(t)
    BY <2>4 DEF QueueExpires, Closed, Terminal
  <2>5. ASSUME NEW d \in Decision, SweepApplies(t, d)
        PROVE HandedBack(t) \/ Closed(t) \/ Completed(t)
    BY <2>5 DEF SweepApplies, Expired, Decision, Outcome, Terminal, HandedBack, Closed, Completed
  <2> QED
    BY <1>1, <2>1, <2>2, <2>3, <2>4, <2>5 DEF TurnStep
<1>2. ASSUME NEW w \in Workers, WorkerStep(w) PROVE StatusStep \/ UNCHANGED status
  <2>1. ASSUME NEW t \in Turns, ClaimRow(w, t) PROVE Claimed(t)
    BY <2>1 DEF ClaimRow, Claimed
  <2> QED
    BY <1>2, <2>1 DEF WorkerStep, Claim, ClaimOrphaned, NotifyCancel, Stop, Crash, rowVars
<1>3. ASSUME NEW k \in tasks, TaskStep(k) PROVE StatusStep \/ UNCHANGED status
  <2>0. k.turn \in Turns
    BY DEF TypeOK, Task
  <2>1. CASE MarkRunning(k)
    BY <2>0, <2>1 DEF MarkRunning, Started
  <2>2. CASE Finalize(k)
    BY <2>0, <2>2 DEF Finalize, Verdict, Finishing, Holds, Outcome, Terminal, Closed, Completed, rowVars
  <2>3. CASE Release(k)
    BY <2>0, <2>3 DEF Release, Holds, HandedBack, rowVars
  <2>4. CASE SetupFails(k) \/ CallReturns(k) \/ CallCancelled(k) \/ FinalizeFails(k) \/ ReleaseFails(k)
    BY <2>4 DEF SetupFails, CallReturns, CallCancelled, FinalizeFails, ReleaseFails, rowVars
  <2>5. CASE RenewUnstarted(k) \/ Renew(k)
    BY <2>5 DEF RenewUnstarted, Renew, RenewRow, rowVars
  <2> QED
    BY <1>3, <2>1, <2>2, <2>3, <2>4, <2>5 DEF TaskStep
<1>4. CASE UNCHANGED vars
  BY <1>4 DEF vars, rowVars
<1> QED
  BY <1>1, <1>2, <1>3, <1>4 DEF Next

-----------------------------------------------------------------------------
(* Order within a session.                                                 *)

\* The turns of a session are created in order.
CreatedInOrder ==
  \A t, u \in Turns : Ahead(u, t) /\ status[t] # "absent" => status[u] # "absent"

LEMMA OrderInductive ==
  TypeOK /\ CreatedInOrder /\ SessionOrder /\ [Next]_vars => CreatedInOrder' /\ SessionOrder'
<1> SUFFICES ASSUME TypeOK, CreatedInOrder, SessionOrder, [Next]_vars
             PROVE  CreatedInOrder' /\ SessionOrder'
  OBVIOUS
<1> USE DEF CreatedInOrder, SessionOrder, Ahead, Active, Terminal
<1>1. CASE UNCHANGED status
  BY <1>1
<1>2. ASSUME NEW t \in Turns PROVE
        Created(t) \/ Claimed(t) \/ Started(t) \/ HandedBack(t) \/ Closed(t) \/ Completed(t)
          => CreatedInOrder' /\ SessionOrder'
  <2> status \in [Turns -> Status]
    BY DEF TypeOK
  <2>1. CASE Created(t)
    BY <2>1 DEF Created, Moves
  <2>2. CASE Claimed(t)
    BY <2>2 DEF Claimed, Moves, NoTurnAhead
  <2>3. CASE Started(t)
    BY <2>3 DEF Started, Moves
  <2>4. CASE HandedBack(t)
    BY <2>4 DEF HandedBack, Moves
  <2>5. CASE Closed(t)
    BY <2>5 DEF Closed, Moves
  <2>6. CASE Completed(t)
    BY <2>6 DEF Completed, Moves
  <2> QED
    BY <2>1, <2>2, <2>3, <2>4, <2>5, <2>6
<1> QED
  BY <1>1, <1>2, StatusSteps DEF StatusStep

LEMMA OrderInvariant == Spec => [](TypeOK /\ CreatedInOrder /\ SessionOrder)
<1>1. Init => CreatedInOrder /\ SessionOrder
  BY DEF Init, CreatedInOrder, SessionOrder, Active
<1> QED
  BY <1>1, TypeCorrect, OrderInductive, PTL DEF Spec

\* A turn is worked on only when every earlier turn of its session is finished
\* (SessionOrder): the NOT EXISTS of claim, and next_seq's lock in create_turn.
THEOREM SessionOrderHolds == Spec => []SessionOrder
BY OrderInvariant, PTL

-----------------------------------------------------------------------------
(* The fence.                                                              *)

\* A claim by w gives the turn a holder none of whose other tasks runs it.
LEMMA ClaimKeepsFence ==
  ASSUME TypeOK, FenceIsExact, NEW w \in Workers, NEW t \in Turns, CanClaim(w, t), ClaimRow(w, t)
  PROVE  \A k \in tasks : Holds(k.worker, k.turn)' => k.epoch = attempts'[k.turn]
<1> SUFFICES ASSUME NEW k \in tasks, Holds(k.worker, k.turn)'
             PROVE  k.epoch = attempts'[k.turn]
  OBVIOUS
<1>1. k.turn \in Turns
  BY DEF TypeOK, Task
<1>2. CASE k.turn = t
  \* claimedBy'[t] = w, so k is a task of w on t: CanClaim excludes it.
  BY <1>2 DEF ClaimRow, CanClaim, Running, Holds, TypeOK
<1>3. CASE k.turn # t
  BY <1>1, <1>3 DEF ClaimRow, FenceIsExact, Holds, TypeOK
<1> QED
  BY <1>2, <1>3

\* Nothing but a claim makes a worker the holder of a turn, and nothing but a claim
\* starts a task or changes an attempt count.
LEMMA FenceInductive == TypeOK /\ FenceIsExact /\ [Next]_vars => FenceIsExact'
<1> SUFFICES ASSUME TypeOK, FenceIsExact, [Next]_vars PROVE FenceIsExact'
  OBVIOUS
<1>0. ASSUME tasks' \subseteq tasks, UNCHANGED attempts,
             \A t \in Turns : status'[t] \in Active =>
                                status[t] \in Active /\ claimedBy'[t] = claimedBy[t]
      PROVE  FenceIsExact'
  BY <1>0 DEF FenceIsExact, Holds, TypeOK, Task
<1>1. ASSUME NEW t \in Turns, TurnStep(t) PROVE FenceIsExact'
  <2> USE DEF Active, TypeOK
  <2>1. CASE Create(t)
    BY <1>0, <2>1 DEF Create
  <2>2. CASE CancelQueued(t)
    BY <1>0, <2>2 DEF CancelQueued, rowVars
  <2>3. CASE CancelActive(t) \/ LeaseLapses(t) \/ SweepReads(t)
    BY <1>0, <2>3 DEF CancelActive, LeaseLapses, SweepReads, rowVars
  <2>4. CASE QueueExpires(t)
    BY <1>0, <2>4 DEF QueueExpires
  <2>5. ASSUME NEW d \in Decision, SweepApplies(t, d) PROVE FenceIsExact'
    BY <1>0, <2>5 DEF SweepApplies, Decision, Outcome
  <2> QED
    BY <1>1, <2>1, <2>2, <2>3, <2>4, <2>5 DEF TurnStep
<1>2. ASSUME NEW w \in Workers, WorkerStep(w) PROVE FenceIsExact'
  <2>1. ASSUME NEW t \in Turns, Claim(w, t) PROVE FenceIsExact'
    <3>1. attempts'[t] = attempts[t] + 1
      BY <2>1 DEF Claim, ClaimRow, TypeOK
    <3> QED
      BY <2>1, <3>1, ClaimKeepsFence DEF Claim, FenceIsExact, Holds
  <2>2. ASSUME NEW t \in Turns, ClaimOrphaned(w, t) PROVE FenceIsExact'
    BY <2>2, ClaimKeepsFence DEF ClaimOrphaned, FenceIsExact, Holds
  <2>3. ASSUME NEW t \in Turns, NotifyCancel(w, t) PROVE FenceIsExact'
    <3>1. ASSUME NEW k \in tasks'
          PROVE  \E l \in tasks : k.worker = l.worker /\ k.turn = l.turn /\ k.epoch = l.epoch
      <4>1. PICK l \in tasks :
              k = IF l.worker = w /\ l.turn = t THEN [l EXCEPT !.notified = TRUE] ELSE l
        BY <2>3, <3>1 DEF NotifyCancel
      <4>2. l \in Task
        BY DEF TypeOK
      <4> QED
        BY <4>1, <4>2 DEF Task
    <3> QED
      BY <2>3, <3>1 DEF NotifyCancel, FenceIsExact, Holds, rowVars
  <2>4. CASE Stop(w) \/ Crash(w)
    BY <2>4 DEF Stop, Crash, FenceIsExact, Holds, rowVars
  <2> QED
    BY <1>2, <2>1, <2>2, <2>3, <2>4 DEF WorkerStep
<1>3. ASSUME NEW k \in tasks, TaskStep(k) PROVE FenceIsExact'
  <2> k \in Task
    BY DEF TypeOK
  <2>1. ASSUME NEW s, SetStage(k, s), UNCHANGED <<claimedBy, attempts>>,
               \A t \in Turns : status'[t] \in Active => status[t] \in Active
        PROVE  FenceIsExact'
    BY <2>1 DEF SetStage, FenceIsExact, Holds, TypeOK, Task
  <2> USE DEF Task, Active
  <2>2. CASE MarkRunning(k)
    BY <2>1, <2>2 DEF MarkRunning, TypeOK
  <2>3. CASE SetupFails(k) \/ CallReturns(k) \/ CallCancelled(k)
    BY <2>1, <2>3 DEF SetupFails, CallReturns, CallCancelled, rowVars
  <2>4. CASE RenewUnstarted(k) \/ Renew(k)
    BY <2>1, <1>0, <2>4 DEF RenewUnstarted, Renew, RenewRow, EndTask, rowVars
  <2>5. CASE FinalizeFails(k) \/ ReleaseFails(k)
    <3>1. UNCHANGED <<status, claimedBy, attempts>>
      BY <2>5 DEF FinalizeFails, ReleaseFails, rowVars
    <3>2. CASE EndTask(k)
      BY <1>0, <3>1, <3>2 DEF EndTask
    <3>3. CASE SetStage(k, "failed")
      BY <2>1, <3>1, <3>3
    <3> QED
      BY <2>5, <3>2, <3>3 DEF FinalizeFails, ReleaseFails
  <2>6. CASE Finalize(k)
    BY <1>0, <2>6 DEF Finalize, Verdict, Finishing, EndTask, Outcome, rowVars, TypeOK
  <2>7. CASE Release(k)
    BY <1>0, <2>7 DEF Release, EndTask, rowVars, TypeOK
  <2> QED
    BY <1>3, <2>2, <2>3, <2>4, <2>5, <2>6, <2>7 DEF TaskStep
<1>4. CASE UNCHANGED vars
  BY <1>4 DEF vars, rowVars, FenceIsExact, Holds
<1> QED
  BY <1>1, <1>2, <1>3, <1>4 DEF Next

\* A task that passes the fence of renew, finalize and release is the execution
\* the turn's last claim started (FenceIsExact), though the fence compares worker ids.
THEOREM FenceHolds == Spec => []FenceIsExact
<1>1. Init => FenceIsExact
  BY DEF Init, FenceIsExact
<1> QED
  BY <1>1, TypeCorrect, FenceInductive, PTL DEF Spec

-----------------------------------------------------------------------------
(* Replies and sweeps.                                                     *)

\* Recovery never finds a reply on an active turn, so it never decides "completed".
NoLateCompletion == \A t \in Turns : "completed" \notin sweeps[t]

RowInv == ReplyOnce /\ SweepIsCurrent /\ NoLateCompletion

LEMMA RowInductive == TypeOK /\ RowInv /\ [Next]_vars => RowInv'
<1> SUFFICES ASSUME TypeOK, RowInv, [Next]_vars PROVE RowInv'
  OBVIOUS
<1> USE DEF RowInv, ReplyOnce, SweepIsCurrent, NoLateCompletion, Expired
\* A step that changes neither a reply nor a pending decision.
<1>0. ASSUME UNCHANGED <<lease, attempts, replies, sweeps>>,
             \A t \in Turns : /\ status'[t] \in Active <=> status[t] \in Active
                              /\ status'[t] \in {"completed", "cancelled"} <=>
                                   status[t] \in {"completed", "cancelled"}
                              /\ status'[t] = "completed" => status[t] = "completed"
                              /\ cancel[t] => cancel'[t]
      PROVE  RowInv'
  BY <1>0
<1>1. ASSUME NEW t \in Turns, TurnStep(t) PROVE RowInv'
  <2> USE DEF Active, TypeOK
  <2>1. CASE Create(t)
    BY <1>0, <2>1 DEF Create
  <2>2. CASE CancelQueued(t)
    BY <2>2 DEF CancelQueued, rowVars
  <2>3. CASE CancelActive(t)
    BY <1>0, <2>3 DEF CancelActive
  <2>4. CASE LeaseLapses(t)
    BY <2>4 DEF LeaseLapses
  <2>5. CASE SweepReads(t)
    <3>1. replies[t] = 0
      BY <2>5 DEF SweepReads
    <3>2. /\ Decide(t) # "completed"
          /\ Decide(t) = "queued" => attempts[t] < MaxAttempts
          /\ Decide(t) = "cancelled" => cancel[t]
      BY <3>1 DEF Decide
    <3> QED
      BY <2>5, <3>2 DEF SweepReads, rowVars
  <2>6. CASE QueueExpires(t)
    BY <2>6 DEF QueueExpires
  <2>7. ASSUME NEW d \in Decision, SweepApplies(t, d) PROVE RowInv'
    <3>1. d \in {"queued", "failed", "cancelled"} /\ replies[t] = 0
      BY <2>7 DEF SweepApplies, Decision, Outcome
    <3> QED
      BY <2>7, <3>1 DEF SweepApplies
  <2> QED
    BY <1>1, <2>1, <2>2, <2>3, <2>4, <2>5, <2>6, <2>7 DEF TurnStep
<1>2. ASSUME NEW w \in Workers, WorkerStep(w) PROVE RowInv'
  <2>1. ASSUME NEW t \in Turns, ClaimRow(w, t) PROVE RowInv'
    <3>1. sweeps[t] = {} /\ replies[t] = 0
      BY <2>1 DEF ClaimRow, Active
    <3> QED
      BY <2>1, <3>1 DEF ClaimRow, Active, TypeOK
  <2>2. ASSUME UNCHANGED rowVars, UNCHANGED sweeps PROVE RowInv'
    BY <1>0, <2>2 DEF rowVars
  <2> QED
    BY <1>2, <2>1, <2>2 DEF WorkerStep, Claim, ClaimOrphaned, NotifyCancel, Stop, Crash
<1>3. ASSUME NEW k \in tasks, TaskStep(k) PROVE RowInv'
  <2>0. k.turn \in Turns
    BY DEF TypeOK, Task
  <2>1. ASSUME UNCHANGED rowVars, UNCHANGED sweeps PROVE RowInv'
    BY <1>0, <2>1 DEF rowVars
  <2>2. CASE MarkRunning(k)
    BY <1>0, <2>0, <2>2 DEF MarkRunning, Active, TypeOK
  <2>3. ASSUME RenewRow(k.turn) PROVE RowInv'
    BY <2>0, <2>3 DEF RenewRow, TypeOK
  <2>4. CASE Finalize(k)
    <3>1. ASSUME Holds(k.worker, k.turn) PROVE replies[k.turn] = 0
      BY <2>0, <3>1 DEF Holds, Active
    <3>2. \A n \in StoredReplies(k.turn, k.stage) :
             /\ n \in {0, 1}
             /\ n = 1 => k.stage \in {"completed", "cancelled"}
             /\ k.stage = "completed" => n = 1
      BY DEF StoredReplies
    <3> QED
      BY <2>0, <2>1, <2>4, <3>1, <3>2 DEF Finalize, Verdict, Finishing, Holds, Outcome, Active, TypeOK
  <2>5. CASE Release(k)
    BY <2>0, <2>1, <2>5 DEF Release, Holds, Active, TypeOK
  <2>6. CASE SetupFails(k) \/ CallReturns(k) \/ CallCancelled(k) \/ FinalizeFails(k) \/ ReleaseFails(k)
    BY <2>1, <2>6 DEF SetupFails, CallReturns, CallCancelled, FinalizeFails, ReleaseFails
  <2> QED
    BY <1>3, <2>1, <2>2, <2>3, <2>4, <2>5, <2>6 DEF TaskStep, RenewUnstarted, Renew
<1>4. CASE UNCHANGED vars
  BY <1>0, <1>4 DEF vars, rowVars
<1> QED
  BY <1>1, <1>2, <1>3, <1>4 DEF Next

LEMMA RowInvariant == Spec => [](TypeOK /\ RowInv)
<1>1. Init => RowInv
  BY DEF Init, RowInv, ReplyOnce, SweepIsCurrent, NoLateCompletion
<1> QED
  BY <1>1, TypeCorrect, RowInductive, PTL DEF Spec

\* A turn has at most one stored reply, and none while it can still run (ReplyOnce).
THEOREM ReplyOnceHolds == Spec => []ReplyOnce
<1>1. RowInv => ReplyOnce
  BY DEF RowInv
<1> QED
  BY <1>1, RowInvariant, PTL

\* A pending decision of recover_company belongs to the row as it is now
\* (SweepIsCurrent), however much happened since the sweep read it.
THEOREM SweepIsCurrentHolds == Spec => []SweepIsCurrent
<1>1. RowInv => SweepIsCurrent
  BY DEF RowInv
<1> QED
  BY <1>1, RowInvariant, PTL

-----------------------------------------------------------------------------
(* Outcomes and results.                                                   *)

\* Replies change only when a task finalizes a turn it holds, attempt counts only
\* when a queued turn is claimed.
LEMMA ReplySteps ==
  TypeOK /\ [Next]_vars =>
    /\ \A t \in Turns : attempts'[t] # attempts[t] => status[t] = "queued"
    /\ \A t \in Turns : replies'[t] # replies[t] =>
         \E k \in tasks : k.turn = t /\ Holds(k.worker, t) /\ EndTask(k)
<1> SUFFICES ASSUME TypeOK, [Next]_vars
             PROVE  /\ \A t \in Turns : attempts'[t] # attempts[t] => status[t] = "queued"
                    /\ \A t \in Turns : replies'[t] # replies[t] =>
                         \E k \in tasks : k.turn = t /\ Holds(k.worker, t) /\ EndTask(k)
  OBVIOUS
<1>1. ASSUME NEW t \in Turns, TurnStep(t) PROVE UNCHANGED <<attempts, replies>>
  BY <1>1 DEF TurnStep, Create, CancelQueued, CancelActive, LeaseLapses, SweepReads, QueueExpires,
              SweepApplies, rowVars
<1>2. ASSUME NEW w \in Workers, WorkerStep(w)
      PROVE  /\ UNCHANGED replies
             /\ \A t \in Turns : attempts'[t] # attempts[t] => status[t] = "queued"
  <2>1. ASSUME NEW t \in Turns, ClaimRow(w, t)
        PROVE  /\ UNCHANGED replies
               /\ \A u \in Turns : attempts'[u] # attempts[u] => status[u] = "queued"
    BY <2>1 DEF ClaimRow, TypeOK
  <2> QED
    BY <1>2, <2>1 DEF WorkerStep, Claim, ClaimOrphaned, NotifyCancel, Stop, Crash, rowVars
<1>3. ASSUME NEW k \in tasks, TaskStep(k)
      PROVE  /\ UNCHANGED attempts
             /\ \A t \in Turns : replies'[t] # replies[t] =>
                  k.turn = t /\ Holds(k.worker, t) /\ EndTask(k)
  <2>1. CASE Finalize(k)
    BY <2>1 DEF Finalize, TypeOK, rowVars
  <2>2. CASE ~Finalize(k)
    BY <1>3, <2>2 DEF TaskStep, MarkRunning, SetupFails, RenewUnstarted, Renew, RenewRow, CallReturns,
                      CallCancelled, FinalizeFails, Release, ReleaseFails, rowVars
  <2> QED
    BY <2>1, <2>2
<1>4. CASE UNCHANGED vars
  BY <1>4 DEF vars, rowVars
<1> QED
  BY <1>1, <1>2, <1>3, <1>4 DEF Next

\* A finished turn keeps its outcome, its reply and its attempts (OutcomeIsFinal).
THEOREM OutcomeIsFinalHolds == Spec => OutcomeIsFinal
<1>1. ASSUME TypeOK, [Next]_vars, NEW t \in Turns, status[t] \in Terminal
      PROVE  status'[t] = status[t] /\ replies'[t] = replies[t] /\ attempts'[t] = attempts[t]
  <2> USE DEF Terminal, Active
  <2>1. status'[t] = status[t]
    BY <1>1, StatusSteps DEF StatusStep, Moves, Created, Claimed, Started, HandedBack, Closed,
                             Completed, TypeOK
  <2> QED
    BY <1>1, <2>1, ReplySteps DEF Holds
<1>2. TypeOK /\ [Next]_vars =>
        [\A t \in Turns :
           status[t] \in Terminal =>
             /\ status'[t] = status[t]
             /\ replies'[t] = replies[t]
             /\ attempts'[t] = attempts[t]]_vars
  BY <1>1
<1> QED
  BY <1>2, TypeCorrect, PTL DEF Spec, OutcomeIsFinal

\* Only the execution of the turn's current claim can store a reply
\* (LateResultDiscarded).
THEOREM LateResultDiscardedHolds == Spec => LateResultDiscarded
<1>1. TypeOK /\ FenceIsExact /\ [Next]_vars =>
        [\A t \in Turns : replies'[t] # replies[t] =>
           \E k \in tasks \ tasks' : k.turn = t /\ k.epoch = attempts[t]]_vars
  <2> SUFFICES ASSUME TypeOK, FenceIsExact, [Next]_vars, NEW t \in Turns, replies'[t] # replies[t]
               PROVE  \E k \in tasks \ tasks' : k.turn = t /\ k.epoch = attempts[t]
    OBVIOUS
  <2>1. PICK k \in tasks : k.turn = t /\ Holds(k.worker, t) /\ EndTask(k)
    BY ReplySteps
  <2> QED
    BY <2>1 DEF EndTask, FenceIsExact
<1> QED
  BY <1>1, TypeCorrect, FenceHolds, PTL DEF Spec, LateResultDiscarded

-----------------------------------------------------------------------------
(* Refinement.                                                             *)

LEMMA PhaseValues ==
  /\ PhaseOf("absent") = "absent" /\ PhaseOf("queued") = "waiting"
  /\ \A s \in Active : PhaseOf(s) = "working"
  /\ PhaseOf("completed") = "answered"
  /\ \A s \in Terminal \ {"completed"} : PhaseOf(s) = "closed"
BY DEF PhaseOf, Active, Terminal

\* The phases after a turn's status changed.
LEMMA PhaseMoves ==
  ASSUME TypeOK, NEW t \in Turns, NEW from, NEW to, NEW phases, Moves(t, from, to),
         \A s \in from : PhaseOf(s) \in phases
  PROVE  Queue!Move(t, phases, PhaseOf(to))
BY DEF Moves, Queue!Move, TypeOK

\* The runtime implements the first-in first-out queue of SessionQueue: each of its
\* steps is a step of the queue or leaves every phase as it is (ImplementsQueue).
THEOREM QueueImplemented == Spec => ImplementsQueue
<1>1. Init => Queue!Init
  BY PhaseValues DEF Init, Queue!Init
<1>2. TypeOK /\ CreatedInOrder /\ [Next]_vars =>
        [Queue!Next]_([t \in Turns |-> PhaseOf(status[t])])
  <2> SUFFICES ASSUME TypeOK, CreatedInOrder, [Next]_vars
               PROVE  Queue!Next \/ UNCHANGED [t \in Turns |-> PhaseOf(status[t])]
    OBVIOUS
  <2>1. CASE UNCHANGED status
    BY <2>1
  <2>2. ASSUME NEW t \in Turns PROVE
          Created(t) \/ Claimed(t) \/ Started(t) \/ HandedBack(t) \/ Closed(t) \/ Completed(t) =>
            Queue!Next \/ UNCHANGED [u \in Turns |-> PhaseOf(status[u])]
    <3> USE DEF Active, Terminal
    <3>1. CASE Created(t)
      <4>1. Queue!Move(t, {"absent"}, "waiting")
        BY <3>1, PhaseMoves, PhaseValues DEF Created
      <4>2. \A u \in Queue!Earlier(t) : PhaseOf(status[u]) # "absent"
        BY <3>1, PhaseValues DEF Created, Queue!Earlier, Ahead, TypeOK, Status
      <4> QED
        BY <4>1, <4>2 DEF Queue!Next, Queue!Submit, Queue!Earlier
    <3>2. CASE Claimed(t)
      <4>1. Queue!Move(t, {"waiting"}, "working")
        BY <3>2, PhaseMoves, PhaseValues DEF Claimed
      <4>2. \A u \in Queue!Earlier(t) : PhaseOf(status[u]) \in Queue!Settled
        BY <3>2, PhaseValues DEF Claimed, Moves, NoTurnAhead, CreatedInOrder, Queue!Earlier, Queue!Settled, Ahead
      <4> QED
        BY <4>1, <4>2 DEF Queue!Next, Queue!Begin, Queue!Earlier
    <3>3. CASE Started(t)
      BY <3>3, PhaseValues DEF Started, Moves, TypeOK
    <3>4. CASE HandedBack(t)
      BY <3>4, PhaseMoves, PhaseValues DEF HandedBack, Queue!Next, Queue!Requeue
    <3>5. CASE Closed(t)
      <4>1. PICK o \in Terminal \ {"completed"} : Moves(t, {"queued"} \cup Active, o)
        BY <3>5 DEF Closed
      <4>2. Queue!Move(t, {"waiting", "working"}, "closed")
        BY <4>1, PhaseMoves, PhaseValues
      <4> QED
        BY <4>2 DEF Queue!Next, Queue!Close
    <3>6. CASE Completed(t)
      BY <3>6, PhaseMoves, PhaseValues DEF Completed, Queue!Next, Queue!Answer
    <3> QED
      BY <3>1, <3>2, <3>3, <3>4, <3>5, <3>6
  <2> QED
    BY <2>1, <2>2, StatusSteps DEF StatusStep
<1> QED
  BY <1>1, <1>2, OrderInvariant, PTL DEF Spec, ImplementsQueue, Queue!Spec

-----------------------------------------------------------------------------
(* Executions.                                                             *)

\* Only a claim counts an attempt or makes a turn active.
LEMMA ClaimSteps ==
  ASSUME TypeOK, [Next]_vars
  PROVE  \/ \E w \in Workers, t \in Turns : ClaimRow(w, t)
         \/ /\ UNCHANGED attempts
            /\ \A t \in Turns : status'[t] \in Active => status[t] \in Active
<1> DEFINE Quiet == /\ UNCHANGED attempts
                    /\ \A t \in Turns : status'[t] \in Active => status[t] \in Active
<1>1. ASSUME NEW t \in Turns, NEW s \in Status, status' = [status EXCEPT ![t] = s],
             s \in Active => status[t] \in Active
      PROVE  \A u \in Turns : status'[u] \in Active => status[u] \in Active
  BY <1>1 DEF TypeOK
<1>2. ASSUME NEW t \in Turns, TurnStep(t) PROVE Quiet
  <2>1. UNCHANGED attempts
    BY <1>2 DEF TurnStep, Create, CancelQueued, CancelActive, LeaseLapses, SweepReads, QueueExpires,
                SweepApplies, rowVars
  <2>2. CASE UNCHANGED status
    BY <2>1, <2>2
  <2>3. CASE Create(t) \/ CancelQueued(t) \/ QueueExpires(t)
    <3>1. UNCHANGED status \/ \E s \in Status \ Active : status' = [status EXCEPT ![t] = s]
      BY <2>3 DEF Create, CancelQueued, QueueExpires, rowVars, Status, Terminal, Active
    <3> QED
      BY <1>1, <2>1, <2>2, <3>1
  <2>4. ASSUME NEW d \in Decision, SweepApplies(t, d) PROVE Quiet
    <3>1. d \in Status \ Active
      BY DEF Decision, Outcome, Status, Terminal, Active
    <3> QED
      BY <1>1, <2>1, <2>4, <3>1 DEF SweepApplies
  <2>5. CASE CancelActive(t) \/ LeaseLapses(t) \/ SweepReads(t)
    BY <2>2, <2>5 DEF CancelActive, LeaseLapses, SweepReads, rowVars
  <2> QED
    BY <1>2, <2>3, <2>4, <2>5 DEF TurnStep
<1>3. ASSUME NEW w \in Workers, WorkerStep(w)
      PROVE  Quiet \/ \E t \in Turns : ClaimRow(w, t)
  BY <1>3 DEF WorkerStep, Claim, ClaimOrphaned, NotifyCancel, Stop, Crash, rowVars
<1>4. ASSUME NEW k \in tasks, TaskStep(k) PROVE Quiet
  <2>1. k.turn \in Turns
    BY DEF TypeOK, Task
  <2>2. UNCHANGED attempts
    BY <1>4 DEF TaskStep, MarkRunning, SetupFails, RenewUnstarted, Renew, RenewRow, CallReturns,
                CallCancelled, Finalize, FinalizeFails, Release, ReleaseFails, rowVars
  <2>3. CASE UNCHANGED status
    BY <2>2, <2>3
  <2>4. CASE MarkRunning(k)
    <3>1. UNCHANGED status \/ (status' = [status EXCEPT ![k.turn] = "running"]
                                 /\ status[k.turn] = "claimed")
      BY <2>4 DEF MarkRunning
    <3>2. "running" \in Status /\ (status[k.turn] = "claimed" => status[k.turn] \in Active)
      BY DEF Status, Active
    <3> QED
      BY <1>1, <2>1, <2>2, <2>3, <3>1, <3>2
  <2>5. CASE Finalize(k) \/ Release(k)
    <3>1. UNCHANGED status \/ \E s \in Status \ Active : status' = [status EXCEPT ![k.turn] = s]
      BY <2>5 DEF Finalize, Verdict, Finishing, Release, Outcome, rowVars, Status, Terminal, Active
    <3> QED
      BY <1>1, <2>1, <2>2, <2>3, <3>1
  <2>6. CASE ~MarkRunning(k) /\ ~Finalize(k) /\ ~Release(k)
    <3>1. UNCHANGED status
      BY <1>4, <2>6 DEF TaskStep, SetupFails, RenewUnstarted, Renew, RenewRow, CallReturns,
                        CallCancelled, FinalizeFails, ReleaseFails, rowVars
    <3> QED
      BY <2>3, <3>1
  <2> QED
    BY <2>4, <2>5, <2>6
<1>5. CASE UNCHANGED vars
  BY <1>5 DEF vars, rowVars
<1> QED
  BY <1>2, <1>3, <1>4, <1>5 DEF Next

\* Each turn's row is a TurnExecutions: a claim starts an execution of a turn nobody has.
LEMMA ExecutionStep ==
  ASSUME TypeOK, [Next]_vars, NEW t \in Turns
  PROVE  [Execution(t)!Next]_(Execution(t)!execution)
<1>1. ASSUME NEW w \in Workers, NEW u \in Turns, ClaimRow(w, u)
      PROVE  [Execution(t)!Next]_(Execution(t)!execution)
  <2>1. CASE u = t
    <3>1. status[t] \notin Active /\ status'[t] \in Active /\ attempts'[t] = attempts[t] + 1
      BY <1>1, <2>1 DEF ClaimRow, TypeOK, Active
    <3> QED
      BY <3>1 DEF Execution!Next, Execution!Starts
  <2>2. CASE u # t
    <3>1. status'[t] = status[t] /\ attempts'[t] = attempts[t]
      BY <1>1, <2>2 DEF ClaimRow, TypeOK
    <3> QED
      BY <3>1 DEF Execution!execution
  <2> QED
    BY <2>1, <2>2
<1>2. ASSUME attempts'[t] = attempts[t], status'[t] \in Active => status[t] \in Active
      PROVE  [Execution(t)!Next]_(Execution(t)!execution)
  <2>1. CASE (status'[t] \in Active) = (status[t] \in Active)
    BY <1>2, <2>1 DEF Execution!execution
  <2>2. CASE status[t] \in Active /\ status'[t] \notin Active
    BY <1>2, <2>2 DEF Execution!Next, Execution!Ends
  <2> QED
    BY <1>2, <2>1, <2>2
<1> QED
  BY <1>1, <1>2, ClaimSteps

\* The attempt count of a turn's row is the epoch the tool effect ledger takes it for
\* (ImplementsExecutions): what is proved of ToolEffects, whose turn takes exactly the
\* steps of TurnExecutions, holds of every turn of this runtime.
THEOREM ExecutionsImplemented == Spec => ImplementsExecutions
<1>1. Init => \A t \in Turns : Execution(t)!Init
  BY DEF Init, Execution!Init, Active
<1>2. TypeOK /\ [Next]_vars => [\A t \in Turns : [Execution(t)!Next]_(Execution(t)!execution)]_vars
  BY ExecutionStep
<1> QED
  BY <1>1, <1>2, TypeCorrect, PTL DEF Spec, ImplementsExecutions
=============================================================================
