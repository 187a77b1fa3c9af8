----------------------------- MODULE ChatTurns -----------------------------
(***************************************************************************)
(* Durable employee chat turns (src/src/nexus/runtime/chat_turns.py).      *)
(*                                                                         *)
(* A chat_turns row owns one user prompt and the execution that answers    *)
(* it.  Workers (one per process) claim queued rows with a conditional     *)
(* UPDATE that sets a lease, run the model call while renewing the lease,  *)
(* and store the outcome.  Recovery sweeps give rows whose lease lapsed    *)
(* back to the queue, users cancel turns, workers stop gracefully or       *)
(* crash, and the queue has a TTL.                                         *)
(*                                                                         *)
(* One action is one database transaction (or one step of a worker's       *)
(* memory); every UPDATE of the code is a row-locked conditional           *)
(* statement, so it is one step whatever runs beside it.  A sweep and a    *)
(* cancel request take several statements: they are several actions.       *)
(***************************************************************************)
EXTENDS Naturals, FiniteSets

CONSTANTS
  Turns,        \* the turns, as their turn_seq: numbered in creation order
  Sessions,     \* the chat sessions
  SessionOf,    \* the session of each turn
  Workers,      \* worker ids: one per process start (WORKER_ID has a uuid)
  NoWorker,     \* claimed_by IS NULL
  MaxAttempts,  \* chat_turn_max_attempts
  Capacity      \* tenant bulkhead slots of one process

ASSUME TurnsAssumption   == Turns \subseteq Nat
ASSUME SessionAssumption == SessionOf \in [Turns -> Sessions]
ASSUME WorkerAssumption  == NoWorker \notin Workers
ASSUME BoundAssumption   == MaxAttempts \in Nat \ {0} /\ Capacity \in Nat \ {0}

VARIABLES
  status,      \* the row's status ("absent": not created yet)
  claimedBy,   \* claimed_by
  lease,       \* lease_expires_at: NULL, in the future, or in the past
  attempts,    \* attempt_count; with execution_id, the epoch of a claim
  cancel,      \* cancel_requested_at IS NOT NULL
  replies,     \* replies stored for the turn (response_message_id)
  sweeps,      \* what sweeps that read the row decided and did not apply yet
  cancelling,  \* cancel requests between two of their statements
  mode,        \* worker process: up, stopping (stop_worker), down
  tasks        \* the workers' tasks (_running, the locals of _execute)

rowVars == <<status, claimedBy, lease, attempts, cancel, replies>>
vars == <<rowVars, sweeps, cancelling, mode, tasks>>

-----------------------------------------------------------------------------
Active   == {"claimed", "running"}
Terminal == {"completed", "failed", "cancelled", "expired"}
Status   == {"absent", "queued"} \cup Active \cup Terminal

\* What a worker's task can be about to store with finalize.
Outcome  == {"completed", "failed", "cancelled"}
\* What a sweep can decide for a turn whose lease lapsed.
Decision == {"queued"} \cup Outcome
\* unstarted: _mark_running matched nothing; withdrawn: and a cancel was why; at this
\* and at an Outcome finalize is next.
Finishing == Outcome \cup {"withdrawn"}
Stage    == {"starting", "unstarted", "calling"} \cup Finishing

\* One run of _execute: the epoch it copied at its start, where it stands, and
\* whether its local cancel event is set.
Task == [worker : Workers, turn : Turns, epoch : Nat, stage : Stage, notified : BOOLEAN]

TypeOK ==
  /\ status \in [Turns -> Status]
  /\ claimedBy \in [Turns -> Workers \cup {NoWorker}]
  /\ lease \in [Turns -> {"none", "live", "lapsed"}]
  /\ attempts \in [Turns -> Nat]
  /\ cancel \in [Turns -> BOOLEAN]
  /\ replies \in [Turns -> Nat]
  /\ sweeps \in [Turns -> SUBSET Decision]
  /\ cancelling \in [Turns -> SUBSET {"flag", "notify"}]
  /\ mode \in [Workers -> {"up", "stopping", "down"}]
  /\ tasks \subseteq Task

Init ==
  /\ status = [t \in Turns |-> "absent"]
  /\ claimedBy = [t \in Turns |-> NoWorker]
  /\ lease = [t \in Turns |-> "none"]
  /\ attempts = [t \in Turns |-> 0]
  /\ cancel = [t \in Turns |-> FALSE]
  /\ replies = [t \in Turns |-> 0]
  /\ sweeps = [t \in Turns |-> {}]
  /\ cancelling = [t \in Turns |-> {}]
  /\ mode = [w \in Workers |-> "up"]
  /\ tasks = {}

-----------------------------------------------------------------------------
\* u is an earlier turn of t's session.
Ahead(u, t) == SessionOf[u] = SessionOf[t] /\ u < t

\* Seeded fault of NoTurnAhead: only turns being run block, not earlier queued ones.
Faulty_NoTurnAhead(t) ==
  \A u \in Turns \ {t} : SessionOf[u] = SessionOf[t] => status[u] \notin Active

\* The NOT EXISTS of the claim: no earlier turn of the session is unfinished and
\* no other turn of it is being run.
NoTurnAhead(t) ==
  \A u \in Turns \ {t} :
    SessionOf[u] = SessionOf[t] =>
      /\ u < t => status[u] \in Terminal \cup {"absent"}
      /\ status[u] \notin Active

\* Seeded faults of Holds: the holder, or the status, is not checked.
Faulty_HoldsAny(w, t) == status[t] \in Active
Faulty_HoldsEnded(w, t) == claimedBy[t] = w

\* The fence of renew, finalize and release: the row is active and claimed by w.
\* It compares the worker, not the execution.
Holds(w, t) == claimedBy[t] = w /\ status[t] \in Active

Running(w) == {k \in tasks : k.worker = w}

EndTask(k) == tasks' = tasks \ {k}
SetStage(k, s) == tasks' = (tasks \ {k}) \cup {[k EXCEPT !.stage = s]}

-----------------------------------------------------------------------------
(* Creation.  next_seq holds the session row until the commit, so the turns *)
(* of a session become visible in turn_seq order.                          *)
Create(t) ==
  /\ status[t] = "absent"
  /\ \A u \in Turns : Ahead(u, t) => status[u] # "absent"
  /\ status' = [status EXCEPT ![t] = "queued"]
  /\ UNCHANGED <<claimedBy, lease, attempts, cancel, replies,
                 sweeps, cancelling, mode, tasks>>

-----------------------------------------------------------------------------
(* The worker.                                                             *)

\* The claim's UPDATE: a new execution_id, one more attempt, a fresh lease.
ClaimRow(w, t) ==
  /\ status[t] = "queued"
  /\ ~cancel[t]
  /\ NoTurnAhead(t)
  /\ status' = [status EXCEPT ![t] = "claimed"]
  /\ claimedBy' = [claimedBy EXCEPT ![t] = w]
  /\ lease' = [lease EXCEPT ![t] = "live"]
  /\ attempts' = [attempts EXCEPT ![t] = @ + 1]
  /\ UNCHANGED <<cancel, replies, sweeps, cancelling, mode>>

\* Seeded fault of CanClaim: the turn_id in self._running test is dropped.
Faulty_CanClaim(w, t) == mode[w] = "up" /\ Cardinality(Running(w)) < Capacity

\* _dispatch: not stopping, not running here already, and a free bulkhead slot.
CanClaim(w, t) ==
  /\ mode[w] = "up"
  /\ \A k \in Running(w) : k.turn # t
  /\ Cardinality(Running(w)) < Capacity

\* _dispatch claims the turn and starts its task, which copies the epoch once.
Claim(w, t) ==
  /\ CanClaim(w, t)
  /\ ClaimRow(w, t)
  /\ tasks' = tasks \cup {[worker |-> w, turn |-> t, epoch |-> attempts[t] + 1,
                           stage |-> "starting", notified |-> FALSE]}

\* The claim committed, but an error after it kept the task from starting.
ClaimOrphaned(w, t) ==
  /\ CanClaim(w, t)
  /\ ClaimRow(w, t)
  /\ UNCHANGED tasks

\* _execute stores "running", unless the turn was lost or cancelled meanwhile.
MarkRunning(k) ==
  /\ k.stage = "starting"
  /\ \/ /\ claimedBy[k.turn] = k.worker
        /\ status[k.turn] = "claimed"
        /\ ~cancel[k.turn]
        /\ status' = [status EXCEPT ![k.turn] = "running"]
        /\ SetStage(k, "calling")
     \/ /\ ~(claimedBy[k.turn] = k.worker /\ status[k.turn] = "claimed" /\ ~cancel[k.turn])
        /\ SetStage(k, "unstarted")
        /\ UNCHANGED status
  /\ UNCHANGED <<claimedBy, lease, attempts, cancel, replies,
                 sweeps, cancelling, mode>>

\* An error before the call (session, pin, prompt, the renewal of an unstarted
\* turn): the outcome is "failed".
SetupFails(k) ==
  /\ k.stage \in {"starting", "unstarted"}
  /\ SetStage(k, "failed")
  /\ UNCHANGED <<rowVars, sweeps, cancelling, mode>>

\* Seeded fault of RenewRow: _recover's UPDATE does not test the lease again, so a
\* pending decision survives the renewal.
Faulty_RenewRow(t) ==
  /\ lease' = [lease EXCEPT ![t] = "live"]
  /\ UNCHANGED <<status, claimedBy, attempts, cancel, replies,
                 sweeps, cancelling, mode>>

\* The lease UPDATE of renew.  Pending sweeps read the lease it replaces, so their
\* "lease_expires_at < now" no longer matches.
RenewRow(t) ==
  /\ lease' = [lease EXCEPT ![t] = "live"]
  /\ sweeps' = [sweeps EXCEPT ![t] = {}]
  /\ UNCHANGED <<status, claimedBy, attempts, cancel, replies,
                 cancelling, mode>>

\* renew for an unstarted turn: a cancelled one is finalized, else the task ends.
RenewUnstarted(k) ==
  /\ k.stage = "unstarted"
  /\ \/ /\ Holds(k.worker, k.turn)
        /\ RenewRow(k.turn)
        /\ IF cancel[k.turn] THEN SetStage(k, "withdrawn") ELSE EndTask(k)
     \/ /\ ~Holds(k.worker, k.turn)
        /\ EndTask(k)
        /\ UNCHANGED <<rowVars, sweeps, cancelling, mode>>

\* renew during the call: keep going, stop for a cancel, or stop and store
\* nothing because the turn is lost.  (A renewal that errors changes nothing.)
Renew(k) ==
  /\ k.stage = "calling"
  /\ \/ /\ Holds(k.worker, k.turn)
        /\ RenewRow(k.turn)
        /\ IF cancel[k.turn] THEN SetStage(k, "cancelled") ELSE UNCHANGED tasks
     \/ /\ ~Holds(k.worker, k.turn)
        /\ EndTask(k)
        /\ UNCHANGED <<rowVars, sweeps, cancelling, mode>>

\* The model or CLI call returns, or raises.
CallReturns(k) ==
  /\ k.stage = "calling"
  /\ \E o \in {"completed", "failed"} : SetStage(k, o)
  /\ UNCHANGED <<rowVars, sweeps, cancelling, mode>>

\* The local cancel event ends the call.
CallCancelled(k) ==
  /\ k.stage = "calling"
  /\ k.notified
  /\ SetStage(k, "cancelled")
  /\ UNCHANGED <<rowVars, sweeps, cancelling, mode>>

\* Seeded fault of StoredReplies: a failed call's partial text is stored as well.
Faulty_StoredReplies(t, o) == IF o = "completed" THEN {1} ELSE {0, 1}

\* A reply is stored with a completed turn; a cancelled call that had streamed
\* some text stores that text.
StoredReplies(t, o) ==
  CASE o = "completed" -> {1}
    [] o = "cancelled" /\ status[t] = "running" -> {0, 1}
    [] OTHER -> {0}

\* The status finalize is called with.
Verdict(k) == IF k.stage = "withdrawn" THEN "cancelled" ELSE k.stage

\* finalize: outcome and reply in one transaction, or nothing at all.
Finalize(k) ==
  /\ k.stage \in Finishing
  /\ EndTask(k)
  /\ \/ /\ Holds(k.worker, k.turn)
        /\ status' = [status EXCEPT ![k.turn] = Verdict(k)]
        /\ lease' = [lease EXCEPT ![k.turn] = "none"]
        /\ sweeps' = [sweeps EXCEPT ![k.turn] = {}]
        /\ \E n \in StoredReplies(k.turn, k.stage) :
             replies' = [replies EXCEPT ![k.turn] = @ + n]
        /\ UNCHANGED <<claimedBy, attempts, cancel, cancelling, mode>>
     \/ /\ ~Holds(k.worker, k.turn)
        /\ UNCHANGED <<rowVars, sweeps, cancelling, mode>>

\* finalize raised (database error, reply not storable): the lease decides.  That of a
\* turn that did not start is inside the try: its turn is then finalized as failed.
FinalizeFails(k) ==
  /\ k.stage \in Finishing
  /\ IF k.stage = "withdrawn" THEN SetStage(k, "failed") ELSE EndTask(k)
  /\ UNCHANGED <<rowVars, sweeps, cancelling, mode>>

\* stop_worker: no more claims; after the drain the tasks left are cancelled.
Stop(w) ==
  /\ mode[w] = "up"
  /\ mode' = [mode EXCEPT ![w] = "stopping"]
  /\ UNCHANGED <<rowVars, sweeps, cancelling, tasks>>

\* Seeded fault of Release: a turn handed back gets its attempt back as well.
Faulty_Release(k) ==
  /\ mode[k.worker] = "stopping"
  /\ EndTask(k)
  /\ Holds(k.worker, k.turn)
  /\ status' = [status EXCEPT ![k.turn] = "queued"]
  /\ attempts' = [attempts EXCEPT ![k.turn] = @ - 1]
  /\ claimedBy' = [claimedBy EXCEPT ![k.turn] = NoWorker]
  /\ lease' = [lease EXCEPT ![k.turn] = "none"]
  /\ sweeps' = [sweeps EXCEPT ![k.turn] = {}]
  /\ UNCHANGED <<cancel, replies, cancelling, mode>>

\* A cancelled task hands its turn back, if it still holds it.
Release(k) ==
  /\ mode[k.worker] = "stopping"
  /\ EndTask(k)
  /\ \/ /\ Holds(k.worker, k.turn)
        /\ status' = [status EXCEPT ![k.turn] = "queued"]
        /\ claimedBy' = [claimedBy EXCEPT ![k.turn] = NoWorker]
        /\ lease' = [lease EXCEPT ![k.turn] = "none"]
        /\ sweeps' = [sweeps EXCEPT ![k.turn] = {}]
        /\ UNCHANGED <<attempts, cancel, replies, cancelling, mode>>
     \/ /\ ~Holds(k.worker, k.turn)
        /\ UNCHANGED <<rowVars, sweeps, cancelling, mode>>

\* Errors of release are suppressed: the task ends and the lease decides.
ReleaseFails(k) ==
  /\ mode[k.worker] = "stopping"
  /\ EndTask(k)
  /\ UNCHANGED <<rowVars, sweeps, cancelling, mode>>

\* The process dies; a restarted one has another worker id.
Crash(w) ==
  /\ mode[w] # "down"
  /\ mode' = [mode EXCEPT ![w] = "down"]
  /\ tasks' = tasks \ Running(w)
  /\ UNCHANGED <<rowVars, sweeps, cancelling>>

-----------------------------------------------------------------------------
(* request_cancel: two UPDATEs, each with its own snapshot, then the hint   *)
(* to the worker of the process that served the request.                   *)

\* First UPDATE: a queued turn is cancelled at once; else go on to the second.
CancelQueued(t) ==
  \/ /\ status[t] = "queued"
     /\ status' = [status EXCEPT ![t] = "cancelled"]
     /\ cancel' = [cancel EXCEPT ![t] = TRUE]
     /\ UNCHANGED <<claimedBy, lease, attempts, replies, sweeps,
                    cancelling, mode, tasks>>
  \/ /\ status[t] \in Active
     /\ cancelling' = [cancelling EXCEPT ![t] = @ \cup {"flag"}]
     /\ UNCHANGED <<rowVars, sweeps, mode, tasks>>

\* Second UPDATE: set the flag if the turn is (still) active.
CancelActive(t) ==
  /\ "flag" \in cancelling[t]
  /\ cancel' = [cancel EXCEPT ![t] = @ \/ status[t] \in Active]
  /\ cancelling' = [cancelling EXCEPT
       ![t] = (@ \ {"flag"}) \cup IF status[t] = "cancelled" THEN {} ELSE {"notify"}]
  /\ UNCHANGED <<status, claimedBy, lease, attempts, replies,
                 sweeps, mode, tasks>>

\* notify_cancel in the process w that served the request.
NotifyCancel(w, t) ==
  /\ mode[w] # "down"
  /\ "notify" \in cancelling[t]
  /\ cancelling' = [cancelling EXCEPT ![t] = @ \ {"notify"}]
  /\ tasks' = {IF k.worker = w /\ k.turn = t THEN [k EXCEPT !.notified = TRUE] ELSE k :
                 k \in tasks}
  /\ UNCHANGED <<rowVars, sweeps, mode>>

-----------------------------------------------------------------------------
(* Time and recovery.                                                      *)

\* The lease's deadline passes.
LeaseLapses(t) ==
  /\ status[t] \in Active
  /\ lease[t] = "live"
  /\ lease' = [lease EXCEPT ![t] = "lapsed"]
  /\ UNCHANGED <<status, claimedBy, attempts, cancel, replies,
                 sweeps, cancelling, mode, tasks>>

\* What _recover decides from the row the sweep read.
Decide(t) ==
  IF replies[t] > 0 THEN "completed"
  ELSE IF cancel[t] THEN "cancelled"
  ELSE IF attempts[t] < MaxAttempts THEN "queued"
  ELSE "failed"

\* Seeded fault of Expired: a sweep that looks at running turns only.
Faulty_Expired(t) == status[t] = "running" /\ lease[t] = "lapsed"

\* The sweep's filter, and the WHERE of _recover's UPDATE.
Expired(t) == status[t] \in Active /\ lease[t] = "lapsed"

\* A recover_company pass reads the row; it resolves its batch one by one later.
SweepReads(t) ==
  /\ Expired(t)
  /\ sweeps' = [sweeps EXCEPT ![t] = @ \cup {Decide(t)}]
  /\ UNCHANGED <<rowVars, cancelling, mode, tasks>>

\* _recover's transaction.
SweepApplies(t, d) ==
  /\ d \in sweeps[t]
  /\ Expired(t)
  /\ status' = [status EXCEPT ![t] = d]
  /\ claimedBy' = IF d = "queued" THEN [claimedBy EXCEPT ![t] = NoWorker] ELSE claimedBy
  /\ lease' = [lease EXCEPT ![t] = "none"]
  /\ sweeps' = [sweeps EXCEPT ![t] = {}]
  /\ UNCHANGED <<attempts, cancel, replies, cancelling, mode, tasks>>

\* The same pass expires turns created longer than the TTL ago; queued_at is
\* never reset, so a requeued turn may be expired at once.
QueueExpires(t) ==
  /\ status[t] = "queued"
  /\ status' = [status EXCEPT ![t] = "expired"]
  /\ UNCHANGED <<claimedBy, lease, attempts, cancel, replies,
                 sweeps, cancelling, mode, tasks>>

-----------------------------------------------------------------------------
WorkerStep(w) ==
  \/ \E t \in Turns : Claim(w, t) \/ ClaimOrphaned(w, t) \/ NotifyCancel(w, t)
  \/ Stop(w) \/ Crash(w)

TaskStep(k) ==
  \/ MarkRunning(k) \/ SetupFails(k) \/ RenewUnstarted(k)
  \/ Renew(k) \/ CallReturns(k) \/ CallCancelled(k)
  \/ Finalize(k) \/ FinalizeFails(k)
  \/ Release(k) \/ ReleaseFails(k)

TurnStep(t) ==
  \/ Create(t) \/ CancelQueued(t) \/ CancelActive(t)
  \/ LeaseLapses(t) \/ SweepReads(t) \/ QueueExpires(t)
  \/ \E d \in Decision : SweepApplies(t, d)

Next ==
  \/ \E t \in Turns : TurnStep(t)
  \/ \E w \in Workers : WorkerStep(w)
  \/ \E k \in tasks : TaskStep(k)

Spec == Init /\ [][Next]_vars

\* What a live worker's task does when nothing disturbs it.
Advances(k) == MarkRunning(k) \/ RenewUnstarted(k) \/ CallReturns(k) \/ Finalize(k)

(* Clocks advance, the system runtime keeps sweeping, and a live worker's   *)
(* task goes on: every adapter call has a timeout, so it returns.  Nobody   *)
(* has to claim, cancel, stop or crash.                                    *)
Fairness ==
  /\ \A t \in Turns :
       /\ WF_vars(LeaseLapses(t)) /\ WF_vars(SweepReads(t))
       /\ WF_vars(QueueExpires(t))
       /\ WF_vars(\E d \in Decision : SweepApplies(t, d))
  /\ \A w \in Workers, t \in Turns :
       WF_vars(\E k \in tasks : k.worker = w /\ k.turn = t /\ Advances(k))

FairSpec == Spec /\ Fairness

-----------------------------------------------------------------------------
(* Safety.                                                                 *)

\* A turn is worked on only when every earlier turn of its session is finished,
\* so the replies of a session answer its prompts in order and no two rows of one
\* session are active together (module docstring lines 10-14, the claim's UPDATE).
SessionOrder ==
  \A t, u \in Turns :
    status[t] \in Active /\ Ahead(u, t) => status[u] \in Terminal

\* The fence compares worker ids, not executions.  It is still exact: a task whose
\* worker holds the row is the execution the row's last claim started, even after
\* the same worker lost the turn and claimed it again (claim, renew, finalize).
FenceIsExact ==
  \A k \in tasks : Holds(k.worker, k.turn) => k.epoch = attempts[k.turn]

\* A turn gets at most one stored reply however many executions ran it, a completed
\* turn has one, and a turn that can still run has none, so recovery never meets a
\* stored reply on an active row (finalize against _recover).
ReplyOnce ==
  \A t \in Turns :
    /\ replies[t] \in {0, 1}
    /\ status[t] = "completed" => replies[t] = 1
    /\ replies[t] = 1 => status[t] \in {"completed", "cancelled"}

\* A sweep's decision is applied only to the claim it was read from: what is pending
\* was decided from the attempts the row still has (recover_company reads a batch
\* and resolves it row by row, while workers renew, release and claim).
SweepIsCurrent ==
  \A t \in Turns :
    sweeps[t] # {} =>
      /\ Expired(t)
      /\ "queued" \in sweeps[t] => attempts[t] < MaxAttempts
      /\ "cancelled" \in sweeps[t] => cancel[t]

\* A finished turn keeps its outcome, its reply and its attempts, whatever late
\* workers, sweeps, cancels and shutdowns still do (finalize, _recover, release).
OutcomeIsFinal ==
  [][\A t \in Turns :
       status[t] \in Terminal =>
         /\ status'[t] = status[t]
         /\ replies'[t] = replies[t]
         /\ attempts'[t] = attempts[t]]_vars

\* A worker that lost its turn stores nothing: only the execution of the row's
\* current claim can store a reply (finalize, "result discarded").
LateResultDiscarded ==
  [][\A t \in Turns :
       replies'[t] # replies[t] =>
         \E k \in tasks \ tasks' : k.turn = t /\ k.epoch = attempts[t]]_vars

(* The abstract queue this runtime implements.                             *)
PhaseOf(s) ==
  CASE s = "absent" -> "absent"
    [] s = "queued" -> "waiting"
    [] s \in Active -> "working"
    [] s = "completed" -> "answered"
    [] OTHER -> "closed"

Queue == INSTANCE SessionQueue WITH phase <- [t \in Turns |-> PhaseOf(status[t])]

\* Each step of the runtime is a step of the first-in first-out queue, or none.
ImplementsQueue == Queue!Spec

\* And every submitted turn is answered, failed, cancelled or expired in the end, so a
\* session is never blocked for ever, whatever crashes and lapses (recover_company).
ImplementsFairQueue == Queue!FairSpec

(* What the tool effect ledger sees of a turn.                             *)
Execution(t) ==
  INSTANCE TurnExecutions WITH epoch <- attempts[t], owned <- (status[t] \in Active)

\* attempt_count is the epoch the ledger takes it for: it grows by one when a worker
\* takes a turn nobody has, and by nothing else, so an execution that was replaced never
\* has the current count (claim against renew, finalize, release and _recover).
ImplementsExecutions ==
  /\ \A t \in Turns : Execution(t)!Init
  /\ [][\A t \in Turns : [Execution(t)!Next]_(Execution(t)!execution)]_vars

(* What the code or its documentation says and the code does not do.       *)

\* "Cancel a turn durably" (request_cancel): once the second statement ran, the
\* turn is finished or carries the flag.
CancelIsDurable ==
  [][\A t \in Turns :
       "flag" \in cancelling[t] /\ "flag" \notin cancelling'[t] =>
         cancel'[t] \/ status'[t] \in Terminal]_vars

\* Recovery "cancels it if a cancel was requested, requeues it if attempts are
\* left": a turn whose cancel was accepted is not put back into the queue.
CancelledNotRequeued ==
  \A t \in Turns : cancel[t] => status[t] # "queued"
=============================================================================
