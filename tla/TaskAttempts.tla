---------------------------- MODULE TaskAttempts ----------------------------
(***************************************************************************)
(* Durable attempts of employees at one repository task                    *)
(* (src/src/nexus/runtime/task_attempts.py, modes write and read_only).     *)
(*                                                                         *)
(* A task_attempts row is one try.  Users start, cancel and retry; a       *)
(* worker claims the queued row under a lease and drives it: it binds a    *)
(* chat turn that edits the task's worktree, waits for it, verifies the    *)
(* result, commits it once and finishes attempt and task in one            *)
(* transaction.  Recovery sweeps requeue, fail or cancel rows whose lease  *)
(* lapsed, queued rows have a TTL, and workers stop or crash anywhere.     *)
(* The verification and the commit go through a ledger of effects.         *)
(*                                                                         *)
(* One action is one transaction or one git command.  Every UPDATE of the  *)
(* code is a conditional, row-locked statement, so it is one step; what a  *)
(* handler read before it (a task, a row of the ledger, git's log) is in   *)
(* the record of that handler and may be stale when it is used.  A git     *)
(* commit is a process of its own, which goes on when its run is cancelled *)
(* or its worker dies.                                                     *)
(* Deliverables of text work (submit and review) are in WorkOrders.        *)
(***************************************************************************)
EXTENDS Naturals, FiniteSets

CONSTANTS
  MaxNumber,      \* bound: attempts of the task
  MaxStarts,      \* bound: start requests under way at once
  Keys,           \* idempotency keys that callers choose
  Workers,        \* worker ids: one per process start (WORKER_ID has a uuid)
  NoWorker,       \* claimed_by IS NULL
  MaxRecoveries,  \* task_attempt_max_recoveries
  Writes,         \* the mode of the work spec: write, or read_only
  Zombies         \* whether a lease may lapse under a driver that goes on

ASSUME NumberAssumption   == MaxNumber \in Nat \ {0}
ASSUME WorkerAssumption   == NoWorker \notin Workers
ASSUME RecoveryAssumption == MaxRecoveries \in Nat
ASSUME SwitchAssumption   == Zombies \in BOOLEAN /\ Writes \in BOOLEAN

VARIABLES
  task,        \* the task's status
  status,      \* an attempt's status ("none": no such attempt yet)
  key,         \* its idempotency_key: a caller's, or the number it retries
  claimedBy,   \* claimed_by
  lease,       \* lease_expires_at: NULL, in the future, or in the past
  recoveries,  \* lease losses so far
  cancel,      \* cancel_requested_at IS NOT NULL
  claims,      \* history: how often it was claimed
  rivals,      \* history: whether it was claimed while an earlier run, or its git, went on
  turn,        \* its chat turn (key attempt:<id>)
  bound,       \* chat_turn_id IS NOT NULL
  evidence,    \* ledger row evidence:<id>: none, pending, or done with a verdict
  commitRow,   \* ledger row commit:<id>: none, pending, or done with a result
  commits,     \* commits in git that carry its Nexus-Effect trailer
  recorded,    \* the commit stored with its artifacts when it finished
  dirty,       \* the worktree differs from git's index
  staged,      \* the index differs from HEAD
  orphans,     \* git commits under way whose run is gone
  starts,      \* start requests that loaded the task and did not insert yet
  cancelling,  \* cancel requests that read a leased row
  sweep,       \* what the recovery pass decided for the row it read, not applied yet
  mode,        \* worker process: up, stopping (stop_worker), down
  drivers      \* the workers' tasks (_running, the locals of _drive)

rowVars    == <<status, claimedBy, lease, recoveries, claims, rivals>>
effectVars == <<evidence, commitRow, commits, dirty, staged, orphans>>
asked      == <<starts, cancelling, sweep>>
vars == <<task, key, cancel, turn, bound, recorded, mode, drivers, rowVars, effectVars, asked>>

-----------------------------------------------------------------------------
Numbers  == 1..MaxNumber
Leased   == {"claimed", "running", "verifying"}
Active   == {"queued"} \cup Leased
Verdict  == {"completed", "failed", "blocked"}
Terminal == Verdict \cup {"cancelled", "expired"}
Result   == {"null", "sha"}

TaskStatus == {"pending", "in_progress", "completed", "failed", "blocked"}

\* What a sweep can decide for an attempt whose lease lapsed.
Decision == {"queued", "failed", "cancelled"}

\* preparing, resuming: in _prepare, without and with a turn known from the claim;
\* queuing: past its first fence; binding: the turn exists; watching: the renewal loop;
\* late: past the deadline, turn cancelled; handing: the turn delivered; then the
\* evidence and the commit, each a lookup and a piece of work; then _finish.
Stage == {"preparing", "resuming", "queuing", "binding", "watching", "late", "handing",
          "evidence", "checking", "committing", "changing", "staging", "staged",
          "recording", "finishing"}

\* One run of _drive: where it stands, the claim it came from (history), the outcome it
\* will finish with and the commit it will store.
Driver == [worker : Workers, n : Numbers, epoch : Nat, stage : Stage,
           verdict : Terminal \cup {"none"}, commit : Result]

\* A git child that outlived the run that started it.
Orphan == [worker : Workers, n : Numbers]

\* One start_attempt: its key and whether the task it loaded was completed.
Start == [key : Keys \cup Numbers, completed : BOOLEAN]

TypeOK ==
  /\ task \in TaskStatus
  /\ status \in [Numbers -> {"none"} \cup Active \cup Terminal]
  /\ key \in [Numbers -> Keys \cup Numbers \cup {0}]
  /\ claimedBy \in [Numbers -> Workers \cup {NoWorker}]
  /\ lease \in [Numbers -> {"none", "live", "lapsed"}]
  /\ recoveries \in [Numbers -> Nat]
  /\ cancel \in [Numbers -> BOOLEAN]
  /\ claims \in [Numbers -> Nat]
  /\ rivals \in [Numbers -> BOOLEAN]
  /\ turn \in [Numbers -> {"none", "live", "completed", "failed"}]
  /\ bound \in [Numbers -> BOOLEAN]
  /\ evidence \in [Numbers -> {"none", "pending"} \cup Verdict]
  /\ commitRow \in [Numbers -> {"none", "pending"} \cup Result]
  /\ commits \in [Numbers -> Nat]
  /\ recorded \in [Numbers -> Result]
  /\ dirty \in BOOLEAN /\ staged \in BOOLEAN
  /\ orphans \subseteq Orphan
  /\ starts \subseteq Start
  /\ cancelling \subseteq Numbers
  /\ sweep \in [Numbers -> Decision \cup {"none"}]
  /\ mode \in [Workers -> {"up", "stopping", "down"}]
  /\ drivers \subseteq Driver

Init ==
  /\ task = "pending"
  /\ status = [n \in Numbers |-> "none"]
  /\ key = [n \in Numbers |-> 0]
  /\ claimedBy = [n \in Numbers |-> NoWorker]
  /\ lease = [n \in Numbers |-> "none"]
  /\ recoveries = [n \in Numbers |-> 0]
  /\ cancel = [n \in Numbers |-> FALSE]
  /\ claims = [n \in Numbers |-> 0]
  /\ rivals = [n \in Numbers |-> FALSE]
  /\ turn = [n \in Numbers |-> "none"]
  /\ bound = [n \in Numbers |-> FALSE]
  /\ evidence = [n \in Numbers |-> "none"]
  /\ commitRow = [n \in Numbers |-> "none"]
  /\ commits = [n \in Numbers |-> 0]
  /\ recorded = [n \in Numbers |-> "null"]
  /\ dirty = FALSE /\ staged = FALSE
  /\ orphans = {}
  /\ starts = {}
  /\ cancelling = {}
  /\ sweep = [n \in Numbers |-> "none"]
  /\ mode = [w \in Workers |-> "up"]
  /\ drivers = {}

-----------------------------------------------------------------------------
(* Rows.                                                                   *)

Attempts == {n \in Numbers : status[n] # "none"}
ActiveOnes == {n \in Numbers : status[n] \in Active}

\* max(attempt_number) + 1.
NextNumber == Cardinality(Attempts) + 1

\* Seeded fault of Holds: the holder is compared, the status is not.
Faulty_Holds(w, n) == claimedBy[n] = w

\* The fence of renew, _update_held, release and the worker's _finish.
Holds(w, n) == claimedBy[n] = w /\ status[n] \in Leased

\* The task after an attempt ended (_TASK_OUTCOME).  A completed task keeps its status.
TaskOutcome(s) ==
  IF task = "completed" THEN task
  ELSE IF s \in Verdict THEN s ELSE "pending"

\* Seeded fault of FinishRow: a completed task is reopened by a later outcome.
Faulty_FinishRow(n, s) ==
  /\ status' = [status EXCEPT ![n] = s]
  /\ lease' = [lease EXCEPT ![n] = "none"]
  /\ task' = IF s \in Verdict THEN s ELSE "pending"
  /\ UNCHANGED <<claimedBy, recoveries, claims, rivals>>

\* The writes of _finish_in: the attempt and its task, in one transaction.
FinishRow(n, s) ==
  /\ status' = [status EXCEPT ![n] = s]
  /\ lease' = [lease EXCEPT ![n] = "none"]
  /\ task' = TaskOutcome(s)
  /\ UNCHANGED <<claimedBy, recoveries, claims, rivals>>

\* Back to the queue, held by nobody.
RequeueRow(n) ==
  /\ status' = [status EXCEPT ![n] = "queued"]
  /\ claimedBy' = [claimedBy EXCEPT ![n] = NoWorker]
  /\ lease' = [lease EXCEPT ![n] = "none"]
  /\ UNCHANGED <<claims, rivals, task>>

\* The git commits of runs that end while git is at work: wait_for kills git when its time
\* is up, not when it is cancelled, and not when the worker dies.
GitOf(ds) == {[worker |-> d.worker, n |-> d.n] : d \in {e \in ds : e.stage = "staged"}}

EndDriver(d) == drivers' = drivers \ {d}
ToStage(d, s) == drivers' = (drivers \ {d}) \cup {[d EXCEPT !.stage = s]}
ToVerdict(d, s, v) ==
  drivers' = (drivers \ {d}) \cup {[d EXCEPT !.stage = s, !.verdict = v]}
ToResult(d, s, c) ==
  drivers' = (drivers \ {d}) \cup {[d EXCEPT !.stage = s, !.commit = c]}

-----------------------------------------------------------------------------
(* Requests.                                                               *)

\* start_attempt up to the load of the task, which it does not read again.
LoadTask(k) ==
  /\ Cardinality(starts) < MaxStarts /\ NextNumber \in Numbers   \* bounds
  /\ starts' = starts \cup {[key |-> k, completed |-> task = "completed"]}
  /\ UNCHANGED <<task, key, cancel, turn, bound, recorded, mode, drivers,
                 rowVars, effectVars, cancelling, sweep>>

\* retry_attempt: the latest attempt, ended without success, under its retry key.
Retry(n) ==
  /\ n + 1 = NextNumber
  /\ status[n] \in Terminal \ {"completed"}
  /\ LoadTask(n)

\* Seeded fault of Insertable: an attempt being run does not block, only a queued one.
Faulty_Insertable(k) ==
  /\ \A m \in Attempts : key[m] # k
  /\ \A m \in Numbers : status[m] # "queued"

\* No attempt has the key, none is active: what the lookups find and what the unique
\* indexes enforce when two starts raced past them.
Insertable(k) ==
  /\ \A m \in Attempts : key[m] # k
  /\ ActiveOnes = {}

\* The rest of start_attempt: the next number, or the attempt the start attaches to, or
\* the refusal of a task that was completed when it was loaded.
Insert(r) ==
  /\ r \in starts
  /\ starts' = starts \ {r}
  /\ IF Insertable(r.key) /\ ~r.completed
     THEN /\ NextNumber \in Numbers   \* bound
          /\ status' = [status EXCEPT ![NextNumber] = "queued"]
          /\ key' = [key EXCEPT ![NextNumber] = r.key]
     ELSE UNCHANGED <<status, key>>
  /\ UNCHANGED <<task, claimedBy, lease, recoveries, cancel, claims, rivals, turn, bound,
                 recorded, effectVars, cancelling, sweep, mode, drivers>>

\* cancel_attempt of a queued attempt: finished in the request.
CancelQueued(n) ==
  /\ status[n] = "queued"
  /\ cancel' = [cancel EXCEPT ![n] = TRUE]
  /\ FinishRow(n, "cancelled")
  /\ UNCHANGED <<key, turn, bound, recorded, effectVars, asked, mode, drivers>>

\* cancel_attempt of an attempt that was read as held by a worker ...
CancelRead(n) ==
  /\ status[n] \in Leased
  /\ cancelling' = cancelling \cup {n}
  /\ UNCHANGED <<task, key, cancel, turn, bound, recorded, rowVars, effectVars,
                 starts, sweep, mode, drivers>>

\* ... and flags it if it is still active, queued or not.
CancelFlag(n) ==
  /\ n \in cancelling
  /\ cancelling' = cancelling \ {n}
  /\ cancel' = [cancel EXCEPT ![n] = @ \/ status[n] \in Active]
  /\ UNCHANGED <<task, key, turn, bound, recorded, rowVars, effectVars,
                 starts, sweep, mode, drivers>>

-----------------------------------------------------------------------------
(* Leases and recovery.                                                    *)

\* A lease runs out: of a worker that is gone, or of one that renews too late.
Lapse(n) ==
  /\ lease[n] = "live"
  /\ Zombies \/ \A d \in drivers : d.n = n => d.worker # claimedBy[n]
  /\ lease' = [lease EXCEPT ![n] = "lapsed"]
  /\ UNCHANGED <<task, status, key, claimedBy, recoveries, cancel, claims, rivals, turn, bound,
                 recorded, effectVars, asked, mode, drivers>>

\* Seeded fault of SweepRead: attempts being verified are not looked for.
Faulty_SweepRead(n) ==
  /\ lease[n] = "lapsed"
  /\ status[n] # "verifying"
  /\ LET decision == IF cancel[n] THEN "cancelled"
                     ELSE IF recoveries[n] >= MaxRecoveries THEN "failed" ELSE "queued"
     IN sweep' = [sweep EXCEPT ![n] = decision]
  /\ UNCHANGED <<task, key, cancel, turn, bound, recorded, rowVars, effectVars,
                 starts, cancelling, mode, drivers>>

\* recover_company reads an expired lease; _recover decides on the row it read.  One pass
\* runs at a time (the leader lease of the system runtime); one that dies is read over.
SweepRead(n) ==
  /\ lease[n] = "lapsed"
  /\ LET decision == IF cancel[n] THEN "cancelled"
                     ELSE IF recoveries[n] >= MaxRecoveries THEN "failed" ELSE "queued"
     IN sweep' = [sweep EXCEPT ![n] = decision]
  /\ UNCHANGED <<task, key, cancel, turn, bound, recorded, rowVars, effectVars,
                 starts, cancelling, mode, drivers>>

\* Seeded fault of StillLapsed: the decision is applied whatever became of the lease.
Faulty_StillLapsed(n) == status[n] \in Leased

\* The condition of every statement of _recover: the lease is still in the past.
StillLapsed(n) == lease[n] = "lapsed"

\* _recover's statement, conditional on the lease being lapsed still.
SweepApply(n) ==
  /\ sweep[n] # "none"
  /\ sweep' = [sweep EXCEPT ![n] = "none"]
  /\ \/ /\ StillLapsed(n)
        /\ sweep[n] = "queued"
        /\ RequeueRow(n)
        /\ recoveries' = [recoveries EXCEPT ![n] = @ + 1]
     \/ /\ StillLapsed(n)
        /\ sweep[n] # "queued"
        /\ FinishRow(n, sweep[n])
     \/ /\ ~StillLapsed(n)
        /\ UNCHANGED <<task, rowVars>>
  /\ UNCHANGED <<key, cancel, turn, bound, recorded, effectVars, starts, cancelling,
                 mode, drivers>>

\* The queue TTL, counted from the creation of the row: requeued ones expire too.
Expire(n) ==
  /\ status[n] = "queued"
  /\ FinishRow(n, "expired")
  /\ UNCHANGED <<key, cancel, turn, bound, recorded, effectVars, asked, mode, drivers>>

-----------------------------------------------------------------------------
(* The worker.                                                             *)

\* Seeded fault of Claim: an attempt this process still drives is claimed again.
Faulty_Claim(w, n) ==
  /\ mode[w] = "up"
  /\ status[n] = "queued"
  /\ ~cancel[n]
  /\ status' = [status EXCEPT ![n] = "claimed"]
  /\ claimedBy' = [claimedBy EXCEPT ![n] = w]
  /\ lease' = [lease EXCEPT ![n] = "live"]
  /\ claims' = [claims EXCEPT ![n] = @ + 1]
  /\ rivals' = [rivals EXCEPT ![n] = @ \/ \E d \in drivers \cup orphans : d.n = n]
  /\ task' = IF task = "completed" THEN task ELSE "in_progress"
  /\ drivers' = drivers \cup
       {[worker |-> w, n |-> n, epoch |-> claims[n] + 1,
         stage |-> IF bound[n] THEN "resuming" ELSE "preparing",
         verdict |-> "none", commit |-> "null"]}
  /\ UNCHANGED <<key, recoveries, cancel, turn, bound, recorded, effectVars, asked, mode>>

\* claim: the attempt is leased and its task in progress, in one transaction.
Claim(w, n) ==
  /\ mode[w] = "up"
  /\ status[n] = "queued"
  /\ ~cancel[n]
  /\ \A d \in drivers : ~(d.worker = w /\ d.n = n)   \* attempt_id in self._running
  /\ status' = [status EXCEPT ![n] = "claimed"]
  /\ claimedBy' = [claimedBy EXCEPT ![n] = w]
  /\ lease' = [lease EXCEPT ![n] = "live"]
  /\ claims' = [claims EXCEPT ![n] = @ + 1]
  /\ rivals' = [rivals EXCEPT ![n] = @ \/ \E d \in drivers \cup orphans : d.n = n]
  /\ task' = IF task = "completed" THEN task ELSE "in_progress"
  /\ drivers' = drivers \cup
       {[worker |-> w, n |-> n, epoch |-> claims[n] + 1,
         stage |-> IF bound[n] THEN "resuming" ELSE "preparing",
         verdict |-> "none", commit |-> "null"]}
  /\ UNCHANGED <<key, recoveries, cancel, turn, bound, recorded, effectVars, asked, mode>>

\* A step of d that the fence stops: whoever lost the row leaves.
Lost(d) ==
  /\ d.stage \in {"preparing", "resuming", "binding", "watching", "late", "handing",
                  "finishing"}
  /\ ~Holds(d.worker, d.n)
  /\ EndDriver(d)
  /\ UNCHANGED <<task, key, cancel, turn, bound, recorded, mode, rowVars, effectVars, asked>>

\* _prepare past the first fence (session bound); the worktree is found or created.
BindSession(d) ==
  /\ d.stage \in {"preparing", "resuming"}
  /\ Holds(d.worker, d.n)
  /\ ToStage(d, IF d.stage = "preparing" THEN "queuing" ELSE "binding")
  /\ UNCHANGED <<task, key, cancel, turn, bound, recorded, mode, rowVars, effectVars, asked>>

\* _prepare refuses for good: the attempt fails, if the worker still holds it.
Refuse(d) ==
  /\ d.stage \in {"preparing", "resuming", "queuing", "binding"}
  /\ ToVerdict(d, "finishing", "failed")
  /\ UNCHANGED <<task, key, cancel, turn, bound, recorded, mode, rowVars, effectVars, asked>>

\* create_turn under the key attempt:<id>: the same turn however often it is called.
CreateTurn(d) ==
  /\ d.stage = "queuing"
  /\ turn' = [turn EXCEPT ![d.n] = IF @ = "none" THEN "live" ELSE @]
  /\ ToStage(d, "binding")
  /\ UNCHANGED <<task, key, cancel, bound, recorded, mode, rowVars, effectVars, asked>>

\* The turn is bound and the attempt runs.
BindTurn(d) ==
  /\ d.stage = "binding"
  /\ Holds(d.worker, d.n)
  /\ status' = [status EXCEPT ![d.n] = "running"]
  /\ bound' = [bound EXCEPT ![d.n] = TRUE]
  /\ ToStage(d, "watching")
  /\ UNCHANGED <<task, key, claimedBy, lease, recoveries, cancel, claims, rivals, turn, recorded,
                 mode, effectVars, asked>>

\* renew: the lease of whoever holds the row is extended, lapsed or not.
Renew(d) ==
  /\ d.stage \in {"watching", "late", "checking"}
  /\ Holds(d.worker, d.n)
  /\ lease[d.n] = "lapsed"
  /\ lease' = [lease EXCEPT ![d.n] = "live"]
  /\ UNCHANGED <<task, status, key, claimedBy, recoveries, cancel, claims, rivals, turn, bound,
                 recorded, effectVars, asked, mode, drivers>>

\* The deadline passes before the turn ends: the turn is asked to stop.
Deadline(d) ==
  /\ d.stage = "watching"
  /\ ~cancel[d.n]
  /\ turn[d.n] = "live"
  /\ ToStage(d, "late")
  /\ UNCHANGED <<task, key, cancel, turn, bound, recorded, mode, rowVars, effectVars, asked>>

\* The turn is over: a cancel wins, then the deadline, then the turn's own status.
Settle(d) ==
  /\ d.stage \in {"watching", "late"}
  /\ Holds(d.worker, d.n)
  /\ turn[d.n] \in {"completed", "failed"}
  /\ \/ /\ cancel[d.n]
        /\ ToVerdict(d, "finishing", "cancelled")
     \/ /\ ~cancel[d.n]
        /\ d.stage = "late" \/ turn[d.n] = "failed"
        /\ ToVerdict(d, "finishing", "failed")
     \/ /\ ~cancel[d.n]
        /\ d.stage = "watching" /\ turn[d.n] = "completed"
        /\ ToStage(d, "handing")
  /\ UNCHANGED <<task, key, cancel, turn, bound, recorded, mode, rowVars, effectVars, asked>>

\* Any other exception of _drive (_run logs it): the lease will lapse.
Abort(d) ==
  /\ EndDriver(d)
  /\ UNCHANGED <<task, key, cancel, turn, bound, recorded, mode, rowVars, effectVars, asked>>

\* From running to verifying.
Hand(d) ==
  /\ d.stage = "handing"
  /\ Holds(d.worker, d.n)
  /\ status' = [status EXCEPT ![d.n] = "verifying"]
  /\ ToStage(d, "evidence")
  /\ UNCHANGED <<task, key, claimedBy, lease, recoveries, cancel, claims, rivals, turn, bound,
                 recorded, mode, effectVars, asked>>

\* What follows a verdict: the commit if written work passed, else the finish.
AfterVerdict(v) == IF v = "completed" /\ Writes THEN "committing" ELSE "finishing"

\* Seeded fault of LookUpEvidence: recorded evidence is not reused.
Faulty_LookUpEvidence(d) ==
  /\ d.stage = "evidence"
  /\ evidence' = [evidence EXCEPT ![d.n] = IF @ = "none" THEN "pending" ELSE @]
  /\ ToStage(d, "checking")
  /\ UNCHANGED <<task, key, cancel, turn, bound, recorded, mode, rowVars,
                 commitRow, commits, dirty, staged, orphans, asked>>

\* The ledger row of the evidence: inserted pending, or done and reused.
LookUpEvidence(d) ==
  /\ d.stage = "evidence"
  /\ evidence' = [evidence EXCEPT ![d.n] = IF @ = "none" THEN "pending" ELSE @]
  /\ IF evidence[d.n] \in Verdict
     THEN ToVerdict(d, AfterVerdict(evidence[d.n]), evidence[d.n])
     ELSE ToStage(d, "checking")
  /\ UNCHANGED <<task, key, cancel, turn, bound, recorded, mode, rowVars,
                 commitRow, commits, dirty, staged, orphans, asked>>

\* verify, and its verdict into the ledger: by row id, whatever the row says by then.
Check(d, v) ==
  /\ d.stage = "checking"
  /\ evidence' = [evidence EXCEPT ![d.n] = v]
  /\ ToVerdict(d, AfterVerdict(v), v)
  /\ UNCHANGED <<task, key, cancel, turn, bound, recorded, mode, rowVars,
                 commitRow, commits, dirty, staged, orphans, asked>>

\* Seeded fault of LookUpCommit: git is not asked for the trailer.
Faulty_LookUpCommit(d) ==
  /\ d.stage = "committing"
  /\ commitRow' = [commitRow EXCEPT ![d.n] = IF @ = "none" THEN "pending" ELSE @]
  /\ IF commitRow[d.n] \in Result THEN ToResult(d, "finishing", commitRow[d.n])
     ELSE ToStage(d, "changing")
  /\ UNCHANGED <<task, key, cancel, turn, bound, recorded, mode, rowVars,
                 evidence, commits, dirty, staged, orphans, asked>>

\* The ledger row of the commit, then git's log: recorded, found by its trailer, or new.
LookUpCommit(d) ==
  /\ d.stage = "committing"
  /\ commitRow' = [commitRow EXCEPT ![d.n] = IF @ = "none" THEN "pending" ELSE @]
  /\ IF commitRow[d.n] \in Result THEN ToResult(d, "finishing", commitRow[d.n])
     ELSE IF commits[d.n] > 0 THEN ToResult(d, "recording", "sha")
     ELSE ToStage(d, "changing")
  /\ UNCHANGED <<task, key, cancel, turn, bound, recorded, mode, rowVars,
                 evidence, commits, dirty, staged, orphans, asked>>

\* changed_paths: nothing to commit, or something.
ChangedPaths(d) ==
  /\ d.stage = "changing"
  /\ ToStage(d, IF dirty \/ staged THEN "staging" ELSE "recording")
  /\ UNCHANGED <<task, key, cancel, turn, bound, recorded, mode, rowVars, effectVars, asked>>

\* git add.  (Of a run that is gone it stages what the next run's own git add stages.)
StageAll(d) ==
  /\ d.stage = "staging"
  /\ dirty' = FALSE
  /\ staged' = (staged \/ dirty)
  /\ ToStage(d, "staged")
  /\ UNCHANGED <<task, key, cancel, turn, bound, recorded, mode, rowVars,
                 evidence, commitRow, commits, orphans, asked>>

\* git commit.  With nothing staged any more git fails, and the driver with it.
Commit(d) ==
  /\ d.stage = "staged"
  /\ IF staged
     THEN /\ commits' = [commits EXCEPT ![d.n] = @ + 1]
          /\ ToResult(d, "recording", "sha")
     ELSE /\ EndDriver(d)
          /\ UNCHANGED commits
  /\ staged' = FALSE
  /\ UNCHANGED <<task, key, cancel, turn, bound, recorded, mode, rowVars,
                 evidence, commitRow, dirty, orphans, asked>>

\* The result into the ledger: by row id, whatever the row says by then.
RecordCommit(d) ==
  /\ d.stage = "recording"
  /\ commitRow' = [commitRow EXCEPT ![d.n] = d.commit]
  /\ ToStage(d, "finishing")
  /\ UNCHANGED <<task, key, cancel, turn, bound, recorded, mode, rowVars,
                 evidence, commits, dirty, staged, orphans, asked>>

\* The worker's _finish, with the verdict and the artifacts of this run.
Finish(d) ==
  /\ d.stage = "finishing"
  /\ Holds(d.worker, d.n)
  /\ FinishRow(d.n, d.verdict)
  /\ recorded' = [recorded EXCEPT ![d.n] = d.commit]
  /\ EndDriver(d)
  /\ UNCHANGED <<key, cancel, turn, bound, mode, effectVars, asked>>

-----------------------------------------------------------------------------
(* The chat turn (ChatTurns), the worktree and the processes.              *)

\* The CLI of a live turn edits the worktree of the task's session.
Edit(n) ==
  /\ Writes
  /\ turn[n] = "live"
  /\ dirty' = TRUE
  /\ UNCHANGED <<task, key, cancel, turn, bound, recorded, mode, drivers, rowVars,
                 evidence, commitRow, commits, staged, orphans, asked>>

TurnEnds(n, s) ==
  /\ turn[n] = "live"
  /\ turn' = [turn EXCEPT ![n] = s]
  /\ UNCHANGED <<task, key, cancel, bound, recorded, mode, drivers, rowVars, effectVars, asked>>

\* stop_worker: no more claims; what is left after the drain is handed back.
Stop(w) ==
  /\ mode[w] = "up"
  /\ mode' = [mode EXCEPT ![w] = "stopping"]
  /\ UNCHANGED <<task, key, cancel, turn, bound, recorded, drivers, rowVars, effectVars, asked>>

\* _run is cancelled: release, fenced, and without a look at cancel_requested_at.  Git is
\* neither killed nor waited for.
HandBack(d) ==
  /\ mode[d.worker] = "stopping"
  /\ IF Holds(d.worker, d.n)
     THEN RequeueRow(d.n) /\ UNCHANGED recoveries
     ELSE UNCHANGED <<task, rowVars>>
  /\ EndDriver(d)
  /\ orphans' = orphans \cup GitOf({d})
  /\ UNCHANGED <<key, cancel, turn, bound, recorded, mode,
                 evidence, commitRow, commits, dirty, staged, asked>>

Crash(w) ==
  /\ mode[w] # "down"
  /\ mode' = [mode EXCEPT ![w] = "down"]
  /\ drivers' = {d \in drivers : d.worker # w}
  /\ orphans' = orphans \cup GitOf(drivers \ drivers')
  /\ UNCHANGED <<task, key, cancel, turn, bound, recorded, rowVars,
                 evidence, commitRow, commits, dirty, staged, asked>>

\* The git commit of a run that is gone lands after all.
OrphanLands(o) ==
  /\ staged
  /\ staged' = FALSE
  /\ commits' = [commits EXCEPT ![o.n] = @ + 1]
  /\ orphans' = orphans \ {o}
  /\ UNCHANGED <<task, key, cancel, turn, bound, recorded, mode, drivers, rowVars,
                 evidence, commitRow, dirty, asked>>

\* Or it does not: it was killed as well, or finds nothing staged.
OrphanEnds(o) ==
  /\ orphans' = orphans \ {o}
  /\ UNCHANGED <<task, key, cancel, turn, bound, recorded, mode, drivers, rowVars,
                 evidence, commitRow, commits, dirty, staged, asked>>

-----------------------------------------------------------------------------
Advance(d) ==
  \/ Lost(d) \/ BindSession(d) \/ CreateTurn(d) \/ BindTurn(d) \/ Settle(d) \/ Hand(d)
  \/ LookUpEvidence(d) \/ (\E v \in Verdict : Check(d, v))
  \/ LookUpCommit(d) \/ ChangedPaths(d) \/ StageAll(d) \/ Commit(d)
  \/ RecordCommit(d) \/ Finish(d)

DriverStep(d) ==
  Advance(d) \/ Refuse(d) \/ Renew(d) \/ Deadline(d) \/ Abort(d) \/ HandBack(d)

Sweep(n) == SweepRead(n) \/ SweepApply(n)

Next ==
  \/ \E k \in Keys : LoadTask(k)
  \/ \E r \in starts : Insert(r)
  \/ \E n \in Numbers :
       \/ Retry(n) \/ CancelQueued(n) \/ CancelRead(n) \/ CancelFlag(n)
       \/ Lapse(n) \/ Sweep(n) \/ Expire(n)
       \/ Edit(n) \/ \E s \in {"completed", "failed"} : TurnEnds(n, s)
       \/ \E w \in Workers : Claim(w, n)
  \/ \E d \in drivers : DriverStep(d)
  \/ \E w \in Workers : Stop(w) \/ Crash(w)
  \/ \E o \in orphans : OrphanLands(o) \/ OrphanEnds(o)

Spec == Init /\ [][Next]_vars

-----------------------------------------------------------------------------
(* Fairness: a driver goes on, turns end (they have deadlines of their      *)
(* own), leases that nobody renews lapse, the recovery pass and the queue's *)
(* TTL come round, and an accepted request is carried out.                  *)

DriverOf(w, n) == \E d \in drivers : d.worker = w /\ d.n = n /\ Advance(d)

LapseDead(n) == (\A d \in drivers : d.n = n => d.worker # claimedBy[n]) /\ Lapse(n)

Fairness ==
  /\ \A w \in Workers, n \in Numbers : WF_vars(DriverOf(w, n))
  /\ \A n \in Numbers :
       /\ WF_vars(\E s \in {"completed", "failed"} : TurnEnds(n, s))
       /\ WF_vars(LapseDead(n))
       /\ WF_vars(SweepRead(n))
       /\ WF_vars(SweepApply(n))
       /\ WF_vars(Expire(n))

FairSpec == Spec /\ Fairness

-----------------------------------------------------------------------------
(* Properties.                                                             *)

\* The task's status says how its latest attempt stands, or that one completed it
\* (claim and _finish_in write both rows; a start, a requeue, a sweep that lost the race
\* write neither).  An attempt that was never claimed says nothing until it ends.
Spoken == {n \in Attempts : claims[n] > 0 \/ status[n] \in Terminal}

Latest == CHOOSE n \in Spoken : \A m \in Spoken : m <= n

TaskFollowsAttempts ==
  task = IF \E n \in Numbers : status[n] = "completed" THEN "completed"
         ELSE IF Spoken = {} THEN "pending"
         ELSE IF status[Latest] \in Active THEN "in_progress"
         ELSE IF status[Latest] \in Verdict THEN status[Latest] ELSE "pending"

\* The fence compares worker ids, not claims.  It is exact all the same: whoever passes it
\* is the run of the latest claim, because a process never drives an attempt twice.
FenceIsExact ==
  \A d \in drivers : Holds(d.worker, d.n) => d.epoch = claims[d.n]

\* A completed attempt stored its commit if there is one, and there is at most one:
\* commit_work commits "exactly once".
CommitExactlyOnce ==
  \A n \in Numbers :
    /\ commits[n] <= 1
    /\ status[n] = "completed" => recorded[n] = IF commits[n] = 1 THEN "sha" ELSE "null"

\* So it is over crashes between git and the ledger, lapses and hand-backs, a git commit
\* that lands after its run is gone included, as long as no run was claimed while an
\* earlier one, or the git commit it had started, still went on.
CommitIsRecorded ==
  \A n \in Numbers : ~rivals[n] =>
    /\ commits[n] <= 1
    /\ status[n] = "completed" => recorded[n] = IF commits[n] = 1 THEN "sha" ELSE "null"

\* Nothing is committed under an attempt that its recorded evidence does not pass: the
\* verification is "reused on recovery, never rerun once recorded" (without rivals, too).
CommittedWasVerified ==
  \A n \in Numbers : ~rivals[n] /\ commits[n] > 0 => evidence[n] = "completed"

\* A finished attempt is never finished again, requeued or claimed, whatever old runs,
\* sweeps and cancels still do, and what it stored stays.
AttemptIsFinal ==
  [][\A n \in Numbers : status[n] \in Terminal =>
       /\ status'[n] = status[n]
       /\ recorded'[n] = recorded[n]]_vars

\* A worker whose lease is live is not deprived of its attempt: a sweep that read the
\* lease as expired, before a renewal, changes nothing.
RenewedIsKept ==
  [][\A d \in drivers : Holds(d.worker, d.n) /\ lease[d.n] = "live" =>
       Holds(d.worker, d.n)' \/ d \notin drivers']_vars

\* Every attempt ends, whatever crashes: the lease, the recoveries' limit and the TTL see
\* to it.
EveryAttemptSettles ==
  \A n \in Numbers : status[n] \in Active ~> status[n] \in Terminal

\* Attempts are tried one at a time, closed once, and decide the task (AttemptHistory).
Closed == {n \in Numbers : status[n] \in Terminal}

History == INSTANCE AttemptHistory WITH
  closed <- [n \in 1..Cardinality(Closed) |-> status[n]],
  open <- ActiveOnes # {},
  done <- (task = "completed")

ImplementsHistory == History!Spec
=============================================================================
