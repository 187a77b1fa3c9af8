# Verification of the NVLabsCompany durable runtime

NVLabsCompany (package `nexus`, under `src/src/nexus`) runs companies of AI
employees. HTTP requests, schedules and other agents create work; workers in one
or more processes call models and tools; a PostgreSQL database is the only thing
they share. What makes the system correct is the protocol on that database:
conditional UPDATEs, leases, fences, sweeps and idempotency rows. This directory
models those protocols in TLA+, checks them with TLC and proves the central
safety properties with TLAPS.

## Inventory

| Component | State | Operations | Talks to |
| --- | --- | --- | --- |
| Chat turn runtime (`runtime/chat_turns.py`, `models/chat_turn.py`) | `chat_turns` rows; per process `_running`, `_cancels` | create, claim, mark running, renew, finalize, release, cancel, recover, expire | sessions (`next_seq`), adapters, system runtime, tool effects (epoch) |
| Tool effect ledger (`tools/effects.py`, `tools/factory.py`) | `tool_effects`, `tool_bridge_slots`, `tool_notifications` rows | claim, settle, expire leases, resolve, reserve a bridge slot | chat turns (share lock on the row), temp grants, tools |
| Task attempt runtime (`runtime/task_attempts.py`) | `task_attempts` rows, the task's status, ledger rows of the evidence and the commit, a worktree | start, claim, renew, bind, verify, commit, finish, release, cancel, retry, recover, expire | tasks, worktrees, chat turns, git, work orders |
| Work orders (`services/work_service.py`) | an order's status and plan, its children, parked deliverables | delegate, assign, finalize, submit, review, roll up, cancel | task attempts |
| Worktrees (`services/worktree_service.py`, `runtime/git_runner.py`) | `agent_worktrees` rows; branches in git | activate, review, approve, merge, refresh, archive, release | approvals, sessions, git |
| Budget ledger (`services/budget_service.py`, `services/streaming_budget.py`) | `budget_policies` counters, `cost_events` rows | reserve (chains), commit, release, reap, reconcile, window roll | orchestrator, system runtime |
| Temporary grants (`tools/governance_overlay.py`) | `used_count`, uses per invocation | consume, revoke, expire | the ledger's claim |
| Breakers and kill switch (`governance/persistent_*.py`) | database row, Redis key, process registry | record failure or success, reset, activate, deactivate | orchestrator, middleware |
| Approvals (`governance/approvals.py`, `services/approval_service.py`) | `approvals` rows | request, decide, expire | autonomy gate |
| Webhook queue (`communication/webhook_queue.py`) | in-memory lists saved to a file | enqueue, dequeue, ack, nack | webhook sender |
| Request idempotency (`api/idempotency_middleware.py`) | `idempotency_records` rows | begin, store, reclaim | every POST route |
| System runtime (`system_runtime/`) | leader lease, due times | run the sweeps of every tenant | all of the above |
| Orchestration, scheduler, watchdog, checkpoints | mostly process memory | phases, goal loop, retries | workers |
| Adapters, router, API, dashboard, memory, knowledge, voice, plugins, evolution | storage, I/O, text | | |

Hard behaviour, and where it is: two workers (or a worker and a sweep) on one row;
state read in one statement and used in a later one; a worker that outlives its
lease (a *zombie*) and still stores results or calls tools; crashes between a
claim and the work it stands for; cancels and shutdowns that race all of it;
external effects that cannot be rolled back and may land late; git and the
database, which share no transaction. `PROJECT.json` lists each such hazard of the
modelled parts at its line.

What makes each component correct:

- *chat turns*: a session is a FIFO queue with one active turn; one reply per
  turn; outcomes are final; late results are discarded; everything settles;
- *tool effects*: a non-idempotent effect happens at most once; replays are true;
  only one execution of a turn opens new writes; no row is left executing;
- *task attempts*: one attempt at a time, closed once; the task says what its
  attempts did; verified work is committed once and the commit is on record;
- *work orders*: an order completes exactly when its final plan is done; a closed
  order or child stays closed; a deliverable waits for its review;
- *worktrees*: only what was approved, at that very commit, is merged, once; a row
  says of git only what is true; the target branch only grows;
- *budget*: the spend of the window and the open holds fit the limit; the counters never overstate the
  rows; a call is held in every scope or in none; a closed hold stays closed;
- *grants*: uses never pass `max_uses`; one use per invocation;
- *breakers, kill switch*: an open breaker is seen by every process;
- *webhooks, idempotency*: nothing is lost or done twice over a restart.

## Modules

| Module | What it is |
| --- | --- |
| `SessionQueue` | Abstract: what the turn runtime promises. Each session is a first-in first-out queue of turns; a turn settles once. |
| `ChatTurns` | The turn runtime: rows, worker processes and their tasks, cancel requests, sweeps. Implements `SessionQueue` and, for each turn, `TurnExecutions`. |
| `MCChatTurns` | Instances of `ChatTurns` for TLC. |
| `ChatTurns_proofs` | Its theorems. |
| `TurnExecutions` | Abstract: a turn as its tool ledger sees it. Executions never overlap in the row, and each start is a new epoch. |
| `ToolEffects` | The effect ledger of one turn: rows, calls, the outside world, the operator. Its turn is `TurnExecutions`. |
| `MCToolEffects` | Instances of `ToolEffects` for TLC. |
| `ToolEffects_proofs` | Its theorems. |
| `BudgetLedger` | The two-phase spend ledger of one company: policy counters, hold rows, calls, reapers. |
| `MCBudgetLedger` | Instances of `BudgetLedger` for TLC. |
| `BudgetLedger_proofs` | Its theorems about calls, rows and single counters. |
| `BudgetSums_proofs` | Its theorems about counters and the sums of rows they stand for. |
| `AttemptHistory` | Abstract: what attempts promise to whoever reads a task. They are tried one at a time and closed once. |
| `TaskAttempts` | The attempt runtime of one task: rows, workers and their runs, requests, sweeps, the ledger of evidence and commit, git. Implements `AttemptHistory`. |
| `MCTaskAttempts` | Instances of `TaskAttempts` for TLC. |
| `TaskAttempts_proofs` | Its theorems. |
| `OrderPlan` | Abstract: what an order promises its manager. It completes in the very step that makes its final plan done. |
| `WorkOrders` | One order, its children, the text attempts at them and their review. Implements `OrderPlan`. |
| `MCWorkOrders` | Instances of `WorkOrders` for TLC. |
| `WorkOrders_proofs` | Its theorems. |
| `ProtectedBranch` | Abstract: what worktrees promise to the owner of the target branch. It only grows, by pushes and by approved merges of something new. |
| `Worktrees` | Worktrees' rows, their approvals, their branches and the branch they merge into. Implements `ProtectedBranch`. |
| `MCWorktrees` | Instances of `Worktrees` for TLC. |
| `Worktrees_proofs` | Its theorems. |

Operators named `Faulty_...` stand before the operator they deviate from. No module
uses them: each is a plausible mistake in the code, put in the operator's place to
see that a property notices it (`PROJECT.json`, "mutants").

### ChatTurns

A turn is its `turn_seq`. The row's columns are the variables `status`,
`claimedBy`, `lease` (NULL, live, lapsed), `attempts` (`attempt_count`; with it
goes `execution_id`, which changes exactly when it does), `cancel` and `replies`
(stored replies; the code's `response_message_id`). `tasks` are the workers'
`_execute` runs: each copied its epoch when it started and has a stage. `sweeps`
holds what a recovery pass decided from a row it read and has not applied yet.
`cancelling` holds cancel requests that ran their first statement only.

One action is one transaction or one step of a task. Every UPDATE of the code is
one conditional statement on one row, which the database runs under the row's
lock, so it is atomic whatever runs beside it. `request_cancel` is two such
statements and a hint (`CancelQueued`, `CancelActive`, `NotifyCancel`), and a sweep
is a read and later UPDATEs (`SweepReads`, `SweepApplies`, `QueueExpires`).

- `WORKER_ID` has a fresh uuid per process, so a crashed worker never comes back;
  a restarted process is another member of `Workers`.
- A sweep compares `lease_expires_at` with the time it started. A lease that was
  replaced since is later than that, so replacing a lease clears `sweeps`.
- `next_seq` locks the session's row until the commit, so the turns of a session
  become visible in order (`Create`).
- A queued turn may pass its TTL at any time: `queued_at` is set at creation and
  never reset.
- Clocks of worker hosts are taken to agree; the deadline is only in the future or
  in the past.
- A finalize that raises leaves the turn to its lease, except that of a turn that was
  cancelled before it started (stage `withdrawn`): it is inside the `try`, so the turn
  is finalized as failed (`FinalizeFails`).

### ToolEffects

One turn, its slots (model round and position), one `tool_effects` row per slot.
`epoch` is the turn's attempt, `owned` whether its row is active: both are the variables
of `TurnExecutions`, from before the first claim, and only its two actions change them
(`TurnClaimed`, `TurnLeft`). `ChatTurns` implements that module for each of its turns
(`ImplementsExecutions`), so what holds of the ledger beside any such turn holds beside
the turns of `ChatTurns`: workers, leases, sweeps and cancels reach the ledger only
through these two columns. `MaxEpoch`, which bounds the claims, is any number in the
theorems. A call claims
a row (`Open`, `Retry`, `Retake`), runs (`Happens`), has its outcome classified
(`Returns`) and settles the row (`Settle`), or stops anywhere (`Abandoned`). Any
execution up to the current one may call: zombies are `e < epoch` (refused by
`Current`), and `e = epoch` while `owned` is FALSE (not refused).

- `count` stands for the claim token too. Both change with every claim.
- A call that was refused, found busy or blocked, or replayed changes nothing.
- The effect may land late: a call nobody waits for is `gone` and its request may
  still reach the outside world, unless it happened or was proven not to begin.
- A clean success means that the effect happened, and `EffectNotStarted` or
  `effect_rejected` that it did not. This is the contract of a tool, and the
  ledger relies on it. Everything else is `ambiguous`, happened or not.
- An operator tells what is true when deciding; a late request may change it.
- A content's declared class does not change during a turn.
- Temporary grants, notices and the sealing of results are left out.

### BudgetLedger

`spent`, `reserved` and `window` are columns of `budget_policies`; `events` holds the
`cost_events` row of each call at each policy; `calls` says where a call is in
`reserve_chain` or in its settlement (`look` is the policy row its session read,
`held` the reservation ids it returned); `snaps` holds what a reaper has read and
not yet released. A call walks its chain of scopes, company first: reap, read the
policy, hold; then the model call; then one settlement per hold.

- READ COMMITTED: a SELECT is an action of its own where a later statement uses
  what it read (`ReapReads`, `SweepReads`, `PolicyReads`). The writes of a
  transaction are one action, since their row locks last until the commit; a
  transaction that loses a deadlock changes nothing (`ReserveFails`, `SettleFails`,
  `SweepFails`).
- `Roll` does what the session does: the assignments to the loaded row are flushed,
  without a condition and only for values that changed, before the conditional
  UPDATE runs.
- The constraint `budget_never_overcommitted` (PostgreSQL) guards `Commit`; the
  guard of `Hold` implies it, and no other action raises a counter.
- A cost of 0 is a call that did not bill. A hold lapses when its TTL passes; only
  `MayLapse` calls are that slow.
- `opened`, `paid`, `erased` and `doubled` are history, written by the steps they tell
  of and read by no guard. `paid` is what calls were charged since the policy was last
  rolled into a window it had not been in, whatever the row's counter says; a call that
  is settled after the boundary, but before the first reservation of the new window,
  counts to the old one, as it does in the row, because only reservations roll.
  `erased` and `doubled` mark the two ways a policy loses count: a roll on an old read
  took spend off the counter, a hold that was over was given back again.
- One policy per scope, with its hard stop on. `NoPolicy` in a chain is a scope
  without one. `record_cost`, `enforce_limit` and `reconcile_budget_counters` are
  called by nothing in the program.

### TaskAttempts

An attempt is its `attempt_number`. `status`, `claimedBy`, `lease`, `recoveries`,
`cancel`, `bound` and `key` are columns of `task_attempts`, `task` the task's status.
`evidence` and `commitRow` are the ledger rows of the verification and of the commit;
`commits` counts the commits in git that carry the attempt's trailer and `dirty` is the
state of the worktree. `drivers` holds each run of `_drive`: its stage, the verdict
and the commit it has in its locals, and, for the properties only, the claim it came
from (`claims` counts claims; `rivals` marks an attempt that was claimed while an
earlier run of it, or the git commit of one, still went on).

- One action is one statement, one transaction or one git command. `start_attempt`
  loads the task and inserts later (`LoadTask`, `Insert`); `cancel_attempt` reads and
  then flags (`CancelRead`, `CancelFlag`); recovery reads and then applies
  (`SweepRead`, `SweepApply`); the commit is a look at the ledger and git's log, a
  look at the changed paths, git's add and commit and the ledger (`LookUpCommit`,
  `ChangedPaths`, `StageAll`, `Commit`, `RecordCommit`). None of the last five is
  fenced, as in the code.
- Git is a child process, killed only when its time is up (`GitRunner._exec`). A run
  that is handed back by a stopping worker, or dies with its process, while git commits
  leaves that commit in `orphans`; it lands at any later moment, or never
  (`OrphanLands`, `OrphanEnds`). A `git add` that outlives its run stages what the next
  run's own would.
- A key that callers choose is a member of `Keys`; a retry's key is the number of
  the attempt it retries.
- `Lapse` needs a holder that is gone, unless `Zombies`: then a lease may run out
  under a run that goes on, because its host stalls or it cannot reach the database.
- The chat turn (`turn`) ends whenever it likes; how it is served is `ChatTurns`.
- `recover_company` of one company runs on one host at a time (the leader lease of
  the system runtime).
- Text work, which is submitted and reviewed, has its attempts in `WorkOrders`.

### WorkOrders

`order` and `planFinal` are the order's status and `plan_finalized_at`; `child`,
`number`, `attempt` and `cancel` a child's status and its latest attempt. Workers and
leases are left out: an attempt is queued, running, parked (waiting for review) or
ended. `lock` is the holder of the order's row. `ending` is the transaction that ends
an attempt: its writes are seen when it commits, so it is three actions, `EndBegin`
(the attempt and the child), `Settle` (the order's row and the look at the other
children) and `EndCompleted` or `EndOther` (the commit).

- What a request read before its transaction is kept: `assigning`, `cancelling`,
  `finalizing`, `retrying`, `following`. Each can be lost by a crash where that
  changes something (`RetryLost`, `FollowLost`); an assignment that is lost between
  the child and its attempt is found by its replay (`AssignStart`).
- A transaction that needs a locked row waits: its action is not enabled. Two that
  wait for each other are not modelled; the database aborts one, and it leaves no
  trace.
- `Phase` is what the abstract order (`OrderPlan`) sees of a child: not added, open, out
  of attempts, completed or cancelled.
- Besides the reviewer's retry (`RetryReopen`, `RetryStart`, which does nothing when a
  later attempt was started meanwhile) users start and retry attempts by route
  (`StartAgain`) and cancel one attempt without its child, which goes back to pending
  (`CancelAttempt`). A child may be tried `MaxAttempts` times, because it is text work;
  for other work the code has no cap on starts.
- `start_attempt` reads the task and inserts in one step here. That it may act on a
  stale read of the task is in `TaskAttempts`.

### Worktrees

`status`, `recorded` (`head_commit`), `link` (the commit the linked approval names)
and `held` (`session_id`) are the row; `head`, `dirty` and `registered` are git's side
of it; `target` is the sequence of what was pushed on the target branch. A request
(`requests`) keeps the row as it loaded it and what it read of git, and goes through
`Load`, git's part (`ReadHead`, `Register`, `CommitLeft`, `Publish`) and `Record`, the
conditional UPDATE of `_cas`. It may die between any two of them (`Die`).

- Commits of a branch are numbered and a branch only grows. A rewritten branch (an
  amended commit) is a head that moved, which the checks treat in the same way, but
  what such a head still contains is not modelled. The check that the target holds the
  base commit is left out: it holds because the target only grows.
- An approval is a pair of a worktree and a commit. Its expiry only makes requests
  fail, which `Die` covers.
- `merge_into` computes the merge and then publishes it with `update-ref` and the old
  value: one step that compares and swaps (`Publish`). A conflict ends the request.

## Runs

All runs allow the system to stop (`CHECK_DEADLOCK FALSE`): when the turns are
settled, the workers stopped and the claims used up, nothing is left to do.

| Run | Instance | What it shows |
| --- | --- | --- |
| `turns_queue` | 2 turns of one session, 1 worker, 2 claims of a turn | `SessionOrder`, `OutcomeIsFinal`, and under fairness the refinement of `SessionQueue` with its liveness (`ImplementsFairQueue`): every turn settles |
| `turns_fencing` | 1 turn, 3 workers with 2 places each, 2 claims | a turn that is lost, claimed again (by the same worker too) and finished by late tasks: `FenceIsExact`, `ReplyOnce`, `SweepIsCurrent`, `LateResultDiscarded`, refinement of `TurnExecutions` (`ImplementsExecutions`) |
| `effects_turn` | 2 slots, safe and unsafe calls, 2 executions, one slot claimed twice | `AtMostOnce`, `ReplayIsTrue`, `OneOpener`, `LiveClaimIsHeld`, and under fairness `NoRowHangs` |
| `budget_limit` | 3 calls, two of one agent and one without an agent's policy, one of which may outlive its hold, 2 windows, costs above and below the hold | `LimitIsKept`, `HeldInEveryScope` |
| `budget_reap` | 2 calls of one agent, the sweep, all holds may lapse, fail-open | `HoldsAreBacked`, `SpentIsCommitted`, `RefusedHoldsNothing`, `ClosedIsFinal`, no counter below zero (`TypeOK`), and under fairness `EveryHoldCloses` |
| `attempts_history` | 2 attempts, 1 worker, 2 keys, read-only work, 1 recovery | starts on stale reads, retries, cancels, crashes, sweeps and claims after them: `TaskFollowsAttempts`, refinement of `AttemptHistory` |
| `attempts_zombies` | 1 attempt at written work, 2 workers that may lose their lease and go on, 1 recovery | `FenceIsExact`, `CommitIsRecorded`, `CommittedWasVerified`, `AttemptIsFinal`, `RenewedIsKept`, and under fairness `EveryAttemptSettles` |
| `orders` | 2 children with 2 attempts each | every request, those by route included, and every end of an attempt at any moment: `CompletedMeansAll`, `NoMissedCompletion`, `InReviewIsWaiting`, refinement of `OrderPlan` (`ImplementsPlan`), `OrderIsFinal` |
| `worktrees` | 1 worktree with 2 commits, 2 requests at once, 1 push of others | `MergedWasApproved`, `ApprovalNamesHead`, `MergedIsInTarget`, `MergedOnce`, refinement of `ProtectedBranch` (`ImplementsBranch`), `LifecycleIsFinal` |
| `budget_double_reap`, `attempts_lost_commit`, `orders_cancel_leak` | smallest instances | what the text of the repository says and the code does not do, see below |

Types: `TypeOK` of every module is a theorem, and part of the inductive invariants
below.

Why the bounds are enough. Order needs two turns and two workers: a third turn
only repeats the relation of the first two, and the proofs do not bound them.
Fencing needs one turn lost twice (three workers, two places in each so that the
guard on `_running` is what keeps a turn from running twice in one process).
Slots interact only through `MayOpen`, which needs an opener and a slot that a later
execution would open; the slot that is claimed twice lets a replaced holder meet the
call that replaced it.
`MaxEpoch` and `MaxTakes` bound counters the code leaves open (an attempt and a
claim each only grow); graceful hand-backs are bounded because each worker stops
once.

The budget races need two calls for the last cents and a third for what a double
decrement sets free; two reapers (a call and the sweep) and a late settlement are
in `budget_reap`. Two windows, in `budget_limit`, are enough for a roll and a stale
roll. Costs of 0, 1 and 2 cents beside holds of 1 make a call cost less, as much or
more than its hold (`budget_reap`, the largest graph, keeps only less and more).

Attempts race for the one active place, which two show (`attempts_history`: a start on
a stale read beside a retry); the races inside an attempt need one attempt and two
workers, one of which lost its lease, and a recovery that lets the second in
(`attempts_zombies`). The same run has the loop that liveness is about: a worker dies, the
recovery requeues, the other claims, and dies or stalls again, until the recoveries'
limit (1) ends it. `MaxStarts` bounds the start requests at once: a second one
finds what a second attempt finds. `recoveries`, `claims` and the numbers of attempts
grow only by claims, lapses and starts, so the bounds on them end every behaviour
except for hand-backs, which stopping bounds. Two children are what the last of two
completions, a completion beside a finalization, and a rejection beside a failure
need; two attempts make a retry and the end of retries happen. A merge race needs two
requests, the push of somebody else and a head that moved: two commits. A second
worktree would only push on the target, as others do.

### Fairness

`ChatTurns!Fairness`: leases lapse, the queue's TTL passes, the system runtime
keeps reading and applying sweeps, and a live worker's task goes on (every
adapter call has a timeout). `ToolEffects!FairSpec`: leases lapse and
`expire_leases` runs every minute. Nobody has to claim, call, cancel, stop, crash
or decide, so liveness does not depend on a healthy worker.
`TaskAttempts!Fairness`: a run goes on (every step of it has a timeout), its chat turn
ends (`ImplementsFairQueue` says that of turns), a lease that
nobody renews lapses, and the recovery and the queue's TTL come round; nobody has to
claim. `WorkOrders` and `Worktrees` have none: managers and approvers may never act.
`BudgetLedger!FairSpec`: the TTL passes, the sweep starts whenever a hold has expired,
and it does not lose a deadlock for ever (strong fairness of `SweepApplies`).

### What the code does not do

Three runs show a disagreement with the text (`PROJECT.json`, "findings").

- `WithinLimit` (`budget_double_reap`): the spend of a window and the open holds are
  said never to exceed the limit. A reaper decrements the policy for every hold it read
  and filters on the status only when it releases them, so a hold read by two reapers,
  or settled between the reading and the writing, is taken off twice. The second time
  it is taken from another call's hold, and the next reservation oversells the limit.
  The claim fails in a second way (`BudgetLedgerRoll.cfg`, not one of the runs): the
  flush of `_roll_window_if_needed` has no condition, so a roll decided on an old read
  resets the counter a second time in one window, or puts the row back into the old
  window for the next call to roll again, and calls spend the limit again. Where the old
  read saw 0, the spend of the last window is carried over instead. `LimitIsKept` is
  what does hold: apart from these two, nothing takes a policy past its limit.
- `CommitExactlyOnce` (`attempts_lost_commit`): a stopping worker hands its attempt back
  while git, which nobody kills, is committing. The commit lands after the next run
  looked for the trailer and before it looks for changes; that run finds none, records
  that there is no commit, and completes the attempt. A run past its lease can do the
  same: `_leased` ignores a lost renewal and `_effect_done` writes the ledger by row id.
  `CommitIsRecorded` says what does hold, with neither a run nor a git commit left over
  when the next run is claimed.
- `CancelReachesAll` (`orders_cancel_leak`): `cancel_work` reads the children before
  it locks the order, so a child that is assigned in between stays open.

More were met while modelling. Those with a definition and a `.cfg` can be reproduced
with it; they are not among the runs.

- `CancelIsDurable` (`ChatTurnsLostCancel.cfg`): a cancel request runs an UPDATE for
  queued turns and then one for active turns. A turn that goes from active back to
  queued in between is matched by neither. The request is answered and audited and
  the turn runs.
- `CancelledNotRequeued` (`ChatTurnsCancelRequeued.cfg`): `release` and a sweep that
  read the row before the flag was set put a flagged turn back into the queue. No
  claim takes a flagged turn, so it blocks its session until the TTL and ends
  `expired`. `release` of an attempt does the same.
- `ZombieOpensNothing` (`ToolEffectsZombie.cfg`): a worker whose turn was taken away
  is stale only after somebody claimed the turn again.
- `OutOfAttemptsFailsOrder` (`WorkOrdersReopened.cfg`): `_retry` reopens a failed
  order for the retry of a rejected child, though another child failed it for good;
  the order can then neither complete nor fail again.
- A start or a retry refuses a completed task and not a cancelled one: an attempt of a
  cancelled child is queued and run. `OrderIsFinal` says that the child stays
  cancelled.
- `queued_at` is never reset: a turn or an attempt that is handed back after its TTL
  expires at once. `attempt_count` of a turn counts hand-backs too, so a turn can be
  given up that never failed.
- An attempt that recovery failed leaves its chat turn running, and a retry works in
  the same worktree.
- A child whose last attempt is cancelled leaves its order open until its manager
  cancels it: only a failed or an expired attempt fails the order.
- A merge lands though its row changed meanwhile; the code says so in its answer and
  leaves it to the operator.
- "Two turns of one session never run at once" (docstring of `chat_turns.py`) holds of
  rows and not of calls: a call that lost its lease ends at its next renewal. "The tool
  proved it did nothing, so a retry cannot repeat an effect" (`_decide`) does not hold
  of a failed row that an operator produced while the request was in flight. A failed
  settlement is said to overstate the spend (`_settle_one`); it leaves the estimate,
  which may be less than the cost, and a cost above what is left is what makes a
  settlement fail.

## Proofs

Proved for every value of the constants, from the assumptions the modules name
(turn numbers are naturals, every turn has a session, `NoWorker` is not a worker,
bounds are positive, contents have a class, the calls of a budget are finitely many).
For each safety property of a passing run there is a theorem that states it; no
theorem has a hypothesis on a constant beside these.

`ChatTurns_proofs`. Types first (`TypeCorrect`). `SessionOrder` alone is not
inductive: a claim looks at rows that exist, and a later creation of an earlier
turn would break it. It needs that turns are created in order
(`CreatedInOrder`), and together they are. `FenceIsExact` needs that a task's
epoch never passes the row's and that a worker has at most one task per turn,
which the guard on `_running` gives. `ReplyOnce` and `SweepIsCurrent` need each
other: a sweep that decided "completed" would break the first, and there is none
while active rows have no reply. `OutcomeIsFinal` follows step by step: every
statement on a row has an active or queued status in its WHERE.
`LateResultDiscarded` follows from `FenceIsExact`: what finalize matches is the
current execution. `QueueImplemented` maps each status change to a move of the
abstract queue; Begin uses `SessionOrder`'s strengthening, Answer and Close the
status in the WHERE. `ExecutionsImplemented` needs only the types: a claim matches
a queued row, and whatever ends an execution leaves `attempts` alone (`ClaimSteps`).

`ToolEffects_proofs`. `OneOpener` is proved from the opener of each row being at
most the epoch and every written row having been opened by the same one.
`AtMostOnce` is the hard one. Its invariant (`EffectInv`) accounts for every
effect that happened or may still happen: an unsafe slot that was not reopened
has one call at most (`OnceInv`), a failed row's calls cannot take effect
(`FailedIsQuiet`), a call that proved it did nothing has not happened
(`CallsInv`), and a succeeded row's effect did (`ReplayIsTrue`). `LiveClaimIsHeld` is
about steps: what takes a row from executing is a settlement by the call whose `count`
the row has, or a takeover or sweep, which look for a lapsed lease (`HoldSparesLive`,
`LiveStep`). The ledger's turn is `TurnExecutions` by construction (`TurnClaimed` and
`TurnLeft` are its actions); what has to be shown is that the turns of `ChatTurns` are
such turns, and that is `ExecutionsImplemented`, which carries the theorems about the
ledger over to them.

`BudgetLedger_proofs`. `RefusedHoldsNothing` needs that a call that is reserving knows
each of its open holds, and `HeldInEveryScope` that it has a row at every scope it
passed; both are in `WalkedBy`, which also says that it has none at the scopes
ahead. `ClosedIsFinal` follows from the latter: a row that is not reserved is
written by its call's own `Hold` only (`RowSteps`), and there it was not written
before. The type theorem says that no counter goes below zero.

`BudgetSums_proofs`. A policy's counters against the sums over its rows. `Sum` is a fold
over a set, and the library's theorems about folds take operators, which the provers
cannot instantiate; so a sum is shown to be a number of units (`SumIsCount`, by a least
counterexample among the subsets of a finite set, `SetInduction`), and the laws of sums
follow from those of cardinalities (`SumSplit`, `SumRemove`, `SumPart`). An open hold's
row has the amount its call asked for (`RowInv`), so the open holds of a policy sum
to a sum of constants. Then each step either takes one hold, with the same amount on
the counter, or gives some back and lowers the counter by at least as much, down to 0 at
most (`ColumnMoves`): two reapers lower it twice, none ever leaves a cent on it. That is
`HoldsAreBacked`; `SpendMoves` is the same for commits and rolls and gives
`SpentIsCommitted`; until the first window turns the spent counter is even exact
(`SpentIsExactHolds`), and afterwards it is not (`BudgetLedgerRoll.cfg`). The counters
fit the limit in every case (`CountersFit`), which is what the check constraint of the
table asks for. They may understate the rows, after a double decrement or a roll on an
old read, and `LimitIsKeptHolds` says that these two are the only ways: as long as no
hold of a policy was given back twice its reserved counter is exactly the sum of the
open holds (`ReservedIsExact`; a hold that a reaper read is then still the one it gives
back), and as long as no roll took spend off, its spent counter shows at least what was
charged in the window (`PaidIsSpent`, step by step with `RollKeepsPaid`). With
`CountersFit` that is the limit on what was really charged and held.

`TaskAttempts_proofs`. The invariant `IInv` has six parts beside the types. `RowInv`
says what the columns of a row say together (a lease is had exactly while somebody
runs the attempt), `OrderInv` that attempts have no gaps and only the last is active,
`DriverInv` that a process never drives an attempt twice, `CommitInv` what evidence,
ledger row, git and the one run of an attempt without rivals, or the git commit it left
behind, know of each other at each stage, and `FenceIsExact` and `TaskFollowsAttempts` are inductive beside these.
Every step is first classified by what it does to the rows (`RowSteps`) and to the
runs (`RunSteps`), so that each part is shown for a few kinds of step instead of
thirty actions. `CommitIsRecorded` and `CommittedWasVerified` follow from `CommitInv`,
`AttemptIsFinal` from the kinds of row steps, `RenewedIsKept` from `DriverInv`: whoever
takes an attempt from a live lease passed the fence, so it is the holder's own run.
`AttemptsKeepHistory` is the refinement: by `OrderInv` the closed attempts are a
prefix, an insertion opens and a finish closes.

`WorkOrders_proofs`. The refinement comes first: `PlanImplemented`, each commit of the
order is a step of `OrderPlan` (`PlanStep`). It needs to know what a transaction under
the order's lock has read (`LockInv`): the other children are as they were read, because
whoever completes or adds one needs the same lock. A completion skips the lock when
the order has ended. If that was a failure, some child is out of attempts and can never
complete (`Dead`), so a later reopening misses nothing. `ChildInv` says which attempt an
end may find, and `RetryInv` that a retry finds the attempt it was granted to, failed
below the cap, or a later one. What the manager relies on is then a matter of the abstract
order: `PlanInv`, inductive in the few steps of `OrderPlan`, gives `CompletedMeansAll` and
`NoMissedCompletion`, and its steps give `OrderIsFinal`. `TypeCorrect` includes that no
child has more attempts than its cap.

`Worktrees_proofs`. `RequestInv` says what a request may rely on between its steps: the
status it loaded allows it, its approval names the head it loaded, and once it
published, the target holds that head. With the conditions of `_cas` that is
inductive, and the properties follow per action. `BranchImplemented` is the refinement of
`ProtectedBranch`: a publication compares and swaps, so the target it merged into is
the one it replaces, the approval it found is still on record, and a head the
target does not contain is newer than all it has of that worktree (`LacksIsNew`).

Only model-checked, because liveness is out of the prover's reach: `ImplementsFairQueue`
(its safety part is `QueueImplemented`), `NoRowHangs`, `EveryHoldCloses` and
`EveryAttemptSettles`. The proofs rest on the named ASSUMEs of the modules they are about
and on nothing else.

## Plan

Done: turns, effects, budget, attempts, orders, worktrees, their proofs, and the composition
of turns and effects through `TurnExecutions`. What
could follow, in this order:

1. `BridgeSlots` (`reserve_bridge_slot`) and `TempGrants` (`consume_temp_grant`):
   injective and stable allocation, uses within the limit.
2. `Idempotency`, `Approvals`, `WebhookQueue`: duplicates, racing decisions, restarts.
3. `CircuitBreaker`, `KillSwitch`: a cached copy beside the stored state.

## Not modelled

Bridge slots, temporary grants, approvals' own lifecycle, request idempotency (where
a key used again for another endpoint replays the first answer: the endpoint is
stored and not compared), breakers, kill switch, webhook queue, system runtime,
scheduler and orchestration: see the plan. Of the modelled components: notices and
sealing of tool results, streaming of chunks, `reconcile_budget_counters` and the other
operations nothing calls, creation and path checks of worktrees, status views.

Provider calls, prompts, transcripts, text of messages, audit records and
notifications (no property depends on them); HTTP routing and authentication;
row level security (every statement is scoped to one company, and the models are
of one company); the dashboard, desktop shell and deployment files; storage-only
features (memory, knowledge, voice, plugins, evolution).
