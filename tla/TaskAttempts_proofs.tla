------------------------- MODULE TaskAttempts_proofs -------------------------
(***************************************************************************)
(* Theorems about TaskAttempts, for any numbers, keys, workers and bounds, *)
(* with or without leases that lapse under a run that goes on.             *)
(***************************************************************************)
EXTENDS TaskAttempts, FiniteSetTheorems, SequenceTheorems, TLAPS

USE NumberAssumption, WorkerAssumption, RecoveryAssumption, SwitchAssumption

-----------------------------------------------------------------------------
(* The inductive invariant.                                                *)

\* What the columns of one row say together: a lease is had while somebody runs the
\* attempt, and only attempts that exist were ever claimed.
RowInv ==
  \A n \in Numbers :
    /\ lease[n] # "none" <=> status[n] \in Leased
    /\ status[n] = "none" => claims[n] = 0
    /\ status[n] \in Leased => claims[n] > 0

\* Attempts are numbered without gaps, and only the last one may be active.
OrderInv ==
  \E m \in 0..MaxNumber : Attempts = 1..m /\ ActiveOnes \subseteq {m}

\* The stages of the commit, and the finish of what passed.
Committing(d) == d.stage \in {"committing", "changing", "staging", "staged", "recording"}
Delivers(d) == d.stage = "finishing" /\ d.verdict = "completed"

\* What finishes has a verdict, and what is committed has passed.
HasVerdict(d) ==
  /\ d.stage = "finishing" => d.verdict \in Terminal
  /\ Committing(d) => d.verdict = "completed"

\* And a process never drives an attempt twice.
DriverInv ==
  /\ \A d, e \in drivers : d.worker = e.worker /\ d.n = e.n => d = e
  /\ \A d \in drivers : HasVerdict(d)

InGit(n) == IF commits[n] = 1 THEN "sha" ELSE "null"

\* What the evidence, the commit and its ledger row say together, and what the one run of
\* an attempt that has no rival knows of them where it stands.  A git commit that outlived
\* its run is then alone with the attempt.
CommitInv ==
  /\ ~Writes => /\ \A n \in Numbers : commits[n] = 0
                /\ \A d \in drivers : ~Committing(d)
                /\ orphans = {}
  /\ \A d, e \in drivers : d.n = e.n /\ ~rivals[d.n] => d = e
  /\ \A n \in Numbers : ~rivals[n] =>
       /\ commits[n] \in 0..1
       /\ commits[n] > 0 => evidence[n] = "completed"
       /\ commitRow[n] \in Result => commitRow[n] = InGit(n)
       /\ status[n] = "completed" => /\ recorded[n] = InGit(n)
                                     /\ \A d \in drivers : d.n # n
  /\ \A d \in drivers : ~rivals[d.n] =>
       /\ d.stage = "checking" => evidence[d.n] = "pending"
       /\ Committing(d) \/ Delivers(d) => evidence[d.n] = "completed"
       /\ d.stage \in {"changing", "staging", "staged"} =>
            commits[d.n] = 0 /\ commitRow[d.n] = "pending"
       /\ d.stage = "recording" \/ Delivers(d) => d.commit = InGit(d.n)
       /\ d.stage \notin {"recording", "finishing"} => d.commit = "null"
  /\ \A o \in orphans : ~rivals[o.n] =>
       /\ commits[o.n] = 0 /\ commitRow[o.n] = "pending" /\ evidence[o.n] = "completed"
       /\ status[o.n] # "completed"
       /\ \A d \in drivers \cup (orphans \ {o}) : d.n # o.n

IInv == TypeOK /\ RowInv /\ OrderInv /\ DriverInv /\ FenceIsExact /\ CommitInv
          /\ TaskFollowsAttempts

-----------------------------------------------------------------------------
(* Types.                                                                  *)

\* A run that goes on, or ends, keeps the type of the runs.
LEMMA DriverEdits ==
  ASSUME drivers \subseteq Driver, NEW d \in drivers, NEW s \in Stage
  PROVE  /\ EndDriver(d) => drivers' \subseteq Driver
         /\ ToStage(d, s) => drivers' \subseteq Driver
         /\ \A v \in Terminal : ToVerdict(d, s, v) => drivers' \subseteq Driver
         /\ \A c \in Result : ToResult(d, s, c) => drivers' \subseteq Driver
<1>1. d \in Driver
  OBVIOUS
<1>2. [d EXCEPT !.stage = s] \in Driver
  BY <1>1 DEF Driver
<1>3. \A v \in Terminal : [d EXCEPT !.stage = s, !.verdict = v] \in Driver
  BY <1>1 DEF Driver
<1>4. \A c \in Result : [d EXCEPT !.stage = s, !.commit = c] \in Driver
  BY <1>1 DEF Driver
<1> QED
  BY <1>2, <1>3, <1>4 DEF EndDriver, ToStage, ToVerdict, ToResult

\* What runs leave of git behind is of their type.
LEMMA GitType == ASSUME drivers \subseteq Driver, NEW D \in SUBSET drivers PROVE GitOf(D) \subseteq Orphan
BY DEF GitOf, Orphan, Driver

\* The writes of _finish_in and of a requeue keep the type of what they write.
LEMMA RowEdits ==
  ASSUME TypeOK, NEW n \in Numbers
  PROVE  /\ \A s \in Terminal \cup {"none"} : FinishRow(n, s) =>
              /\ task' \in TaskStatus /\ UNCHANGED <<claimedBy, recoveries, claims, rivals>>
              /\ status' \in [Numbers -> {"none"} \cup Active \cup Terminal]
              /\ lease' \in [Numbers -> {"none", "live", "lapsed"}]
         /\ RequeueRow(n) =>
              /\ UNCHANGED <<task, claims, rivals>>
              /\ status' \in [Numbers -> {"none"} \cup Active \cup Terminal]
              /\ lease' \in [Numbers -> {"none", "live", "lapsed"}]
              /\ claimedBy' \in [Numbers -> Workers \cup {NoWorker}]
<1>1. ASSUME NEW s \in Terminal \cup {"none"}, FinishRow(n, s)
      PROVE  /\ task' \in TaskStatus /\ UNCHANGED <<claimedBy, recoveries, claims, rivals>>
             /\ status' \in [Numbers -> {"none"} \cup Active \cup Terminal]
             /\ lease' \in [Numbers -> {"none", "live", "lapsed"}]
  <2>1. task' \in TaskStatus
    BY <1>1 DEF TypeOK, FinishRow, TaskOutcome, TaskStatus, Verdict, Terminal
  <2> QED
    BY <1>1, <2>1 DEF TypeOK, FinishRow
<1>2. ASSUME RequeueRow(n)
      PROVE  /\ UNCHANGED <<task, claims, rivals>>
             /\ status' \in [Numbers -> {"none"} \cup Active \cup Terminal]
             /\ lease' \in [Numbers -> {"none", "live", "lapsed"}]
             /\ claimedBy' \in [Numbers -> Workers \cup {NoWorker}]
  BY <1>2 DEF TypeOK, RequeueRow, Active
<1> QED
  BY <1>1, <1>2

LEMMA RequestType ==
  ASSUME TypeOK
  PROVE  /\ \A k \in Keys \cup Numbers : LoadTask(k) => TypeOK'
         /\ \A n \in Numbers : Retry(n) \/ CancelRead(n) \/ CancelFlag(n) => TypeOK'
         /\ \A r \in starts : Insert(r) => TypeOK'
<1> USE DEF TypeOK, rowVars, effectVars
<1>1. ASSUME NEW k \in Keys \cup Numbers, LoadTask(k) PROVE TypeOK'
  <2>1. [key |-> k, completed |-> task = "completed"] \in Start
    BY DEF Start
  <2> QED
    BY <1>1, <2>1 DEF LoadTask
<1>2. ASSUME NEW n \in Numbers, Retry(n) PROVE TypeOK'
  BY <1>1, <1>2 DEF Retry
<1>3. ASSUME NEW n \in Numbers, CancelRead(n) PROVE TypeOK'
  BY <1>3 DEF CancelRead
<1>4. ASSUME NEW n \in Numbers, CancelFlag(n) PROVE TypeOK'
  <2>1. cancel' \in [Numbers -> BOOLEAN]
    <3>1. (cancel[n] \/ status[n] \in Active) \in BOOLEAN
      OBVIOUS
    <3> QED
      BY <1>4, <3>1, Zenon DEF CancelFlag
  <2> QED
    BY <1>4, <2>1 DEF CancelFlag
<1>5. ASSUME NEW r \in starts, Insert(r) PROVE TypeOK'
  <2>1. r.key \in Keys \cup Numbers
    BY DEF Start
  <2>2. status' \in [Numbers -> {"none"} \cup Active \cup Terminal]
    BY <1>5 DEF Insert, Active
  <2>3. key' \in [Numbers -> Keys \cup Numbers \cup {0}] /\ starts' \subseteq Start
    BY <1>5, <2>1 DEF Insert
  <2> QED
    BY <1>5, <2>2, <2>3 DEF Insert
<1> QED
  BY <1>1, <1>2, <1>3, <1>4, <1>5

LEMMA RecoveryType ==
  ASSUME TypeOK, NEW n \in Numbers
  PROVE  CancelQueued(n) \/ Expire(n) \/ Lapse(n) \/ Sweep(n) => TypeOK'
<1> USE DEF TypeOK, effectVars, asked
<1>1. CASE CancelQueued(n)
  BY <1>1, RowEdits DEF CancelQueued, Terminal
<1>2. CASE Expire(n)
  BY <1>2, RowEdits DEF Expire, Terminal
<1>3. CASE Lapse(n)
  BY <1>3 DEF Lapse
<1>4. CASE SweepRead(n)
  BY <1>4 DEF SweepRead, Decision, rowVars
<1>5. CASE SweepApply(n)
  <2>1. sweep' \in [Numbers -> Decision \cup {"none"}]
    BY <1>5 DEF SweepApply
  <2>2. CASE RequeueRow(n) /\ recoveries' = [recoveries EXCEPT ![n] = @ + 1]
    BY <1>5, <2>1, <2>2, RowEdits DEF SweepApply
  <2>3. CASE sweep[n] # "queued" /\ FinishRow(n, sweep[n])
    <3>1. sweep[n] \in Terminal \cup {"none"}
      BY <2>3 DEF Decision, Terminal, Verdict
    <3> QED
      BY <1>5, <2>1, <2>3, <3>1, RowEdits DEF SweepApply
  <2>4. CASE UNCHANGED <<task, rowVars>>
    BY <1>5, <2>1, <2>4 DEF SweepApply, rowVars
  <2> QED
    BY <1>5, <2>2, <2>3, <2>4 DEF SweepApply
<1> QED
  BY <1>1, <1>2, <1>3, <1>4, <1>5 DEF Sweep

LEMMA ProcessType ==
  ASSUME TypeOK
  PROVE  /\ \A n \in Numbers, s \in {"completed", "failed"} : Edit(n) \/ TurnEnds(n, s) => TypeOK'
         /\ \A w \in Workers : Stop(w) \/ Crash(w) => TypeOK'
         /\ \A w \in Workers, n \in Numbers : Claim(w, n) => TypeOK'
<1> USE DEF TypeOK, effectVars, asked
<1>1. ASSUME NEW n \in Numbers, NEW s \in {"completed", "failed"}, Edit(n) \/ TurnEnds(n, s)
      PROVE  TypeOK'
  <2>1. CASE Edit(n)
    BY <2>1 DEF Edit, rowVars
  <2>2. CASE TurnEnds(n, s)
    BY <2>2 DEF TurnEnds, rowVars
  <2> QED
    BY <1>1, <2>1, <2>2
<1>2. ASSUME NEW w \in Workers, Stop(w) \/ Crash(w) PROVE TypeOK'
  <2>1. CASE Stop(w)
    BY <2>1 DEF Stop, rowVars
  <2>2. CASE Crash(w)
    <3>1. drivers' \subseteq drivers /\ drivers \ drivers' \in SUBSET drivers
      BY <2>2 DEF Crash
    <3>2. orphans' \subseteq Orphan
      BY <2>2, <3>1, GitType DEF Crash
    <3> QED
      BY <2>2, <3>1, <3>2 DEF Crash, rowVars
  <2> QED
    BY <1>2, <2>1, <2>2
<1>3. ASSUME NEW w \in Workers, NEW n \in Numbers, Claim(w, n) PROVE TypeOK'
  <2>1. \A s \in {"preparing", "resuming"} :
          [worker |-> w, n |-> n, epoch |-> claims[n] + 1, stage |-> s,
           verdict |-> "none", commit |-> "null"] \in Driver
    BY DEF Driver, Stage, Result
  <2>2. drivers' \subseteq Driver
    BY <1>3, <2>1 DEF Claim
  <2>3. rivals' \in [Numbers -> BOOLEAN]
    <3>1. (rivals[n] \/ \E d \in drivers \cup orphans : d.n = n) \in BOOLEAN
      OBVIOUS
    <3> QED
      BY <1>3, <3>1, Zenon DEF Claim
  <2>4. task' \in TaskStatus
    BY <1>3 DEF Claim, TaskStatus
  <2> QED
    BY <1>3, <2>2, <2>3, <2>4 DEF Claim, Active, Leased
<1> QED
  BY <1>1, <1>2, <1>3

LEMMA OrphanType == ASSUME TypeOK, NEW o \in orphans, OrphanLands(o) \/ OrphanEnds(o) PROVE TypeOK'
<1> USE DEF TypeOK, rowVars, asked
<1>1. o.n \in Numbers
  BY DEF Orphan
<1>2. CASE OrphanLands(o)
  <2>1. commits' \in [Numbers -> Nat]
    BY <1>1, <1>2 DEF OrphanLands
  <2>2. staged' \in BOOLEAN /\ orphans' \subseteq Orphan
    BY <1>2 DEF OrphanLands
  <2> QED
    BY <1>2, <2>1, <2>2 DEF OrphanLands
<1>3. CASE OrphanEnds(o)
  BY <1>3 DEF OrphanEnds
<1> QED
  BY <1>2, <1>3

LEMMA DriverType == ASSUME TypeOK, NEW d \in drivers, DriverStep(d) PROVE TypeOK'
<1> USE DEF TypeOK
<1>d. d \in Driver /\ d.n \in Numbers /\ drivers \subseteq Driver
  BY DEF Driver
<1>s. /\ \A v \in Verdict : AfterVerdict(v) \in Stage
      /\ Verdict \subseteq Terminal /\ {"failed", "cancelled"} \subseteq Terminal
      /\ {"sha", "null"} = Result
  BY DEF AfterVerdict, Stage, Terminal, Verdict, Result
<1>1. CASE Lost(d) \/ Abort(d)
  BY <1>1, <1>d, DriverEdits DEF Lost, Abort, EndDriver, Stage, rowVars, effectVars, asked
<1>2. CASE BindSession(d) \/ Deadline(d)
  <2>1. drivers' \subseteq Driver
    BY <1>2, <1>d, DriverEdits DEF BindSession, Deadline, Stage
  <2> QED
    BY <1>2, <2>1 DEF BindSession, Deadline, rowVars, effectVars, asked
<1>3. CASE Refuse(d)
  <2>1. drivers' \subseteq Driver
    BY <1>3, <1>d, <1>s, DriverEdits DEF Refuse, Stage
  <2> QED
    BY <1>3, <2>1 DEF Refuse, rowVars, effectVars, asked
<1>4. CASE CreateTurn(d)
  <2>1. drivers' \subseteq Driver
    BY <1>4, <1>d, DriverEdits DEF CreateTurn, Stage
  <2> QED
    BY <1>4, <1>d, <2>1 DEF CreateTurn, rowVars, effectVars, asked
<1>5. CASE BindTurn(d)
  <2>1. drivers' \subseteq Driver
    BY <1>5, <1>d, DriverEdits DEF BindTurn, Stage
  <2> QED
    BY <1>5, <1>d, <2>1 DEF BindTurn, Active, Leased, effectVars, asked
<1>6. CASE Renew(d)
  BY <1>6, <1>d DEF Renew, effectVars, asked
<1>7. CASE Settle(d)
  <2>1. drivers' \subseteq Driver
    BY <1>7, <1>d, <1>s, DriverEdits DEF Settle, Stage
  <2> QED
    BY <1>7, <2>1 DEF Settle, rowVars, effectVars, asked
<1>8. CASE Hand(d)
  <2>1. drivers' \subseteq Driver
    BY <1>8, <1>d, DriverEdits DEF Hand, Stage
  <2> QED
    BY <1>8, <1>d, <2>1 DEF Hand, Active, Leased, effectVars, asked
<1>9. CASE LookUpEvidence(d)
  <2>1. drivers' \subseteq Driver
    <3>1. CASE evidence[d.n] \in Verdict
      BY <1>9, <1>d, <1>s, <3>1, DriverEdits DEF LookUpEvidence
    <3>2. CASE evidence[d.n] \notin Verdict
      BY <1>9, <1>d, <3>2, DriverEdits DEF LookUpEvidence, Stage
    <3> QED
      BY <3>1, <3>2
  <2> QED
    BY <1>9, <1>d, <2>1 DEF LookUpEvidence, rowVars, asked
<1>10. ASSUME NEW v \in Verdict, Check(d, v) PROVE TypeOK'
  <2>1. drivers' \subseteq Driver
    BY <1>10, <1>d, <1>s, DriverEdits DEF Check
  <2> QED
    BY <1>10, <1>d, <2>1 DEF Check, rowVars, asked
<1>11. CASE LookUpCommit(d)
  <2>1. drivers' \subseteq Driver
    <3>1. CASE commitRow[d.n] \in Result
      BY <1>11, <1>d, <3>1, DriverEdits DEF LookUpCommit, Stage
    <3>2. CASE commitRow[d.n] \notin Result
      BY <1>11, <1>d, <1>s, <3>2, DriverEdits DEF LookUpCommit, Stage
    <3> QED
      BY <3>1, <3>2
  <2> QED
    BY <1>11, <1>d, <2>1 DEF LookUpCommit, rowVars, asked
<1>12. CASE ChangedPaths(d)
  <2>1. drivers' \subseteq Driver
    BY <1>12, <1>d, DriverEdits DEF ChangedPaths, Stage
  <2> QED
    BY <1>12, <2>1 DEF ChangedPaths, rowVars, effectVars, asked
<1>17. CASE StageAll(d)
  <2>1. drivers' \subseteq Driver
    BY <1>17, <1>d, DriverEdits DEF StageAll, Stage
  <2>2. staged' \in BOOLEAN /\ dirty' \in BOOLEAN
    <3>1. (staged \/ dirty) \in BOOLEAN /\ FALSE \in BOOLEAN
      OBVIOUS
    <3> QED
      BY <1>17, <3>1, Zenon DEF StageAll
  <2> QED
    BY <1>17, <2>1, <2>2 DEF StageAll, rowVars, asked
<1>13. CASE Commit(d)
  <2>1. drivers' \subseteq Driver
    BY <1>13, <1>d, <1>s, DriverEdits DEF Commit, EndDriver, Stage
  <2> QED
    <3>1. CASE staged
      <4>1. commits' = [commits EXCEPT ![d.n] = @ + 1]
        BY <1>13, <3>1, Zenon DEF Commit
      <4>2. commits' \in [Numbers -> Nat]
        BY <1>d, <4>1
      <4> QED
        BY <1>13, <2>1, <4>2 DEF Commit, rowVars, asked
    <3>2. CASE ~staged
      BY <1>13, <1>d, <2>1, <3>2 DEF Commit, rowVars, asked
    <3> QED
      BY <3>1, <3>2
<1>14. CASE RecordCommit(d)
  <2>1. drivers' \subseteq Driver
    BY <1>14, <1>d, DriverEdits DEF RecordCommit, Stage
  <2>2. d.commit \in Result
    BY <1>d DEF Driver
  <2> QED
    BY <1>14, <1>d, <2>1, <2>2 DEF RecordCommit, rowVars, asked
<1>15. CASE Finish(d)
  <2>1. drivers' \subseteq Driver /\ d.commit \in Result /\ d.verdict \in Terminal \cup {"none"}
    BY <1>15, <1>d DEF Finish, EndDriver, Driver
  <2> QED
    BY <1>15, <1>d, <2>1, RowEdits DEF Finish, effectVars, asked
<1>16. CASE HandBack(d)
  <2>1. drivers' \subseteq Driver
    BY <1>16, <1>d DEF HandBack, EndDriver
  <2>0. orphans' \subseteq Orphan
    BY <1>16, <1>d, GitType DEF HandBack
  <2>2. CASE RequeueRow(d.n) /\ UNCHANGED recoveries
    BY <1>16, <1>d, <2>0, <2>1, <2>2, RowEdits DEF HandBack, asked
  <2>3. CASE UNCHANGED <<task, rowVars>>
    BY <1>16, <2>0, <2>1, <2>3 DEF HandBack, rowVars, asked
  <2> QED
    BY <1>16, <2>2, <2>3 DEF HandBack
<1> QED
  BY <1>1, <1>2, <1>3, <1>4, <1>5, <1>6, <1>7, <1>8, <1>9, <1>10, <1>11, <1>12, <1>13, <1>14,
     <1>15, <1>16, <1>17 DEF DriverStep, Advance

LEMMA TypeStep == TypeOK /\ [Next]_vars => TypeOK'
<1>1. CASE UNCHANGED vars
  BY <1>1 DEF vars, rowVars, effectVars, asked, TypeOK
<1> QED
  BY <1>1, RequestType, RecoveryType, ProcessType, OrphanType, DriverType DEF Next

-----------------------------------------------------------------------------
(* What a step may do to the rows.                                         *)

RowsStay == UNCHANGED <<task, rowVars, recorded>>

Inserts ==
  /\ ActiveOnes = {} /\ NextNumber \in Numbers
  /\ status' = [status EXCEPT ![NextNumber] = "queued"]
  /\ UNCHANGED <<task, claimedBy, lease, recoveries, claims, rivals, recorded>>

Claims(w, n) ==
  /\ status[n] = "queued"
  /\ status' = [status EXCEPT ![n] = "claimed"]
  /\ claimedBy' = [claimedBy EXCEPT ![n] = w]
  /\ lease' = [lease EXCEPT ![n] = "live"]
  /\ claims' = [claims EXCEPT ![n] = @ + 1]
  /\ task' = IF task = "completed" THEN task ELSE "in_progress"
  /\ UNCHANGED recorded

Finishes(n, s) ==
  /\ status[n] \in Active
  /\ FinishRow(n, s)
  /\ \A m \in Numbers \ {n} : recorded'[m] = recorded[m]

Requeues(n) == status[n] \in Leased /\ RequeueRow(n) /\ UNCHANGED recorded

MovesOn(n, s) ==
  /\ status[n] \in Leased
  /\ status' = [status EXCEPT ![n] = s]
  /\ UNCHANGED <<task, claimedBy, lease, recoveries, claims, rivals, recorded>>

Leases(n, l) ==
  /\ status[n] \in Leased
  /\ lease' = [lease EXCEPT ![n] = l]
  /\ UNCHANGED <<task, status, claimedBy, recoveries, claims, rivals, recorded>>

RowStep ==
  \/ RowsStay
  \/ Inserts
  \/ \E n \in Numbers :
       \/ \E w \in Workers : Claims(w, n)
       \/ \E s \in Terminal : Finishes(n, s)
       \/ Requeues(n)
       \/ \E s \in Leased : MovesOn(n, s)
       \/ \E l \in {"live", "lapsed"} : Leases(n, l)

\* Every step does one of these: a finish, a requeue, a move or a lease needs an active
\* row, by the fence or by the lapsed lease that a sweep asks for.
LEMMA RowSteps == TypeOK /\ RowInv /\ DriverInv /\ [Next]_vars => RowStep
<1> SUFFICES ASSUME TypeOK, RowInv, DriverInv, [Next]_vars PROVE RowStep
  OBVIOUS
<1>d. \A d \in drivers : d.n \in Numbers /\ d.worker \in Workers
  BY DEF TypeOK, Driver
<1>1. ASSUME NEW k \in Keys \cup Numbers, LoadTask(k) PROVE RowStep
  BY <1>1 DEF LoadTask, RowStep, RowsStay
<1>2. ASSUME NEW n \in Numbers, NEW s \in {"completed", "failed"},
             \/ Retry(n) \/ CancelRead(n) \/ CancelFlag(n) \/ SweepRead(n) \/ Edit(n)
             \/ TurnEnds(n, s)
      PROVE  RowStep
  BY <1>2 DEF Retry, LoadTask, CancelRead, CancelFlag, SweepRead, Edit, TurnEnds, RowStep, RowsStay
<1>3. ASSUME NEW r \in starts, Insert(r) PROVE RowStep
  BY <1>3 DEF Insert, Insertable, RowStep, RowsStay, Inserts, rowVars
<1>4. ASSUME NEW n \in Numbers, CancelQueued(n) \/ Expire(n) PROVE RowStep
  <2>1. \E s \in Terminal : Finishes(n, s)
    BY <1>4 DEF CancelQueued, Expire, Finishes, Terminal, Active
  <2> QED
    BY <2>1 DEF RowStep
<1>5. ASSUME NEW n \in Numbers, Lapse(n) PROVE RowStep
  <2>1. Leases(n, "lapsed")
    BY <1>5 DEF Lapse, Leases, RowInv
  <2> QED
    BY <2>1 DEF RowStep
<1>6. ASSUME NEW n \in Numbers, SweepApply(n) PROVE RowStep
  <2>1. StillLapsed(n) => status[n] \in Leased
    BY DEF StillLapsed, RowInv
  <2>2. sweep[n] # "queued" => sweep[n] \in Terminal \cup {"none"}
    BY DEF TypeOK, Decision, Terminal, Verdict
  <2>3. RowsStay \/ Requeues(n) \/ \E s \in Terminal : Finishes(n, s)
    BY <1>6, <2>1, <2>2 DEF SweepApply, RowsStay, Requeues, Finishes, Active
  <2> QED
    BY <2>3 DEF RowStep
<1>7. ASSUME NEW w \in Workers, NEW n \in Numbers, Claim(w, n) PROVE RowStep
  BY <1>7 DEF Claim, RowStep, Claims
<1>8. ASSUME NEW w \in Workers, Stop(w) \/ Crash(w) PROVE RowStep
  BY <1>8 DEF Stop, Crash, RowStep, RowsStay
<1>9. ASSUME NEW d \in drivers,
             \/ Lost(d) \/ BindSession(d) \/ CreateTurn(d) \/ Settle(d) \/ LookUpEvidence(d)
             \/ (\E v \in Verdict : Check(d, v))
      PROVE  RowStep
  BY <1>9 DEF Lost, BindSession, CreateTurn, Settle, LookUpEvidence, Check, RowStep, RowsStay
<1>10. ASSUME NEW d \in drivers,
              \/ LookUpCommit(d) \/ ChangedPaths(d) \/ StageAll(d) \/ Commit(d) \/ RecordCommit(d)
              \/ Refuse(d) \/ Deadline(d) \/ Abort(d)
       PROVE  RowStep
  BY <1>10 DEF LookUpCommit, ChangedPaths, StageAll, Commit, RecordCommit, Refuse, Deadline, Abort,
               RowStep, RowsStay
<1>11. ASSUME NEW d \in drivers, BindTurn(d) \/ Hand(d) PROVE RowStep
  <2>1. \E s \in Leased : MovesOn(d.n, s)
    BY <1>11 DEF BindTurn, Hand, Holds, MovesOn, Leased
  <2> QED
    BY <1>d, <2>1 DEF RowStep
<1>12. ASSUME NEW d \in drivers, Renew(d) PROVE RowStep
  <2>1. Leases(d.n, "live")
    BY <1>12 DEF Renew, Holds, Leases
  <2> QED
    BY <1>d, <2>1 DEF RowStep
<1>13. ASSUME NEW d \in drivers, Finish(d) PROVE RowStep
  <2>1. Finishes(d.n, d.verdict) /\ d.verdict \in Terminal
    BY <1>13, <1>d DEF Finish, Holds, Finishes, Active, DriverInv, HasVerdict, TypeOK
  <2> QED
    BY <1>d, <2>1 DEF RowStep
<1>14. ASSUME NEW d \in drivers, HandBack(d) PROVE RowStep
  <2>1. RowsStay \/ Requeues(d.n)
    BY <1>14 DEF HandBack, Holds, RowsStay, Requeues
  <2> QED
    BY <1>d, <2>1 DEF RowStep
<1>15. CASE UNCHANGED vars
  BY <1>15 DEF vars, RowStep, RowsStay
<1>16. ASSUME NEW o \in orphans, OrphanLands(o) \/ OrphanEnds(o) PROVE RowStep
  BY <1>16 DEF OrphanLands, OrphanEnds, RowStep, RowsStay
<1> QED
  BY <1>1, <1>2, <1>3, <1>4, <1>5, <1>6, <1>7, <1>8, <1>9, <1>10, <1>11, <1>12, <1>13, <1>14,
     <1>15, <1>16 DEF Next, Sweep, DriverStep, Advance

LEMMA RowInvStep == TypeOK /\ RowInv /\ RowStep /\ TypeOK' => RowInv'
<1> SUFFICES ASSUME TypeOK, RowInv, RowStep, TypeOK' PROVE RowInv'
  OBVIOUS
<1> USE DEF TypeOK, RowInv, Leased, Active, Terminal, Verdict
<1>1. CASE RowsStay
  BY <1>1 DEF RowsStay, rowVars
<1>2. CASE Inserts
  BY <1>2 DEF Inserts, ActiveOnes
<1>3. ASSUME NEW n \in Numbers, NEW w \in Workers, Claims(w, n) PROVE RowInv'
  BY <1>3 DEF Claims
<1>4. ASSUME NEW n \in Numbers, NEW s \in Terminal, Finishes(n, s) PROVE RowInv'
  BY <1>4 DEF Finishes, FinishRow
<1>5. ASSUME NEW n \in Numbers, Requeues(n) PROVE RowInv'
  BY <1>5 DEF Requeues, RequeueRow
<1>6. ASSUME NEW n \in Numbers, NEW s \in Leased, MovesOn(n, s) PROVE RowInv'
  BY <1>6 DEF MovesOn
<1>7. ASSUME NEW n \in Numbers, NEW l \in {"live", "lapsed"}, Leases(n, l) PROVE RowInv'
  BY <1>7 DEF Leases
<1> QED
  BY <1>1, <1>2, <1>3, <1>4, <1>5, <1>6, <1>7 DEF RowStep

\* The count of attempts numbered without gaps is the number of the last one.
LEMMA NextIs ==
  ASSUME NEW m \in 0..MaxNumber, Attempts = 1..m
  PROVE  NextNumber = m + 1
<1>1. Cardinality(1..m) = m
  BY FS_Interval
<1> QED
  BY <1>1 DEF NextNumber

LEMMA OrderStep == TypeOK /\ OrderInv /\ RowStep => OrderInv'
<1> SUFFICES ASSUME TypeOK, OrderInv, RowStep PROVE OrderInv'
  OBVIOUS
<1>0. PICK m \in 0..MaxNumber : Attempts = 1..m /\ ActiveOnes \subseteq {m}
  BY DEF OrderInv
<1>1. CASE Inserts
  <2>1. NextNumber = m + 1 /\ m + 1 \in Numbers
    BY <1>0, <1>1, NextIs DEF Inserts
  <2>2. Attempts' = Attempts \cup {m + 1} /\ ActiveOnes' = ActiveOnes \cup {m + 1}
    BY <1>1, <2>1 DEF Inserts, Attempts, ActiveOnes, Active, TypeOK
  <2>3. Attempts' = 1..(m + 1) /\ ActiveOnes' = {m + 1} /\ m + 1 \in 0..MaxNumber
    BY <1>0, <1>1, <2>1, <2>2 DEF Inserts, Numbers
  <2> QED
    BY <2>3 DEF OrderInv
<1>2. CASE ~Inserts
  <2>1. Attempts' = Attempts /\ ActiveOnes' \subseteq ActiveOnes
    <3> USE DEF Attempts, ActiveOnes, Active, Leased, Terminal, Verdict, TypeOK
    <3>1. CASE RowsStay
      BY <3>1 DEF RowsStay, rowVars
    <3>2. ASSUME NEW n \in Numbers, NEW w \in Workers, Claims(w, n)
          PROVE  Attempts' = Attempts /\ ActiveOnes' \subseteq ActiveOnes
      BY <3>2 DEF Claims
    <3>3. ASSUME NEW n \in Numbers, NEW s \in Terminal, Finishes(n, s)
          PROVE  Attempts' = Attempts /\ ActiveOnes' \subseteq ActiveOnes
      BY <3>3 DEF Finishes, FinishRow
    <3>4. ASSUME NEW n \in Numbers, Requeues(n)
          PROVE  Attempts' = Attempts /\ ActiveOnes' \subseteq ActiveOnes
      BY <3>4 DEF Requeues, RequeueRow
    <3>5. ASSUME NEW n \in Numbers, NEW s \in Leased, MovesOn(n, s)
          PROVE  Attempts' = Attempts /\ ActiveOnes' \subseteq ActiveOnes
      BY <3>5 DEF MovesOn
    <3>6. ASSUME NEW n \in Numbers, NEW l \in {"live", "lapsed"}, Leases(n, l)
          PROVE  Attempts' = Attempts /\ ActiveOnes' \subseteq ActiveOnes
      BY <3>6 DEF Leases
    <3> QED
      BY <1>2, <3>1, <3>2, <3>3, <3>4, <3>5, <3>6 DEF RowStep
  <2> QED
    BY <1>0, <2>1 DEF OrderInv
<1> QED
  BY <1>1, <1>2

-----------------------------------------------------------------------------
(* What a step may do to the runs.                                         *)

RunsEnd == drivers' \subseteq drivers /\ UNCHANGED claims

\* A run goes on where it was.
GoesOn(d, e) ==
  /\ drivers' = (drivers \ {d}) \cup {e}
  /\ e.worker = d.worker /\ e.n = d.n /\ e.epoch = d.epoch /\ HasVerdict(e)
  /\ UNCHANGED claims

Starts(w, n, e) ==
  /\ Claim(w, n)
  /\ drivers' = drivers \cup {e}
  /\ e.worker = w /\ e.n = n /\ e.epoch = claims'[n] /\ HasVerdict(e)

RunStep ==
  \/ RunsEnd
  \/ \E d \in drivers, e \in Driver : GoesOn(d, e)
  \/ \E w \in Workers, n \in Numbers, e \in Driver : Starts(w, n, e)

LEMMA StageGoesOn ==
  ASSUME TypeOK, NEW d \in drivers, NEW s \in Stage, UNCHANGED claims
  PROVE  /\ /\ ToStage(d, s)
            /\ s # "finishing" \/ d.verdict \in Terminal
            /\ Committing([d EXCEPT !.stage = s]) => d.verdict = "completed"
            => \E e \in Driver : GoesOn(d, e)
         /\ \A v \in Terminal :
              /\ ToVerdict(d, s, v)
              /\ Committing([d EXCEPT !.stage = s]) => v = "completed"
              => \E e \in Driver : GoesOn(d, e)
         /\ \A c \in Result :
              /\ ToResult(d, s, c)
              /\ s # "finishing" \/ d.verdict \in Terminal
              /\ Committing([d EXCEPT !.stage = s]) => d.verdict = "completed"
              => \E e \in Driver : GoesOn(d, e)
<1>1. d \in Driver
  BY DEF TypeOK
<1>2. ASSUME ToStage(d, s), s # "finishing" \/ d.verdict \in Terminal,
             Committing([d EXCEPT !.stage = s]) => d.verdict = "completed"
      PROVE  \E e \in Driver : GoesOn(d, e)
  <2>1. PICK e : e = [d EXCEPT !.stage = s]
    OBVIOUS
  <2>2. e \in Driver /\ e.worker = d.worker /\ e.n = d.n /\ e.epoch = d.epoch
        /\ e.stage = s /\ e.verdict = d.verdict
    BY <1>1, <2>1 DEF Driver
  <2> QED
    BY <1>2, <2>1, <2>2 DEF ToStage, GoesOn, HasVerdict, Committing
<1>3. ASSUME NEW v \in Terminal, ToVerdict(d, s, v),
             Committing([d EXCEPT !.stage = s]) => v = "completed"
      PROVE  \E e \in Driver : GoesOn(d, e)
  <2>1. PICK e : e = [d EXCEPT !.stage = s, !.verdict = v]
    OBVIOUS
  <2>2. e \in Driver /\ e.worker = d.worker /\ e.n = d.n /\ e.epoch = d.epoch
        /\ e.stage = s /\ e.verdict = v /\ [d EXCEPT !.stage = s].stage = s
    BY <1>1, <2>1 DEF Driver
  <2> QED
    BY <1>3, <2>1, <2>2 DEF ToVerdict, GoesOn, HasVerdict, Committing
<1>4. ASSUME NEW c \in Result, ToResult(d, s, c), s # "finishing" \/ d.verdict \in Terminal,
             Committing([d EXCEPT !.stage = s]) => d.verdict = "completed"
      PROVE  \E e \in Driver : GoesOn(d, e)
  <2>1. PICK e : e = [d EXCEPT !.stage = s, !.commit = c]
    OBVIOUS
  <2>2. e \in Driver /\ e.worker = d.worker /\ e.n = d.n /\ e.epoch = d.epoch
        /\ e.stage = s /\ e.verdict = d.verdict /\ [d EXCEPT !.stage = s].stage = s
    BY <1>1, <2>1 DEF Driver
  <2> QED
    BY <1>4, <2>1, <2>2 DEF ToResult, GoesOn, HasVerdict, Committing
<1> QED
  BY <1>2, <1>3, <1>4

LEMMA RunSteps == TypeOK /\ DriverInv /\ [Next]_vars => RunStep
<1> SUFFICES ASSUME TypeOK, DriverInv, [Next]_vars PROVE RunStep
  OBVIOUS
<1>d. \A d \in drivers : d.n \in Numbers /\ d.worker \in Workers /\ HasVerdict(d)
                        /\ \A s : [d EXCEPT !.stage = s].stage = s
  BY DEF TypeOK, Driver, DriverInv
<1>v. /\ {"failed", "cancelled", "completed"} \subseteq Terminal /\ Verdict \subseteq Terminal
      /\ {"sha", "null"} = Result
  BY DEF Terminal, Verdict, Result
<1>a. \A v \in Verdict : /\ AfterVerdict(v) \in {"committing", "finishing"}
                        /\ AfterVerdict(v) = "committing" => v = "completed"
  BY DEF AfterVerdict
<1>1. ASSUME NEW k \in Keys \cup Numbers, LoadTask(k) PROVE RunStep
  BY <1>1 DEF LoadTask, RunStep, RunsEnd, rowVars
<1>2. ASSUME NEW r \in starts, Insert(r) PROVE RunStep
  BY <1>2 DEF Insert, RunStep, RunsEnd
<1>3. ASSUME NEW n \in Numbers, NEW s \in {"completed", "failed"},
             \/ Retry(n) \/ CancelQueued(n) \/ CancelRead(n) \/ CancelFlag(n) \/ Lapse(n) \/ Sweep(n)
             \/ Expire(n) \/ Edit(n) \/ TurnEnds(n, s)
      PROVE  RunStep
  BY <1>3 DEF Retry, LoadTask, CancelQueued, CancelRead, CancelFlag, Lapse, Sweep, SweepRead,
              SweepApply, Expire, Edit, TurnEnds, RunStep, RunsEnd, rowVars, FinishRow, RequeueRow
<1>4. ASSUME NEW w \in Workers, Stop(w) \/ Crash(w) PROVE RunStep
  BY <1>4 DEF Stop, Crash, RunStep, RunsEnd, rowVars
<1>5. ASSUME NEW w \in Workers, NEW n \in Numbers, Claim(w, n) PROVE RunStep
  <2>1. PICK e : e = [worker |-> w, n |-> n, epoch |-> claims[n] + 1,
                      stage |-> IF bound[n] THEN "resuming" ELSE "preparing",
                      verdict |-> "none", commit |-> "null"]
    OBVIOUS
  <2>2. e \in Driver /\ HasVerdict(e) /\ e.worker = w /\ e.n = n /\ e.epoch = claims[n] + 1
    BY <2>1 DEF Driver, Stage, Result, HasVerdict, Committing, TypeOK
  <2>3. claims'[n] = claims[n] + 1
    BY <1>5 DEF Claim, TypeOK
  <2>4. drivers' = drivers \cup {e}
    BY <1>5, <2>1 DEF Claim
  <2> QED
    BY <1>5, <2>2, <2>3, <2>4 DEF RunStep, Starts
<1>6. ASSUME NEW d \in drivers, Lost(d) \/ Abort(d) \/ Finish(d) \/ HandBack(d) \/ Renew(d)
      PROVE  RunStep
  BY <1>6 DEF Lost, Abort, Finish, HandBack, Renew, EndDriver, RunStep, RunsEnd, rowVars, FinishRow,
              RequeueRow
<1>7. ASSUME NEW d \in drivers,
             \/ BindSession(d) \/ CreateTurn(d) \/ BindTurn(d) \/ Deadline(d) \/ Hand(d)
      PROVE  RunStep
  <2>0. UNCHANGED claims
    BY <1>7 DEF BindSession, CreateTurn, BindTurn, Deadline, Hand, rowVars
  <2>1. \E s \in {"queuing", "binding", "watching", "late", "evidence"} : ToStage(d, s)
    BY <1>7 DEF BindSession, CreateTurn, BindTurn, Deadline, Hand
  <2> QED
    BY <1>d, <2>0, <2>1, StageGoesOn DEF Stage, Committing, RunStep
<1>8. ASSUME NEW d \in drivers, Settle(d) \/ Refuse(d) PROVE RunStep
  <2>0. UNCHANGED claims
    BY <1>8 DEF Settle, Refuse, rowVars
  <2>1. ToStage(d, "handing") \/ \E v \in {"cancelled", "failed"} : ToVerdict(d, "finishing", v)
    BY <1>8 DEF Settle, Refuse
  <2> QED
    BY <1>d, <1>v, <2>0, <2>1, StageGoesOn DEF Stage, Committing, RunStep
<1>9. ASSUME NEW d \in drivers, LookUpEvidence(d) \/ \E v \in Verdict : Check(d, v) PROVE RunStep
  <2>0. UNCHANGED claims
    BY <1>9 DEF LookUpEvidence, Check, rowVars
  <2>1. ToStage(d, "checking") \/ \E v \in Verdict : ToVerdict(d, AfterVerdict(v), v)
    BY <1>9 DEF LookUpEvidence, Check
  <2>2. CASE ToStage(d, "checking")
    BY <1>d, <2>0, <2>2, StageGoesOn DEF Stage, Committing, RunStep
  <2>3. ASSUME NEW v \in Verdict, ToVerdict(d, AfterVerdict(v), v) PROVE RunStep
    <3>1. PICK s \in {"committing", "finishing"} : s = AfterVerdict(v)
      BY DEF AfterVerdict
    <3>2. v \in Terminal /\ s \in Stage /\ (s = "committing" => v = "completed")
      BY <1>a, <1>v, <3>1 DEF Stage
    <3>3. ToVerdict(d, s, v) /\ [d EXCEPT !.stage = s].stage = s
      BY <1>d, <2>3, <3>1
    <3>4. \E e \in Driver : GoesOn(d, e)
      BY <2>0, <3>2, <3>3, StageGoesOn DEF Committing
    <3> QED
      BY <3>4 DEF RunStep
  <2> QED
    BY <2>1, <2>2, <2>3
<1>10. ASSUME NEW d \in drivers,
              LookUpCommit(d) \/ ChangedPaths(d) \/ StageAll(d) \/ Commit(d) \/ RecordCommit(d)
       PROVE  RunStep
  <2>0. UNCHANGED claims
    BY <1>10 DEF LookUpCommit, ChangedPaths, StageAll, Commit, RecordCommit, rowVars
  <2>1. d.verdict = "completed"
    BY <1>10, <1>d DEF LookUpCommit, ChangedPaths, StageAll, Commit, RecordCommit, HasVerdict,
                       Committing
  <2>2. \/ EndDriver(d)
        \/ \E s \in {"changing", "staging", "staged", "recording", "finishing"} : ToStage(d, s)
        \/ \E s \in {"finishing", "recording"}, c \in Result : ToResult(d, s, c)
    BY <1>10, <1>v DEF LookUpCommit, ChangedPaths, StageAll, Commit, RecordCommit
  <2> QED
    BY <1>v, <2>0, <2>1, <2>2, StageGoesOn DEF Stage, RunStep, RunsEnd, EndDriver
<1>11. CASE UNCHANGED vars
  BY <1>11 DEF vars, RunStep, RunsEnd, rowVars
<1>12. ASSUME NEW o \in orphans, OrphanLands(o) \/ OrphanEnds(o) PROVE RunStep
  BY <1>12 DEF OrphanLands, OrphanEnds, RunStep, RunsEnd, rowVars
<1> QED
  BY <1>1, <1>2, <1>3, <1>4, <1>5, <1>6, <1>7, <1>8, <1>9, <1>10, <1>11, <1>12
     DEF Next, DriverStep, Advance

LEMMA DriverInvStep == TypeOK /\ DriverInv /\ RunStep => DriverInv'
<1> SUFFICES ASSUME TypeOK, DriverInv, RunStep PROVE DriverInv'
  OBVIOUS
<1>1. CASE RunsEnd
  BY <1>1 DEF RunsEnd, DriverInv
<1>2. ASSUME NEW d \in drivers, NEW e \in Driver, GoesOn(d, e) PROVE DriverInv'
  BY <1>2 DEF GoesOn, DriverInv
<1>3. ASSUME NEW w \in Workers, NEW n \in Numbers, NEW e \in Driver, Starts(w, n, e)
      PROVE  DriverInv'
  BY <1>3 DEF Starts, DriverInv, Claim
<1> QED
  BY <1>1, <1>2, <1>3 DEF RunStep

\* Nobody comes to hold a row, and no claim is counted, but by a claim.
LEMMA HoldStep ==
  ASSUME TypeOK, RowStep, NEW w \in Workers, NEW n \in Numbers, Holds(w, n)',
         \A v \in Workers : ~Claims(v, n)
  PROVE  Holds(w, n) /\ claims'[n] = claims[n]
<1> USE DEF TypeOK, Holds, Leased
<1>1. CASE RowsStay
  BY <1>1 DEF RowsStay, rowVars
<1>2. CASE Inserts
  BY <1>2 DEF Inserts
<1>3. ASSUME NEW m \in Numbers, NEW v \in Workers, Claims(v, m)
      PROVE  Holds(w, n) /\ claims'[n] = claims[n]
  BY <1>3 DEF Claims
<1>4. ASSUME NEW m \in Numbers, NEW s \in Terminal, Finishes(m, s)
      PROVE  Holds(w, n) /\ claims'[n] = claims[n]
  BY <1>4 DEF Finishes, FinishRow, Terminal, Verdict
<1>5. ASSUME NEW m \in Numbers, Requeues(m)
      PROVE  Holds(w, n) /\ claims'[n] = claims[n]
  BY <1>5 DEF Requeues, RequeueRow
<1>6. ASSUME NEW m \in Numbers, NEW s \in Leased, MovesOn(m, s)
      PROVE  Holds(w, n) /\ claims'[n] = claims[n]
  BY <1>6 DEF MovesOn
<1>7. ASSUME NEW m \in Numbers, NEW l \in {"live", "lapsed"}, Leases(m, l)
      PROVE  Holds(w, n) /\ claims'[n] = claims[n]
  BY <1>7 DEF Leases
<1> QED
  BY <1>1, <1>2, <1>3, <1>4, <1>5, <1>6, <1>7 DEF RowStep

LEMMA FenceStep == TypeOK /\ DriverInv /\ FenceIsExact /\ RowStep /\ RunStep => FenceIsExact'
<1> SUFFICES ASSUME TypeOK, DriverInv, FenceIsExact, RowStep, RunStep PROVE FenceIsExact'
  OBVIOUS
<1>d. \A d \in drivers : d.n \in Numbers /\ d.worker \in Workers
  BY DEF TypeOK, Driver
<1>1. ASSUME NEW d, NEW b \in drivers, d.worker = b.worker, d.n = b.n, d.epoch = b.epoch,
             Holds(d.worker, d.n)', claims'[d.n] = claims[d.n]
      PROVE  d.epoch = claims'[d.n]
  <2>0. \A v \in Workers : ~Claims(v, d.n)
    BY <1>1, <1>d DEF Claims, TypeOK
  <2>1. Holds(b.worker, b.n) /\ claims'[b.n] = claims[b.n]
    BY <1>1, <1>d, <2>0, HoldStep
  <2> QED
    BY <1>1, <2>1 DEF FenceIsExact
<1>2. ASSUME NEW w \in Workers, NEW n \in Numbers, NEW e \in Driver, Starts(w, n, e)
      PROVE  FenceIsExact'
  <2> SUFFICES ASSUME NEW d \in drivers', Holds(d.worker, d.n)' PROVE d.epoch = claims'[d.n]
    BY DEF FenceIsExact
  <2>1. CASE d = e
    BY <1>2, <2>1 DEF Starts
  <2>2. CASE d # e
    <3>1. d \in drivers /\ d.n \in Numbers /\ d.worker \in Workers
      BY <1>2, <1>d, <2>2 DEF Starts
    <3>2. CASE d.n = n
      <4>1. claimedBy'[n] = w /\ d.worker # w
        BY <1>2, <3>1, <3>2 DEF Starts, Claim, TypeOK
      <4> QED
        BY <4>1, <3>2 DEF Holds
    <3>3. CASE d.n # n
      <4>1. claims'[d.n] = claims[d.n]
        BY <1>2, <3>1, <3>3 DEF Starts, Claim, TypeOK
      <4> QED
        BY <3>1, <4>1, <1>1
    <3> QED
      BY <3>2, <3>3
  <2> QED
    BY <2>1, <2>2
<1>3. ASSUME RunsEnd \/ \E d \in drivers, e \in Driver : GoesOn(d, e) PROVE FenceIsExact'
  <2> SUFFICES ASSUME NEW d \in drivers', Holds(d.worker, d.n)' PROVE d.epoch = claims'[d.n]
    BY DEF FenceIsExact
  <2>1. PICK b \in drivers : d.worker = b.worker /\ d.n = b.n /\ d.epoch = b.epoch
    BY <1>3 DEF RunsEnd, GoesOn
  <2>2. claims'[d.n] = claims[d.n]
    BY <1>3 DEF RunsEnd, GoesOn
  <2> QED
    BY <1>1, <2>1, <2>2
<1> QED
  BY <1>2, <1>3 DEF RunStep

-----------------------------------------------------------------------------
(* The evidence and the commit.                                            *)

\* Whatever starts no run and neither checks nor commits leaves the invariant, runs and git
\* commits ending or not, and a run that ends may leave its git commit behind.
LEMMA CommitStays ==
  ASSUME TypeOK, CommitInv, drivers' \subseteq drivers,
         orphans' \subseteq orphans \cup GitOf(drivers \ drivers'),
         UNCHANGED <<rivals, evidence, commitRow, commits, recorded>>,
         \A n \in Numbers : status'[n] = "completed" => status[n] = "completed"
  PROVE  CommitInv'
<1>d. \A d \in drivers : d.n \in Numbers
  BY DEF TypeOK, Driver
<1>o. \A o \in orphans : o.n \in Numbers
  BY DEF TypeOK, Orphan
<1>g. \A o \in GitOf(drivers \ drivers') : \E d \in drivers \ drivers' :
        d.stage = "staged" /\ o = [worker |-> d.worker, n |-> d.n] /\ o.n = d.n
  BY DEF GitOf
<1>1. ~Writes => orphans' = {}
  <2> SUFFICES ASSUME ~Writes, NEW o \in orphans' PROVE FALSE
    OBVIOUS
  <2>1. orphans = {} /\ \A d \in drivers : d.stage # "staged"
    BY DEF CommitInv, Committing
  <2>2. o \in GitOf(drivers \ drivers')
    BY <2>1
  <2> QED
    BY <1>g, <2>1, <2>2
<1>2. ASSUME NEW o \in orphans', ~rivals[o.n], o \in GitOf(drivers \ drivers')
      PROVE  /\ commits[o.n] = 0 /\ commitRow[o.n] = "pending" /\ evidence[o.n] = "completed"
             /\ status[o.n] # "completed" /\ o.n \in Numbers
             /\ \A d \in drivers' \cup (orphans' \ {o}) : d.n # o.n
  <2>1. PICK d \in drivers \ drivers' :
          d.stage = "staged" /\ o = [worker |-> d.worker, n |-> d.n] /\ o.n = d.n
    BY <1>2, <1>g
  <2>2. /\ commits[d.n] = 0 /\ commitRow[d.n] = "pending" /\ evidence[d.n] = "completed"
        /\ status[d.n] # "completed"
        /\ \A b \in drivers : b.n = d.n => b = d
        /\ \A q \in orphans : q.n # d.n
    BY <1>2, <1>d, <1>o, <2>1 DEF CommitInv, Committing
  <2>3. \A q \in GitOf(drivers \ drivers') : q.n = d.n => q = o
    BY <1>g, <2>1, <2>2
  <2>4. \A q \in orphans' \ {o} : q.n # d.n
    BY <2>2, <2>3
  <2>5. \A b \in drivers' : b.n # d.n
    BY <2>1, <2>2
  <2>6. \A b \in drivers' \cup (orphans' \ {o}) : b.n # o.n
    BY <2>1, <2>4, <2>5
  <2>7. o.n = d.n /\ o.n \in Numbers
    BY <1>d, <2>1
  <2> QED
    BY <2>2, <2>6, <2>7, Zenon
<1>3. ASSUME NEW o \in orphans', ~rivals[o.n], o \notin GitOf(drivers \ drivers')
      PROVE  /\ commits[o.n] = 0 /\ commitRow[o.n] = "pending" /\ evidence[o.n] = "completed"
             /\ status[o.n] # "completed" /\ o.n \in Numbers
             /\ \A d \in drivers' \cup (orphans' \ {o}) : d.n # o.n
  <2>1. /\ commits[o.n] = 0 /\ commitRow[o.n] = "pending" /\ evidence[o.n] = "completed"
        /\ status[o.n] # "completed" /\ o.n \in Numbers
        /\ \A d \in drivers \cup (orphans \ {o}) : d.n # o.n
    BY <1>3, <1>o DEF CommitInv
  <2>2. \A q \in GitOf(drivers \ drivers') : q.n # o.n
    BY <1>g, <2>1
  <2>3. \A b \in drivers' \cup (orphans' \ {o}) : b.n # o.n
    BY <2>1, <2>2
  <2> QED
    BY <2>1, <2>3, Zenon
<1>4. \A o \in orphans' : ~rivals'[o.n] =>
        /\ commits'[o.n] = 0 /\ commitRow'[o.n] = "pending" /\ evidence'[o.n] = "completed"
        /\ status'[o.n] # "completed"
        /\ \A d \in drivers' \cup (orphans' \ {o}) : d.n # o.n
  BY <1>2, <1>3
<1> QED
  BY <1>1, <1>4, <1>d DEF CommitInv, InGit, Committing, Delivers

\* So does a run that goes on outside the evidence and the commit.
LEMMA CommitGoesOn ==
  ASSUME TypeOK, CommitInv, NEW d \in drivers, NEW e, drivers' = (drivers \ {d}) \cup {e},
         e.n = d.n, e.commit = d.commit, d.stage \notin {"recording", "finishing"},
         ~Committing(e), ~Delivers(e), e.stage # "checking",
         UNCHANGED <<rivals, evidence, commitRow, commits, recorded, orphans>>,
         \A n \in Numbers : status'[n] = "completed" => status[n] = "completed"
  PROVE  CommitInv'
<1>1. ~rivals[d.n] => d.commit = "null"
  BY DEF CommitInv
<1>2. \A o \in orphans : o.n \in Numbers
  BY DEF TypeOK, Orphan
<1> QED
  BY <1>1, <1>2 DEF CommitInv, InGit, Committing, Delivers

LEMMA CommitOfRequests ==
  ASSUME TypeOK, RowInv, CommitInv
  PROVE  /\ \A k \in Keys \cup Numbers : LoadTask(k) => CommitInv'
         /\ \A r \in starts : Insert(r) => CommitInv'
         /\ \A n \in Numbers, s \in {"completed", "failed"} :
              Retry(n) \/ CancelRead(n) \/ CancelFlag(n) \/ Edit(n) \/ TurnEnds(n, s) => CommitInv'
         /\ \A w \in Workers : Stop(w) \/ Crash(w) => CommitInv'
<1> USE DEF effectVars, rowVars
<1>1. ASSUME NEW k \in Keys \cup Numbers, LoadTask(k) PROVE CommitInv'
  BY <1>1, CommitStays DEF LoadTask
<1>2. ASSUME NEW r \in starts, Insert(r) PROVE CommitInv'
  <2>1. \A n \in Numbers : status'[n] = "completed" => status[n] = "completed"
    BY <1>2 DEF Insert, TypeOK
  <2> QED
    BY <1>2, <2>1, CommitStays DEF Insert
<1>3. ASSUME NEW n \in Numbers, NEW s \in {"completed", "failed"},
             Retry(n) \/ CancelRead(n) \/ CancelFlag(n) \/ Edit(n) \/ TurnEnds(n, s)
      PROVE  CommitInv'
  BY <1>1, <1>3, CommitStays DEF Retry, CancelRead, CancelFlag, Edit, TurnEnds
<1>4. ASSUME NEW w \in Workers, Stop(w) \/ Crash(w) PROVE CommitInv'
  BY <1>4, CommitStays DEF Stop, Crash
<1> QED
  BY <1>1, <1>2, <1>3, <1>4

LEMMA CommitOfRecovery ==
  ASSUME TypeOK, CommitInv, NEW n \in Numbers
  PROVE  CancelQueued(n) \/ Expire(n) \/ Lapse(n) \/ Sweep(n) => CommitInv'
<1> USE DEF effectVars, rowVars
<1>1. ASSUME NEW s \in {"failed", "cancelled", "expired"}, FinishRow(n, s)
      PROVE  /\ UNCHANGED rivals
             /\ \A m \in Numbers : status'[m] = "completed" => status[m] = "completed"
  BY <1>1 DEF FinishRow, TypeOK
<1>2. CASE CancelQueued(n)
  BY <1>1, <1>2, CommitStays DEF CancelQueued
<1>3. CASE Expire(n)
  BY <1>1, <1>3, CommitStays DEF Expire
<1>4. CASE Lapse(n)
  BY <1>4, CommitStays DEF Lapse
<1>5. CASE SweepRead(n)
  BY <1>5, CommitStays DEF SweepRead
<1>6. CASE SweepApply(n)
  <2>1. CASE RequeueRow(n)
    <3>1. \A m \in Numbers : status'[m] = "completed" => status[m] = "completed"
      BY <2>1 DEF RequeueRow, TypeOK
    <3> QED
      BY <1>6, <2>1, <3>1, CommitStays DEF SweepApply, RequeueRow
  <2>2. CASE sweep[n] # "queued" /\ FinishRow(n, sweep[n])
    <3>1. sweep[n] \in {"failed", "cancelled"}
      BY <1>6, <2>2 DEF SweepApply, TypeOK, Decision
    <3> QED
      BY <1>1, <1>6, <2>2, <3>1, CommitStays DEF SweepApply
  <2>3. CASE UNCHANGED <<task, rowVars>>
    BY <1>6, <2>3, CommitStays DEF SweepApply
  <2> QED
    BY <1>6, <2>1, <2>2, <2>3 DEF SweepApply
<1> QED
  BY <1>2, <1>3, <1>4, <1>5, <1>6 DEF Sweep

\* A claim beside an earlier run makes the attempt a rival's; any other is alone.
LEMMA CommitOfClaim ==
  ASSUME TypeOK, CommitInv, NEW w \in Workers, NEW n \in Numbers, Claim(w, n)
  PROVE  CommitInv'
<1>1. PICK e : /\ drivers' = drivers \cup {e}
               /\ e.n = n /\ e.stage \in {"preparing", "resuming"} /\ e.commit = "null"
  <2>1. PICK e : e = [worker |-> w, n |-> n, epoch |-> claims[n] + 1,
                      stage |-> IF bound[n] THEN "resuming" ELSE "preparing",
                      verdict |-> "none", commit |-> "null"]
    OBVIOUS
  <2>2. e.n = n /\ e.stage \in {"preparing", "resuming"} /\ e.commit = "null"
    BY <2>1
  <2> QED
    BY <2>1, <2>2 DEF Claim
<1>2. /\ \A m \in Numbers : ~rivals'[m] => ~rivals[m]
      /\ ~rivals'[n] => \A d \in drivers \cup orphans : d.n # n
  BY DEF Claim, TypeOK
<1>3. /\ UNCHANGED <<evidence, commitRow, commits, recorded, orphans>>
      /\ \A m \in Numbers : status'[m] = "completed" => status[m] = "completed" /\ m # n
  BY DEF Claim, TypeOK, effectVars
<1>4. \A d \in drivers \cup orphans : d.n \in Numbers
  BY DEF TypeOK, Driver, Orphan
<1> QED
  BY <1>1, <1>2, <1>3, <1>4 DEF CommitInv, InGit, Committing, Delivers

LEMMA CommitOfRun ==
  ASSUME TypeOK, DriverInv, CommitInv, NEW d \in drivers,
         \/ Lost(d) \/ Abort(d) \/ HandBack(d) \/ Renew(d) \/ BindSession(d) \/ CreateTurn(d)
         \/ BindTurn(d) \/ Deadline(d) \/ Hand(d) \/ Settle(d) \/ Refuse(d)
  PROVE  CommitInv'
<1> USE DEF effectVars, rowVars
<1>d. d \in Driver /\ d.n \in Numbers
  BY DEF TypeOK, Driver
<1>1. CASE Lost(d) \/ Abort(d) \/ Renew(d)
  BY <1>1, CommitStays DEF Lost, Abort, Renew, EndDriver
<1>2. CASE HandBack(d)
  <2>1. \A m \in Numbers : status'[m] = "completed" => status[m] = "completed"
    BY <1>2, <1>d DEF HandBack, RequeueRow, TypeOK
  <2> QED
    BY <1>2, <2>1, CommitStays DEF HandBack, RequeueRow, EndDriver
<1>3. CASE BindSession(d) \/ CreateTurn(d) \/ BindTurn(d) \/ Deadline(d) \/ Hand(d)
  <2>1. PICK s \in {"queuing", "binding", "watching", "late", "evidence"} : ToStage(d, s)
    BY <1>3 DEF BindSession, CreateTurn, BindTurn, Deadline, Hand
  <2>2. PICK e : e = [d EXCEPT !.stage = s]
    OBVIOUS
  <2>3. e.n = d.n /\ e.commit = d.commit /\ e.stage = s
    BY <1>d, <2>2 DEF Driver
  <2>4. drivers' = (drivers \ {d}) \cup {e}
    BY <2>1, <2>2 DEF ToStage
  <2>5. /\ \A m \in Numbers : status'[m] = "completed" => status[m] = "completed"
        /\ UNCHANGED <<rivals, evidence, commitRow, commits, recorded, orphans>>
    BY <1>3, <1>d DEF BindSession, CreateTurn, BindTurn, Deadline, Hand, TypeOK
  <2>6. d.stage \notin {"recording", "finishing"}
    BY <1>3 DEF BindSession, CreateTurn, BindTurn, Deadline, Hand
  <2> QED
    BY <2>1, <2>3, <2>4, <2>5, <2>6, CommitGoesOn DEF Committing, Delivers
<1>4. CASE Settle(d) \/ Refuse(d)
  <2>1. PICK e : /\ drivers' = (drivers \ {d}) \cup {e}
                 /\ \/ e = [d EXCEPT !.stage = "handing"]
                    \/ \E v \in {"cancelled", "failed"} :
                         e = [d EXCEPT !.stage = "finishing", !.verdict = v]
    BY <1>4 DEF Settle, Refuse, ToStage, ToVerdict
  <2>2. /\ e.n = d.n /\ e.commit = d.commit
        /\ e.stage = "handing" \/ (e.stage = "finishing" /\ e.verdict # "completed")
    BY <1>d, <2>1 DEF Driver
  <2>3. /\ \A m \in Numbers : status'[m] = "completed" => status[m] = "completed"
        /\ UNCHANGED <<rivals, evidence, commitRow, commits, recorded, orphans>>
    BY <1>4 DEF Settle, Refuse
  <2>4. d.stage \notin {"recording", "finishing"}
    BY <1>4 DEF Settle, Refuse
  <2> QED
    BY <2>1, <2>2, <2>3, <2>4, CommitGoesOn DEF Committing, Delivers
<1> QED
  BY <1>1, <1>2, <1>3, <1>4

\* The run that checks, commits or finishes an attempt without a rival is its only run:
\* what it was told of git and of the ledger is still so.
LEMMA Alone ==
  ASSUME TypeOK, CommitInv, NEW d \in drivers, ~rivals[d.n]
  PROVE  /\ \A b \in drivers : b.n = d.n => b = d
         /\ \A o \in orphans : o.n # d.n
         /\ status[d.n] # "completed"
<1>1. \A o \in orphans : o.n # d.n
  BY DEF CommitInv
<1> QED
  BY <1>1 DEF CommitInv, TypeOK, Driver

LEMMA CommitOfEvidence ==
  ASSUME TypeOK, DriverInv, CommitInv, NEW d \in drivers,
         LookUpEvidence(d) \/ \E v \in Verdict : Check(d, v)
  PROVE  CommitInv'
<1>d. d \in Driver /\ d.n \in Numbers /\ \A b \in drivers \cup orphans : b.n \in Numbers
  BY DEF TypeOK, Driver, Orphan
<1>u. UNCHANGED <<status, rivals, commitRow, commits, recorded, orphans>>
  BY DEF LookUpEvidence, Check, rowVars
<1>c. d.stage \in {"evidence", "checking"}
  BY DEF LookUpEvidence, Check
<1>1. PICK e, v :
        /\ drivers' = (drivers \ {d}) \cup {e}
        /\ evidence' = [evidence EXCEPT ![d.n] = v]
        /\ d.stage = "checking" \/ evidence[d.n] \in {"none", v}
        /\ \/ v = "pending" /\ e = [d EXCEPT !.stage = "checking"]
           \/ v \in Verdict /\ e = [d EXCEPT !.stage = AfterVerdict(v), !.verdict = v]
  <2>1. CASE LookUpEvidence(d)
    <3>1. CASE evidence[d.n] \in Verdict
      <4>1. evidence[d.n] # "none"
        BY <3>1 DEF Verdict
      <4>2. evidence' = [evidence EXCEPT ![d.n] = evidence[d.n]]
        BY <2>1, <4>1 DEF LookUpEvidence
      <4> QED
        BY <2>1, <3>1, <4>2 DEF LookUpEvidence, ToVerdict
    <3>2. CASE evidence[d.n] \notin Verdict
      <4>1. evidence[d.n] \in {"none", "pending"}
        BY <1>d, <3>2 DEF TypeOK
      <4>2. evidence' = [evidence EXCEPT ![d.n] = "pending"]
        BY <2>1, <4>1 DEF LookUpEvidence
      <4> QED
        BY <2>1, <3>2, <4>1, <4>2 DEF LookUpEvidence, ToStage
    <3> QED
      BY <3>1, <3>2
  <2>2. ASSUME NEW v \in Verdict, Check(d, v)
        PROVE  \E e, u :
                 /\ drivers' = (drivers \ {d}) \cup {e}
                 /\ evidence' = [evidence EXCEPT ![d.n] = u]
                 /\ d.stage = "checking"
                 /\ u \in Verdict /\ e = [d EXCEPT !.stage = AfterVerdict(u), !.verdict = u]
    BY <2>2 DEF Check, ToVerdict
  <2> QED
    BY <2>1, <2>2
<1>2. /\ e.n = d.n /\ e.commit = d.commit
      /\ v = "pending" => e.stage = "checking"
      /\ v # "pending" => /\ v \in Verdict /\ e.verdict = v
                          /\ e.stage = IF v = "completed" /\ Writes THEN "committing"
                                       ELSE "finishing"
  BY <1>1, <1>d DEF Driver, Verdict, AfterVerdict
<1>3. evidence'[d.n] = v /\ \A m \in Numbers \ {d.n} : evidence'[m] = evidence[m]
  BY <1>1, <1>d DEF TypeOK
<1>4. CASE rivals[d.n]
  BY <1>1, <1>2, <1>3, <1>4, <1>d, <1>u DEF CommitInv, InGit, Committing, Delivers
<1>5. CASE ~rivals[d.n]
  <2>1. /\ \A b \in drivers : b.n = d.n => b = d
        /\ d.commit = "null" /\ commits[d.n] \in 0..1
        /\ d.stage = "checking" => evidence[d.n] = "pending"
        /\ commits[d.n] > 0 => evidence[d.n] = "completed"
    BY <1>5, <1>c, <1>d, Alone DEF CommitInv
  <2>2. commits[d.n] > 0 => v = "completed"
    BY <1>1, <2>1
  <2>3. Delivers(e) => v = "completed" /\ commits[d.n] = 0
    BY <1>2, <1>d DEF Delivers, CommitInv
  <2> QED
    BY <1>1, <1>2, <1>3, <1>5, <1>d, <1>u, <2>1, <2>2, <2>3
       DEF CommitInv, InGit, Committing, Delivers
<1> QED
  BY <1>4, <1>5

LEMMA CommitOfCommit ==
  ASSUME TypeOK, DriverInv, CommitInv, NEW d \in drivers,
         LookUpCommit(d) \/ ChangedPaths(d) \/ StageAll(d) \/ Commit(d) \/ RecordCommit(d)
  PROVE  CommitInv'
<1>d. d \in Driver /\ d.n \in Numbers /\ \A b \in drivers \cup orphans : b.n \in Numbers
  BY DEF TypeOK, Driver, Orphan
<1>u. UNCHANGED <<status, rivals, evidence, recorded, orphans>>
  BY DEF LookUpCommit, ChangedPaths, StageAll, Commit, RecordCommit, rowVars, effectVars
<1>c. Committing(d) /\ d.verdict = "completed" /\ Writes
  BY DEF LookUpCommit, ChangedPaths, StageAll, Commit, RecordCommit, Committing, DriverInv, HasVerdict,
         CommitInv
<1>t. commitRow \in [Numbers -> {"none", "pending"} \cup Result] /\ commits \in [Numbers -> Nat]
  BY DEF TypeOK
<1>a. ~rivals[d.n] =>
        /\ \A b \in drivers : b.n = d.n => b = d
        /\ \A o \in orphans : o.n # d.n
        /\ status[d.n] # "completed"
        /\ commits[d.n] \in 0..1 /\ evidence[d.n] = "completed"
        /\ commitRow[d.n] \in Result => commitRow[d.n] = InGit(d.n)
        /\ d.stage \in {"changing", "staging", "staged"} => commits[d.n] = 0 /\ commitRow[d.n] = "pending"
        /\ d.stage = "recording" => d.commit = InGit(d.n)
        /\ d.stage # "recording" => d.commit = "null"
  BY <1>c, <1>d, Alone DEF CommitInv, Committing
\* What is left to show for the run e that d becomes.
<1>n. ASSUME NEW e, drivers' = (drivers \ {d}) \cup {e}, e.n = d.n, e.verdict = "completed",
             e.stage \in {"changing", "staging", "staged", "recording", "finishing"},
             \A m \in Numbers \ {d.n} : commitRow'[m] = commitRow[m] /\ commits'[m] = commits[m],
             ~rivals[d.n] =>
               /\ commits'[d.n] \in 0..1
               /\ commitRow'[d.n] \in Result => commitRow'[d.n] = InGit(d.n)'
               /\ e.stage \in {"changing", "staging", "staged"} =>
                    commits'[d.n] = 0 /\ commitRow'[d.n] = "pending" /\ e.commit = "null"
               /\ e.stage \in {"recording", "finishing"} => e.commit = InGit(d.n)'
      PROVE  CommitInv'
  BY <1>a, <1>c, <1>d, <1>n, <1>u DEF CommitInv, InGit, Committing, Delivers
<1>1. CASE LookUpCommit(d)
  <2>1. UNCHANGED commits /\ \A m \in Numbers \ {d.n} : commitRow'[m] = commitRow[m]
    BY <1>1, <1>d, <1>t DEF LookUpCommit
  <2>2. CASE commitRow[d.n] \in Result
    <3>1. PICK e : drivers' = (drivers \ {d}) \cup {e}
                   /\ e = [d EXCEPT !.stage = "finishing", !.commit = commitRow[d.n]]
      BY <1>1, <2>2 DEF LookUpCommit, ToResult
    <3>2. /\ e.n = d.n /\ e.verdict = d.verdict /\ e.stage = "finishing"
          /\ e.commit = commitRow[d.n]
      BY <1>d, <3>1 DEF Driver
    <3>3. commitRow'[d.n] = commitRow[d.n]
      BY <1>1, <1>d, <1>t, <2>2 DEF LookUpCommit, Result
    <3> QED
      BY <1>a, <1>c, <1>n, <2>1, <2>2, <3>1, <3>2, <3>3 DEF InGit
  <2>3. CASE commitRow[d.n] \notin Result
    <3>1. commitRow'[d.n] = "pending" /\ "pending" \notin Result
      BY <1>1, <1>d, <1>t, <2>3 DEF LookUpCommit, Result
    <3>2. CASE commits[d.n] > 0
      <4>1. PICK e : drivers' = (drivers \ {d}) \cup {e}
                     /\ e = [d EXCEPT !.stage = "recording", !.commit = "sha"]
        BY <1>1, <2>3, <3>2 DEF LookUpCommit, ToResult
      <4>2. e.n = d.n /\ e.verdict = d.verdict /\ e.stage = "recording" /\ e.commit = "sha"
        BY <1>d, <4>1 DEF Driver
      <4>3. ~rivals[d.n] => commits'[d.n] \in 0..1 /\ InGit(d.n)' = "sha"
        BY <1>a, <2>1, <3>2 DEF InGit
      <4> QED
        BY <1>c, <1>n, <2>1, <3>1, <4>1, <4>2, <4>3
    <3>3. CASE ~(commits[d.n] > 0)
      <4>1. PICK e : drivers' = (drivers \ {d}) \cup {e} /\ e = [d EXCEPT !.stage = "changing"]
        BY <1>1, <2>3, <3>3 DEF LookUpCommit, ToStage
      <4>2. e.n = d.n /\ e.verdict = d.verdict /\ e.stage = "changing" /\ e.commit = d.commit
        BY <1>d, <4>1 DEF Driver
      <4>3. d.stage # "recording"
        BY <1>1 DEF LookUpCommit
      <4>4. ~rivals[d.n] => commits'[d.n] = 0 /\ d.commit = "null"
        BY <1>a, <2>1, <3>3, <4>3
      <4>5. 0 \in 0..1
        OBVIOUS
      <4> QED
        BY <1>c, <1>n, <2>1, <3>1, <4>1, <4>2, <4>4, <4>5
    <3> QED
      BY <3>2, <3>3
  <2> QED
    BY <2>2, <2>3
<1>2. CASE ChangedPaths(d)
  <2>1. PICK e : /\ drivers' = (drivers \ {d}) \cup {e}
                 /\ e = [d EXCEPT !.stage = IF dirty \/ staged THEN "staging" ELSE "recording"]
    BY <1>2 DEF ChangedPaths, ToStage
  <2>2. /\ e.n = d.n /\ e.verdict = d.verdict /\ e.stage \in {"staging", "recording"}
        /\ e.commit = d.commit /\ d.stage = "changing" /\ UNCHANGED <<commitRow, commits>>
    BY <1>2, <1>d, <2>1 DEF Driver, ChangedPaths, effectVars
  <2>3. ~rivals[d.n] => InGit(d.n)' = "null" /\ "pending" \notin Result
    BY <1>a, <2>2 DEF InGit, Result
  <2> QED
    BY <1>a, <1>c, <1>n, <2>1, <2>2, <2>3
<1>3. CASE Commit(d) /\ staged
  <2>1. commits' = [commits EXCEPT ![d.n] = @ + 1] /\ ToResult(d, "recording", "sha")
    BY <1>3, Zenon DEF Commit
  <2>2. PICK e : drivers' = (drivers \ {d}) \cup {e}
                 /\ e = [d EXCEPT !.stage = "recording", !.commit = "sha"]
    BY <2>1 DEF ToResult
  <2>3. /\ e.n = d.n /\ e.verdict = d.verdict /\ e.stage = "recording" /\ e.commit = "sha"
        /\ d.stage = "staged" /\ UNCHANGED commitRow
    BY <1>3, <1>d, <2>2 DEF Driver, Commit
  <2>4. commits'[d.n] = commits[d.n] + 1 /\ \A m \in Numbers \ {d.n} : commits'[m] = commits[m]
    BY <1>d, <1>t, <2>1
  <2>5. ~rivals[d.n] => commits'[d.n] = 1 /\ InGit(d.n)' = "sha" /\ commitRow'[d.n] \notin Result
    BY <1>a, <2>3, <2>4 DEF InGit, Result
  <2>6. 1 \in 0..1
    OBVIOUS
  <2> QED
    BY <1>c, <1>n, <2>2, <2>3, <2>4, <2>5, <2>6
<1>4. CASE Commit(d) /\ ~staged
  BY <1>4, CommitStays DEF Commit, EndDriver, rowVars
<1>5. CASE RecordCommit(d)
  <2>1. PICK e : drivers' = (drivers \ {d}) \cup {e} /\ e = [d EXCEPT !.stage = "finishing"]
    BY <1>5 DEF RecordCommit, ToStage
  <2>2. /\ e.n = d.n /\ e.verdict = d.verdict /\ e.stage = "finishing" /\ e.commit = d.commit
        /\ d.stage = "recording" /\ UNCHANGED commits
    BY <1>5, <1>d, <2>1 DEF Driver, RecordCommit
  <2>3. commitRow'[d.n] = d.commit /\ \A m \in Numbers \ {d.n} : commitRow'[m] = commitRow[m]
    BY <1>5, <1>d, <1>t DEF RecordCommit
  <2> QED
    BY <1>a, <1>c, <1>n, <2>1, <2>2, <2>3 DEF InGit
<1>6. CASE StageAll(d)
  <2>1. PICK e : drivers' = (drivers \ {d}) \cup {e} /\ e = [d EXCEPT !.stage = "staged"]
    BY <1>6 DEF StageAll, ToStage
  <2>2. /\ e.n = d.n /\ e.verdict = d.verdict /\ e.stage = "staged" /\ e.commit = d.commit
        /\ d.stage = "staging" /\ UNCHANGED <<commitRow, commits>>
    BY <1>6, <1>d, <2>1 DEF Driver, StageAll
  <2>3. 0 \in 0..1
    OBVIOUS
  <2> QED
    BY <1>a, <1>c, <1>n, <2>1, <2>2, <2>3 DEF Result
<1> QED
  BY <1>1, <1>2, <1>3, <1>4, <1>5, <1>6

\* The git commit of a run that is gone finds the attempt as that run left it.
LEMMA CommitOfOrphan ==
  ASSUME TypeOK, CommitInv, NEW o \in orphans, OrphanLands(o) \/ OrphanEnds(o)
  PROVE  CommitInv'
<1>d. o.n \in Numbers /\ \A b \in drivers \cup orphans : b.n \in Numbers
  BY DEF TypeOK, Driver, Orphan
<1>1. CASE OrphanEnds(o)
  BY <1>1, CommitStays DEF OrphanEnds, rowVars
<1>2. CASE OrphanLands(o)
  <2>1. /\ orphans' = orphans \ {o}
        /\ UNCHANGED <<drivers, status, rivals, evidence, commitRow, recorded>>
        /\ commits'[o.n] = commits[o.n] + 1
        /\ \A m \in Numbers \ {o.n} : commits'[m] = commits[m]
    BY <1>2, <1>d DEF OrphanLands, rowVars, TypeOK
  <2>2. ~rivals[o.n] =>
          /\ commits'[o.n] = 1 /\ commitRow[o.n] = "pending" /\ evidence[o.n] = "completed"
          /\ status[o.n] # "completed"
          /\ \A d \in drivers \cup (orphans \ {o}) : d.n # o.n
    BY <2>1 DEF CommitInv
  <2>3. Writes /\ "pending" \notin Result
    BY DEF CommitInv, Result
  <2> QED
    BY <1>d, <2>1, <2>2, <2>3 DEF CommitInv, InGit, Committing, Delivers
<1> QED
  BY <1>1, <1>2

LEMMA CommitOfFinish ==
  ASSUME TypeOK, DriverInv, CommitInv, NEW d \in drivers, Finish(d)
  PROVE  CommitInv'
<1>d. d \in Driver /\ d.n \in Numbers /\ \A b \in drivers \cup orphans : b.n \in Numbers
  BY DEF TypeOK, Driver, Orphan
<1>1. /\ drivers' = drivers \ {d}
      /\ UNCHANGED <<rivals, evidence, commitRow, commits, orphans>>
      /\ status'[d.n] = d.verdict /\ recorded'[d.n] = d.commit /\ d.stage = "finishing"
      /\ \A m \in Numbers \ {d.n} : status'[m] = status[m] /\ recorded'[m] = recorded[m]
  BY <1>d DEF Finish, FinishRow, EndDriver, effectVars, TypeOK
<1>2. ~rivals[d.n] => /\ \A b \in drivers : b.n = d.n => b = d
                      /\ \A o \in orphans : o.n # d.n
  BY Alone
<1> QED
  BY <1>1, <1>2, <1>d DEF CommitInv, InGit, Committing, Delivers

LEMMA CommitStep == TypeOK /\ RowInv /\ DriverInv /\ CommitInv /\ [Next]_vars => CommitInv'
<1>1. CASE UNCHANGED vars
  BY <1>1 DEF vars, rowVars, effectVars, CommitInv, InGit, Committing, Delivers
<1>2. ASSUME TypeOK, CommitInv, NEW n \in Numbers, SweepRead(n) PROVE CommitInv'
  BY <1>2, CommitOfRecovery DEF Sweep
<1> QED
  BY <1>1, CommitOfRequests, CommitOfRecovery, CommitOfClaim, CommitOfRun, CommitOfEvidence,
     CommitOfCommit, CommitOfOrphan, CommitOfFinish DEF Next, DriverStep, Advance

-----------------------------------------------------------------------------
(* The task.                                                               *)

\* The latest attempt that says something is any that no later one follows.
LEMMA LatestIs ==
  \A m \in Numbers : m \in Spoken /\ (\A n \in Spoken : n <= m) => Latest = m
<1> SUFFICES ASSUME NEW m \in Numbers, m \in Spoken, \A n \in Spoken : n <= m PROVE Latest = m
  OBVIOUS
<1>1. Latest \in Spoken /\ \A n \in Spoken : n <= Latest
  BY Zenon DEF Latest
<1>2. Latest <= m /\ m <= Latest /\ Latest \in Numbers
  BY <1>1 DEF Spoken, Attempts
<1> QED
  BY <1>2 DEF Numbers

\* There is one, unless no attempt says anything.
LEMMA LatestExists == TypeOK /\ OrderInv /\ Spoken # {} => Latest \in Spoken
<1> SUFFICES ASSUME TypeOK, OrderInv, Spoken # {} PROVE Latest \in Spoken
  OBVIOUS
<1>1. PICK m \in 0..MaxNumber : Attempts = 1..m /\ ActiveOnes \subseteq {m}
  BY DEF OrderInv
<1>2. Spoken \subseteq 1..m /\ \A n \in 1..m : n = m \/ n \in Spoken
  BY <1>1 DEF Spoken, Attempts, ActiveOnes, Numbers, TypeOK
<1>3. PICK k \in Numbers : k \in Spoken /\ \A n \in Spoken : n <= k
  <2>1. CASE m \in Spoken
    BY <1>2, <2>1 DEF Numbers
  <2>2. CASE m \notin Spoken
    <3>1. m - 1 \in 1..m /\ m - 1 # m
      <4>1. PICK i \in Spoken : i \in 1..m /\ i # m
        BY <1>2, <2>2
      <4> QED
        BY <4>1
    <3>2. m - 1 \in Spoken /\ \A n \in Spoken : n <= m - 1
      BY <1>2, <2>2, <3>1
    <3> QED
      BY <3>1, <3>2 DEF Numbers
  <2> QED
    BY <2>1, <2>2
<1> QED
  BY <1>3, LatestIs

\* A step that leaves what the attempts say leaves the task.
LEMMA TaskStays ==
  ASSUME TypeOK, OrderInv, TaskFollowsAttempts, task' = task, Spoken' = Spoken,
         \A n \in Spoken : status'[n] = status[n] \/ {status[n], status'[n]} \subseteq Active,
         \A n \in Numbers : status[n] = "completed" <=> status'[n] = "completed"
  PROVE  TaskFollowsAttempts'
<1>1. Latest' = Latest
  BY DEF Latest
<1>2. Spoken # {} => status'[Latest] = status[Latest]
                      \/ {status[Latest], status'[Latest]} \subseteq Active
  BY LatestExists
<1>3. task = IF \E n \in Numbers : status[n] = "completed" THEN "completed"
             ELSE IF Spoken = {} THEN "pending"
             ELSE IF status[Latest] \in Active THEN "in_progress"
             ELSE IF status[Latest] \in Verdict THEN status[Latest] ELSE "pending"
  BY DEF TaskFollowsAttempts
<1>4. task' = IF \E n \in Numbers : status'[n] = "completed" THEN "completed"
              ELSE IF Spoken' = {} THEN "pending"
              ELSE IF status'[Latest'] \in Active THEN "in_progress"
              ELSE IF status'[Latest'] \in Verdict THEN status'[Latest'] ELSE "pending"
  <2>1. (\E n \in Numbers : status'[n] = "completed")
          <=> (\E n \in Numbers : status[n] = "completed")
    OBVIOUS
  <2> QED
    BY <1>1, <1>2, <1>3, <2>1
<1> QED
  BY <1>4 DEF TaskFollowsAttempts

\* A claim or a finish, of the attempt that comes after all others, decides it.
LEMMA TaskMoves ==
  ASSUME TypeOK, OrderInv, TaskFollowsAttempts, TypeOK', OrderInv',
         NEW n \in Numbers, status[n] \in Active, n \in Spoken',
         \A m \in Numbers \ {n} : status'[m] = status[m],
         IF task = "completed" \/ status'[n] = "completed" THEN task' = "completed"
         ELSE task' = IF status'[n] \in Active THEN "in_progress"
                      ELSE IF status'[n] \in Verdict THEN status'[n] ELSE "pending"
  PROVE  TaskFollowsAttempts'
<1>1. PICK m \in 0..MaxNumber : Attempts = 1..m /\ ActiveOnes \subseteq {m}
  BY DEF OrderInv
<1>2. n = m
  BY <1>1 DEF ActiveOnes
<1>3. \A i \in Spoken' : i <= n
  <2>1. \A i \in Numbers \ {n} : status[i] # "none" => i <= n
    BY <1>1, <1>2 DEF Attempts
  <2> QED
    BY <2>1 DEF Spoken, Attempts, Numbers
<1>4. Latest' = n
  <2>1. Latest' \in Spoken' /\ \A i \in Spoken' : i <= Latest'
    BY <1>3, Zenon DEF Latest
  <2>2. Latest' <= n /\ n <= Latest' /\ Latest' \in Numbers
    BY <1>3, <2>1 DEF Spoken, Attempts
  <2> QED
    BY <2>2 DEF Numbers
<1>5. task = "completed" <=> \E i \in Numbers : status[i] = "completed"
  <2>1. Spoken # {} => Latest \in Numbers
    BY LatestExists DEF Spoken, Attempts
  <2> QED
    BY <2>1 DEF TaskFollowsAttempts
<1>6. (task = "completed" \/ status'[n] = "completed")
        <=> \E i \in Numbers : status'[i] = "completed"
  BY <1>5 DEF Active, Leased
<1> QED
  BY <1>4, <1>6 DEF TaskFollowsAttempts

LEMMA TaskStep ==
  /\ TypeOK /\ RowInv /\ OrderInv /\ TaskFollowsAttempts /\ RowStep
  /\ TypeOK' /\ RowInv' /\ OrderInv'
  => TaskFollowsAttempts'
<1> SUFFICES ASSUME TypeOK, RowInv, OrderInv, TaskFollowsAttempts, RowStep,
                    TypeOK', RowInv', OrderInv'
             PROVE  TaskFollowsAttempts'
  OBVIOUS
<1>s. Spoken' = {n \in Numbers : /\ status'[n] # "none"
                                 /\ claims'[n] > 0 \/ status'[n] \in Terminal}
  BY DEF Spoken, Attempts
<1>t. Spoken = {n \in Numbers : status[n] # "none" /\ (claims[n] > 0 \/ status[n] \in Terminal)}
  BY DEF Spoken, Attempts
<1>1. CASE RowsStay
  <2>1. Spoken' = Spoken
    BY <1>1, <1>s, <1>t DEF RowsStay, rowVars
  <2> QED
    BY <1>1, <2>1, TaskStays DEF RowsStay, rowVars
<1>2. CASE Inserts
  <2>1. PICK m \in 0..MaxNumber : Attempts = 1..m
    BY DEF OrderInv
  <2>2. NextNumber = m + 1
    BY <2>1, NextIs
  <2>3. PICK p \in Numbers : p = m + 1 /\ p \notin Attempts
    BY <1>2, <2>1, <2>2 DEF Inserts
  <2>4. status' = [status EXCEPT ![p] = "queued"] /\ status[p] = "none" /\ claims[p] = 0
    BY <1>2, <2>2, <2>3 DEF Inserts, Attempts, RowInv
  <2>5. claims' = claims /\ task' = task
    BY <1>2 DEF Inserts
  <2>6. Spoken' = Spoken
    BY <1>s, <1>t, <2>4, <2>5 DEF TypeOK, Terminal, Verdict
  <2>7. p \notin Spoken
    BY <1>t, <2>4
  <2>8. \A n \in Spoken : n \in Numbers
    BY <1>t
  <2> QED
    BY <2>4, <2>5, <2>6, <2>7, <2>8, TaskStays DEF TypeOK
<1>3. ASSUME NEW n \in Numbers, NEW w \in Workers, Claims(w, n) PROVE TaskFollowsAttempts'
  <2>1. status'[n] = "claimed" /\ claims'[n] > 0
    BY <1>3 DEF Claims, TypeOK
  <2>2. n \in Spoken' /\ status[n] \in Active
    BY <1>3, <1>s, <2>1 DEF Claims, Active
  <2> QED
    BY <1>3, <2>1, <2>2, TaskMoves DEF Claims, TypeOK, Active, Leased
<1>4. ASSUME NEW n \in Numbers, NEW s \in Terminal, Finishes(n, s) PROVE TaskFollowsAttempts'
  <2>1. status'[n] = s /\ \A m \in Numbers \ {n} : status'[m] = status[m]
    BY <1>4 DEF Finishes, FinishRow, TypeOK
  <2>2. n \in Spoken' /\ status[n] \in Active
    BY <1>4, <1>s, <2>1 DEF Finishes, Terminal, Verdict
  <2>3. task' = TaskOutcome(s)
    BY <1>4 DEF Finishes, FinishRow
  <2>4. s \notin Active
    BY DEF Terminal, Verdict, Active, Leased
  <2> QED
    BY <2>1, <2>2, <2>3, <2>4, TaskMoves DEF TaskOutcome, Verdict
<1>5. ASSUME NEW n \in Numbers, NEW s \in Active, status[n] \in Leased, UNCHANGED <<task, claims>>,
             status' = [status EXCEPT ![n] = s]
      PROVE  TaskFollowsAttempts'
  <2>1. claims[n] > 0 /\ status[n] # "none" /\ status'[n] = s /\ s # "none"
        /\ s # "completed" /\ status[n] # "completed"
    BY <1>5 DEF RowInv, TypeOK, Active, Leased
  <2>2. Spoken' = Spoken
    BY <1>5, <1>s, <1>t, <2>1 DEF TypeOK
  <2>3. \A m \in Spoken : m \in Numbers
    BY <1>t
  <2>4. {status[n], s} \subseteq Active
    BY <1>5 DEF Active
  <2> QED
    BY <1>5, <2>1, <2>2, <2>3, <2>4, TaskStays DEF TypeOK
<1>6. ASSUME NEW n \in Numbers, NEW l \in {"live", "lapsed"}, Leases(n, l)
      PROVE  TaskFollowsAttempts'
  <2>1. Spoken' = Spoken
    BY <1>6, <1>s, <1>t DEF Leases
  <2> QED
    BY <1>6, <2>1, TaskStays DEF Leases
<1> QED
  BY <1>1, <1>2, <1>3, <1>4, <1>5, <1>6 DEF RowStep, Requeues, RequeueRow, MovesOn, Active

-----------------------------------------------------------------------------
(* The theorems.                                                           *)

LEMMA InitInv == Init => IInv
<1> SUFFICES ASSUME Init PROVE IInv
  OBVIOUS
<1> USE DEF Init
<1>1. TypeOK
  BY DEF TypeOK, TaskStatus, Result, Start, Driver
<1>2. RowInv /\ DriverInv /\ FenceIsExact
  BY DEF RowInv, DriverInv, FenceIsExact, Leased
<1>3. OrderInv
  BY DEF OrderInv, Attempts, ActiveOnes, Active, Leased
<1>4. CommitInv
  BY DEF CommitInv, Result
<1>5. TaskFollowsAttempts
  <2>1. Spoken = {}
    BY DEF Spoken, Attempts
  <2> QED
    BY <2>1 DEF TaskFollowsAttempts
<1> QED
  BY <1>1, <1>2, <1>3, <1>4, <1>5 DEF IInv

LEMMA StepInv == IInv /\ [Next]_vars => IInv'
<1> SUFFICES ASSUME IInv, [Next]_vars PROVE IInv'
  OBVIOUS
<1>1. TypeOK /\ RowInv /\ OrderInv /\ DriverInv /\ FenceIsExact /\ CommitInv /\ TaskFollowsAttempts
  BY DEF IInv
<1>2. TypeOK' /\ RowStep /\ RunStep
  BY <1>1, TypeStep, RowSteps, RunSteps
<1>3. RowInv' /\ OrderInv' /\ DriverInv' /\ FenceIsExact' /\ CommitInv'
  BY <1>1, <1>2, RowInvStep, OrderStep, DriverInvStep, FenceStep, CommitStep
<1>4. TaskFollowsAttempts'
  BY <1>1, <1>2, <1>3, TaskStep
<1> QED
  BY <1>2, <1>3, <1>4 DEF IInv

LEMMA Invariant == Spec => []IInv
BY InitInv, StepInv, PTL DEF Spec

\* Rows, ledger, turns and runs keep their shape.
THEOREM TypeCorrect == Spec => []TypeOK
<1>1. IInv => TypeOK
  BY DEF IInv
<1> QED
  BY <1>1, Invariant, PTL

\* The fence of renew, _update_held, release and _finish compares worker ids and not
\* claims, and lets the run of the latest claim through, and no other.
THEOREM FenceLetsTheLatestThrough == Spec => []FenceIsExact
<1>1. IInv => FenceIsExact
  BY DEF IInv
<1> QED
  BY <1>1, Invariant, PTL

\* However often an attempt is interrupted between git, the ledger and its row, it has one
\* commit at most and stores it, also when git commits after the run that started it is gone,
\* unless a run was claimed beside an older one or beside the git commit of one.
THEOREM CommitsAreRecorded == Spec => []CommitIsRecorded
<1>1. IInv => CommitIsRecorded
  <2> SUFFICES ASSUME IInv, NEW n \in Numbers, ~rivals[n]
               PROVE  /\ commits[n] <= 1
                      /\ status[n] = "completed" =>
                           recorded[n] = IF commits[n] = 1 THEN "sha" ELSE "null"
    BY DEF CommitIsRecorded
  <2>1. commits[n] \in 0..1 /\ (status[n] = "completed" => recorded[n] = InGit(n))
    BY DEF IInv, CommitInv
  <2> QED
    BY <2>1 DEF InGit
<1> QED
  BY <1>1, Invariant, PTL

\* With the same proviso, what is committed is what recorded evidence passed.
THEOREM CommitsAreVerified == Spec => []CommittedWasVerified
<1>1. IInv => CommittedWasVerified
  BY DEF IInv, CommitInv, CommittedWasVerified
<1> QED
  BY <1>1, Invariant, PTL

\* claim and _finish_in keep the task's status what its latest attempt says of it.
THEOREM TaskIsInStep == Spec => []TaskFollowsAttempts
<1>1. IInv => TaskFollowsAttempts
  BY DEF IInv
<1> QED
  BY <1>1, Invariant, PTL

\* Finished attempts stay as they are: every UPDATE asks for an active row.
THEOREM AttemptsStayFinal == Spec => AttemptIsFinal
<1> DEFINE Final == \A n \in Numbers : status[n] \in Terminal =>
                      /\ status'[n] = status[n]
                      /\ recorded'[n] = recorded[n]
<1>1. ASSUME IInv, [Next]_vars, NEW n \in Numbers, status[n] \in Terminal
      PROVE  status'[n] = status[n] /\ recorded'[n] = recorded[n]
  <2>1. TypeOK /\ RowInv /\ OrderInv /\ DriverInv
    BY <1>1 DEF IInv
  <2>2. RowStep
    BY <1>1, <2>1, RowSteps
  <2>3. status[n] \notin Active /\ status[n] \notin Leased /\ status[n] # "none"
    BY <1>1 DEF Terminal, Verdict, Active, Leased
  <2>4. CASE Inserts
    <3>1. PICK m \in 0..MaxNumber : Attempts = 1..m
      BY <2>1 DEF OrderInv
    <3>2. NextNumber # n
      BY <2>3, <3>1, NextIs DEF Attempts
    <3> QED
      BY <2>1, <2>4, <3>2 DEF Inserts, TypeOK
  <2>5. ASSUME NEW i \in Numbers, NEW s \in Terminal, Finishes(i, s)
        PROVE  status'[n] = status[n] /\ recorded'[n] = recorded[n]
    BY <2>1, <2>3, <2>5 DEF Finishes, FinishRow, TypeOK
  <2>6. ASSUME NEW i \in Numbers,
               \/ \E w \in Workers : Claims(w, i)
               \/ Requeues(i)
               \/ \E s \in Leased : MovesOn(i, s)
               \/ \E l \in {"live", "lapsed"} : Leases(i, l)
        PROVE  status'[n] = status[n] /\ recorded'[n] = recorded[n]
    BY <2>1, <2>3, <2>6 DEF Claims, Requeues, RequeueRow, MovesOn, Leases, TypeOK, Active
  <2> QED
    BY <2>2, <2>4, <2>5, <2>6 DEF RowStep, RowsStay, rowVars
<1>2. IInv /\ [Next]_vars => Final
  BY <1>1
<1> QED
  BY <1>2, Invariant, PTL DEF Spec, AttemptIsFinal

\* An attempt that is held stays with its holder.
Keeps(n) == status'[n] \in Leased /\ claimedBy'[n] = claimedBy[n]

LEMMA RowsKeep ==
  ASSUME TypeOK, OrderInv, NEW n \in Numbers, status[n] \in Leased,
         \/ RowsStay
         \/ Inserts
         \/ \E i \in Numbers, w \in Workers : Claims(w, i)
         \/ \E i \in Numbers, s \in Leased : MovesOn(i, s)
         \/ \E i \in Numbers, l \in {"live", "lapsed"} : Leases(i, l)
         \/ \E i \in Numbers \ {n} : Requeues(i) \/ \E s \in Terminal : Finishes(i, s)
  PROVE  Keeps(n)
<1> USE DEF Keeps, TypeOK
<1>1. CASE Inserts
  <2>1. PICK m \in 0..MaxNumber : Attempts = 1..m
    BY DEF OrderInv
  <2>2. NextNumber # n
    BY <2>1, NextIs DEF Attempts, Leased
  <2> QED
    BY <1>1, <2>2 DEF Inserts
<1>2. ASSUME NEW i \in Numbers \ {n}, Requeues(i) \/ \E s \in Terminal : Finishes(i, s)
      PROVE  Keeps(n)
  BY <1>2 DEF Requeues, RequeueRow, Finishes, FinishRow
<1>3. ASSUME NEW i \in Numbers, NEW w \in Workers, Claims(w, i) PROVE Keeps(n)
  BY <1>3 DEF Claims, Leased
<1>4. ASSUME NEW i \in Numbers, NEW s \in Leased, MovesOn(i, s) PROVE Keeps(n)
  BY <1>4 DEF MovesOn
<1>5. ASSUME NEW i \in Numbers, NEW l \in {"live", "lapsed"}, Leases(i, l) PROVE Keeps(n)
  BY <1>5 DEF Leases
<1>6. CASE RowsStay
  BY <1>6 DEF RowsStay, rowVars
<1> QED
  BY <1>1, <1>2, <1>3, <1>4, <1>5, <1>6

\* Every step that ends or requeues an attempt is a request or sweep of a row that is queued
\* or lapsed, or comes from a run that holds it.
LEMMA EndedBy ==
  ASSUME TypeOK, RowInv, OrderInv, DriverInv, [Next]_vars, NEW d \in drivers,
         Holds(d.worker, d.n), lease[d.n] = "live"
  PROVE  Keeps(d.n) \/ d \notin drivers'
<1> USE DEF Holds
<1>d. d.n \in Numbers /\ \A e \in drivers : e.n \in Numbers /\ e.worker \in Workers
  BY DEF TypeOK, Driver
<1>1. RowStep
  BY RowSteps
<1>2. ASSUME NEW n \in Numbers, Requeues(n) \/ \E s \in Terminal : Finishes(n, s), n = d.n
      PROVE  d \notin drivers'
  <2>1. status'[n] \notin Leased
    BY <1>2 DEF Requeues, RequeueRow, Finishes, FinishRow, TypeOK, Leased, Terminal, Verdict
  <2>2. ASSUME status' = status PROVE FALSE
    BY <1>2, <2>1, <2>2
  <2>3. ASSUME NEW e \in drivers, Finish(e) \/ HandBack(e) PROVE d \notin drivers'
    <3>1. CASE e.n = n
      <4>1. e = d
        <5>1. Holds(e.worker, e.n)
          BY <2>2, <2>3, <3>1 DEF Finish, HandBack, rowVars
        <5> QED
          BY <1>2, <3>1, <5>1 DEF DriverInv
      <4> QED
        BY <2>3, <4>1 DEF Finish, HandBack, EndDriver
    <3>2. CASE e.n # n
      <4>1. status'[n] = status[n]
        BY <1>d, <2>3, <3>2 DEF Finish, FinishRow, HandBack, RequeueRow, rowVars, TypeOK
      <4> QED
        BY <1>2, <2>1, <4>1
    <3> QED
      BY <3>1, <3>2
  <2>4. ASSUME NEW i \in Numbers, CancelQueued(i) \/ Expire(i) \/ SweepApply(i) PROVE FALSE
    <3>1. i # n
      BY <1>2, <2>2, <2>4 DEF CancelQueued, Expire, SweepApply, StillLapsed, Leased, rowVars
    <3>2. status'[n] = status[n]
      BY <1>d, <2>4, <3>1 DEF CancelQueued, Expire, SweepApply, FinishRow, RequeueRow, rowVars,
                              TypeOK
    <3> QED
      BY <1>2, <2>1, <3>2
  <2>5. ASSUME NEW i \in Numbers, NEW w \in Workers, Claim(w, i) PROVE FALSE
    BY <1>2, <2>1, <2>5 DEF Claim, Leased, TypeOK
  <2>6. ASSUME NEW r \in starts, Insert(r) PROVE FALSE
    BY <1>2, <2>1, <2>6 DEF Insert, Insertable, ActiveOnes, Active
  <2>7. ASSUME NEW e \in drivers, BindTurn(e) \/ Hand(e) PROVE FALSE
    BY <1>d, <1>2, <2>1, <2>7 DEF BindTurn, Hand, Leased, TypeOK
  <2>8. ASSUME NEW e \in drivers,
               \/ Lost(e) \/ BindSession(e) \/ CreateTurn(e) \/ Settle(e) \/ LookUpEvidence(e)
               \/ (\E v \in Verdict : Check(e, v)) \/ LookUpCommit(e) \/ ChangedPaths(e)
               \/ StageAll(e) \/ Commit(e) \/ RecordCommit(e) \/ Refuse(e) \/ Renew(e) \/ Deadline(e) \/ Abort(e)
        PROVE  status' = status
    BY <2>8 DEF Lost, BindSession, CreateTurn, Settle, LookUpEvidence, Check, LookUpCommit,
                ChangedPaths, StageAll, Commit, RecordCommit, Refuse, Renew, Deadline, Abort,
                rowVars
  <2>9. ASSUME NEW k \in Keys \cup Numbers, NEW i \in Numbers, NEW s \in {"completed", "failed"},
               \/ LoadTask(k) \/ Retry(i) \/ CancelRead(i) \/ CancelFlag(i) \/ Lapse(i)
               \/ SweepRead(i) \/ Edit(i) \/ TurnEnds(i, s)
        PROVE  status' = status
    BY <2>9 DEF LoadTask, Retry, CancelRead, CancelFlag, Lapse, SweepRead, Edit, TurnEnds, rowVars
  <2>10. ASSUME NEW w \in Workers, Stop(w) \/ Crash(w) PROVE status' = status
    BY <2>10 DEF Stop, Crash, rowVars
  <2>11. CASE UNCHANGED vars
    BY <2>2, <2>11 DEF vars, rowVars
  <2>12. ASSUME NEW o \in orphans, OrphanLands(o) \/ OrphanEnds(o) PROVE status' = status
    BY <2>12 DEF OrphanLands, OrphanEnds, rowVars
  <2> QED
    BY <2>2, <2>3, <2>4, <2>5, <2>6, <2>7, <2>8, <2>9, <2>10, <2>11, <2>12
       DEF Next, DriverStep, Advance, Sweep
<1> QED
  BY <1>d, <1>1, <1>2, RowsKeep DEF RowStep

\* A worker that renewed its lease in time keeps its attempt: what a sweep read before
\* the renewal, it does not apply (the conditions of _recover's statements).
THEOREM RenewalsHold == Spec => RenewedIsKept
<1> DEFINE Kept == \A d \in drivers : Holds(d.worker, d.n) /\ lease[d.n] = "live" =>
                     Holds(d.worker, d.n)' \/ d \notin drivers'
<1>1. IInv /\ [Next]_vars => Kept
  <2> SUFFICES ASSUME IInv, [Next]_vars, NEW d \in drivers, Holds(d.worker, d.n),
                      lease[d.n] = "live"
               PROVE  Holds(d.worker, d.n)' \/ d \notin drivers'
    OBVIOUS
  <2>1. Keeps(d.n) \/ d \notin drivers'
    BY EndedBy DEF IInv
  <2> QED
    BY <2>1 DEF Keeps, Holds
<1> QED
  BY <1>1, Invariant, PTL DEF Spec, RenewedIsKept

\* Attempts that are not the last one are closed, so the closed ones are the first k.
FirstClosed(k) == k \in 0..MaxNumber /\ Closed = 1..k /\ Cardinality(Closed) = k

LEMMA ClosedIs ==
  ASSUME NEW m \in 0..MaxNumber, TypeOK, Attempts = 1..m, ActiveOnes \subseteq {m}
  PROVE  IF ActiveOnes = {} THEN FirstClosed(m) ELSE m > 0 /\ FirstClosed(m - 1)
<1>1. Closed = Attempts \ ActiveOnes
  BY DEF Closed, Attempts, ActiveOnes, Active, Leased, Terminal, Verdict, TypeOK
<1>2. \A k \in 0..MaxNumber : Cardinality(1..k) = k
  BY FS_Interval
<1>3. CASE ActiveOnes = {}
  <2>1. Closed = 1..m
    BY <1>1, <1>3
  <2> QED
    BY <1>2, <1>3, <2>1 DEF FirstClosed
<1>4. CASE ActiveOnes # {}
  <2>1. ActiveOnes = {m} /\ m \in Attempts
    BY <1>4 DEF ActiveOnes, Attempts, Active, Leased
  <2>2. m > 0 /\ m - 1 \in 0..MaxNumber
    BY <2>1
  <2>3. Closed = 1..(m - 1)
    BY <1>1, <2>1, <2>2
  <2> QED
    BY <1>2, <1>4, <2>2, <2>3 DEF FirstClosed
<1> QED
  BY <1>3, <1>4

LEMMA HistoryInit == Init => History!Init
<1> SUFFICES ASSUME Init PROVE History!Init
  OBVIOUS
<1>1. Closed = {} /\ ActiveOnes = {}
  BY DEF Init, Closed, ActiveOnes, Terminal, Verdict, Active, Leased
<1>2. Cardinality(Closed) = 0
  BY <1>1, FS_EmptySet
<1>3. [n \in 1..Cardinality(Closed) |-> status[n]] = << >>
  BY <1>2
<1> QED
  BY <1>1, <1>3 DEF History!Init, Init

\* The rows a step does not close read as before.
LEMMA HistoryStays ==
  ASSUME TypeOK, Closed' = Closed, ActiveOnes' = {} <=> ActiveOnes = {},
         \A n \in Closed : status'[n] = status[n],
         task' = "completed" <=> task = "completed",
         NEW k, FirstClosed(k)
  PROVE  UNCHANGED History!vars
<1>1. Cardinality(Closed) = k /\ Cardinality(Closed') = k
  BY DEF FirstClosed
<1>2. \A n \in 1..k : status'[n] = status[n]
  BY DEF FirstClosed
<1>3. [n \in 1..k |-> status'[n]] = [n \in 1..k |-> status[n]]
  BY <1>2
<1>4. (ActiveOnes # {})' = (ActiveOnes # {}) /\ (task = "completed")' = (task = "completed")
  OBVIOUS
<1> QED
  BY <1>1, <1>3, <1>4 DEF History!vars

LEMMA HistoryStep ==
  TypeOK /\ OrderInv /\ RowStep /\ TypeOK' => History!Next \/ UNCHANGED History!vars
<1> SUFFICES ASSUME TypeOK, OrderInv, RowStep, TypeOK'
             PROVE  History!Next \/ UNCHANGED History!vars
  OBVIOUS
<1>m. PICK m \in 0..MaxNumber : Attempts = 1..m /\ ActiveOnes \subseteq {m}
  BY DEF OrderInv
<1>k. PICK k \in {m, m - 1} : FirstClosed(k) /\ (ActiveOnes = {} <=> k = m)
  <2>1. IF ActiveOnes = {} THEN FirstClosed(m) ELSE m > 0 /\ FirstClosed(m - 1)
    BY <1>m, ClosedIs
  <2>2. m # m - 1
    OBVIOUS
  <2> QED
    BY <2>1, <2>2
<1>c. /\ Closed = {n \in Numbers : status[n] \in Terminal}
      /\ Closed' = {n \in Numbers : status'[n] \in Terminal}
      /\ ActiveOnes = {n \in Numbers : status[n] \in Active}
      /\ ActiveOnes' = {n \in Numbers : status'[n] \in Active}
  BY DEF Closed, ActiveOnes
<1>a. Active \cap Terminal = {} /\ Leased \subseteq Active /\ "none" \notin Active \cup Terminal
      /\ "queued" \in Active /\ "claimed" \in Leased
  BY DEF Active, Leased, Terminal, Verdict
<1>1. CASE Inserts
  <2>1. NextNumber = m + 1 /\ m + 1 \in Numbers /\ status[m + 1] = "none"
    BY <1>m, <1>1, NextIs DEF Inserts, Attempts
  <2>2. status' = [status EXCEPT ![m + 1] = "queued"] /\ task' = task /\ ActiveOnes = {}
    BY <1>1, <2>1 DEF Inserts
  <2>3. Closed' = Closed /\ ActiveOnes' = {m + 1} /\ \A n \in Closed : status'[n] = status[n]
    BY <1>c, <1>a, <2>1, <2>2 DEF TypeOK
  <2>4. Cardinality(Closed) = k /\ Cardinality(Closed') = k
    BY <1>k, <2>3 DEF FirstClosed
  <2>5. [n \in 1..k |-> status'[n]] = [n \in 1..k |-> status[n]]
    BY <1>k, <2>3 DEF FirstClosed
  <2>6. [n \in 1..Cardinality(Closed') |-> status'[n]]
          = [n \in 1..Cardinality(Closed) |-> status[n]]
    BY <2>4, <2>5
  <2>7. ActiveOnes = {} /\ ActiveOnes' # {}
    BY <2>2, <2>3
  <2> QED
    BY <2>2, <2>6, <2>7 DEF History!Next, History!Open
<1>2. ASSUME NEW n \in Numbers, NEW s \in Terminal, Finishes(n, s) PROVE History!Next
  <2>1. status[n] \in Active /\ status' = [status EXCEPT ![n] = s] /\ task' = TaskOutcome(s)
    BY <1>2 DEF Finishes, FinishRow
  <2>2. n = m /\ ActiveOnes = {m} /\ ActiveOnes # {} /\ k = m - 1
    BY <1>m, <1>k, <2>1 DEF ActiveOnes
  <2>3. Closed' = Closed \cup {m} /\ ActiveOnes' = {}
    BY <1>c, <1>a, <2>1, <2>2 DEF TypeOK
  <2>4. Closed' = 1..m /\ Cardinality(1..m) = m /\ m \in Nat \ {0}
    <3>1. Closed = 1..(m - 1) /\ m \in Nat \ {0}
      BY <1>k, <2>2 DEF FirstClosed, Numbers
    <3>2. Closed' = 1..m
      BY <2>3, <3>1
    <3>3. Cardinality(1..m) = m
      BY <3>1, FS_Interval
    <3> QED
      BY <3>1, <3>2, <3>3
  <2>5. Cardinality(Closed) = m - 1 /\ Cardinality(Closed') = m
    BY <1>k, <2>2, <2>4 DEF FirstClosed
  <2>6. [i \in 1..m |-> status'[i]] = Append([i \in 1..(m - 1) |-> status[i]], s)
    <3>1. 1..m \subseteq Numbers /\ m \in Numbers
      BY <2>2 DEF Numbers
    <3>2. status'[m] = s /\ \A i \in 1..(m - 1) : status'[i] = status[i]
      BY <2>1, <2>2, <3>1 DEF TypeOK
    <3>3. PICK t : t = [i \in 1..(m - 1) |-> status[i]]
      OBVIOUS
    <3>4. PICK u : u = [i \in 1..m |-> status'[i]]
      OBVIOUS
    <3>5. PICK R : R = {"none"} \cup Active \cup Terminal
      OBVIOUS
    <3>6. t \in Seq(R) /\ Len(t) = m - 1 /\ u \in Seq(R) /\ Len(u) = m /\ s \in R
      <4>1. \A i \in 1..m : status[i] \in R /\ status'[i] \in R
        BY <3>1, <3>5 DEF TypeOK
      <4>2. t \in Seq(R) /\ Len(t) = m - 1
        BY <2>4, <3>3, <4>1
      <4>3. u \in Seq(R) /\ Len(u) = m
        BY <2>4, <3>4, <4>1
      <4> QED
        BY <4>2, <4>3, <3>5
    <3>7. /\ Append(t, s) \in Seq(R) /\ Len(Append(t, s)) = m
          /\ \A i \in 1..(m - 1) : Append(t, s)[i] = t[i]
          /\ Append(t, s)[m] = s
      BY <2>4, <3>6, AppendProperties
    <3>8. \A i \in 1..Len(u) : u[i] = Append(t, s)[i]
      BY <2>4, <3>2, <3>3, <3>4, <3>6, <3>7
    <3>9. u = Append(t, s)
      BY <3>6, <3>7, <3>8, SeqEqual
    <3> QED
      BY <3>3, <3>4, <3>9
  <2>7. [i \in 1..Cardinality(Closed') |-> status'[i]]
          = Append([i \in 1..Cardinality(Closed) |-> status[i]], s)
    BY <2>5, <2>6
  <2>8. (task' = "completed") = (task = "completed" \/ s = "completed")
    BY <2>1 DEF TaskOutcome, Verdict
  <2>9. s \in History!Outcomes
    BY DEF History!Outcomes, Terminal, Verdict
  <2> QED
    BY <2>2, <2>3, <2>7, <2>8, <2>9 DEF History!Next, History!Close
<1>3. ASSUME NEW n \in Numbers, NEW s \in Active, status[n] \in Active,
             status' = [status EXCEPT ![n] = s], task' = "completed" <=> task = "completed"
      PROVE  UNCHANGED History!vars
  <2>1. Closed' = Closed /\ ActiveOnes' = ActiveOnes /\ \A i \in Closed : status'[i] = status[i]
    BY <1>3, <1>c, <1>a DEF TypeOK
  <2> QED
    BY <1>3, <1>k, <2>1, HistoryStays
<1>4. ASSUME NEW n \in Numbers,
             \/ \E w \in Workers : Claims(w, n)
             \/ Requeues(n)
             \/ \E s \in Leased : MovesOn(n, s)
      PROVE  UNCHANGED History!vars
  <2>1. /\ status[n] \in Active
        /\ \E s \in Active : status' = [status EXCEPT ![n] = s]
        /\ task' = "completed" <=> task = "completed"
    BY <1>4, <1>a DEF Claims, Requeues, RequeueRow, MovesOn
  <2> QED
    BY <1>3, <2>1
<1>5. ASSUME UNCHANGED <<status, task>> PROVE UNCHANGED History!vars
  <2>1. Closed' = Closed /\ ActiveOnes' = ActiveOnes
    BY <1>5, <1>c
  <2> QED
    BY <1>5, <1>k, <2>1, HistoryStays
<1> QED
  BY <1>1, <1>2, <1>4, <1>5 DEF RowStep, RowsStay, rowVars, Leases

\* Attempts keep what models/task_attempt.py promises: they are tried one at a time, each
\* is closed once, and the task is done when one completed it.
THEOREM AttemptsKeepHistory == Spec => ImplementsHistory
<1>1. IInv /\ [Next]_vars => [History!Next]_History!vars
  BY RowSteps, HistoryStep, TypeStep DEF IInv
<1> QED
  BY <1>1, HistoryInit, Invariant, PTL DEF Spec, ImplementsHistory, History!Spec
=============================================================================
