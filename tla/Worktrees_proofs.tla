-------------------------- MODULE Worktrees_proofs --------------------------
(***************************************************************************)
(* Theorems about Worktrees, for any worktrees, commits, pushes and        *)
(* requests at once.                                                       *)
(***************************************************************************)
EXTENDS Worktrees, TLAPS

USE BoundAssumption, OtherAssumption, LinkAssumption

-----------------------------------------------------------------------------
(* The inductive invariant.                                                *)

\* What a request may rely on between its steps: it was allowed from the status it loaded,
\* its approval was given for the head it loaded, and once it published, the target holds
\* that head.
Fine(r) ==
  /\ Allowed(r.kind, r.status)
  /\ r.kind \in {"approve", "merge"} =>
       r.link = r.recorded /\ <<r.tree, r.recorded>> \in approvals
  /\ r.kind = "merge" /\ r.stage = "recording" => Holds(Len(target), r.tree, r.recorded)

RequestInv == \A r \in requests : Fine(r)

IInv == TypeOK /\ RequestInv

-----------------------------------------------------------------------------
(* The target branch.                                                      *)

\* One more push leaves the others where they are.
LEMMA PushKeeps ==
  ASSUME NEW p \in Push, target \in Seq(Push)
  PROVE  /\ Append(target, p) \in Seq(Push)
         /\ Len(Append(target, p)) = Len(target) + 1
         /\ Append(target, p)[Len(target) + 1] = p
         /\ \A i \in 1..Len(target) : Append(target, p)[i] = target[i]
OBVIOUS

\* Every step pushes on the target, or leaves it.
LEMMA TargetStep ==
  ASSUME TypeOK, [Next]_vars
  PROVE  target' = target \/ \E p \in Push : target' = Append(target, p)
<1>1. CASE PushOther
  BY <1>1 DEF PushOther, Push, Commits
<1>2. ASSUME NEW t \in Trees, Edit(t) \/ Commit(t) \/ Decide(t) PROVE target' = target
  BY <1>2 DEF Edit, Commit, Decide, git
<1>3. ASSUME NEW t \in Trees, NEW kind \in Kind, NEW commit \in Commits \cup {NoLink},
             Load(kind, t, commit)
      PROVE  target' = target
  BY <1>3 DEF Load
<1>4. ASSUME NEW r \in requests, Publish(r)
      PROVE  target' = target \/ \E p \in Push : target' = Append(target, p)
  BY <1>4 DEF Publish, Merge, Push, TypeOK, Request
<1>5. ASSUME NEW r \in requests,
             ReadHead(r) \/ Register(r) \/ CommitLeft(r) \/ Record(r) \/ Die(r)
      PROVE  target' = target
  BY <1>5 DEF ReadHead, Register, CommitLeft, Record, Die, git
<1>6. CASE UNCHANGED vars
  BY <1>6 DEF vars
<1> QED
  BY <1>1, <1>2, <1>3, <1>4, <1>5, <1>6 DEF Next

\* What the target holds it goes on holding.
LEMMA HoldsStep ==
  ASSUME TypeOK, [Next]_vars, NEW t \in Trees, NEW commit \in Commits,
         Holds(Len(target), t, commit)
  PROVE  Holds(Len(target), t, commit)'
<1>1. PICK i \in 1..Len(target) : target[i].tree = t /\ target[i].commit >= commit
  BY DEF Holds
<1>2. Len(target) \in Nat /\ target \in Seq(Push)
  BY DEF TypeOK
<1>3. CASE target' = target
  BY <1>1, <1>3 DEF Holds
<1>4. ASSUME NEW p \in Push, target' = Append(target, p) PROVE Holds(Len(target), t, commit)'
  <2>1. i \in 1..Len(target') /\ target'[i] = target[i]
    BY <1>2, <1>4, PushKeeps
  <2> QED
    BY <1>1, <2>1 DEF Holds
<1> QED
  BY <1>3, <1>4, TargetStep

-----------------------------------------------------------------------------
(* Types.                                                                  *)

\* The requests' part of TypeOK.
RequestsOK ==
  /\ requests \subseteq Request
  /\ \A r \in requests : /\ r.kind \in {"approve", "merge"} => r.link # NoLink
                         /\ r.stage = "publishing" => r.kind = "merge"

\* A request that goes on stays the request it was: only what it read and where it stands
\* change.
LEMMA RequestEdit ==
  ASSUME NEW r \in Request, NEW seen \in Commits, NEW base \in Nat,
         NEW stage \in {"loaded", "publishing", "recording"}
  PROVE  \A n : n = [r EXCEPT !.seen = seen, !.base = base, !.stage = stage] =>
             /\ n \in Request /\ n.kind = r.kind /\ n.tree = r.tree /\ n.status = r.status
             /\ n.recorded = r.recorded /\ n.link = r.link /\ n.stage = stage
BY DEF Request

LEMMA GoesType ==
  ASSUME RequestsOK, NEW r \in requests, NEW seen \in Commits, NEW base \in Nat,
         NEW stage \in {"publishing", "recording"}, stage = "publishing" => r.kind = "merge",
         Goes(r, [r EXCEPT !.seen = seen, !.base = base, !.stage = stage]) \/ Ends(r)
  PROVE  RequestsOK'
<1> DEFINE n == [r EXCEPT !.seen = seen, !.base = base, !.stage = stage]
<1>0. r \in Request
  BY DEF RequestsOK
<1>1. n \in Request /\ n.kind = r.kind /\ n.link = r.link /\ n.stage = stage
  BY <1>0 DEF Request
<1> HIDE DEF n
<1>2. Goes(r, n) \/ Ends(r)
  BY DEF n
<1> QED
  BY <1>1, <1>2 DEF RequestsOK, Goes, Ends

LEMMA TypeStep == TypeOK /\ [Next]_vars => TypeOK'
<1> SUFFICES ASSUME TypeOK, [Next]_vars PROVE TypeOK'
  OBVIOUS
<1>t. target' \in Seq(Push)
  BY TargetStep, PushKeeps DEF TypeOK
<1>1. CASE PushOther
  BY <1>t, <1>1 DEF PushOther, TypeOK, rows, git
<1>2. ASSUME NEW t \in Trees, Edit(t) PROVE TypeOK'
  BY <1>t, <1>2 DEF Edit, TypeOK, rows
<1>3. ASSUME NEW t \in Trees, Commit(t) PROVE TypeOK'
  BY <1>t, <1>3 DEF Commit, TypeOK, rows, Commits
<1>4. ASSUME NEW t \in Trees, Decide(t) PROVE TypeOK'
  BY <1>t, <1>4 DEF Decide, TypeOK, rows, git
<1>5. ASSUME NEW t \in Trees, NEW kind \in Kind, NEW commit \in Commits \cup {NoLink},
             Load(kind, t, commit)
      PROVE  TypeOK'
  <2> DEFINE r == [kind |-> kind, tree |-> t, status |-> status[t], recorded |-> recorded[t],
                   link |-> commit, stage |-> IF RowOnly(kind, t) THEN "recording" ELSE "loaded",
                   seen |-> recorded[t], base |-> 0]
  <2>1. r \in Request
    BY DEF Request, TypeOK
  <2>2. kind \in {"approve", "merge"} => commit # NoLink
    BY <1>5 DEF Load, Approves, TypeOK, Commits
  <2>3. requests' = requests \cup {r}
    BY <1>5 DEF Load
  <2> HIDE DEF r
  <2>4. r.kind = kind /\ r.link = commit /\ r.stage # "publishing"
    BY DEF r
  <2> QED
    BY <1>t, <1>5, <2>1, <2>2, <2>3, <2>4 DEF Load, TypeOK, rows, git
<1>ok. RequestsOK /\ \A r \in requests : r \in Request /\ head[r.tree] \in Commits
  BY DEF TypeOK, RequestsOK, Request
<1>b. Len(target) \in Nat
  BY DEF TypeOK
<1>6. ASSUME NEW r \in requests, ReadHead(r) PROVE TypeOK'
  <2>1. RequestsOK'
    <3> DEFINE s == IF r.kind = "merge" THEN "publishing" ELSE "recording"
    <3>1. \/ Goes(r, [r EXCEPT !.seen = head[r.tree], !.base = Len(target), !.stage = s])
          \/ Ends(r)
      BY <1>6 DEF ReadHead
    <3>2. s \in {"publishing", "recording"} /\ (s = "publishing" => r.kind = "merge")
      OBVIOUS
    <3> HIDE DEF s
    <3> QED
      BY <1>ok, <1>b, <3>1, <3>2, GoesType
  <2> QED
    BY <1>t, <1>6, <2>1 DEF ReadHead, TypeOK, RequestsOK, rows, git
<1>7. ASSUME NEW r \in requests, Register(r) PROVE TypeOK'
  <2>1. [r EXCEPT !.seen = head[r.tree], !.stage = "recording"]
          = [r EXCEPT !.seen = head[r.tree], !.base = r.base, !.stage = "recording"]
    BY <1>ok DEF Request
  <2>2. RequestsOK'
    <3>1. Goes(r, [r EXCEPT !.seen = head[r.tree], !.base = r.base, !.stage = "recording"])
      BY <1>7, <2>1 DEF Register
    <3>2. r.base \in Nat
      BY <1>ok DEF Request
    <3> QED
      BY <1>ok, <3>1, <3>2, GoesType
  <2> QED
    BY <1>t, <1>7, <2>2 DEF Register, TypeOK, RequestsOK, rows
<1>8. ASSUME NEW r \in requests, CommitLeft(r) PROVE TypeOK'
  <2>1. PICK now : /\ now = IF dirty[r.tree] THEN head[r.tree] + 1 ELSE head[r.tree]
                   /\ head' = [head EXCEPT ![r.tree] = now]
                   /\ Goes(r, [r EXCEPT !.seen = now, !.stage = "recording"])
    BY <1>8 DEF CommitLeft
  <2>2. now \in Commits
    BY <1>8, <1>ok, <2>1 DEF CommitLeft, Commits
  <2>3. [r EXCEPT !.seen = now, !.stage = "recording"]
          = [r EXCEPT !.seen = now, !.base = r.base, !.stage = "recording"]
    BY <1>ok DEF Request
  <2>4. RequestsOK'
    <3>1. Goes(r, [r EXCEPT !.seen = now, !.base = r.base, !.stage = "recording"])
      BY <2>1, <2>3
    <3>2. r.base \in Nat
      BY <1>ok DEF Request
    <3> QED
      BY <1>ok, <2>2, <3>1, <3>2, GoesType
  <2>5. head' \in [Trees -> Commits]
    BY <2>1, <2>2 DEF TypeOK
  <2>6. dirty' \in [Trees -> BOOLEAN]
    BY <1>8 DEF CommitLeft, TypeOK
  <2>7. UNCHANGED <<status, recorded, link, held, registered, target, approvals>>
    BY <1>8 DEF CommitLeft, rows
  <2> QED
    BY <1>t, <2>4, <2>5, <2>6, <2>7 DEF TypeOK, RequestsOK
<1>9. ASSUME NEW r \in requests, Publish(r) PROVE TypeOK'
  <2>1. [r EXCEPT !.stage = "recording"]
          = [r EXCEPT !.seen = r.seen, !.base = r.base, !.stage = "recording"]
    BY <1>ok DEF Request
  <2>2. RequestsOK'
    <3>1. \/ Goes(r, [r EXCEPT !.seen = r.seen, !.base = r.base, !.stage = "recording"])
          \/ Ends(r)
      BY <1>9, <2>1 DEF Publish
    <3>2. r.base \in Nat /\ r.seen \in Commits
      BY <1>ok DEF Request
    <3> QED
      BY <1>ok, <3>1, <3>2, GoesType
  <2> QED
    BY <1>t, <1>9, <2>2 DEF Publish, TypeOK, RequestsOK, rows, git
<1>10. ASSUME NEW r \in requests, Record(r) PROVE TypeOK'
  <2>1. r \in Request /\ NewStatus(r) \in Status
    BY DEF TypeOK, Request, NewStatus, Kind, Status
  <2>2. r.tree \in Trees /\ r.seen \in Commits /\ r.link \in Commits \cup {NoLink}
    BY <2>1 DEF Request
  <2>3. RequestsOK'
    BY <1>10, <1>ok DEF Record, Ends, RequestsOK
  <2>4. status' \in [Trees -> Status]
    BY <1>10, <2>1, <2>2 DEF Record, TypeOK, rows
  <2>6. held' \in [Trees -> BOOLEAN]
    <3>1. \A b \in BOOLEAN : [held EXCEPT ![r.tree] = b] \in [Trees -> BOOLEAN]
      BY DEF TypeOK
    <3>2. (held[r.tree] /\ r.kind \notin {"release", "abandon"}) \in BOOLEAN
      OBVIOUS
    <3> QED
      BY <1>10, <3>1, <3>2, Zenon DEF Record, TypeOK, rows
  <2>5. recorded' \in [Trees -> Commits] /\ link' \in [Trees -> Commits \cup {NoLink}]
    BY <1>10, <2>2 DEF Record, TypeOK, rows
  <2> QED
    BY <1>t, <1>10, <2>3, <2>4, <2>5, <2>6 DEF Record, TypeOK, RequestsOK, git
<1>11. ASSUME NEW r \in requests, Die(r) PROVE TypeOK'
  BY <1>t, <1>11 DEF Die, Ends, TypeOK, rows, git
<1>12. CASE UNCHANGED vars
  BY <1>12 DEF vars, TypeOK, rows, git
<1> QED
  BY <1>1, <1>2, <1>3, <1>4, <1>5, <1>6, <1>7, <1>8, <1>9, <1>10, <1>11, <1>12 DEF Next

-----------------------------------------------------------------------------
(* Requests.                                                               *)

\* No approval is taken back.
LEMMA ApprovalsStep == [Next]_vars => approvals \subseteq approvals'
BY DEF Next, vars, PushOther, Edit, Commit, Decide, Load, ReadHead, Register, CommitLeft, Publish,
       Record, Die

LEMMA RequestStep == TypeOK /\ RequestInv /\ [Next]_vars => RequestInv'
<1> SUFFICES ASSUME TypeOK, RequestInv, [Next]_vars PROVE RequestInv'
  OBVIOUS
<1>r. \A r \in requests : r \in Request /\ Fine(r)
  BY DEF TypeOK, RequestInv
<1>t. target \in Seq(Push) /\ Len(target) \in Nat
  BY DEF TypeOK
<1>f. \A r \in requests : Fine(r)'
  <2> TAKE r \in requests
  <2>1. r \in Request /\ Fine(r)
    BY <1>r
  <2>2. Holds(Len(target), r.tree, r.recorded) => Holds(Len(target), r.tree, r.recorded)'
    BY <2>1, HoldsStep DEF Request
  <2> QED
    BY <2>1, <2>2, ApprovalsStep DEF Fine, Allowed
<1>s. requests' \subseteq requests => RequestInv'
  BY <1>f DEF RequestInv
<1>n. ASSUME NEW r \in requests, NEW n, n.kind = r.kind, n.tree = r.tree, n.status = r.status,
             n.recorded = r.recorded, n.link = r.link, Goes(r, n) \/ Ends(r),
             n.kind = "merge" /\ n.stage = "recording" =>
               Holds(Len(target), r.tree, r.recorded)'
      PROVE  RequestInv'
  <2>1. Fine(n)'
    BY <1>f, <1>n DEF Fine
  <2> QED
    BY <2>1, <1>f, <1>n DEF RequestInv, Goes, Ends
<1>1. CASE PushOther
  BY <1>1, <1>s DEF PushOther
<1>2. ASSUME NEW t \in Trees, Edit(t) \/ Commit(t) \/ Decide(t) PROVE RequestInv'
  BY <1>2, <1>s DEF Edit, Commit, Decide
<1>3. ASSUME NEW t \in Trees, NEW kind \in Kind, NEW commit \in Commits \cup {NoLink},
             Load(kind, t, commit)
      PROVE  RequestInv'
  <2>0. PICK r :
          r = [kind |-> kind, tree |-> t, status |-> status[t], recorded |-> recorded[t],
               link |-> commit, stage |-> IF RowOnly(kind, t) THEN "recording" ELSE "loaded",
               seen |-> recorded[t], base |-> 0]
    OBVIOUS
  <2>1. Allowed(r.kind, r.status)
    BY <2>0, <1>3 DEF Load
  <2>2. r.kind \in {"approve", "merge"} =>
          r.link = r.recorded /\ <<r.tree, r.recorded>> \in approvals
    BY <2>0, <1>3 DEF Load, Approves
  <2>3. r.kind = "merge" => r.stage # "recording"
    BY <2>0 DEF RowOnly
  <2>4. requests' = requests \cup {r} /\ UNCHANGED approvals
    BY <2>0, <1>3 DEF Load
  <2>5. Fine(r)'
    BY <2>1, <2>2, <2>3, <2>4 DEF Fine
  <2> QED
    BY <2>4, <2>5, <1>f DEF RequestInv
<1>4. ASSUME NEW r \in requests, ReadHead(r) PROVE RequestInv'
  <2>1. PICK n : /\ n = [r EXCEPT !.seen = head[r.tree], !.base = Len(target),
                            !.stage = IF r.kind = "merge" THEN "publishing" ELSE "recording"]
                 /\ Goes(r, n) \/ Ends(r)
    BY <1>4 DEF ReadHead
  <2>2. /\ n.kind = r.kind /\ n.tree = r.tree /\ n.status = r.status
        /\ n.recorded = r.recorded /\ n.link = r.link
        /\ n.kind = "merge" => n.stage # "recording"
    BY <2>1, <1>r DEF Request
  <2> QED
    BY <2>1, <2>2, <1>n
<1>5. ASSUME NEW r \in requests, Register(r) \/ CommitLeft(r) PROVE RequestInv'
  <2>1. PICK now, n : n = [r EXCEPT !.seen = now, !.stage = "recording"] /\ Goes(r, n)
    BY <1>5 DEF Register, CommitLeft
  <2>2. /\ n.kind = r.kind /\ n.tree = r.tree /\ n.status = r.status
        /\ n.recorded = r.recorded /\ n.link = r.link /\ n.kind # "merge"
    BY <1>5, <2>1, <1>r DEF Request, Register, CommitLeft
  <2> QED
    BY <2>1, <2>2, <1>n
<1>6. ASSUME NEW r \in requests, Publish(r) PROVE RequestInv'
  <2>1. PICK n : n = [r EXCEPT !.stage = "recording"] /\ (Goes(r, n) \/ Ends(r))
    BY <1>6 DEF Publish
  <2>2. /\ n.kind = r.kind /\ n.tree = r.tree /\ n.status = r.status
        /\ n.recorded = r.recorded /\ n.link = r.link
    BY <2>1, <1>r DEF Request
  <2>3. CASE Len(target) # r.base
    BY <1>6, <2>3, <1>s DEF Publish, Ends
  <2>4. CASE Len(target) = r.base
    <3>1. r.tree \in Trees /\ r.recorded \in Commits /\ Merge(r) \in Push
      BY <1>r DEF Request, Merge, Push
    <3>2. CASE Holds(r.base, r.tree, r.recorded)
      <4>1. Holds(Len(target), r.tree, r.recorded)'
        BY <2>4, <3>1, <3>2, HoldsStep
      <4> QED
        BY <4>1, <2>1, <2>2, <1>n
    <3>3. CASE ~Holds(r.base, r.tree, r.recorded)
      <4>1. target' = Append(target, Merge(r))
        BY <1>6, <2>4, <3>3 DEF Publish
      <4>2. Len(target') = Len(target) + 1 /\ target'[Len(target) + 1] = Merge(r)
        BY <4>1, <3>1, <1>t, PushKeeps
      <4>3. Holds(Len(target), r.tree, r.recorded)'
        BY <4>2, <3>1, <1>t DEF Holds, Merge, Commits
      <4> QED
        BY <4>3, <2>1, <2>2, <1>n
    <3> QED
      BY <3>2, <3>3
  <2> QED
    BY <2>3, <2>4
<1>7. ASSUME NEW r \in requests, Record(r) \/ Die(r) PROVE RequestInv'
  BY <1>7, <1>s DEF Record, Die, Ends
<1>8. CASE UNCHANGED vars
  BY <1>8, <1>s DEF vars
<1> QED
  BY <1>1, <1>2, <1>3, <1>4, <1>5, <1>6, <1>7, <1>8 DEF Next

-----------------------------------------------------------------------------
(* The theorems.                                                           *)

LEMMA Invariant == Spec => []IInv
<1>1. Init => IInv
  <2> SUFFICES ASSUME Init PROVE IInv
    OBVIOUS
  <2>1. <<>> \in Seq(Push) /\ 0 \in Commits
    BY DEF Commits
  <2>2. TypeOK
    BY <2>1 DEF Init, TypeOK, Status
  <2> QED
    BY <2>2 DEF Init, IInv, RequestInv
<1>2. IInv /\ [Next]_vars => IInv'
  BY TypeStep, RequestStep DEF IInv
<1> QED
  BY <1>1, <1>2, PTL DEF Spec

\* Every variable keeps its type (TypeOK), the requests' snapshots included.
THEOREM TypeCorrect == Spec => []TypeOK
BY Invariant, PTL DEF IInv

\* The rows are written by the last step of a request and by nothing else.
LEMMA RowsStep == [Next]_vars => UNCHANGED rows \/ \E r \in requests : Record(r)
BY DEF Next, vars, PushOther, Edit, Commit, Decide, Load, ReadHead, Register, CommitLeft, Publish,
       Die

\* What a step may push: something of others, or an approved head that the target lacks.
Pushes(p) ==
  /\ p \in Push
  /\ target' = Append(target, p)
  /\ p.tree \in Trees => /\ <<p.tree, p.commit>> \in approvals
                        /\ ~Holds(Len(target), p.tree, p.commit)

LEMMA PushStep == IInv /\ [Next]_vars => target' = target \/ \E p : Pushes(p)
<1> SUFFICES ASSUME IInv, [Next]_vars PROVE target' = target \/ \E p : Pushes(p)
  OBVIOUS
<1>1. CASE PushOther
  <2>1. Pushes([tree |-> Other, commit |-> 0])
    BY <1>1 DEF PushOther, Pushes, Push, Commits
  <2> QED
    BY <2>1
<1>2. ASSUME NEW r \in requests, Publish(r)
      PROVE  target' = target \/ \E p : Pushes(p)
  <2>1. r \in Request /\ r.kind = "merge" /\ <<r.tree, r.recorded>> \in approvals
    BY <1>2 DEF IInv, TypeOK, RequestInv, Fine, Publish
  <2>2. Merge(r) \in Push
    BY <2>1 DEF Merge, Push, Request
  <2>3. target' # target => Pushes(Merge(r))
    BY <1>2, <2>1, <2>2 DEF Publish, Pushes, Merge
  <2> QED
    BY <2>3
<1>3. CASE \E t \in Trees : \/ Edit(t) \/ Commit(t) \/ Decide(t)
                            \/ \E kind \in Kind, commit \in Commits \cup {NoLink} :
                                 Load(kind, t, commit)
  BY <1>3 DEF Edit, Commit, Decide, Load, git
<1>4. CASE \E r \in requests : ReadHead(r) \/ Register(r) \/ CommitLeft(r) \/ Record(r) \/ Die(r)
  BY <1>4 DEF ReadHead, Register, CommitLeft, Record, Die, git
<1>5. CASE UNCHANGED vars
  BY <1>5 DEF vars
<1> QED
  BY <1>1, <1>2, <1>3, <1>4, <1>5 DEF Next

\* Whatever the requests' interleaving, only an approved worktree at the approved commit
\* reaches the target (check_worktree_approval at the merge, and at the approval before it).
THEOREM OnlyApprovedMerges == Spec => []MergedWasApproved
<1>1. Init => MergedWasApproved
  BY DEF Init, MergedWasApproved, Merges
<1>2. IInv /\ MergedWasApproved /\ [Next]_vars => MergedWasApproved'
  <2> SUFFICES ASSUME IInv, MergedWasApproved, [Next]_vars PROVE MergedWasApproved'
    OBVIOUS
  <2>1. target \in Seq(Push) /\ Len(target) \in Nat
    BY DEF IInv, TypeOK
  <2>2. CASE target' = target
    BY <2>2, ApprovalsStep DEF MergedWasApproved, Merges
  <2>3. ASSUME NEW p, Pushes(p) PROVE MergedWasApproved'
    <3>1. /\ Len(target') = Len(target) + 1 /\ target'[Len(target) + 1] = p
          /\ \A i \in 1..Len(target) : target'[i] = target[i]
      BY <2>1, <2>3, PushKeeps DEF Pushes
    <3>2. \A i \in 1..Len(target') : i = Len(target) + 1 \/ i \in 1..Len(target)
      BY <2>1, <3>1
    <3> QED
      BY <2>3, <3>1, <3>2, ApprovalsStep DEF MergedWasApproved, Merges, Pushes
  <2> QED
    BY <2>2, <2>3, PushStep
<1> QED
  BY <1>1, <1>2, Invariant, PTL DEF Spec

\* The merge of one head is published once, however often it is retried: a retry finds the
\* head in the target (merge_into asks is_ancestor before it merges).
THEOREM MergesAreDistinct == Spec => []MergedOnce
<1>1. Init => MergedOnce
  BY DEF Init, MergedOnce, Merges
<1>2. IInv /\ MergedOnce /\ [Next]_vars => MergedOnce'
  <2> SUFFICES ASSUME IInv, MergedOnce, [Next]_vars PROVE MergedOnce'
    OBVIOUS
  <2>1. target \in Seq(Push) /\ Len(target) \in Nat
    BY DEF IInv, TypeOK
  <2>2. CASE target' = target
    BY <2>2 DEF MergedOnce, Merges
  <2>3. ASSUME NEW p, Pushes(p) PROVE MergedOnce'
    <3>1. /\ Len(target') = Len(target) + 1 /\ target'[Len(target) + 1] = p
          /\ \A i \in 1..Len(target) : target'[i] = target[i]
      BY <2>1, <2>3, PushKeeps DEF Pushes
    <3>2. \A i \in 1..Len(target') : i = Len(target) + 1 \/ i \in 1..Len(target)
      BY <2>1, <3>1
    <3>3. p.commit \in Nat
      BY <2>3 DEF Pushes, Push, Commits
    <3>4. p.tree \in Trees => \A i \in 1..Len(target) : target[i] # p
      BY <2>3, <3>3 DEF Pushes, Holds
    <3> QED
      BY <3>1, <3>2, <3>4 DEF MergedOnce, Merges
  <2> QED
    BY <2>2, <2>3, PushStep
<1> QED
  BY <1>1, <1>2, Invariant, PTL DEF Spec

\* An approved row carries the approval of the head it records: the write that approves
\* it is conditional on the head the approval was checked against.
THEOREM ApprovalsNameHeads == Spec => []ApprovalNamesHead
<1>1. Init => ApprovalNamesHead
  BY DEF Init, ApprovalNamesHead
<1>2. IInv /\ ApprovalNamesHead /\ [Next]_vars => ApprovalNamesHead'
  <2> SUFFICES ASSUME IInv, ApprovalNamesHead, [Next]_vars PROVE ApprovalNamesHead'
    OBVIOUS
  <2>1. CASE UNCHANGED rows
    BY <2>1 DEF rows, ApprovalNamesHead
  <2>2. ASSUME NEW r \in requests, Record(r) PROVE ApprovalNamesHead'
    <3>1. r \in Request /\ Fine(r)
      BY DEF IInv, TypeOK, RequestInv
    <3>2. CASE ~Unchanged(r)
      BY <2>2, <3>2 DEF Record, rows, ApprovalNamesHead
    <3>3. CASE Unchanged(r)
      <4>1. r.tree \in Trees /\ NewStatus(r) = "approved" => r.kind = "approve"
        BY <3>1 DEF Request, Kind, NewStatus, Fine, Allowed
      <4>2. r.kind = "approve" => r.link = recorded[r.tree]
        BY <3>1, <3>3 DEF Fine, Unchanged
      <4>3. r.tree \in Trees
        BY <3>1 DEF Request
      <4> QED
        BY <2>2, <3>3, <4>1, <4>2, <4>3 DEF Record, ApprovalNamesHead, IInv, TypeOK
    <3> QED
      BY <3>2, <3>3
  <2> QED
    BY <2>1, <2>2, RowsStep
<1> QED
  BY <1>1, <1>2, Invariant, PTL DEF Spec

\* A row says merged only of a head the target holds, though the row is written after git
\* (record_merge's conditional write names the head and the approval that were merged).
THEOREM MergedRowsAreInTarget == Spec => []MergedIsInTarget
<1>1. Init => MergedIsInTarget
  BY DEF Init, MergedIsInTarget
<1>2. IInv /\ MergedIsInTarget /\ [Next]_vars => MergedIsInTarget'
  <2> SUFFICES ASSUME IInv, MergedIsInTarget, [Next]_vars, NEW t \in Trees, status'[t] = "merged"
               PROVE  Holds(Len(target), t, recorded[t])'
    BY DEF MergedIsInTarget
  <2>1. TypeOK /\ recorded[t] \in Commits
    BY DEF IInv, TypeOK
  <2>2. status[t] = "merged" /\ recorded'[t] = recorded[t]
          => Holds(Len(target), t, recorded[t])'
    <3> SUFFICES ASSUME status[t] = "merged", recorded'[t] = recorded[t]
                 PROVE  Holds(Len(target), t, recorded[t])'
      OBVIOUS
    <3>1. PICK commit \in Commits : commit = recorded[t] /\ Holds(Len(target), t, commit)
      BY <2>1 DEF MergedIsInTarget
    <3>2. Holds(Len(target), t, commit)'
      BY <2>1, <3>1, HoldsStep
    <3>3. recorded'[t] = commit
      BY <3>1
    <3> QED
      BY <3>2, <3>3 DEF Holds
  <2>3. CASE UNCHANGED rows
    BY <2>2, <2>3 DEF rows
  <2>4. ASSUME NEW r \in requests, Record(r) PROVE Holds(Len(target), t, recorded[t])'
    <3>1. r \in Request /\ Fine(r) /\ r.tree \in Trees
      BY DEF IInv, TypeOK, RequestInv, Request
    <3>2. CASE ~Unchanged(r) \/ r.tree # t
      <4>1. status'[t] = status[t] /\ recorded'[t] = recorded[t]
        BY <2>4, <3>1, <3>2 DEF Record, rows, IInv, TypeOK
      <4>2. status[t] = "merged"
        BY <4>1
      <4> QED
        BY <2>2, <4>1, <4>2
    <3>3. CASE Unchanged(r) /\ r.tree = t
      <4>1. status'[t] = NewStatus(r)
        BY <2>4, <3>3 DEF Record, IInv, TypeOK
      <4>2. r.kind = "merge"
        BY <4>1, <3>1 DEF Request, Kind, NewStatus, Fine, Allowed
      <4>3. recorded'[t] = r.recorded /\ UNCHANGED target
        BY <2>4, <3>3, <4>2 DEF Record, Unchanged, IInv, TypeOK, git
      <4>4. Holds(Len(target), t, r.recorded)
        BY <2>4, <3>1, <3>3, <4>2 DEF Fine, Record
      <4> QED
        BY <4>3, <4>4 DEF Holds
    <3> QED
      BY <3>2, <3>3
  <2> QED
    BY <2>3, <2>4, RowsStep
<1> QED
  BY <1>1, <1>2, Invariant, PTL DEF Spec

\* An archived worktree stays archived, and a merged one is only archived, whatever requests
\* that loaded the row earlier still write.
THEOREM LifecycleEnds == Spec => LifecycleIsFinal
<1> DEFINE Final == \A t \in Trees :
                      /\ status[t] = "archived" => status'[t] = "archived"
                      /\ status[t] = "merged" => status'[t] \in {"merged", "archived"}
<1>1. IInv /\ [Next]_vars => Final
  <2> SUFFICES ASSUME IInv, [Next]_vars PROVE Final
    OBVIOUS
  <2>1. CASE UNCHANGED rows
    BY <2>1 DEF rows
  <2>2. ASSUME NEW r \in requests, Record(r) PROVE Final
    <3>1. r \in Request /\ Fine(r) /\ r.tree \in Trees
      BY DEF IInv, TypeOK, RequestInv, Request
    <3>2. CASE ~Unchanged(r)
      BY <2>2, <3>2 DEF Record, rows
    <3>3. CASE Unchanged(r)
      <4>1. r.status # "archived" /\ (r.status = "merged" => r.kind = "archive")
        BY <3>1 DEF Request, Kind, Fine, Allowed
      <4>2. r.kind = "archive" => NewStatus(r) = "archived"
        BY DEF NewStatus
      <4> QED
        BY <2>2, <3>1, <3>3, <4>1, <4>2 DEF Record, Unchanged, IInv, TypeOK
    <3> QED
      BY <3>2, <3>3
  <2> QED
    BY <2>1, <2>2, RowsStep
<1> QED
  BY <1>1, Invariant, PTL DEF Spec, LifecycleIsFinal

-----------------------------------------------------------------------------
(* Refinement.                                                             *)

\* A target that lacks a head, and every later one of its worktree, has older ones only.
LEMMA LacksIsNew ==
  ASSUME TypeOK, NEW t \in Trees, NEW c \in Commits, ~Holds(Len(target), t, c)
  PROVE  Branch!IsNew(t, c)
<1> SUFFICES ASSUME NEW i \in 1..Len(target), target[i].tree = t PROVE target[i].commit < c
  BY DEF Branch!IsNew
<1>1. target[i] \in Push
  BY DEF TypeOK
<1>2. target[i].commit \in Nat /\ c \in Nat
  BY <1>1 DEF Push, Commits
<1>3. ~(target[i].commit >= c)
  BY DEF Holds
<1> QED
  BY <1>2, <1>3

LEMMA BranchStep ==
  ASSUME IInv, [Next]_vars
  PROVE  [Branch!Next]_(Branch!vars)
<1> USE DEF Branch!vars, Branch!Next
<1>1. CASE PushOther
  BY <1>1 DEF PushOther, Branch!PushOther, Branch!Pushed
<1>2. ASSUME NEW t \in Trees, Decide(t) PROVE Branch!Next
  <2>1. recorded[t] \in Commits
    BY DEF IInv, TypeOK
  <2>2. Branch!Approve(t, recorded[t])
    BY <1>2 DEF Decide, Branch!Approve
  <2> QED
    BY <2>1, <2>2
<1>3. ASSUME NEW r \in requests, Publish(r) PROVE [Branch!Next]_(Branch!vars)
  <2>1. /\ r.tree \in Trees /\ r.recorded \in Commits
        /\ <<r.tree, r.recorded>> \in approvals
    BY <1>3 DEF IInv, TypeOK, RequestInv, Fine, Publish, Request
  <2>2. CASE target' = target
    BY <1>3, <2>2 DEF Publish
  <2>3. CASE target' # target
    <3>1. ~Holds(Len(target), r.tree, r.recorded) /\ target' = Append(target, Merge(r))
      BY <1>3, <2>3 DEF Publish
    <3>2. Branch!IsNew(r.tree, r.recorded)
      BY <2>1, <3>1, LacksIsNew DEF IInv
    <3>3. Branch!Merge(r.tree, r.recorded)
      BY <1>3, <2>1, <3>1, <3>2 DEF Publish, Merge, Branch!Merge, Branch!Pushed
    <3> QED
      BY <2>1, <3>3
  <2> QED
    BY <2>2, <2>3
<1>4. CASE \E t \in Trees : \/ Edit(t) \/ Commit(t)
                            \/ \E kind \in Kind, commit \in Commits \cup {NoLink} :
                                 Load(kind, t, commit)
  BY <1>4 DEF Edit, Commit, Load
<1>5. CASE \E r \in requests : ReadHead(r) \/ Register(r) \/ CommitLeft(r) \/ Record(r) \/ Die(r)
  BY <1>5 DEF ReadHead, Register, CommitLeft, Record, Die
<1>6. CASE UNCHANGED vars
  BY <1>6 DEF vars
<1> QED
  BY <1>1, <1>2, <1>3, <1>4, <1>5, <1>6 DEF Next

\* To the owner of the target, worktrees are a protected branch (ImplementsBranch): what
\* was pushed stays, and a merge brings an approved commit newer than what is there.
THEOREM BranchImplemented == Spec => ImplementsBranch
<1>1. Init => Branch!Init
  BY DEF Init, Branch!Init
<1> QED
  BY <1>1, BranchStep, Invariant, PTL DEF Spec, ImplementsBranch, Branch!Spec
=============================================================================
