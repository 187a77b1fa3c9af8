----------------------------- MODULE Worktrees -----------------------------
(***************************************************************************)
(* Agent worktrees: their rows, their approvals and the branch they merge  *)
(* into (src/src/nexus/services/worktree_service.py, git_runner.py).       *)
(*                                                                         *)
(* Git and the database share no transaction.  A request loads the row,    *)
(* checks, lets git do its part, and then writes the row under the         *)
(* condition that the row is still what it loaded.  Between its steps the  *)
(* employee commits, other requests run, the target branch moves, and the  *)
(* request itself may die: git has changed and the row has not.            *)
(*                                                                         *)
(* The commits of a worktree's branch are numbered from its base, 0.  The  *)
(* target branch is the sequence of what was pushed on it: its head is the *)
(* length, and a merge of commit h of a worktree holds all up to h.        *)
(***************************************************************************)
EXTENDS Naturals, Sequences, FiniteSets

CONSTANTS
  Trees,        \* the worktrees (agent_worktrees rows)
  MaxCommits,   \* bound: commits on a worktree's branch
  MaxPushes,    \* bound: pushes of others on the target branch
  MaxRequests,  \* bound: requests under way at once
  NoLink,       \* approval_id IS NULL
  Other         \* the author of those pushes

ASSUME BoundAssumption == MaxCommits \in Nat /\ MaxPushes \in Nat /\ MaxRequests \in Nat
ASSUME OtherAssumption == Other \notin Trees
ASSUME LinkAssumption  == NoLink \notin 0..MaxCommits

VARIABLES
  status,      \* the row's status
  recorded,    \* head_commit, the cached head (0 before the activation)
  link,        \* the commit that the linked approval names, or NoLink
  held,        \* session_id IS NOT NULL
  head,        \* git: the head of the worktree's branch
  dirty,       \* git: the worktree has uncommitted changes
  registered,  \* git: branch and worktree exist
  target,      \* git: what was pushed on the target branch, in order
  approvals,   \* approvals decided so far, as <<tree, commit>>
  requests     \* requests between two of their steps

rows == <<status, recorded, link, held>>
git  == <<head, dirty, registered>>
vars == <<rows, git, target, approvals, requests>>

-----------------------------------------------------------------------------
Commits == 0..MaxCommits
Status  == {"created", "active", "review", "approved", "merged", "archived"}
Kind    == {"activate", "review", "approve", "merge", "refresh", "back", "archive", "release",
            "abandon"}

Push == [tree : Trees \cup {Other}, commit : Commits]

\* One request: the row as it loaded it, the approval it acts on, and what it read of git
\* (seen: the worktree's head; base: the target's head).
Request == [kind : Kind, tree : Trees, status : Status, recorded : Commits,
            link : Commits \cup {NoLink}, stage : {"loaded", "publishing", "recording"},
            seen : Commits, base : Nat]

TypeOK ==
  /\ status \in [Trees -> Status]
  /\ recorded \in [Trees -> Commits]
  /\ link \in [Trees -> Commits \cup {NoLink}]
  /\ held \in [Trees -> BOOLEAN]
  /\ head \in [Trees -> Commits]
  /\ dirty \in [Trees -> BOOLEAN]
  /\ registered \in [Trees -> BOOLEAN]
  /\ target \in Seq(Push)
  /\ approvals \subseteq Trees \X Commits
  /\ requests \subseteq Request
  /\ \A r \in requests : /\ r.kind \in {"approve", "merge"} => r.link # NoLink
                         /\ r.stage = "publishing" => r.kind = "merge"

Init ==
  /\ status = [t \in Trees |-> "created"]
  /\ recorded = [t \in Trees |-> 0]
  /\ link = [t \in Trees |-> NoLink]
  /\ held = [t \in Trees |-> TRUE]
  /\ head = [t \in Trees |-> 0]
  /\ dirty = [t \in Trees |-> FALSE]
  /\ registered = [t \in Trees |-> FALSE]
  /\ target = <<>>
  /\ approvals = {}
  /\ requests = {}

-----------------------------------------------------------------------------
(* The employee, the approver, and whoever else pushes on the target.      *)

Edit(t) ==
  /\ registered[t]
  /\ dirty' = [dirty EXCEPT ![t] = TRUE]
  /\ UNCHANGED <<rows, head, registered, target, approvals, requests>>

Commit(t) ==
  /\ dirty[t] /\ head[t] < MaxCommits
  /\ head' = [head EXCEPT ![t] = @ + 1]
  /\ dirty' = [dirty EXCEPT ![t] = FALSE]
  /\ UNCHANGED <<rows, registered, target, approvals, requests>>

\* An approval names one worktree at one commit; its payload is never rewritten.  Its
\* expiry only makes later requests fail, as their own death may.
Decide(t) ==
  /\ approvals' = approvals \cup {<<t, recorded[t]>>}
  /\ UNCHANGED <<rows, git, target, requests>>

PushOther ==
  /\ Cardinality({i \in 1..Len(target) : target[i].tree = Other}) < MaxPushes   \* bound
  /\ target' = Append(target, [tree |-> Other, commit |-> 0])
  /\ UNCHANGED <<rows, git, approvals, requests>>

-----------------------------------------------------------------------------
(* Requests.                                                               *)

\* TRANSITIONS, and the statuses refresh_head and a session's end act on.
Allowed(kind, s) ==
  CASE kind = "activate" -> s = "created"
    [] kind = "review"   -> s = "active"
    [] kind = "approve"  -> s = "review"
    [] kind = "merge"    -> s = "approved"
    [] kind = "refresh"  -> s \in {"active", "review", "approved"}
    [] kind = "back"     -> s \in {"review", "approved"}
    [] kind = "archive"  -> s # "archived"
    [] kind = "release"  -> s \in {"created", "active"}
    [] kind = "abandon"  -> s = "active"

\* Seeded fault of Approves: the commit of the approval is not compared.
Faulty_Approves(t, commit, wanted) == <<t, commit>> \in approvals

\* check_worktree_approval: decided, unexpired, for this worktree at this very commit.
Approves(t, commit, wanted) == <<t, commit>> \in approvals /\ commit = wanted

\* What has no part in git: back to active, archive, the end of a session without work, and
\* the end of a session whose part in git failed (abandon).
RowOnly(kind, t) ==
  kind \in {"back", "archive", "abandon"} \/ (kind = "release" /\ status[t] = "created")

\* A request loads the row, and with an approval checks it.
Load(kind, t, commit) ==
  /\ Cardinality(requests) < MaxRequests   \* bound
  /\ Allowed(kind, status[t])
  /\ kind \in {"release", "abandon"} => held[t]
  /\ kind = "approve" => Approves(t, commit, recorded[t])
  /\ kind = "merge" => /\ commit = link[t]
                       /\ Approves(t, commit, recorded[t])
                       /\ recorded[t] # 0
  /\ kind \notin {"approve", "merge"} => commit = NoLink
  /\ requests' = requests \cup
       {[kind |-> kind, tree |-> t, status |-> status[t], recorded |-> recorded[t],
         link |-> commit, stage |-> IF RowOnly(kind, t) THEN "recording" ELSE "loaded",
         seen |-> recorded[t], base |-> 0]}
  /\ UNCHANGED <<rows, git, target, approvals>>

Goes(r, s) == requests' = (requests \ {r}) \cup {s}
Ends(r)    == requests' = requests \ {r}

\* Git's part of what reads the worktree's head: approve and merge want it to be the
\* recorded one, review wants a clean worktree, refresh a head that moved.
ReadHead(r) ==
  /\ r \in requests /\ r.stage = "loaded"
  /\ r.kind \in {"review", "approve", "merge", "refresh"}
  /\ registered[r.tree]
  /\ LET now == head[r.tree] IN
     IF \/ r.kind = "review" /\ dirty[r.tree]
        \/ r.kind \in {"approve", "merge"} /\ now # r.recorded
        \/ r.kind = "refresh" /\ now = r.recorded
     THEN Ends(r)
     ELSE Goes(r, [r EXCEPT !.seen = now, !.base = Len(target),
                            !.stage = IF r.kind = "merge" THEN "publishing" ELSE "recording"])
  /\ UNCHANGED <<rows, git, target, approvals>>

\* Git's part of an activation: branch and worktree, created or found in place.
Register(r) ==
  /\ r \in requests /\ r.stage = "loaded" /\ r.kind = "activate"
  /\ registered' = [registered EXCEPT ![r.tree] = TRUE]
  /\ Goes(r, [r EXCEPT !.seen = head[r.tree], !.stage = "recording"])
  /\ UNCHANGED <<rows, head, dirty, target, approvals>>

\* Git's part of a session's end: what the employee left uncommitted is committed.
CommitLeft(r) ==
  /\ r \in requests /\ r.stage = "loaded" /\ r.kind = "release" /\ r.status = "active"
  /\ dirty[r.tree] => head[r.tree] < MaxCommits   \* bound
  /\ LET now == IF dirty[r.tree] THEN head[r.tree] + 1 ELSE head[r.tree] IN
     /\ head' = [head EXCEPT ![r.tree] = now]
     /\ Goes(r, [r EXCEPT !.seen = now, !.stage = "recording"])
  /\ dirty' = [dirty EXCEPT ![r.tree] = FALSE]
  /\ UNCHANGED <<rows, registered, target, approvals>>

\* is_ancestor: the first n pushes hold the commit.
Holds(n, t, commit) == \E i \in 1..n : target[i].tree = t /\ target[i].commit >= commit

Merge(r) == [tree |-> r.tree, commit |-> r.recorded]

\* Seeded fault of Publish: the branch is set to the new commit wherever it is by now.
Faulty_Publish(r) ==
  /\ r \in requests /\ r.stage = "publishing"
  /\ target' = IF Holds(r.base, r.tree, r.recorded) THEN target
               ELSE Append(SubSeq(target, 1, r.base), Merge(r))
  /\ Goes(r, [r EXCEPT !.stage = "recording"])
  /\ UNCHANGED <<rows, git, approvals>>

\* Seeded fault of Publish: a target that holds the commit already is merged into again.
Faulty_PublishAgain(r) ==
  /\ r \in requests /\ r.stage = "publishing"
  /\ IF Len(target) # r.base
     THEN Ends(r) /\ UNCHANGED target
     ELSE /\ target' = Append(target, Merge(r))
          /\ Goes(r, [r EXCEPT !.stage = "recording"])
  /\ UNCHANGED <<rows, git, approvals>>

\* merge_into: up to date, or a merge commit of the recorded head, by compare-and-swap on
\* the target's head.  A target that moved is refused.
Publish(r) ==
  /\ r \in requests /\ r.stage = "publishing"
  /\ IF Len(target) # r.base
     THEN Ends(r) /\ UNCHANGED target
     ELSE /\ target' = IF Holds(r.base, r.tree, r.recorded) THEN target
                       ELSE Append(target, Merge(r))
          /\ Goes(r, [r EXCEPT !.stage = "recording"])
  /\ UNCHANGED <<rows, git, approvals>>

\* Seeded fault of Unchanged: only the heads are compared.
Faulty_UnchangedStatus(r) ==
  /\ r.kind \in {"approve", "merge", "refresh"} => recorded[r.tree] = r.recorded
  /\ r.kind = "merge" => link[r.tree] = r.link

\* Seeded fault of Unchanged: only the status is compared.
Faulty_Unchanged(r) == status[r.tree] = r.status

\* The conditions of _cas: the status that was loaded; for what depends on the head, the
\* recorded head; for a merge, the approval.
Unchanged(r) ==
  /\ status[r.tree] = r.status
  /\ r.kind \in {"approve", "merge", "refresh"} => recorded[r.tree] = r.recorded
  /\ r.kind = "merge" => link[r.tree] = r.link

\* The status a request writes.
NewStatus(r) ==
  CASE r.kind \in {"activate", "back", "refresh"} -> "active"
    [] r.kind = "review"  -> "review"
    [] r.kind = "approve" -> "approved"
    [] r.kind = "merge"   -> "merged"
    [] r.kind = "archive" -> "archived"
    [] r.kind = "release" -> IF r.seen = 0 THEN "archived" ELSE "review"
    [] r.kind = "abandon" -> r.status

\* The row's write, and the end of the request whether it matched or not.
Record(r) ==
  /\ r \in requests /\ r.stage = "recording"
  /\ Ends(r)
  /\ IF Unchanged(r)
     THEN /\ status' = [status EXCEPT ![r.tree] = NewStatus(r)]
          /\ recorded' = [recorded EXCEPT ![r.tree] =
                            IF r.kind \in {"activate", "review", "refresh", "release"}
                            THEN r.seen ELSE @]
          /\ link' = [link EXCEPT ![r.tree] = IF r.kind = "approve" THEN r.link ELSE @]
          /\ held' = [held EXCEPT ![r.tree] = @ /\ r.kind \notin {"release", "abandon"}]
     ELSE UNCHANGED rows
  /\ UNCHANGED <<git, target, approvals>>

\* A request dies, git refuses or conflicts, or the commit of its write fails.
Die(r) ==
  /\ r \in requests
  /\ Ends(r)
  /\ UNCHANGED <<rows, git, target, approvals>>

-----------------------------------------------------------------------------
Next ==
  \/ PushOther
  \/ \E t \in Trees : \/ Edit(t) \/ Commit(t) \/ Decide(t)
                      \/ \E kind \in Kind, commit \in Commits \cup {NoLink} :
                           Load(kind, t, commit)
  \/ \E r \in requests : \/ ReadHead(r) \/ Register(r) \/ CommitLeft(r)
                         \/ Publish(r) \/ Record(r) \/ Die(r)

Spec == Init /\ [][Next]_vars

-----------------------------------------------------------------------------
(* Properties.                                                             *)

Merges == {i \in 1..Len(target) : target[i].tree \in Trees}

\* Nothing reaches the target that was not approved, this worktree at this very commit,
\* by whatever path its row got to approved.
MergedWasApproved ==
  \A i \in Merges : <<target[i].tree, target[i].commit>> \in approvals

\* An approved row is approved for the head it records: a head that moved between the
\* check of the approval and the write does not inherit it.
ApprovalNamesHead ==
  \A t \in Trees : status[t] = "approved" => link[t] = recorded[t]

\* A row says merged only of a head that the target holds, though the two are written
\* apart and the row may have been approved again, for another head, in between.
MergedIsInTarget ==
  \A t \in Trees : status[t] = "merged" => Holds(Len(target), t, recorded[t])

\* The merge of a head is published once, however often it is retried after a crash.
MergedOnce ==
  \A i, j \in Merges : target[i] = target[j] => i = j

\* A worktree is merged from approved only, and archived for good.
LifecycleIsFinal ==
  [][\A t \in Trees :
       /\ status[t] = "archived" => status'[t] = "archived"
       /\ status[t] = "merged" => status'[t] \in {"merged", "archived"}]_vars

(* The branch, as its owner sees it.                                       *)
Branch == INSTANCE ProtectedBranch WITH branch <- target, approved <- approvals

\* The target branch only grows, by pushes of others and by approved merges that bring
\* something new: no merge takes away what others pushed meanwhile, and no retry, stale
\* request or old approval puts an older head after a newer one (merge_into).
ImplementsBranch == Branch!Spec
=============================================================================
