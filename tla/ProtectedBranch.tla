-------------------------- MODULE ProtectedBranch ---------------------------
(***************************************************************************)
(* What agent worktrees promise to whoever owns the branch they merge into *)
(* (src/src/nexus/services/worktree_service.py, its docstring), without    *)
(* rows, requests, sessions or crashes.  The branch only grows, by what    *)
(* others push and by merges.  A merge brings a commit that an approval    *)
(* names, and brings something new: never what the branch has already, or  *)
(* an older commit after a newer one.  Worktrees implements it.            *)
(***************************************************************************)
EXTENDS Naturals, Sequences

CONSTANTS Trees, Commits, Other

VARIABLES
  branch,   \* what was pushed, in order
  approved  \* <<tree, commit>> of every approval given

vars == <<branch, approved>>

Init == branch = <<>> /\ approved = {}

Pushed(t, c) == branch' = Append(branch, [tree |-> t, commit |-> c])

Approve(t, c) ==
  /\ approved' = approved \cup {<<t, c>>}
  /\ UNCHANGED branch

\* c is newer than every commit of t that the branch has.
IsNew(t, c) == \A i \in 1..Len(branch) : branch[i].tree = t => branch[i].commit < c

Merge(t, c) ==
  /\ <<t, c>> \in approved
  /\ IsNew(t, c)
  /\ Pushed(t, c)
  /\ UNCHANGED approved

PushOther == Pushed(Other, 0) /\ UNCHANGED approved

Next ==
  \/ PushOther
  \/ \E t \in Trees, c \in Commits : Approve(t, c) \/ Merge(t, c)

Spec == Init /\ [][Next]_vars
=============================================================================
