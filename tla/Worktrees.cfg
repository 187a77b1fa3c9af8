\* One worktree with two commits, two requests at once, and another push on the target.
SPECIFICATION Spec
CONSTANTS
  t1 = t1
  t2 = t2
  NoLink = NoLink
  Other = Other
  Trees = {t1}
  MaxCommits = 2
  MaxPushes = 1
  MaxRequests = 2
CHECK_DEADLOCK FALSE
INVARIANTS MergedWasApproved ApprovalNamesHead MergedIsInTarget MergedOnce
PROPERTIES ImplementsBranch LifecycleIsFinal
