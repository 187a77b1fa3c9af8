---------------------------- MODULE MCWorktrees ----------------------------
(***************************************************************************)
(* Instances of Worktrees for TLC.                                         *)
(***************************************************************************)
EXTENDS Worktrees

CONSTANTS t1, t2
=============================================================================
