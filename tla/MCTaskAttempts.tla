--------------------------- MODULE MCTaskAttempts ---------------------------
(***************************************************************************)
(* Instances of TaskAttempts for TLC.                                      *)
(***************************************************************************)
EXTENDS TaskAttempts, TLC

CONSTANTS k1, k2, w1, w2

\* Workers are interchangeable.
WorkerSymmetry == Permutations(Workers)
=============================================================================
