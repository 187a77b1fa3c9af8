---------------------------- MODULE MCChatTurns -----------------------------
(* Small instances of ChatTurns for TLC.                                   *)
EXTENDS ChatTurns, TLC

\* All turns belong to one session.
OneSession == [t \in Turns |-> CHOOSE s \in Sessions : TRUE]

\* Worker ids are only compared: permuting them permutes behaviours.
WorkerSymmetry == Permutations(Workers)
=============================================================================
