--------------------------- MODULE TurnExecutions ---------------------------
(***************************************************************************)
(* The executions of one chat turn, as the rest of the system sees them in *)
(* the turn's row (src/src/nexus/models/chat_turn.py): attempt_count, the  *)
(* epoch of an execution, and whether an execution has the turn at all.    *)
(* An execution starts only when none has the turn, and every start is a   *)
(* new epoch.  ChatTurns implements this module for each of its turns, and *)
(* ToolEffects is what the tool ledger does beside it: nothing more of a   *)
(* turn's workers, leases and sweeps matters to the ledger.                *)
(***************************************************************************)
EXTENDS Naturals

VARIABLES
  epoch,  \* attempt_count
  owned   \* the row is active

execution == <<epoch, owned>>

Init == epoch = 0 /\ owned = FALSE

\* A worker claims the turn.
Starts ==
  /\ ~owned
  /\ owned' = TRUE
  /\ epoch' = epoch + 1

\* The turn is finished, or taken from its worker and given back to the queue.
Ends ==
  /\ owned
  /\ owned' = FALSE
  /\ UNCHANGED epoch

Next == Starts \/ Ends

Spec == Init /\ [][Next]_execution
=============================================================================
