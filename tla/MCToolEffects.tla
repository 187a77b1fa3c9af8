--------------------------- MODULE MCToolEffects ---------------------------
(* Small instances of ToolEffects for TLC.                                 *)
EXTENDS ToolEffects, TLC

CONSTANTS note, message, s1, s2

\* A note replaced by compare-and-set, and a message that must not be sent twice.
NoteAndMessage == [c \in {note, message} |->
                     IF c = note THEN "idempotent_write" ELSE "non_idempotent_write"]
OnlyMessage == [c \in {message} |-> "non_idempotent_write"]

\* The bound on claims: one slot is claimed twice beside another, or each once.
TwiceAndOnce == [s \in Slots |-> IF s = s1 THEN 2 ELSE 1]
OneEach == [s \in Slots |-> 1]
=============================================================================
