---------------------------- MODULE SessionQueue ----------------------------
(***************************************************************************)
(* What the durable chat turn runtime promises a client, without workers,  *)
(* leases, sweeps or retries: each session is a first-in first-out queue   *)
(* of turns, at most one of them is worked on at a time, a turn settles    *)
(* once, with a reply or without, and every submitted turn does settle.    *)
(* ChatTurns implements it (the lifecycle in src/src/nexus/models/         *)
(* chat_turn.py).                                                          *)
(***************************************************************************)
EXTENDS Naturals

CONSTANTS Turns, Sessions, SessionOf

VARIABLE phase

Settled == {"answered", "closed"}
Phase   == {"absent", "waiting", "working"} \cup Settled

Earlier(t) == {u \in Turns : SessionOf[u] = SessionOf[t] /\ u < t}

Init == phase = [t \in Turns |-> "absent"]

Move(t, from, to) ==
  /\ phase[t] \in from
  /\ phase' = [phase EXCEPT ![t] = to]

\* A prompt joins its session's queue behind the ones submitted before it.
Submit(t) ==
  /\ \A u \in Earlier(t) : phase[u] # "absent"
  /\ Move(t, {"absent"}, "waiting")

\* The oldest unsettled turn of a session is taken up.
Begin(t) ==
  /\ \A u \in Earlier(t) : phase[u] \in Settled
  /\ Move(t, {"waiting"}, "working")

\* Work on a turn is given up; the turn keeps its place.
Requeue(t) == Move(t, {"working"}, "waiting")

\* The turn's one reply is stored.
Answer(t) == Move(t, {"working"}, "answered")

\* The turn ends without a completed reply: failed, cancelled or expired.
Close(t) == Move(t, {"waiting", "working"}, "closed")

Next == \E t \in Turns : Submit(t) \/ Begin(t) \/ Requeue(t) \/ Answer(t) \/ Close(t)

Spec == Init /\ [][Next]_phase

\* Nobody waits for ever.
FairSpec == Spec /\ \A t \in Turns : WF_phase(Answer(t) \/ Close(t))
=============================================================================
