---------------------------- MODULE BudgetLedger ----------------------------
(***************************************************************************)
(* The two-phase spend ledger of one company                               *)
(* (src/src/nexus/services/budget_service.py and its callers in            *)
(* api/routes/chat.py and services/streaming_budget.py).                   *)
(*                                                                         *)
(* A model call first takes a hold against every scope that governs it,    *)
(* the company and then the agent, and settles or releases those holds     *)
(* when it ends.  Policies keep counters (spent_cents, reserved_cents)     *)
(* beside the rows of the holds (cost_events).  A hold that outlives its   *)
(* TTL is reaped, by the next reservation of the company or by the system  *)
(* sweep; the spend counter restarts when the policy's window turns.       *)
(*                                                                         *)
(* One action is one transaction, or one read that a later transaction of  *)
(* the same session relies on (READ COMMITTED: a SELECT locks nothing).    *)
(* A transaction that loses a deadlock changes nothing: it is one of the   *)
(* ...Fails actions.                                                       *)
(***************************************************************************)
EXTENDS Integers, Sequences, FiniteSets, FiniteSetsExt

CONSTANTS
  Calls,      \* model calls of the company
  Policies,   \* its active cost policies, at most one per scope
  NoPolicy,   \* a scope no policy governs
  Chain,      \* call -> the policies of its scopes, company first
  Limit,      \* policy -> amount
  Estimate,   \* call -> the cents it asks to hold
  Costs,      \* what a call may turn out to cost
  Sweeper,    \* the system runtime's reaper
  FailOpen,   \* the setting BUDGET_FAIL_OPEN
  MayLapse,   \* calls that may outlive the TTL of their holds
  MaxPeriod   \* bound: budget windows

ASSUME PolicyAssumption == NoPolicy \notin Policies /\ Limit \in [Policies -> Nat]
ASSUME ChainAssumption ==
  /\ \A c \in Calls : Chain[c] \in Seq(Policies \cup {NoPolicy}) /\ Chain[c] # <<>>
  /\ \A c \in Calls : \A i, j \in DOMAIN Chain[c] :
       Chain[c][i] = Chain[c][j] /\ Chain[c][i] # NoPolicy => i = j
ASSUME EstimateAssumption == Estimate \in [Calls -> Nat \ {0}] /\ Costs \subseteq Nat
ASSUME BoundAssumption ==
  /\ IsFiniteSet(Calls) /\ Sweeper \notin Calls /\ FailOpen \in BOOLEAN
  /\ MayLapse \subseteq Calls /\ MaxPeriod \in Nat \ {0}

VARIABLES
  spent,     \* policy -> spent_cents
  reserved,  \* policy -> reserved_cents
  window,    \* policy -> the period of window_started_at
  period,    \* the current period on the clock
  events,    \* call -> policy -> the hold's cost_events row
  calls,     \* call -> where it is
  snaps,     \* reaper -> the expired holds it has read and not yet released
  \* What happened, whatever the rows say of it.  No step reads these.
  opened,    \* policy -> the last window it was rolled into
  paid,      \* policy -> the cents calls were charged since that window opened
  erased,    \* policy -> was spend taken off since by a roll?
  doubled    \* policy -> was a hold that was over already given back?

history == <<opened, paid, erased, doubled>>
books == <<spent, reserved, window, history>>
vars == <<books, period, events, calls, snaps>>

-----------------------------------------------------------------------------
Unset == 0    \* window_started_at of a policy nothing was ever held against

Closed == {"committed", "released"}
Event == [status : {"none", "reserved"} \cup Closed, cents : Nat, lapsed : BOOLEAN]
NoEvent == [status |-> "none", cents |-> 0, lapsed |-> FALSE]

Reserving == {"reap", "reaping", "read", "reserve"}
Ended == {"done", "refused", "unavailable", "gone"}
Stage == Reserving \cup {"call", "settle"} \cup Ended

\* A policy row as a session read it, and the time of the reading.
Look == [spent : Nat, reserved : Nat, window : 0..MaxPeriod, now : 0..MaxPeriod]
NoLook == [spent |-> 0, reserved |-> 0, window |-> 0, now |-> 0]

\* held: the reservation ids the caller still has to settle.
Call == [stage : Stage, pos : Nat, look : Look, held : Seq(Policies), cost : Nat]

TypeOK ==
  /\ spent \in [Policies -> Nat]
  /\ reserved \in [Policies -> Nat]
  /\ window \in [Policies -> 0..MaxPeriod]
  /\ period \in 1..MaxPeriod
  /\ events \in [Calls -> [Policies -> Event]]
  /\ calls \in [Calls -> Call]
  /\ snaps \in [Calls \cup {Sweeper} -> SUBSET (Calls \X Policies)]
  /\ opened \in [Policies -> 0..MaxPeriod] /\ paid \in [Policies -> Nat]
  /\ erased \in [Policies -> BOOLEAN] /\ doubled \in [Policies -> BOOLEAN]

Init ==
  /\ spent = [p \in Policies |-> 0]
  /\ reserved = [p \in Policies |-> 0]
  /\ window = [p \in Policies |-> Unset]
  /\ period = 1
  /\ events = [c \in Calls |-> [p \in Policies |-> NoEvent]]
  /\ calls = [c \in Calls |->
       [stage |-> "reap", pos |-> 1, look |-> NoLook, held |-> <<>>, cost |-> 0]]
  /\ snaps = [r \in Calls \cup {Sweeper} |-> {}]
  /\ opened = [p \in Policies |-> Unset]
  /\ paid = [p \in Policies |-> 0]
  /\ erased = [p \in Policies |-> FALSE]
  /\ doubled = [p \in Policies |-> FALSE]

Enter(c, stage) == calls' = [calls EXCEPT ![c].stage = stage]

-----------------------------------------------------------------------------
(* Reaping: what reserve does first, and the system sweep does by itself.  *)

\* Seeded fault of Less: the counter is left as it is.
Faulty_LessNothing(r, n) == r

\* Seeded fault of Less: the CASE that keeps the counter from going negative.
Faulty_LessUnclamped(r, n) == r - n

Less(r, n) == IF n \in 0..r THEN r - n ELSE 0

\* Seeded fault of Expired: one hold per call, as before there were chains.
Faulty_Expired ==
  {h \in Calls \X Policies : /\ events[h[1]][h[2]].status = "reserved"
                             /\ events[h[1]][h[2]].lapsed
                             /\ h[2] = Chain[h[1]][1]}

Expired ==
  {h \in Calls \X Policies : events[h[1]][h[2]].status = "reserved" /\ events[h[1]][h[2]].lapsed}

\* expires_at is cleared with the status; lapsed stays, and no longer matters.
Released(e) == [e EXCEPT !.status = "released", !.cents = 0]

Sum(f, S) == MapThenSumSet(LAMBDA x : f[x], S)

\* What the holds in snap took from policy p.
Owed(snap, p) == Sum(Estimate, {c \in Calls : <<c, p>> \in snap})

\* The policies are decremented for every hold that was read, the holds
\* released only where they are still reserved.
Reap(snap) ==
  /\ reserved' = [p \in Policies |-> Less(reserved[p], Owed(snap, p))]
  /\ events' = [c \in Calls |-> [p \in Policies |->
       IF <<c, p>> \in snap /\ events[c][p].status = "reserved"
         THEN Released(events[c][p]) ELSE events[c][p]]]
  /\ doubled' = [p \in Policies |->
       doubled[p] \/ \E c \in Calls : <<c, p>> \in snap /\ events[c][p].status # "reserved"]
  /\ UNCHANGED <<spent, window, opened, paid, erased, period>>

ReapReads(c) ==
  /\ calls[c].stage = "reap"
  /\ snaps' = [snaps EXCEPT ![c] = Expired]
  /\ Enter(c, IF Expired = {} THEN "read" ELSE "reaping")
  /\ UNCHANGED <<books, period, events>>

ReapApplies(c) ==
  /\ calls[c].stage = "reaping"
  /\ Reap(snaps[c])
  /\ snaps' = [snaps EXCEPT ![c] = {}]
  /\ Enter(c, "read")

SweepReads ==
  /\ snaps[Sweeper] = {}
  /\ Expired # {}
  /\ snaps' = [snaps EXCEPT ![Sweeper] = Expired]
  /\ UNCHANGED <<books, period, events, calls>>

SweepApplies ==
  /\ snaps[Sweeper] # {}
  /\ Reap(snaps[Sweeper])
  /\ snaps' = [snaps EXCEPT ![Sweeper] = {}]
  /\ UNCHANGED calls

SweepFails ==
  /\ snaps[Sweeper] # {}
  /\ snaps' = [snaps EXCEPT ![Sweeper] = {}]
  /\ UNCHANGED <<books, period, events, calls>>

-----------------------------------------------------------------------------
(* Reserving: one scope of the chain after the other.                      *)

Policy(c) == Chain[c][calls[c].pos]

\* Seeded fault of LastScope: the company's wall is the only scope.
Faulty_LastScope(c) == TRUE

LastScope(c) == calls[c].pos = Len(Chain[c])

\* The next scope, or the call itself when every scope has answered.
Advanced(c) ==
  IF LastScope(c) THEN [calls[c] EXCEPT !.stage = "call"]
  ELSE [calls[c] EXCEPT !.stage = "reap", !.pos = @ + 1]

ScopeIsFree(c) ==
  /\ calls[c].stage = "read"
  /\ Policy(c) = NoPolicy
  /\ calls' = [calls EXCEPT ![c] = Advanced(c)]
  /\ UNCHANGED <<books, period, events, snaps>>

PolicyReads(c) ==
  /\ calls[c].stage = "read"
  /\ Policy(c) # NoPolicy
  /\ LET p == Policy(c) IN
       calls' = [calls EXCEPT ![c].stage = "reserve",
                   ![c].look = [spent |-> spent[p], reserved |-> reserved[p],
                                window |-> window[p], now |-> period]]
  /\ UNCHANGED <<books, period, events, snaps>>

\* _roll_window_if_needed.  The session's flush of the changed attributes comes
\* before the conditional UPDATE and has no condition: spent_cents is written
\* when the value that was read is not 0 already.
Turns(look) == look.window # Unset /\ look.window < look.now
RolledSpent(p, look) == IF Turns(look) /\ look.spent # 0 THEN 0 ELSE spent[p]
RolledWindow(p, look) ==
  IF Turns(look) \/ look.window = Unset THEN look.now ELSE window[p]

\* A roll opens a window the policy was never in.  One that was decided on an old read
\* may not: it puts the row back in an old window, or takes off spend of the one it is in.
Opens(p, look) == RolledWindow(p, look) > opened[p]

Roll(p, look) ==
  /\ spent' = [spent EXCEPT ![p] = RolledSpent(p, look)]
  /\ window' = [window EXCEPT ![p] = RolledWindow(p, look)]
  /\ opened' = [opened EXCEPT ![p] = IF Opens(p, look) THEN RolledWindow(p, look) ELSE @]
  /\ paid' = [paid EXCEPT ![p] = IF Opens(p, look) THEN 0 ELSE @]
  /\ erased' = [erased EXCEPT ![p] =
       ~Opens(p, look) /\ (@ \/ RolledSpent(p, look) < spent[p])]

\* Denied by check_budget on the row as read, or by the guard of the UPDATE.
Denied(c, p, look) ==
  \/ (IF Turns(look) THEN 0 ELSE look.spent) + look.reserved + Estimate[c] > Limit[p]
  \/ RolledSpent(p, look) + reserved[p] + Estimate[c] > Limit[p]

\* The rolled row stays locked from the flush to this commit.
Hold(c) ==
  LET p == Policy(c)
      look == calls[c].look IN
  /\ calls[c].stage = "reserve"
  /\ ~Denied(c, p, look)
  /\ Roll(p, look)
  /\ reserved' = [reserved EXCEPT ![p] = @ + Estimate[c]]
  /\ events' = [events EXCEPT ![c][p] =
                  [status |-> "reserved", cents |-> Estimate[c], lapsed |-> FALSE]]
  /\ calls' = [calls EXCEPT ![c] = [Advanced(c) EXCEPT !.held = Append(@, p)]]
  /\ UNCHANGED <<doubled, period, snaps>>

\* Seeded fault of GivenBack: a refusal keeps the holds of earlier scopes.
Faulty_GivenBack(c) == {}

\* The holds of the earlier scopes, where nobody reaped them meanwhile.
GivenBack(c) ==
  {p \in Policies : events[c][p].status = "reserved"
                    /\ \E i \in DOMAIN calls[c].held : calls[c].held[i] = p}

\* Nothing commits unless a hold is given back; its commit keeps the roll too.
Refuse(c) ==
  LET p == Policy(c)
      look == calls[c].look
      back == GivenBack(c) IN
  /\ calls[c].stage = "reserve"
  /\ Denied(c, p, look)
  /\ IF back = {} THEN UNCHANGED <<spent, window, opened, paid, erased>> ELSE Roll(p, look)
  /\ reserved' = [q \in Policies |->
       IF q \in back THEN Less(reserved[q], Estimate[c]) ELSE reserved[q]]
  /\ events' = [events EXCEPT ![c] = [q \in Policies |->
       IF q \in back THEN Released(events[c][q]) ELSE events[c][q]]]
  /\ Enter(c, "refused")
  /\ UNCHANGED <<doubled, period, snaps>>

\* Any exception of the ledger.  The ids of holds already taken are lost.
ReserveFails(c) ==
  /\ calls[c].stage \in Reserving
  /\ calls' = [calls EXCEPT ![c].stage = IF FailOpen THEN "call" ELSE "unavailable",
                            ![c].held = <<>>]
  /\ snaps' = [snaps EXCEPT ![c] = {}]
  /\ UNCHANGED <<books, period, events>>

-----------------------------------------------------------------------------
(* The call, and its settlement.                                           *)

\* A cost of 0 stands for a call that never billed.
CallEnds(c, cost) ==
  /\ calls[c].stage = "call"
  /\ calls' = [calls EXCEPT ![c].cost = cost,
                 ![c].stage = IF calls[c].held = <<>> THEN "done" ELSE "settle"]
  /\ UNCHANGED <<books, period, events, snaps>>

Settling(c, rest) ==
  calls' = [calls EXCEPT ![c].held = rest, ![c].stage = IF rest = <<>> THEN "done" ELSE @]

\* Seeded fault of StillReserved: the status is not looked at.
Faulty_StillReserved(c, p) == TRUE

\* The WHERE of the event's UPDATE in commit_reservation and release_reservation.
StillReserved(c, p) == events[c][p].status = "reserved"

\* Seeded fault of Allowed: a database without the constraint.
Faulty_Allowed(p, s, r) == TRUE

\* budget_never_overcommitted, the CHECK constraint of the table.
Allowed(p, s, r) == s + r <= Limit[p]

\* commit_reservation for a call that billed.
Commit(c) ==
  LET p == Head(calls[c].held)
      rest == Less(reserved[p], Estimate[c]) IN
  /\ calls[c].stage = "settle" /\ calls[c].cost > 0
  /\ StillReserved(c, p)
  /\ Allowed(p, spent[p] + calls[c].cost, rest)
  /\ reserved' = [reserved EXCEPT ![p] = rest]
  /\ spent' = [spent EXCEPT ![p] = @ + calls[c].cost]
  /\ paid' = [paid EXCEPT ![p] = @ + calls[c].cost]
  /\ events' = [events EXCEPT ![c][p].status = "committed", ![c][p].cents = calls[c].cost]
  /\ Settling(c, Tail(calls[c].held))
  /\ UNCHANGED <<window, opened, erased, doubled, period, snaps>>

\* release_reservation for one that did not.
Release(c) ==
  LET p == Head(calls[c].held) IN
  /\ calls[c].stage = "settle" /\ calls[c].cost = 0
  /\ StillReserved(c, p)
  /\ reserved' = [reserved EXCEPT ![p] = Less(@, Estimate[c])]
  /\ events' = [events EXCEPT ![c][p] = Released(@)]
  /\ Settling(c, Tail(calls[c].held))
  /\ UNCHANGED <<spent, window, history, period, snaps>>

\* Seeded fault of SettlesLate: the counter is charged although no row matched.
Faulty_SettlesLate(c) ==
  LET p == Head(calls[c].held) IN
  /\ calls[c].stage = "settle"
  /\ ~StillReserved(c, p)
  /\ Allowed(p, spent[p] + calls[c].cost, reserved[p])
  /\ spent' = [spent EXCEPT ![p] = @ + calls[c].cost]
  /\ Settling(c, Tail(calls[c].held))
  /\ UNCHANGED <<reserved, window, history, period, events, snaps>>

\* The hold was reaped: nothing is written, and nobody is told.
SettlesLate(c) ==
  /\ calls[c].stage = "settle"
  /\ ~StillReserved(c, Head(calls[c].held))
  /\ Settling(c, Tail(calls[c].held))
  /\ UNCHANGED <<books, period, events, snaps>>

\* An exception, the CHECK constraint's included, is logged and swallowed.
\* _settle_budget goes on with the next hold, RoundMeter.end leaves the rest.
SettleFails(c) ==
  /\ calls[c].stage = "settle"
  /\ \E rest \in {Tail(calls[c].held), <<>>} : Settling(c, rest)
  /\ UNCHANGED <<books, period, events, snaps>>

-----------------------------------------------------------------------------
(* Time and failure.                                                       *)

\* The process dies, or the task is cancelled while it reserves.
Dies(c) ==
  /\ calls[c].stage \notin Ended
  /\ Enter(c, "gone")
  /\ snaps' = [snaps EXCEPT ![c] = {}]
  /\ UNCHANGED <<books, period, events>>

HoldLapses(c, p) ==
  /\ c \in MayLapse
  /\ events[c][p].status = "reserved" /\ ~events[c][p].lapsed
  /\ events' = [events EXCEPT ![c][p].lapsed = TRUE]
  /\ UNCHANGED <<books, period, calls, snaps>>

WindowTurns ==
  /\ period < MaxPeriod
  /\ period' = period + 1
  /\ UNCHANGED <<books, events, calls, snaps>>

-----------------------------------------------------------------------------
ReserveStep(c) ==
  ReapReads(c) \/ ReapApplies(c) \/ ScopeIsFree(c) \/ PolicyReads(c) \/ Hold(c) \/ Refuse(c)
    \/ ReserveFails(c)

SettleStep(c) ==
  Commit(c) \/ Release(c) \/ SettlesLate(c) \/ SettleFails(c)

Next ==
  \/ \E c \in Calls : ReserveStep(c) \/ SettleStep(c) \/ Dies(c)
  \/ \E c \in Calls, cost \in Costs : CallEnds(c, cost)
  \/ SweepReads \/ SweepApplies \/ SweepFails
  \/ \E c \in Calls, p \in Policies : HoldLapses(c, p)
  \/ WindowTurns

Spec == Init /\ [][Next]_vars

\* The clock runs, the system runtime sweeps, and a sweep does not fail for ever.
FairSpec ==
  /\ Spec
  /\ \A c \in Calls, p \in Policies : WF_vars(HoldLapses(c, p))
  /\ WF_vars(SweepReads)
  /\ SF_vars(SweepApplies)

-----------------------------------------------------------------------------
(* What the rows say, next to the counters.                                *)

Cents(p) == [c \in Calls |-> events[c][p].cents]
InStatus(p, s) == {c \in Calls : events[c][p].status = s}

OpenHolds(p) == Sum(Cents(p), InStatus(p, "reserved"))
Committed(p) == Sum(Cents(p), InStatus(p, "committed"))

\* A policy's reserved_cents never exceeds the holds that are open against it:
\* however settlements, refusals and several reapers interleave, no cent stays
\* reserved for a call that is over.  A leak would shrink the budget for good.
HoldsAreBacked == \A p \in Policies : reserved[p] <= OpenHolds(p)

\* A policy never shows more spend than calls were committed against it: a hold
\* is charged once, although it may be settled late, reaped, or both.
SpentIsCommitted == \A p \in Policies : spent[p] <= Committed(p)

\* What calls were charged in the window and what is held open fit the limit together,
\* but for the two ways a policy loses count: of calls that race for the last cents one
\* is refused, over window turns, deaths and reaps, and a settlement that costs more than
\* its hold does not take what others hold.  WithinLimit below is the claim without them.
LimitIsKept ==
  \A p \in Policies : erased[p] \/ doubled[p] \/ paid[p] + OpenHolds(p) <= Limit[p]

\* A refused call holds nothing: what it had taken from the scopes before the one
\* that refused was given back, or reaped (the docstring of reserve_chain).
RefusedHoldsNothing ==
  \A c \in Calls : calls[c].stage = "refused" =>
    \A p \in Policies : events[c][p].status # "reserved"

\* With BUDGET_FAIL_OPEN off, a call that runs, or has run, was held against every
\* policy of its chain first: neither scope is passed over by a race or a reap.
HeldInEveryScope ==
  \A c \in Calls : ~FailOpen /\ calls[c].stage \in {"call", "settle", "done"} =>
    \A i \in DOMAIN Chain[c] : Chain[c][i] # NoPolicy => events[c][Chain[c][i]].status # "none"

\* A settled or released hold is never reopened, charged again or given back
\* again, whatever arrives late: reapers and settlements all look for "reserved".
ClosedIsFinal ==
  [][\A c \in Calls, p \in Policies :
       events[c][p].status \in Closed => events'[c][p] = events[c][p]]_vars

\* No hold stays open: when its call dies, or its settlement fails, the sweep
\* releases it, without a later call of the company.
EveryHoldCloses ==
  \A c \in Calls, p \in Policies :
    events[c][p].status = "reserved" ~> events[c][p].status \in Closed

-----------------------------------------------------------------------------
(* What the repository says of this ledger, and the code does not do.      *)

\* The hard limit of a policy is never exceeded (02_atomic_budget_reservations.md: "Total
\* active committed spend plus outstanding reservations can never exceed the hard limit").
\* It is: after a hold was given back twice, and after a roll decided on an old read.
WithinLimit == \A p \in Policies : paid[p] + OpenHolds(p) <= Limit[p]
=============================================================================
