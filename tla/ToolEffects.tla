---------------------------- MODULE ToolEffects ----------------------------
(***************************************************************************)
(* The execute-once ledger of write-capable tool calls of one chat turn    *)
(* (src/src/nexus/tools/effects.py, guarded_call in tools/factory.py).     *)
(*                                                                         *)
(* A slot of the turn (model round and position) has one tool_effects row. *)
(* A call claims the row before the tool runs, and settles it with what it *)
(* knows of the effect afterwards.  The turn may be taken from a worker    *)
(* and run again, a claim may outlive its lease, a worker may die anywhere *)
(* between the claim and the settlement, and an operator decides what the  *)
(* system must not.  The effect itself is external: it can happen late,    *)
(* after the caller gave up on it.                                         *)
(*                                                                         *)
(* One action is one transaction on the ledger, or one step of a call.     *)
(* Refused calls (stale, busy, blocked, a slot mismatch) and replays       *)
(* change nothing and have no action.                                      *)
(***************************************************************************)
EXTENDS Naturals, FiniteSets

CONSTANTS
  Slots,       \* the slots of the turn the model may write at
  Contents,    \* tool and arguments digest of a call
  ClassOf,     \* the declared effect class of a content's tool
  MaxEpoch,    \* bound: executions of the turn
  MaxTakes     \* bound: claims of one slot

EffectClass == {"idempotent_write", "non_idempotent_write"}

ASSUME ClassAssumption == Contents # {} /\ ClassOf \in [Contents -> EffectClass]
ASSUME EpochAssumption == MaxEpoch \in Nat \ {0}
ASSUME TakesAssumption == MaxTakes \in [Slots -> Nat \ {0}]

VARIABLES
  epoch,    \* attempt_count of the turn's row: the current execution
  owned,    \* the turn's row is active (its last claim was not taken away)
  rows,     \* slot -> its tool_effects row
  calls,    \* calls that claimed a row and are not settled, or may still take effect
  effects,  \* slot -> how often its effect happened in the outside world
  reopened  \* slots an operator declared "not_applied" (audit log)

vars == <<epoch, owned, rows, calls, effects, reopened>>

-----------------------------------------------------------------------------
Unwritten == "unwritten"     \* the slot has no row
Settled   == {"succeeded", "failed", "ambiguous"}
Status    == {Unwritten, "executing", "manual_recovery_required"} \cup Settled

\* opener is turn_attempt, count is attempt_count and stands for the claim_token
\* as well: both change with every claim, and the token is NULL unless executing.
Row == [status : Status, content : Contents, count : Nat, opener : Nat, lapsed : BOOLEAN]

NoRow == [status |-> Unwritten, content |-> CHOOSE c \in Contents : TRUE, count |-> 0,
          opener |-> 0, lapsed |-> FALSE]

\* running: the tool runs; a Settled stage: settle is next; gone: nobody waits for
\* the call any more, and its request may still reach the outside world.
Call == [slot : Slots, count : Nat, stage : {"running", "gone"} \cup Settled, happened : BOOLEAN]

TypeOK ==
  /\ epoch \in Nat
  /\ owned \in BOOLEAN
  /\ rows \in [Slots -> Row]
  /\ calls \subseteq Call
  /\ effects \in [Slots -> Nat]
  /\ reopened \subseteq Slots

Turn == INSTANCE TurnExecutions

Init ==
  /\ Turn!Init
  /\ rows = [s \in Slots |-> NoRow]
  /\ calls = {}
  /\ effects = [s \in Slots |-> 0]
  /\ reopened = {}

-----------------------------------------------------------------------------
(* The turn, as this ledger sees it: all that ChatTurns does to its row.   *)

\* A sweep, a shutdown, a cancel or the turn's own end: attempt_count stays.
TurnLeft ==
  /\ Turn!Ends
  /\ UNCHANGED <<rows, calls, effects, reopened>>

\* A worker claims the turn, for the first time or again.
TurnClaimed ==
  /\ epoch < MaxEpoch   \* bound
  /\ Turn!Starts
  /\ UNCHANGED <<rows, calls, effects, reopened>>

-----------------------------------------------------------------------------
(* Claims.                                                                 *)

Unsafe(c) == ClassOf[c] = "non_idempotent_write"

\* Seeded fault of Current: a replaced execution is not refused.
Faulty_Current(e) == e <= epoch

\* _stale_reason, under a share lock on the turn's row: the attempt must be equal.
\* Whether the turn is still active is not looked at.
Current(e) == e = epoch

\* Seeded fault of MayOpen: only the slot itself is looked at.
Faulty_MayOpen(e, s) == rows[s].status = Unwritten

\* A recovered execution opens no new slot beside those an earlier one claimed.
MayOpen(e, s) ==
  /\ rows[s].status = Unwritten
  /\ e > 1 => \A u \in Slots \ {s} : rows[u].status # Unwritten => rows[u].opener >= e

\* The caller gets "run": a fresh token and lease on the row.
Hold(s, row) ==
  /\ row.count <= MaxTakes[s]
  /\ rows' = [rows EXCEPT ![s] = row]
  /\ calls' = calls \cup {[slot |-> s, count |-> row.count, stage |-> "running", happened |-> FALSE]}
  /\ UNCHANGED <<epoch, owned, effects, reopened>>

\* The slot's first claim: the INSERT.
Open(e, s, c) ==
  /\ Current(e)
  /\ MayOpen(e, s)
  /\ Hold(s, [status |-> "executing", content |-> c, count |-> 1, opener |-> e, lapsed |-> FALSE])

\* The UPDATE of a takeover, by the same call at the same slot: one more attempt.
Taken(row) == [status |-> "executing", content |-> row.content, count |-> row.count + 1,
               opener |-> row.opener, lapsed |-> FALSE]
Take(s) == Hold(s, Taken(rows[s]))

\* A failed call did nothing, so it may run again.
Retry(e, s) ==
  /\ Current(e)
  /\ rows[s].status = "failed"
  /\ Take(s)

\* The claim's lease ran out before it was settled.
Lapsed(s) == rows[s].status = "executing" /\ rows[s].lapsed

\* The outcome is unknown: the effect may have happened.
Unknown(s) == rows[s].status = "ambiguous" \/ Lapsed(s)

\* An idempotent call is run again.
Retake(e, s) ==
  /\ Current(e)
  /\ Unknown(s)
  /\ ~Unsafe(rows[s].content)
  /\ Take(s)

\* A non-idempotent one waits for an operator.
HandToOperator(e, s) ==
  /\ Current(e)
  /\ Unknown(s)
  /\ Unsafe(rows[s].content)
  /\ rows' = [rows EXCEPT ![s].status = "manual_recovery_required", ![s].lapsed = FALSE]
  /\ UNCHANGED <<epoch, owned, calls, effects, reopened>>

-----------------------------------------------------------------------------
(* The call.                                                               *)

Replace(k, l) == calls' = (calls \ {k}) \cup {l}

\* The effect happens: while the tool runs, or later when its request was in flight.
Happens(k) ==
  /\ ~k.happened
  /\ k.stage \in {"running", "ambiguous", "gone"}
  /\ effects' = [effects EXCEPT ![k.slot] = @ + 1]
  /\ IF k.stage = "gone" THEN calls' = calls \ {k} ELSE Replace(k, [k EXCEPT !.happened = TRUE])
  /\ UNCHANGED <<epoch, owned, rows, reopened>>

\* Seeded faults of Provable: an error of the tool counts as "nothing happened"; an
\* error reported in the result counts as a success.
Faulty_ProvableFailure(k, o) == o = "succeeded" => k.happened
Faulty_ProvableSuccess(k, o) == o = "failed" => ~k.happened

\* Only a clean success is "succeeded", and only a call proven not to have begun
\* (EffectNotStarted, effect_rejected) is "failed".  Everything else, a timeout, a
\* cancellation or any other exception, is "ambiguous".
Provable(k, o) ==
  /\ o = "succeeded" => k.happened
  /\ o = "failed" => ~k.happened

\* run() returns or raises, and its outcome is classified.
Returns(k, o) ==
  /\ k.stage = "running"
  /\ Provable(k, o)
  /\ Replace(k, [k EXCEPT !.stage = o])
  /\ UNCHANGED <<epoch, owned, rows, effects, reopened>>

\* The caller is done with the call.  Its request may be in flight still, unless it
\* happened already or was proven not to begin.
Dismiss(k) ==
  IF k.happened \/ k.stage = "failed"
  THEN calls' = calls \ {k}
  ELSE Replace(k, [k EXCEPT !.stage = "gone"])

\* Seeded fault of Holds: the token is not compared.
Faulty_HoldsAny(k) == rows[k.slot].status = "executing"

\* The WHERE of settle: the row is executing under this call's token.
Holds(k) == rows[k.slot].status = "executing" /\ rows[k.slot].count = k.count

\* settle matches the row.
Settle(k) ==
  /\ k.stage \in Settled
  /\ Holds(k)
  /\ rows' = [rows EXCEPT ![k.slot].status = k.stage, ![k.slot].lapsed = FALSE]
  /\ Dismiss(k)
  /\ UNCHANGED <<epoch, owned, effects, reopened>>

\* The process dies, or settle does not match the row (claim lost) or raises.
Abandoned(k) ==
  /\ k.stage # "gone"
  /\ Dismiss(k)
  /\ UNCHANGED <<epoch, owned, rows, effects, reopened>>

-----------------------------------------------------------------------------
(* Time, the sweep and the operator.                                       *)

\* LEASE_SECONDS passed on the database clock.
LeaseLapses(s) ==
  /\ rows[s].status = "executing" /\ ~rows[s].lapsed
  /\ rows' = [rows EXCEPT ![s].lapsed = TRUE]
  /\ UNCHANGED <<epoch, owned, calls, effects, reopened>>

\* Seeded faults of ExpireLease: only non-idempotent rows are swept; the status of
\* another table is stored.
Faulty_ExpireUnsafe(s) ==
  /\ Lapsed(s) /\ Unsafe(rows[s].content)
  /\ rows' = [rows EXCEPT ![s].status = "ambiguous", ![s].lapsed = FALSE]
  /\ UNCHANGED <<epoch, owned, calls, effects, reopened>>

\* expire_leases, run every minute by the system runtime.
ExpireLease(s) ==
  /\ Lapsed(s)
  /\ rows' = [rows EXCEPT ![s].status = "ambiguous", ![s].lapsed = FALSE]
  /\ UNCHANGED <<epoch, owned, calls, effects, reopened>>

\* resolve_manual_recovery.  The operator looked at the external system and says
\* what is true at that moment: the effect happened (applied), or it did not.
Resolve(s) ==
  /\ rows[s].status \in {"ambiguous", "manual_recovery_required"}
  /\ \/ /\ effects[s] > 0
        /\ rows' = [rows EXCEPT ![s].status = "succeeded"]
        /\ UNCHANGED reopened
     \/ /\ effects[s] = 0
        /\ rows' = [rows EXCEPT ![s].status = "failed"]
        /\ reopened' = reopened \cup {s}
  /\ UNCHANGED <<epoch, owned, calls, effects>>

-----------------------------------------------------------------------------
ClaimStep(e, s) ==
  \/ \E c \in Contents : Open(e, s, c)
  \/ Retry(e, s) \/ Retake(e, s) \/ HandToOperator(e, s)

CallStep(k) ==
  \/ Happens(k) \/ Settle(k) \/ Abandoned(k)
  \/ \E o \in Settled : Returns(k, o)

Next ==
  \/ TurnLeft \/ TurnClaimed
  \/ \E e \in 1..epoch, s \in Slots : ClaimStep(e, s)
  \/ \E k \in calls : CallStep(k)
  \/ \E s \in Slots : LeaseLapses(s) \/ ExpireLease(s) \/ Resolve(s)

Spec == Init /\ [][Next]_vars

\* The clock runs and the system runtime sweeps; nobody has to call or to decide.
FairSpec == Spec /\ \A s \in Slots : WF_vars(LeaseLapses(s)) /\ WF_vars(ExpireLease(s))

-----------------------------------------------------------------------------
(* Properties.                                                             *)

\* Rows of non-idempotent calls.
UnsafeSlots == {s \in Slots : rows[s].status # Unwritten /\ Unsafe(rows[s].content)}

\* A non-idempotent effect happens at most once whatever crashes, lapses, recoveries
\* and late replies there are, unless an operator declared it not applied
\* (_decide, settle, expire_leases).
AtMostOnce ==
  \A s \in UnsafeSlots \ reopened : effects[s] <= 1

\* What is replayed really happened: a row is "succeeded" only after its effect
\* (settle by the token, resolve "applied").
ReplayIsTrue ==
  \A s \in Slots : rows[s].status = "succeeded" => effects[s] > 0

\* All slots a turn ever wrote at were opened by one of its executions: once one
\* execution wrote, a later one only replays or retakes (_earlier_execution_wrote, and
\* the share lock of _stale_reason).
OneOpener ==
  \A s, u \in Slots :
    rows[s].status # Unwritten /\ rows[u].status # Unwritten => rows[s].opener = rows[u].opener

\* A claim is decided by its own holder or after its lease lapsed: a holder that was
\* replaced, a sweep or an operator never changes a live claim (settle, _cas).
LiveClaimIsHeld ==
  [][\A s \in Slots :
       rows[s].status = "executing" /\ ~rows[s].lapsed /\ rows'[s].status # "executing" =>
         \E k \in calls : /\ k.slot = s /\ k.count = rows[s].count
                          /\ k.stage = rows'[s].status]_vars

\* No row is left "executing": its call settles it, or the sweep lists it for the
\* operator, even when no later call arrives at the slot (expire_leases).
NoRowHangs ==
  \A s \in Slots : rows[s].status = "executing" ~> rows[s].status # "executing"

(* What the code or its documentation says and the code does not do.       *)

\* "A worker a recovery replaced (a zombie) is stale: nothing is inserted": only the
\* execution that has the turn opens a slot.
ZombieOpensNothing ==
  [][\A s \in Slots : rows[s].status = Unwritten /\ rows'[s].status # Unwritten => owned]_vars
=============================================================================
