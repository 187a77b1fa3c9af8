------------------------ MODULE BudgetLedger_proofs ------------------------
(***************************************************************************)
(* Theorems about BudgetLedger, for any calls, policies, chains, limits    *)
(* and bounds.                                                             *)
(***************************************************************************)
EXTENDS BudgetLedger, SequenceTheorems, TLAPS

-----------------------------------------------------------------------------
(* Types.                                                                  *)

\* A counter stays a number when a hold is given back, whatever its amount.
LEMMA LessIsNat == \A r \in Nat : \A n : Less(r, n) \in Nat
BY DEF Less

\* The scope a call is at, and what a call is while it reserves and settles.
Placed ==
  \A c \in Calls :
    /\ calls[c].pos \in DOMAIN Chain[c]
    /\ calls[c].stage = "reserve" => Policy(c) # NoPolicy
    /\ calls[c].stage = "settle" => calls[c].held # <<>>

LEMMA PolicyType ==
  ASSUME Placed, NEW c \in Calls
  PROVE  Policy(c) \in Policies \cup {NoPolicy}
BY ChainAssumption DEF Placed, Policy

LEMMA AdvancedType ==
  ASSUME TypeOK, Placed, NEW c \in Calls
  PROVE  /\ Advanced(c) \in Call
         /\ Advanced(c).pos \in DOMAIN Chain[c]
         /\ Advanced(c).held = calls[c].held
         /\ Advanced(c).stage \in {"call", "reap"}
<1>1. /\ calls[c] \in Call /\ calls[c].pos \in 1..Len(Chain[c])
      /\ DOMAIN Chain[c] = 1..Len(Chain[c]) /\ Len(Chain[c]) \in Nat
  BY ChainAssumption DEF TypeOK, Placed
<1>2. {"call", "reap"} \subseteq Stage
  BY DEF Stage, Reserving
<1>3. CASE LastScope(c)
  <2>1. Advanced(c) = [calls[c] EXCEPT !.stage = "call"]
    BY <1>3 DEF Advanced
  <2> QED
    BY <1>1, <1>2, <2>1 DEF Call
<1>4. CASE ~LastScope(c)
  <2>1. Advanced(c) = [calls[c] EXCEPT !.stage = "reap", !.pos = calls[c].pos + 1]
    BY <1>4 DEF Advanced
  <2>2. calls[c].pos + 1 \in 1..Len(Chain[c]) /\ calls[c].pos + 1 \in Nat
    BY <1>1, <1>4 DEF LastScope
  <2> QED
    BY <1>1, <1>2, <2>1, <2>2 DEF Call
<1> QED
  BY <1>3, <1>4

\* The rows a step may write are well formed.
LEMMA EventEdits ==
  ASSUME TypeOK, NEW c \in Calls, NEW p \in Policies
  PROVE  /\ events[c][p] \in Event
         /\ Released(events[c][p]) \in Event
         /\ \A n \in Nat : [status |-> "reserved", cents |-> n, lapsed |-> FALSE] \in Event
         /\ \A n \in Nat : [events[c][p] EXCEPT !.status = "committed", !.cents = n] \in Event
         /\ [events[c][p] EXCEPT !.lapsed = TRUE] \in Event
<1>1. events[c][p] \in Event
  BY DEF TypeOK
<1>2. {"reserved", "committed", "released"} \subseteq {"none", "reserved"} \cup Closed
  BY DEF Closed
<1>3. \A e \in Event, s \in {"reserved", "committed", "released"}, n \in Nat :
        /\ [e EXCEPT !.status = s, !.cents = n] \in Event
        /\ [e EXCEPT !.lapsed = TRUE] \in Event
  BY <1>2 DEF Event
<1> QED
  BY <1>1, <1>2, <1>3 DEF Event, Released

HistoryType ==
  /\ opened \in [Policies -> 0..MaxPeriod] /\ paid \in [Policies -> Nat]
  /\ erased \in [Policies -> BOOLEAN] /\ doubled \in [Policies -> BOOLEAN]

\* A step that only moves one call to another stage keeps the types.
LEMMA EnterType ==
  ASSUME TypeOK, NEW c \in Calls, NEW s \in Stage, Enter(c, s)
  PROVE  calls' \in [Calls -> Call]
BY DEF TypeOK, Enter, Call

LEMMA ReapType ==
  ASSUME TypeOK, NEW snap, Reap(snap)
  PROVE  /\ spent' \in [Policies -> Nat] /\ reserved' \in [Policies -> Nat]
         /\ window' \in [Policies -> 0..MaxPeriod] /\ period' \in 1..MaxPeriod
         /\ events' \in [Calls -> [Policies -> Event]] /\ HistoryType'
<1>1. reserved' \in [Policies -> Nat]
  BY LessIsNat DEF Reap, TypeOK
<1>2. events' \in [Calls -> [Policies -> Event]]
  BY EventEdits DEF Reap
<1>3. doubled' \in [Policies -> BOOLEAN]
  BY Zenon DEF Reap
<1> QED
  BY <1>1, <1>2, <1>3 DEF Reap, TypeOK, HistoryType

LEMMA RollType ==
  ASSUME TypeOK, NEW p \in Policies, NEW look \in Look, Roll(p, look)
  PROVE  /\ spent' \in [Policies -> Nat] /\ window' \in [Policies -> 0..MaxPeriod]
         /\ opened' \in [Policies -> 0..MaxPeriod] /\ paid' \in [Policies -> Nat]
         /\ erased' \in [Policies -> BOOLEAN]
<1>1. RolledSpent(p, look) \in Nat /\ RolledWindow(p, look) \in 0..MaxPeriod
  BY DEF TypeOK, Look, RolledSpent, RolledWindow
<1>2. erased' \in [Policies -> BOOLEAN]
  <2>1. (~Opens(p, look) /\ (erased[p] \/ RolledSpent(p, look) < spent[p])) \in BOOLEAN
    OBVIOUS
  <2> QED
    BY <2>1, Zenon DEF TypeOK, Roll
<1> QED
  BY <1>1, <1>2 DEF TypeOK, Roll

\* The rest of a non-empty sequence of policies, and its first member.
LEMMA HeldType ==
  ASSUME TypeOK, Placed, NEW c \in Calls, calls[c].stage = "settle"
  PROVE  /\ Head(calls[c].held) \in Policies
         /\ Tail(calls[c].held) \in Seq(Policies)
<1>1. calls[c].held \in Seq(Policies) /\ calls[c].held # <<>>
  BY DEF TypeOK, Placed, Call
<1> QED
  BY <1>1, HeadTailProperties

LEMMA SettlingType ==
  ASSUME TypeOK, NEW c \in Calls, NEW rest \in Seq(Policies), Settling(c, rest)
  PROVE  /\ calls' \in [Calls -> Call]
         /\ \A d \in Calls : /\ calls'[d].pos = calls[d].pos
                             /\ d # c => calls'[d] = calls[d]
         /\ calls'[c].held = rest
         /\ calls'[c].stage = (IF rest = <<>> THEN "done" ELSE calls[c].stage)
<1>1. "done" \in Stage
  BY DEF Stage, Ended
<1> QED
  BY <1>1 DEF TypeOK, Settling, Call

\* The steps of a reservation keep types and places.
LEMMA ReserveType ==
  ASSUME TypeOK, Placed, NEW c \in Calls, ReserveStep(c)
  PROVE  TypeOK' /\ Placed'
<1> DEFINE p == Policy(c)
           look == calls[c].look
<1>1. /\ p \in Policies \cup {NoPolicy} /\ look \in Look /\ calls[c].held \in Seq(Policies)
      /\ calls[c] \in Call /\ calls[c].pos \in DOMAIN Chain[c]
  BY PolicyType DEF TypeOK, Placed, Call
<1>2. /\ Advanced(c) \in Call /\ Advanced(c).pos \in DOMAIN Chain[c]
      /\ Advanced(c).held = calls[c].held /\ Advanced(c).stage \in {"call", "reap"}
  BY AdvancedType
<1>3. {"read", "reaping", "reserve", "refused", "unavailable", "call"} \subseteq Stage
  BY DEF Stage, Reserving, Ended
<1>4. Expired \subseteq Calls \X Policies
  BY DEF Expired
<1>5. \A s \in Stage \ {"reserve", "settle"} : Enter(c, s) => Placed'
  BY DEF Enter, Placed, TypeOK, Call, Policy
<1>6. CASE ReapReads(c)
  <2>1. snaps' \in [Calls \cup {Sweeper} -> SUBSET (Calls \X Policies)]
    BY <1>4, <1>6 DEF ReapReads, TypeOK
  <2>2. \E s \in {"read", "reaping"} : Enter(c, s)
    BY <1>6 DEF ReapReads
  <2>3. calls' \in [Calls -> Call] /\ Placed'
    BY <1>3, <1>5, <2>2, EnterType
  <2> QED
    BY <1>6, <2>1, <2>3 DEF ReapReads, TypeOK, books, history
<1>7. CASE ReapApplies(c)
  <2>1. snaps' \in [Calls \cup {Sweeper} -> SUBSET (Calls \X Policies)]
    BY <1>7 DEF ReapApplies, TypeOK
  <2>2. calls' \in [Calls -> Call] /\ Placed'
    BY <1>3, <1>5, <1>7, EnterType DEF ReapApplies
  <2> QED
    BY <1>7, <2>1, <2>2, ReapType DEF ReapApplies, TypeOK, HistoryType
<1>8. CASE ScopeIsFree(c)
  <2>1. calls' = [calls EXCEPT ![c] = Advanced(c)]
    BY <1>8 DEF ScopeIsFree
  <2>2. calls' \in [Calls -> Call] /\ Placed'
    BY <1>2, <2>1 DEF TypeOK, Placed, Policy
  <2> QED
    BY <1>8, <2>2 DEF ScopeIsFree, TypeOK, books, history
<1>9. CASE PolicyReads(c)
  <2> DEFINE seen == [spent |-> spent[p], reserved |-> reserved[p],
                      window |-> window[p], now |-> period]
  <2>1. p \in Policies /\ p # NoPolicy
    BY <1>1, <1>9 DEF PolicyReads
  <2>2. seen \in Look
    BY <2>1 DEF TypeOK, Look
  <2>3. calls' = [calls EXCEPT ![c].stage = "reserve", ![c].look = seen]
    BY <1>9 DEF PolicyReads
  <2> HIDE DEF seen, p
  <2>4. calls' \in [Calls -> Call]
    BY <1>1, <1>3, <2>2, <2>3 DEF TypeOK, Call
  <2>5. Placed'
    BY <1>1, <2>1, <2>3 DEF TypeOK, Placed, Call, Policy, p
  <2> QED
    BY <1>9, <2>4, <2>5 DEF PolicyReads, TypeOK, books, history
<1>10. CASE Hold(c)
  <2>1. p \in Policies /\ Estimate[c] \in Nat
    BY <1>1, <1>10, EstimateAssumption DEF Hold, Placed
  <2>2. Append(calls[c].held, p) \in Seq(Policies)
    BY <1>1, <2>1, AppendProperties
  <2>3. calls' = [calls EXCEPT ![c] = [Advanced(c) EXCEPT !.held = Append(@, p)]]
    BY <1>10 DEF Hold
  <2>4. Roll(p, look) /\ reserved' = [reserved EXCEPT ![p] = @ + Estimate[c]]
    BY <1>10 DEF Hold
  <2>5. events' = [events EXCEPT ![c][p] =
                     [status |-> "reserved", cents |-> Estimate[c], lapsed |-> FALSE]]
    BY <1>10 DEF Hold
  <2>6. UNCHANGED <<doubled, period, snaps>>
    BY <1>10 DEF Hold
  <2> HIDE DEF p, look
  <2>7. /\ spent' \in [Policies -> Nat] /\ window' \in [Policies -> 0..MaxPeriod]
        /\ HistoryType'
    BY <1>1, <2>1, <2>4, <2>6, RollType DEF HistoryType, TypeOK
  <2>8. reserved' \in [Policies -> Nat]
    BY <2>1, <2>4 DEF TypeOK
  <2>9. events' \in [Calls -> [Policies -> Event]]
    BY <2>1, <2>5, EventEdits DEF TypeOK
  <2>10. [Advanced(c) EXCEPT !.held = Append(@, p)] \in Call
    BY <1>2, <2>2 DEF Call
  <2>11. calls' \in [Calls -> Call]
    BY <2>3, <2>10 DEF TypeOK
  <2>12. Placed'
    BY <1>2, <2>3 DEF TypeOK, Placed, Call, Policy
  <2> QED
    BY <2>6, <2>7, <2>8, <2>9, <2>11, <2>12 DEF TypeOK, HistoryType
<1>11. CASE Refuse(c)
  <2> DEFINE back == GivenBack(c)
  <2>1. p \in Policies /\ back \subseteq Policies
    BY <1>1, <1>11 DEF Refuse, Placed, GivenBack
  <2>2. /\ spent' \in [Policies -> Nat] /\ window' \in [Policies -> 0..MaxPeriod]
        /\ HistoryType'
    BY <1>1, <1>11, <2>1, RollType DEF Refuse, TypeOK, HistoryType
  <2>3. reserved' \in [Policies -> Nat]
    BY <1>11, LessIsNat DEF Refuse, TypeOK
  <2>4. events' \in [Calls -> [Policies -> Event]]
    BY <1>11, EventEdits DEF Refuse, TypeOK
  <2>5. calls' \in [Calls -> Call] /\ Placed'
    BY <1>3, <1>5, <1>11, EnterType DEF Refuse
  <2> QED
    BY <1>11, <2>2, <2>3, <2>4, <2>5 DEF Refuse, TypeOK, HistoryType
<1>12. CASE ReserveFails(c)
  <2>1. PICK s \in {"call", "unavailable"} :
          calls' = [calls EXCEPT ![c].stage = s, ![c].held = <<>>]
    BY <1>12 DEF ReserveFails
  <2>2. [calls[c] EXCEPT !.stage = s, !.held = <<>>] \in Call
    <3>1. s \in Stage /\ <<>> \in Seq(Policies)
      BY <1>3
    <3> QED
      BY <1>1, <3>1 DEF Call
  <2>3. calls' \in [Calls -> Call]
    BY <2>1, <2>2 DEF TypeOK
  <2>4. Placed'
    <3>1. \A d \in Calls : /\ calls'[d].pos = calls[d].pos
                           /\ d # c => calls'[d] = calls[d]
      BY <1>1, <2>1 DEF TypeOK, Call
    <3>2. calls'[c].stage \in {"call", "unavailable"}
      BY <1>1, <2>1 DEF TypeOK, Call
    <3> QED
      BY <3>1, <3>2 DEF Placed, Policy
  <2> QED
    BY <1>12, <2>3, <2>4 DEF ReserveFails, TypeOK, books, history
<1> QED
  BY <1>6, <1>7, <1>8, <1>9, <1>10, <1>11, <1>12 DEF ReserveStep

\* So do those of a settlement.
LEMMA SettleType ==
  ASSUME TypeOK, Placed, NEW c \in Calls, SettleStep(c)
  PROVE  TypeOK' /\ Placed'
<1> DEFINE p == Head(calls[c].held)
           k == calls[c].cost
<1>1. calls[c].stage = "settle"
  BY DEF SettleStep, Commit, Release, SettlesLate, SettleFails
<1>2. /\ p \in Policies /\ Tail(calls[c].held) \in Seq(Policies) /\ <<>> \in Seq(Policies)
      /\ k \in Nat
  <2>1. calls[c] \in Call
    BY DEF TypeOK
  <2> QED
    BY <1>1, <2>1, HeldType DEF Call
<1>3. ASSUME NEW rest \in Seq(Policies), Settling(c, rest)
      PROVE  calls' \in [Calls -> Call] /\ Placed'
  <2>1. /\ calls' \in [Calls -> Call] /\ calls'[c].held = rest
        /\ \A d \in Calls : calls'[d].pos = calls[d].pos /\ (d # c => calls'[d] = calls[d])
        /\ calls'[c].stage = (IF rest = <<>> THEN "done" ELSE calls[c].stage)
    BY <1>3, SettlingType
  <2> QED
    BY <1>1, <2>1 DEF Placed, Policy
<1>4. CASE Commit(c)
  <2>1. /\ reserved' = [reserved EXCEPT ![p] = Less(reserved[p], Estimate[c])]
        /\ spent' = [spent EXCEPT ![p] = @ + k]
        /\ events' = [events EXCEPT ![c][p].status = "committed", ![c][p].cents = k]
        /\ Settling(c, Tail(calls[c].held))
        /\ paid' = [paid EXCEPT ![p] = @ + k]
        /\ UNCHANGED <<window, opened, erased, doubled, period, snaps>>
    BY <1>4 DEF Commit
  <2> HIDE DEF p, k
  <2>2. /\ reserved' \in [Policies -> Nat] /\ spent' \in [Policies -> Nat]
        /\ paid' \in [Policies -> Nat]
    <3>1. /\ reserved \in [Policies -> Nat] /\ spent \in [Policies -> Nat]
          /\ paid \in [Policies -> Nat]
      BY DEF TypeOK
    <3>2. Less(reserved[p], Estimate[c]) \in Nat
      BY <1>2, <3>1, LessIsNat
    <3>3. spent[p] + k \in Nat /\ paid[p] + k \in Nat
      BY <1>2, <3>1
    <3> QED
      BY <2>1, <3>1, <3>2, <3>3, Zenon
  <2>3. events' \in [Calls -> [Policies -> Event]]
    BY <1>2, <2>1, EventEdits DEF TypeOK
  <2> QED
    BY <1>2, <1>3, <2>1, <2>2, <2>3 DEF TypeOK
<1>5. CASE Release(c)
  <2>1. /\ reserved' = [reserved EXCEPT ![p] = Less(@, Estimate[c])]
        /\ events' = [events EXCEPT ![c][p] = Released(@)]
        /\ Settling(c, Tail(calls[c].held))
        /\ UNCHANGED <<spent, window, history, period, snaps>>
    BY <1>5 DEF Release
  <2> HIDE DEF p
  <2>2. reserved' \in [Policies -> Nat]
    BY <1>2, <2>1, LessIsNat DEF TypeOK
  <2>3. events' \in [Calls -> [Policies -> Event]]
    BY <1>2, <2>1, EventEdits DEF TypeOK
  <2> QED
    BY <1>2, <1>3, <2>1, <2>2, <2>3 DEF TypeOK, history
<1>6. CASE SettlesLate(c) \/ SettleFails(c)
  <2>1. PICK rest \in Seq(Policies) : Settling(c, rest)
    BY <1>2, <1>6 DEF SettlesLate, SettleFails
  <2>2. UNCHANGED <<books, period, events, snaps>>
    BY <1>6 DEF SettlesLate, SettleFails
  <2> QED
    BY <1>3, <2>1, <2>2 DEF TypeOK, books, history
<1> QED
  BY <1>4, <1>5, <1>6 DEF SettleStep

LEMMA StepType ==
  ASSUME TypeOK, Placed, [Next]_vars
  PROVE  TypeOK' /\ Placed'
<1>1. ASSUME NEW c \in Calls, Dies(c) PROVE TypeOK' /\ Placed'
  <2>1. calls' \in [Calls -> Call]
    BY <1>1, EnterType DEF Dies, Stage, Ended
  <2>2. snaps' \in [Calls \cup {Sweeper} -> SUBSET (Calls \X Policies)]
    BY <1>1 DEF Dies, TypeOK
  <2>3. Placed'
    BY <1>1 DEF Dies, Enter, Placed, Policy, TypeOK, Call
  <2> QED
    BY <1>1, <2>1, <2>2, <2>3 DEF Dies, TypeOK, books, history
<1>2. ASSUME NEW c \in Calls, NEW cost \in Costs, CallEnds(c, cost) PROVE TypeOK' /\ Placed'
  <2>1. PICK s \in {"done", "settle"} :
          /\ calls' = [calls EXCEPT ![c].cost = cost, ![c].stage = s]
          /\ s = "settle" => calls[c].held # <<>>
    BY <1>2 DEF CallEnds
  <2>2. s \in Stage /\ cost \in Nat /\ calls[c] \in Call
    BY EstimateAssumption DEF Stage, Ended, TypeOK
  <2>3. [calls[c] EXCEPT !.cost = cost, !.stage = s] \in Call
    BY <2>2 DEF Call
  <2>4. calls' \in [Calls -> Call]
    BY <2>1, <2>3 DEF TypeOK
  <2>5. Placed'
    BY <2>1, <2>2 DEF Placed, Policy, TypeOK, Call
  <2> QED
    BY <1>2, <2>4, <2>5 DEF CallEnds, TypeOK, books, history
<1>3. CASE SweepReads \/ SweepApplies \/ SweepFails
  <2>1. UNCHANGED calls
    BY <1>3 DEF SweepReads, SweepApplies, SweepFails
  <2>2. Placed' /\ calls' \in [Calls -> Call]
    BY <2>1 DEF Placed, Policy, TypeOK
  <2>3. snaps' \in [Calls \cup {Sweeper} -> SUBSET (Calls \X Policies)]
    BY <1>3 DEF SweepReads, SweepApplies, SweepFails, TypeOK, Expired
  <2>4. CASE SweepApplies
    BY <2>2, <2>3, <2>4, ReapType DEF SweepApplies, TypeOK, HistoryType
  <2>5. CASE SweepReads \/ SweepFails
    BY <2>2, <2>3, <2>5 DEF SweepReads, SweepFails, TypeOK, books, history
  <2> QED
    BY <1>3, <2>4, <2>5
<1>4. ASSUME NEW c \in Calls, NEW p \in Policies, HoldLapses(c, p) PROVE TypeOK' /\ Placed'
  <2>1. events' \in [Calls -> [Policies -> Event]]
    BY <1>4, EventEdits DEF HoldLapses, TypeOK
  <2> QED
    BY <1>4, <2>1 DEF HoldLapses, TypeOK, Placed, Policy, books, history
<1>5. CASE WindowTurns
  BY <1>5, BoundAssumption DEF WindowTurns, TypeOK, Placed, Policy, books, history
<1>6. CASE UNCHANGED vars
  BY <1>6 DEF vars, books, history, TypeOK, Placed, Policy
<1> QED
  BY <1>1, <1>2, <1>3, <1>4, <1>5, <1>6, ReserveType, SettleType DEF Next

LEMMA InitType == Init => TypeOK /\ Placed
<1> SUFFICES ASSUME Init PROVE TypeOK /\ Placed
  OBVIOUS
<1>1. NoEvent \in Event /\ NoLook \in Look /\ "reap" \in Stage /\ <<>> \in Seq(Policies)
  BY BoundAssumption DEF NoEvent, Event, NoLook, Look, Stage, Reserving
<1>2. [stage |-> "reap", pos |-> 1, look |-> NoLook, held |-> <<>>, cost |-> 0] \in Call
  BY <1>1 DEF Call
<1>3. \A c \in Calls : 1 \in DOMAIN Chain[c]
  BY ChainAssumption
<1> QED
  BY <1>1, <1>2, <1>3, BoundAssumption DEF Init, TypeOK, Placed, Unset

LEMMA TypeAndPlace == Spec => [](TypeOK /\ Placed)
<1>1. TypeOK /\ Placed /\ [Next]_vars => (TypeOK /\ Placed)'
  BY StepType
<1> QED
  BY <1>1, InitType, PTL DEF Spec

\* The ledger's variables keep their types (TypeOK): no counter of budget_policies
\* goes below zero, however often and by whomever a hold is given back.
THEOREM TypeCorrect == Spec => []TypeOK
BY TypeAndPlace, PTL

-----------------------------------------------------------------------------
(* What a step may do to the rows of the holds.                            *)

\* A row that is not "reserved" is written by a reservation of its own call only,
\* at the scope the call has reached.
LEMMA RowSteps ==
  ASSUME TypeOK, Placed, [Next]_vars, NEW c \in Calls, NEW p \in Policies,
         events[c][p].status # "reserved", events'[c][p] # events[c][p]
  PROVE  Hold(c) /\ p = Policy(c)
<1>1. ASSUME NEW snap, Reap(snap) PROVE FALSE
  <2>1. events'[c][p] = IF <<c, p>> \in snap /\ events[c][p].status = "reserved"
                          THEN Released(events[c][p]) ELSE events[c][p]
    BY <1>1, Zenon DEF Reap
  <2> QED
    BY <2>1
<1>2. \A d \in Calls : ~ReapApplies(d)
  BY <1>1 DEF ReapApplies
<1>3. \A d \in Calls : ~Refuse(d)
  <2>1. \A d \in Calls : p \in GivenBack(d) => events[d][p].status = "reserved"
    BY DEF GivenBack
  <2> QED
    BY <2>1 DEF Refuse, TypeOK
<1>4. ASSUME NEW d \in Calls, SettleStep(d) PROVE FALSE
  <2>1. CASE Commit(d)
    BY <2>1 DEF Commit, StillReserved, TypeOK
  <2>2. CASE Release(d)
    BY <2>2 DEF Release, StillReserved, TypeOK
  <2>3. CASE SettlesLate(d) \/ SettleFails(d)
    BY <2>3 DEF SettlesLate, SettleFails
  <2> QED
    BY <1>4, <2>1, <2>2, <2>3 DEF SettleStep
<1>5. ASSUME NEW d \in Calls, ReserveStep(d) PROVE Hold(c) /\ p = Policy(c)
  <2>1. Hold(d)
    BY <1>2, <1>3, <1>5 DEF ReserveStep, ReapReads, ScopeIsFree, PolicyReads, ReserveFails
  <2>2. d = c /\ p = Policy(d)
    BY <2>1 DEF Hold, TypeOK
  <2> QED
    BY <2>1, <2>2
<1>6. \A d \in Calls, q \in Policies : ~HoldLapses(d, q)
  BY DEF HoldLapses, TypeOK
<1> QED
  BY <1>1, <1>4, <1>5, <1>6
     DEF Next, vars, Dies, CallEnds, SweepReads, SweepApplies, SweepFails, WindowTurns

\* A row that was written stays written.
LEMMA RowsStay ==
  ASSUME TypeOK, Placed, [Next]_vars, NEW c \in Calls, NEW p \in Policies,
         events[c][p].status # "none"
  PROVE  events'[c][p].status # "none"
<1>1. events[c][p] \in Event /\ Released(events[c][p]).status = "released"
  BY DEF TypeOK, Event, Released
<1>2. ASSUME NEW snap, Reap(snap) PROVE events'[c][p].status # "none"
  <2>1. events'[c][p] = IF <<c, p>> \in snap /\ events[c][p].status = "reserved"
                          THEN Released(events[c][p]) ELSE events[c][p]
    BY <1>2, Zenon DEF Reap
  <2> QED
    BY <1>1, <2>1
<1>3. ASSUME NEW d \in Calls, Hold(d) PROVE events'[c][p].status # "none"
  BY <1>3 DEF Hold, TypeOK
<1>4. ASSUME NEW d \in Calls, Refuse(d) PROVE events'[c][p].status # "none"
  BY <1>1, <1>4 DEF Refuse, TypeOK
<1>5. ASSUME NEW d \in Calls, Commit(d) PROVE events'[c][p].status # "none"
  BY <1>1, <1>5 DEF Commit, TypeOK, Event
<1>6. ASSUME NEW d \in Calls, Release(d) PROVE events'[c][p].status # "none"
  BY <1>1, <1>6 DEF Release, TypeOK
<1>7. ASSUME NEW d \in Calls, NEW q \in Policies, HoldLapses(d, q)
      PROVE  events'[c][p].status # "none"
  BY <1>1, <1>7 DEF HoldLapses, TypeOK, Event
<1> QED
  BY <1>2, <1>3, <1>4, <1>5, <1>6, <1>7
     DEF Next, vars, ReserveStep, SettleStep, ReapReads, ReapApplies, ScopeIsFree, PolicyReads,
         ReserveFails, SettlesLate, SettleFails, Dies, CallEnds, SweepReads, SweepApplies,
         SweepFails, WindowTurns

\* What may become of a call in one step.
Same(c) ==
  /\ calls'[c].pos = calls[c].pos /\ calls'[c].held = calls[c].held
  /\ \/ calls'[c].stage = calls[c].stage
     \/ calls[c].stage \in Reserving /\ calls'[c].stage \in Reserving

LEMMA CallMoves ==
  ASSUME TypeOK, Placed, [Next]_vars, NEW c \in Calls
  PROVE  \/ Same(c) /\ ~Hold(c)
         \/ ScopeIsFree(c) \/ Hold(c) \/ Refuse(c) \/ ReserveFails(c)
         \/ calls[c].stage \in {"call", "settle"} /\ calls'[c].stage \in {"settle", "done"}
         \/ calls'[c].stage = "gone"
<1> SUFFICES ASSUME ~Hold(c), ~ScopeIsFree(c), ~Refuse(c), ~ReserveFails(c)
             PROVE  \/ Same(c)
                    \/ calls[c].stage \in {"call", "settle"} /\ calls'[c].stage \in {"settle", "done"}
                    \/ calls'[c].stage = "gone"
  OBVIOUS
<1>1. calls[c] \in Call
  BY DEF TypeOK
<1>2. ASSUME NEW d \in Calls, ReserveStep(d) PROVE Same(c)
  <2>1. CASE d = c
    <3>1. CASE ReapReads(c) \/ ReapApplies(c)
      BY <1>1, <3>1 DEF ReapReads, ReapApplies, Enter, Same, Reserving, TypeOK, Call
    <3>2. CASE PolicyReads(c)
      BY <1>1, <3>2 DEF PolicyReads, Same, Reserving, TypeOK, Call
    <3> QED
      BY <1>2, <2>1, <3>1, <3>2 DEF ReserveStep
  <2>2. CASE d # c
    BY <1>2, <2>2 DEF ReserveStep, ReapReads, ReapApplies, ScopeIsFree, PolicyReads, Hold, Refuse,
                      ReserveFails, Enter, Same, TypeOK
  <2> QED
    BY <2>1, <2>2
<1>3. ASSUME NEW d \in Calls, SettleStep(d)
      PROVE  \/ Same(c)
             \/ calls[c].stage \in {"call", "settle"} /\ calls'[c].stage \in {"settle", "done"}
  <2>1. PICK rest : calls[d].stage = "settle" /\ Settling(d, rest)
    BY <1>3 DEF SettleStep, Commit, Release, SettlesLate, SettleFails
  <2> QED
    BY <1>1, <2>1 DEF Settling, Same, TypeOK, Call
<1>4. ASSUME NEW d \in Calls, Dies(d) PROVE Same(c) \/ calls'[c].stage = "gone"
  BY <1>1, <1>4 DEF Dies, Enter, Same, TypeOK, Call
<1>5. ASSUME NEW d \in Calls, NEW cost \in Costs, CallEnds(d, cost)
      PROVE  \/ Same(c)
             \/ calls[c].stage \in {"call", "settle"} /\ calls'[c].stage \in {"settle", "done"}
  BY <1>1, <1>5 DEF CallEnds, Same, TypeOK, Call
<1>6. CASE UNCHANGED calls
  BY <1>6 DEF Same
<1> QED
  BY <1>2, <1>3, <1>4, <1>5, <1>6
     DEF Next, vars, SweepReads, SweepApplies, SweepFails, HoldLapses, WindowTurns

-----------------------------------------------------------------------------
(* The chain.                                                              *)

\* While a call reserves, it has a row at the policies of the scopes it has passed,
\* none at those ahead, and knows every hold of its that is still open.
WalkedBy(c) ==
  calls[c].stage \in Reserving =>
    /\ \A i \in DOMAIN Chain[c] : Chain[c][i] # NoPolicy =>
         (events[c][Chain[c][i]].status # "none" <=> i < calls[c].pos)
    /\ \A p \in Policies : events[c][p].status = "reserved" =>
         \E i \in DOMAIN calls[c].held : calls[c].held[i] = p

\* RefusedHoldsNothing and HeldInEveryScope, of one call.
NothingHeld(c) ==
  calls[c].stage = "refused" => \A p \in Policies : events[c][p].status # "reserved"
HeldEverywhere(c) ==
  ~FailOpen /\ calls[c].stage \in {"call", "settle", "done"} =>
    \A i \in DOMAIN Chain[c] : Chain[c][i] # NoPolicy => events[c][Chain[c][i]].status # "none"

ChainInvOf(c) == WalkedBy(c) /\ NothingHeld(c) /\ HeldEverywhere(c)
ChainInv == \A c \in Calls : ChainInvOf(c)

LEMMA ChainInvImplies == ChainInv => RefusedHoldsNothing /\ HeldInEveryScope
BY DEF ChainInv, ChainInvOf, RefusedHoldsNothing, NothingHeld, HeldInEveryScope, HeldEverywhere

\* A step that is no reservation of the call opens none of its rows.
LEMMA NothingOpens ==
  ASSUME TypeOK, Placed, [Next]_vars, NEW c \in Calls, ~Hold(c), NEW p \in Policies
  PROVE  /\ events'[c][p].status = "none" <=> events[c][p].status = "none"
         /\ events'[c][p].status = "reserved" => events[c][p].status = "reserved"
BY RowSteps, RowsStay

LEMMA ChainStep ==
  ASSUME TypeOK, Placed, ChainInv, [Next]_vars, NEW c \in Calls
  PROVE  ChainInvOf(c)'
<1>1. WalkedBy(c) /\ NothingHeld(c) /\ HeldEverywhere(c)
  BY DEF ChainInv, ChainInvOf
<1>2. \A i \in DOMAIN Chain[c] : Chain[c][i] \in Policies \cup {NoPolicy}
  BY ChainAssumption
<1>3. /\ calls[c].pos \in DOMAIN Chain[c] /\ DOMAIN Chain[c] = 1..Len(Chain[c])
      /\ Len(Chain[c]) \in Nat
  BY ChainAssumption DEF Placed
<1>4. "call" \notin Reserving /\ "refused" \notin Reserving /\ "reap" \in Reserving
  BY DEF Reserving
<1>5. CASE Same(c) /\ ~Hold(c)
  <2>1. WalkedBy(c)'
    BY <1>1, <1>2, <1>5, NothingOpens DEF Same, WalkedBy
  <2>2. NothingHeld(c)' /\ HeldEverywhere(c)'
    BY <1>1, <1>2, <1>4, <1>5, NothingOpens DEF Same, NothingHeld, HeldEverywhere, Reserving
  <2> QED
    BY <2>1, <2>2 DEF ChainInvOf
<1>6. CASE ScopeIsFree(c)
  <2>1. /\ calls'[c] = Advanced(c) /\ UNCHANGED events /\ calls[c].stage \in Reserving
        /\ Chain[c][calls[c].pos] = NoPolicy
    BY <1>6 DEF ScopeIsFree, Policy, TypeOK, Reserving
  <2>2. CASE LastScope(c)
    <3>1. calls'[c].stage = "call" /\ calls[c].pos = Len(Chain[c])
      BY <2>1, <2>2 DEF Advanced, LastScope, TypeOK, Call
    <3>2. \A i \in DOMAIN Chain[c] : Chain[c][i] # NoPolicy => i < calls[c].pos
      BY <1>3, <2>1, <3>1
    <3> QED
      BY <1>1, <1>4, <2>1, <3>1, <3>2 DEF ChainInvOf, WalkedBy, NothingHeld, HeldEverywhere
  <2>3. CASE ~LastScope(c)
    <3>1. /\ calls'[c].stage = "reap" /\ calls'[c].pos = calls[c].pos + 1
          /\ calls'[c].held = calls[c].held
      BY <2>1, <2>3 DEF Advanced, TypeOK, Call
    <3>2. \A i \in DOMAIN Chain[c] : Chain[c][i] # NoPolicy =>
            (i < calls'[c].pos <=> i < calls[c].pos)
      BY <1>3, <2>1, <3>1
    <3> QED
      BY <1>1, <2>1, <3>1, <3>2 DEF ChainInvOf, WalkedBy, NothingHeld, HeldEverywhere
  <2> QED
    BY <2>2, <2>3
<1>7. CASE Hold(c)
  <2> DEFINE p == Policy(c)
  <2>1. /\ calls[c].stage = "reserve" /\ p = Chain[c][calls[c].pos] /\ p # NoPolicy
        /\ p \in Policies
    BY <1>2, <1>3, <1>7 DEF Hold, Policy, Placed
  <2>2. calls'[c] = [Advanced(c) EXCEPT !.held = Append(@, p)]
    BY <1>7 DEF Hold, TypeOK
  <2>3. /\ events'[c][p].status = "reserved"
        /\ \A q \in Policies \ {p} : events'[c][q] = events[c][q]
    BY <1>7, <2>1 DEF Hold, TypeOK
  <2> HIDE DEF p
  <2>4. \A i \in DOMAIN Chain[c] : i # calls[c].pos => Chain[c][i] # p
    BY <1>3, <2>1, ChainAssumption
  <2>5. \A i \in DOMAIN Chain[c] : Chain[c][i] # NoPolicy =>
          (events'[c][Chain[c][i]].status # "none" <=> i <= calls[c].pos)
    BY <1>1, <1>2, <1>3, <2>1, <2>3, <2>4 DEF WalkedBy, Reserving
  <2>6. /\ Advanced(c) \in Call /\ Advanced(c).held = calls[c].held
        /\ calls[c].held \in Seq(Policies)
    BY AdvancedType DEF TypeOK, Call
  <2>7. /\ calls'[c].held = Append(calls[c].held, p) /\ calls'[c].stage = Advanced(c).stage
        /\ calls'[c].pos = Advanced(c).pos
    BY <2>2, <2>6 DEF Call
  <2>8. \A q \in Policies : events'[c][q].status = "reserved" =>
          \E i \in DOMAIN calls'[c].held : calls'[c].held[i] = q
    <3>1. /\ DOMAIN calls'[c].held = 1..(Len(calls[c].held) + 1)
          /\ DOMAIN calls[c].held = 1..Len(calls[c].held) /\ Len(calls[c].held) \in Nat
          /\ \A i \in 1..Len(calls[c].held) : calls'[c].held[i] = calls[c].held[i]
          /\ calls'[c].held[Len(calls[c].held) + 1] = p
      BY <2>1, <2>6, <2>7, AppendProperties
    <3>2. \A q \in Policies : events[c][q].status = "reserved" =>
            \E i \in DOMAIN calls[c].held : calls[c].held[i] = q
      BY <1>1, <2>1 DEF WalkedBy, Reserving
    <3>3. ASSUME NEW q \in Policies, events'[c][q].status = "reserved"
          PROVE  \E i \in DOMAIN calls'[c].held : calls'[c].held[i] = q
      <4>1. CASE q = p
        BY <3>1, <4>1
      <4>2. CASE q # p
        BY <2>3, <3>1, <3>2, <3>3, <4>2
      <4> QED
        BY <4>1, <4>2
    <3> QED
      BY <3>3
  <2>9. CASE LastScope(c)
    <3>1. calls'[c].stage = "call" /\ calls[c].pos = Len(Chain[c])
      BY <2>7, <2>9 DEF Advanced, LastScope, TypeOK, Call
    <3> QED
      BY <1>3, <1>4, <2>5, <3>1 DEF ChainInvOf, WalkedBy, NothingHeld, HeldEverywhere
  <2>10. CASE ~LastScope(c)
    <3>1. calls'[c].stage = "reap" /\ calls'[c].pos = calls[c].pos + 1
      BY <2>7, <2>10 DEF Advanced, TypeOK, Call
    <3>2. \A i \in DOMAIN Chain[c] : i < calls'[c].pos <=> i <= calls[c].pos
      BY <1>3, <3>1
    <3> QED
      BY <2>5, <2>8, <3>1, <3>2 DEF ChainInvOf, WalkedBy, NothingHeld, HeldEverywhere
  <2> QED
    BY <2>9, <2>10
<1>8. CASE Refuse(c)
  <2>1. calls[c].stage = "reserve" /\ calls'[c].stage = "refused"
    BY <1>8 DEF Refuse, Enter, TypeOK, Call
  <2>2. \A q \in Policies : events[c][q].status = "reserved" => q \in GivenBack(c)
    BY <1>1, <2>1 DEF WalkedBy, Reserving, GivenBack
  <2>3. \A q \in Policies : Released(events[c][q]).status = "released"
    BY DEF Released, TypeOK, Event
  <2>4. \A q \in Policies : events'[c][q] =
          IF q \in GivenBack(c) THEN Released(events[c][q]) ELSE events[c][q]
    BY <1>8 DEF Refuse, TypeOK
  <2>5. \A q \in Policies : events'[c][q].status # "reserved"
    BY <2>2, <2>3, <2>4
  <2> QED
    BY <1>4, <2>1, <2>5 DEF ChainInvOf, WalkedBy, NothingHeld, HeldEverywhere
<1>9. CASE ReserveFails(c)
  <2>1. calls'[c].stage = IF FailOpen THEN "call" ELSE "unavailable"
    BY <1>9 DEF ReserveFails, TypeOK, Call
  <2>2. calls'[c].stage \notin Reserving
    BY <2>1 DEF Reserving
  <2> QED
    BY <2>1, <2>2 DEF ChainInvOf, WalkedBy, NothingHeld, HeldEverywhere
<1>10. CASE /\ calls[c].stage \in {"call", "settle"} /\ calls'[c].stage \in {"settle", "done"}
  <2>1. calls'[c].stage \notin Reserving /\ ~Hold(c)
    BY <1>10 DEF Reserving, Hold
  <2> QED
    BY <1>1, <1>2, <1>10, <2>1, NothingOpens
       DEF ChainInvOf, WalkedBy, NothingHeld, HeldEverywhere
<1>11. CASE calls'[c].stage = "gone"
  BY <1>11 DEF ChainInvOf, WalkedBy, NothingHeld, HeldEverywhere, Reserving
<1> QED
  BY <1>5, <1>6, <1>7, <1>8, <1>9, <1>10, <1>11, CallMoves

LEMMA ChainInvariant == Spec => []ChainInv
<1>1. Init => ChainInv
  <2> SUFFICES ASSUME Init, NEW c \in Calls PROVE ChainInvOf(c)
    BY DEF ChainInv
  <2>1. /\ calls[c].stage = "reap" /\ calls[c].pos = 1
        /\ \A p \in Policies : events[c][p].status = "none"
    BY DEF Init, NoEvent
  <2>2. /\ \A i \in DOMAIN Chain[c] : ~(i < 1)
        /\ \A i \in DOMAIN Chain[c] : Chain[c][i] \in Policies \cup {NoPolicy}
    BY ChainAssumption
  <2> QED
    BY <2>1, <2>2 DEF ChainInvOf, WalkedBy, NothingHeld, HeldEverywhere
<1>2. TypeOK /\ Placed /\ ChainInv /\ [Next]_vars => ChainInv'
  BY ChainStep DEF ChainInv
<1> QED
  BY <1>1, <1>2, TypeAndPlace, PTL DEF Spec

\* A refused call holds nothing in any scope (RefusedHoldsNothing): reserve_chain
\* knows every hold that is still open when it rolls them back.
THEOREM RefusedHoldsNothingHolds == Spec => []RefusedHoldsNothing
BY ChainInvariant, ChainInvImplies, PTL

\* No call runs unheld in a scope that has a policy (HeldInEveryScope).
THEOREM HeldInEveryScopeHolds == Spec => []HeldInEveryScope
BY ChainInvariant, ChainInvImplies, PTL

\* A settled or released row is written no more.
LEMMA ClosedStays ==
  ASSUME TypeOK, Placed, ChainInv, [Next]_vars, NEW c \in Calls, NEW p \in Policies,
         events[c][p].status \in Closed
  PROVE  events'[c][p] = events[c][p]
<1> SUFFICES ASSUME events'[c][p] # events[c][p] PROVE FALSE
  OBVIOUS
<1>1. events[c][p].status # "reserved" /\ events[c][p].status # "none"
  BY DEF Closed
<1>2. Hold(c) /\ p = Policy(c)
  BY <1>1, RowSteps
<1>3. /\ calls[c].stage \in Reserving /\ p = Chain[c][calls[c].pos] /\ p # NoPolicy
      /\ calls[c].pos \in DOMAIN Chain[c] /\ calls[c].pos \in Nat
  BY <1>2, PolicyAssumption DEF Hold, Reserving, Policy, Placed, TypeOK, Call
<1>4. events[c][p].status # "none" <=> calls[c].pos < calls[c].pos
  BY <1>3 DEF ChainInv, ChainInvOf, WalkedBy
<1> QED
  BY <1>1, <1>3, <1>4

\* A settled or released hold keeps its status and its cents (ClosedIsFinal).
THEOREM ClosedIsFinalHolds == Spec => ClosedIsFinal
<1> DEFINE Final == \A c \in Calls, p \in Policies :
                      events[c][p].status \in Closed => events'[c][p] = events[c][p]
<1>1. TypeOK /\ Placed /\ ChainInv /\ [Next]_vars => [Final]_vars
  BY ClosedStays
<1> QED
  BY <1>1, TypeAndPlace, ChainInvariant, PTL DEF Spec, ClosedIsFinal
=============================================================================
