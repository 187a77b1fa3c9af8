------------------------- MODULE BudgetSums_proofs -------------------------
(***************************************************************************)
(* Theorems about the counters of BudgetLedger and the rows they sum, for  *)
(* any calls, policies, chains, limits, estimates and costs.               *)
(*                                                                         *)
(* The sum is a fold.  The library's facts about folds take operators as   *)
(* parameters, so those the proofs need are proved here: a sum counts the  *)
(* units of its terms, and what is known of cardinalities does the rest.   *)
(***************************************************************************)
EXTENDS BudgetLedger_proofs, FiniteSetTheorems, WellFoundedInduction

-----------------------------------------------------------------------------
(* Sums.                                                                   *)

\* Induction over the subsets of a finite set.  Good is the set of those for which
\* the claim holds: every other one has a member whose removal leads to the claim.
LEMMA SetInduction ==
  ASSUME NEW S, IsFiniteSet(S), NEW Good, {} \in Good,
         \A T \in SUBSET S : T # {} => \E x \in T : T \ {x} \in Good => T \in Good
  PROVE  \A T \in SUBSET S : T \in Good
<1> DEFINE Bad == {T \in SUBSET S : T \notin Good}
<1> SUFFICES ASSUME Bad # {} PROVE FALSE
  OBVIOUS
<1>1. IsWellFoundedOn(StrictSubsetOrdering(S), FiniteSubsetsOf(S))
  BY FS_StrictSubsetOrderingWellFounded
<1>2. Bad \subseteq FiniteSubsetsOf(S)
  BY FS_FiniteSubsetsOfFinite
<1>3. PICK T \in Bad : \A U \in Bad : <<U, T>> \notin StrictSubsetOrdering(S)
  <2> HIDE DEF Bad
  <2> QED
    BY <1>1, <1>2, WFMin
<1>4. PICK x \in T : T \ {x} \notin Good
  BY <1>3
<1>5. T \ {x} \in Bad /\ <<T \ {x}, T>> \in StrictSubsetOrdering(S)
  BY <1>3, <1>4 DEF StrictSubsetOrdering
<1> QED
  BY <1>3, <1>5

\* The units a sum counts: f[x] of them for each x of T.
Units(f, T) == {u \in T \X Nat : u[2] \in 1..f[u[1]]}

LEMMA UnitsSplit ==
  ASSUME NEW T, NEW f, NEW x \in T, f[x] \in Nat
  PROVE  /\ Units(f, T) = Units(f, T \ {x}) \cup ({x} \X (1..f[x]))
         /\ Units(f, T \ {x}) \cap ({x} \X (1..f[x])) = {}
<1>1. \A u \in {x} \X (1..f[x]) : u \in Units(f, T) /\ u \notin Units(f, T \ {x})
  BY DEF Units
<1>2. \A u \in Units(f, T) : u \in Units(f, T \ {x}) \/ u \in {x} \X (1..f[x])
  BY DEF Units
<1>3. Units(f, T \ {x}) \subseteq Units(f, T)
  BY DEF Units
<1> QED
  BY <1>1, <1>2, <1>3

LEMMA UnitsOfOne ==
  ASSUME NEW x, NEW n \in Nat
  PROVE  IsFiniteSet({x} \X (1..n)) /\ Cardinality({x} \X (1..n)) = n
<1>1. IsFiniteSet({x}) /\ Cardinality({x}) = 1
  BY FS_Singleton
<1>2. IsFiniteSet(1..n) /\ Cardinality(1..n) = n
  BY FS_Interval
<1>3. /\ IsFiniteSet({x} \X (1..n))
      /\ Cardinality({x} \X (1..n)) = Cardinality({x}) * Cardinality(1..n)
  BY <1>1, <1>2, FS_Product
<1> QED
  BY <1>1, <1>2, <1>3

LEMMA UnitsFinite ==
  ASSUME NEW S, IsFiniteSet(S), NEW f, \A x \in S : f[x] \in Nat
  PROVE  \A T \in SUBSET S : IsFiniteSet(Units(f, T)) /\ Cardinality(Units(f, T)) \in Nat
<1> DEFINE Good == {T \in SUBSET S : IsFiniteSet(Units(f, T))}
<1>1. {} \in Good
  BY FS_EmptySet DEF Units
<1>2. ASSUME NEW T \in SUBSET S, NEW x \in T, T \ {x} \in Good PROVE T \in Good
  <2>1. IsFiniteSet(Units(f, T \ {x})) /\ IsFiniteSet({x} \X (1..f[x]))
    BY <1>2, UnitsOfOne
  <2>2. IsFiniteSet(Units(f, T \ {x}) \cup ({x} \X (1..f[x])))
    BY <2>1, FS_Union
  <2>3. Units(f, T) = Units(f, T \ {x}) \cup ({x} \X (1..f[x]))
    BY UnitsSplit
  <2>4. IsFiniteSet(Units(f, T))
    BY <2>2, <2>3
  <2> QED
    BY <2>4
<1> HIDE DEF Good
<1>3. ASSUME NEW T \in SUBSET S, T # {}
      PROVE  \E x \in T : T \ {x} \in Good => T \in Good
  BY <1>2, <1>3
<1>4. \A T \in SUBSET S : T \in Good
  BY <1>1, <1>3, SetInduction
<1> QED
  BY <1>4, FS_CardinalityType DEF Good

LEMMA UnitsAdd ==
  ASSUME NEW S, IsFiniteSet(S), NEW f, \A x \in S : f[x] \in Nat,
         NEW T \in SUBSET S, NEW x \in T
  PROVE  Cardinality(Units(f, T)) = f[x] + Cardinality(Units(f, T \ {x}))
<1> DEFINE A == Units(f, T \ {x})
           B == {x} \X (1..f[x])
<1>1. /\ IsFiniteSet(A) /\ IsFiniteSet(B) /\ Cardinality(B) = f[x]
      /\ Cardinality(A) \in Nat
  BY UnitsFinite, UnitsOfOne
<1>2. A \cap B = {} /\ Units(f, T) = A \cup B
  BY UnitsSplit
<1>3. Cardinality(A \cap B) = 0
  BY <1>2, FS_EmptySet
<1> HIDE DEF A, B
<1>4. Cardinality(A \cup B) = Cardinality(A) + Cardinality(B) - Cardinality(A \cap B)
  BY <1>1, FS_Union
<1>5. f[x] \in Nat
  OBVIOUS
<1> QED
  BY <1>1, <1>2, <1>3, <1>4, <1>5 DEF A

\* The recursion inside the fold: the function it computes a sum with.
Picked(T) == CHOOSE x \in T : TRUE
Unfolds(f, S, g) ==
  g = [T \in SUBSET S |-> IF T = {} THEN 0 ELSE f[Picked(T)] + g[T \ {Picked(T)}]]

LEMMA PickedIn == \A T : T # {} => Picked(T) \in T
BY Zenon DEF Picked

\* The count of the units satisfies the recursion, and nothing else does.
LEMMA SumIsCount ==
  ASSUME NEW S, IsFiniteSet(S), NEW f, \A x \in S : f[x] \in Nat
  PROVE  Sum(f, S) = Cardinality(Units(f, S))
<1> DEFINE count == [T \in SUBSET S |-> Cardinality(Units(f, T))]
           iter == CHOOSE g : Unfolds(f, S, g)
           Good == {T \in SUBSET S : iter[T] = count[T]}
<1>1. count[{}] = 0
  <2>1. Units(f, {}) = {}
    BY DEF Units
  <2> QED
    BY <2>1, FS_EmptySet
<1>2. \A T \in SUBSET S : T # {} =>
        /\ Picked(T) \in T /\ T \ {Picked(T)} \in SUBSET S
        /\ count[T] = f[Picked(T)] + count[T \ {Picked(T)}]
  BY PickedIn, UnitsAdd
<1>3. Unfolds(f, S, count)
  <2>1. \A T \in SUBSET S : Cardinality(Units(f, T)) =
          IF T = {} THEN 0 ELSE f[Picked(T)] + count[T \ {Picked(T)}]
    BY <1>1, <1>2
  <2> QED
    BY <2>1 DEF Unfolds
<1>4. Unfolds(f, S, iter)
  <2> HIDE DEF Unfolds, count
  <2> QED
    BY <1>3, Zenon
<1>5. Sum(f, S) = iter[S]
  BY DEF Sum, MapThenSumSet, MapThenFoldSet, Unfolds, Picked
<1> HIDE DEF iter, count
<1>6. iter[{}] = 0 /\ \A T \in SUBSET S : T # {} =>
        iter[T] = f[Picked(T)] + iter[T \ {Picked(T)}]
  BY <1>4 DEF Unfolds
<1>7. {} \in Good
  BY <1>1, <1>6
<1>8. ASSUME NEW T \in SUBSET S, T # {}
      PROVE  \E x \in T : T \ {x} \in Good => T \in Good
  BY <1>2, <1>6, <1>8
<1>9. \A T \in SUBSET S : T \in Good
  <2> HIDE DEF Good
  <2> QED
    BY <1>7, <1>8, SetInduction
<1> QED
  BY <1>5, <1>9 DEF count

\* What the proofs below use of sums.
LEMMA SumNat ==
  ASSUME NEW S, IsFiniteSet(S), NEW f, \A x \in S : f[x] \in Nat
  PROVE  Sum(f, S) \in Nat
BY SumIsCount, UnitsFinite

LEMMA SumEmpty == \A f : Sum(f, {}) = 0
<1> SUFFICES ASSUME NEW f PROVE Sum(f, {}) = 0
  OBVIOUS
<1>1. Units(f, {}) = {}
  BY DEF Units
<1>2. IsFiniteSet({}) /\ Cardinality({}) = 0
  BY FS_EmptySet
<1>3. Sum(f, {}) = Cardinality(Units(f, {}))
  BY <1>2, SumIsCount
<1> QED
  BY <1>1, <1>2, <1>3

\* A sum depends on the terms of its set only.
LEMMA SumSame ==
  ASSUME NEW S, IsFiniteSet(S), NEW f, NEW g, \A x \in S : f[x] \in Nat /\ g[x] = f[x]
  PROVE  Sum(g, S) = Sum(f, S)
<1>1. Units(g, S) = Units(f, S)
  BY DEF Units
<1> QED
  BY <1>1, SumIsCount

LEMMA SumRemove ==
  ASSUME NEW S, IsFiniteSet(S), NEW f, \A x \in S : f[x] \in Nat, NEW x \in S
  PROVE  Sum(f, S) = f[x] + Sum(f, S \ {x})
<1>1. IsFiniteSet(S \ {x}) /\ \A y \in S \ {x} : f[y] \in Nat
  BY FS_RemoveElement
<1>2. Sum(f, S \ {x}) = Cardinality(Units(f, S \ {x})) /\ Sum(f, S) = Cardinality(Units(f, S))
  BY <1>1, SumIsCount
<1>3. Cardinality(Units(f, S)) = f[x] + Cardinality(Units(f, S \ {x}))
  BY UnitsAdd
<1> QED
  BY <1>2, <1>3

LEMMA SumSplit ==
  ASSUME NEW S, IsFiniteSet(S), NEW f, \A x \in S : f[x] \in Nat, NEW T \in SUBSET S
  PROVE  Sum(f, S) = Sum(f, T) + Sum(f, S \ T)
<1> DEFINE A == Units(f, T)
           B == Units(f, S \ T)
<1>1. IsFiniteSet(T) /\ IsFiniteSet(S \ T) /\ S \ T \in SUBSET S
  BY FS_Subset
<1>2. /\ Sum(f, S) = Cardinality(Units(f, S)) /\ Sum(f, T) = Cardinality(A)
      /\ Sum(f, S \ T) = Cardinality(B)
  BY <1>1, SumIsCount
<1>3. IsFiniteSet(A) /\ IsFiniteSet(B) /\ Cardinality(A) \in Nat /\ Cardinality(B) \in Nat
  BY <1>1, UnitsFinite
<1>4. Units(f, S) = A \cup B /\ A \cap B = {}
  <2>1. \A u : u \in Units(f, S) <=> u \in A \/ u \in B
    BY DEF Units
  <2>2. \A u : ~(u \in A /\ u \in B)
    BY DEF Units
  <2> QED
    BY <2>1, <2>2
<1>5. Cardinality(A \cap B) = 0
  BY <1>4, FS_EmptySet
<1> HIDE DEF A, B
<1>6. Cardinality(A \cup B) = Cardinality(A) + Cardinality(B) - Cardinality(A \cap B)
  BY <1>3, FS_Union
<1> QED
  BY <1>2, <1>3, <1>4, <1>5, <1>6

\* A part sums to no more than the whole.
LEMMA SumPart ==
  ASSUME NEW S, IsFiniteSet(S), NEW f, \A x \in S : f[x] \in Nat, NEW T \in SUBSET S
  PROVE  Sum(f, T) <= Sum(f, S)
<1>1. IsFiniteSet(T) /\ IsFiniteSet(S \ T)
  BY FS_Subset
<1>2. Sum(f, T) \in Nat /\ Sum(f, S \ T) \in Nat
  BY <1>1, SumNat
<1> QED
  BY <1>2, SumSplit

-----------------------------------------------------------------------------
(* What a step does to the holds of a policy and to its counters.          *)

\* The row of an open hold has the amount the call asked for, and only holds of calls
\* that may outlive the TTL lapse.
RowInv ==
  \A c \in Calls, p \in Policies :
    /\ events[c][p].status = "reserved" => events[c][p].cents = Estimate[c]
    /\ events[c][p].lapsed => c \in MayLapse

EventMoves(c, p) ==
  \/ events'[c][p] = events[c][p]
  \/ events'[c][p] = [status |-> "reserved", cents |-> Estimate[c], lapsed |-> FALSE]
  \/ events'[c][p].status \in Closed /\ events'[c][p].lapsed = events[c][p].lapsed
  \/ c \in MayLapse /\ events'[c][p].status = events[c][p].status
                    /\ events'[c][p].cents = events[c][p].cents

LEMMA RowMoves ==
  ASSUME TypeOK, Placed, [Next]_vars, NEW c \in Calls, NEW p \in Policies
  PROVE  EventMoves(c, p)
<1>1. /\ events[c][p] \in Event /\ Released(events[c][p]).status \in Closed
      /\ Released(events[c][p]).lapsed = events[c][p].lapsed
  BY DEF TypeOK, Event, Released, Closed
<1>2. ASSUME NEW snap, Reap(snap) PROVE EventMoves(c, p)
  <2>1. events'[c][p] = IF <<c, p>> \in snap /\ events[c][p].status = "reserved"
                          THEN Released(events[c][p]) ELSE events[c][p]
    BY <1>2, Zenon DEF Reap
  <2> QED
    BY <1>1, <2>1 DEF EventMoves
<1>3. ASSUME NEW d \in Calls, Hold(d) PROVE EventMoves(c, p)
  BY <1>3 DEF Hold, TypeOK, EventMoves
<1>4. ASSUME NEW d \in Calls, Refuse(d) PROVE EventMoves(c, p)
  BY <1>1, <1>4 DEF Refuse, TypeOK, EventMoves
<1>5. ASSUME NEW d \in Calls, Commit(d) PROVE EventMoves(c, p)
  BY <1>1, <1>5 DEF Commit, TypeOK, Event, Closed, EventMoves
<1>6. ASSUME NEW d \in Calls, Release(d) PROVE EventMoves(c, p)
  BY <1>1, <1>6 DEF Release, TypeOK, EventMoves
<1>7. ASSUME NEW d \in Calls, NEW q \in Policies, HoldLapses(d, q) PROVE EventMoves(c, p)
  BY <1>1, <1>7 DEF HoldLapses, TypeOK, Event, EventMoves
<1>8. CASE UNCHANGED events
  BY <1>8 DEF EventMoves
<1> QED
  BY <1>2, <1>3, <1>4, <1>5, <1>6, <1>7, <1>8
     DEF Next, vars, ReserveStep, SettleStep, ReapReads, ReapApplies, ScopeIsFree, PolicyReads,
         ReserveFails, SettlesLate, SettleFails, Dies, CallEnds, SweepReads, SweepApplies,
         SweepFails, WindowTurns

LEMMA RowInvariant == Spec => []RowInv
<1>1. Init => RowInv
  BY DEF Init, NoEvent, RowInv
<1>2. TypeOK /\ Placed /\ RowInv /\ [Next]_vars => RowInv'
  <2> SUFFICES ASSUME TypeOK, Placed, RowInv, [Next]_vars, NEW c \in Calls, NEW p \in Policies
               PROVE  /\ events'[c][p].status = "reserved" => events'[c][p].cents = Estimate[c]
                      /\ events'[c][p].lapsed => c \in MayLapse
    BY DEF RowInv
  <2>1. EventMoves(c, p)
    BY RowMoves
  <2>2. /\ events[c][p].status = "reserved" => events[c][p].cents = Estimate[c]
        /\ events[c][p].lapsed => c \in MayLapse
    BY DEF RowInv
  <2> QED
    BY <2>1, <2>2 DEF EventMoves, Closed
<1> QED
  BY <1>1, <1>2, TypeAndPlace, PTL DEF Spec

\* The calls with an open hold against p, and what they asked for.
Open(p) == InStatus(p, "reserved")
Held(p) == Sum(Estimate, Open(p))

LEMMA InStatusFinite == \A p, s : InStatus(p, s) \in SUBSET Calls /\ IsFiniteSet(InStatus(p, s))
<1> SUFFICES ASSUME NEW p, NEW s PROVE InStatus(p, s) \in SUBSET Calls /\ IsFiniteSet(InStatus(p, s))
  OBVIOUS
<1>1. InStatus(p, s) \in SUBSET Calls
  BY DEF InStatus
<1> QED
  BY <1>1, BoundAssumption, FS_Subset

LEMMA EstimatesAdd ==
  ASSUME NEW S \in SUBSET Calls
  PROVE  /\ IsFiniteSet(S) /\ Sum(Estimate, S) \in Nat
         /\ \A x \in S : Sum(Estimate, S) = Estimate[x] + Sum(Estimate, S \ {x})
         /\ \A T \in SUBSET S : /\ Sum(Estimate, S) = Sum(Estimate, T) + Sum(Estimate, S \ T)
                                /\ Sum(Estimate, T) \in Nat /\ Sum(Estimate, S \ T) \in Nat
<1>1. /\ IsFiniteSet(S) /\ \A x \in S : Estimate[x] \in Nat
      /\ \A T \in SUBSET S : IsFiniteSet(T) /\ IsFiniteSet(S \ T)
  BY BoundAssumption, EstimateAssumption, FS_Subset
<1>2. \A T \in SUBSET S : Sum(Estimate, T) \in Nat /\ Sum(Estimate, S \ T) \in Nat
  <2>1. \A T \in SUBSET S : Sum(Estimate, T) \in Nat
    BY <1>1, SumNat
  <2>2. \A T \in SUBSET S : S \ T \in SUBSET S
    OBVIOUS
  <2> QED
    BY <2>1, <2>2
<1>3. \A T \in SUBSET S : Sum(Estimate, S) = Sum(Estimate, T) + Sum(Estimate, S \ T)
  BY <1>1, SumSplit
<1>4. \A x \in S : Sum(Estimate, S) = Estimate[x] + Sum(Estimate, S \ {x})
  BY <1>1, SumRemove
<1> QED
  BY <1>1, <1>2, <1>3, <1>4

LEMMA OpenHoldsIsHeld ==
  ASSUME TypeOK, RowInv, NEW p \in Policies
  PROVE  OpenHolds(p) = Held(p) /\ Held(p) \in Nat
<1>1. IsFiniteSet(Open(p)) /\ Open(p) \in SUBSET Calls
  BY InStatusFinite DEF Open
<1>2. \A c \in Open(p) : Estimate[c] \in Nat /\ Cents(p)[c] = Estimate[c]
  BY <1>1, EstimateAssumption DEF Open, InStatus, Cents, RowInv
<1>3. Sum(Cents(p), Open(p)) = Sum(Estimate, Open(p))
  <2> HIDE DEF Cents, Open
  <2> QED
    BY <1>1, <1>2, SumSame
<1>4. Held(p) \in Nat
  BY <1>1, EstimatesAdd DEF Held
<1> QED
  BY <1>3, <1>4 DEF OpenHolds, Held, Open

\* A hold is taken: within the limit, by a call that had none.
Takes(p, c) ==
  /\ c \notin Open(p) /\ Open(p)' = Open(p) \cup {c}
  /\ reserved'[p] = reserved[p] + Estimate[c]
  /\ spent'[p] + reserved'[p] <= Limit[p]

\* Holds are given back, and the counter drops by at least what they had: by just that,
\* unless some of those it drops by were over already.
Gives(p, given, n) ==
  /\ Open(p)' = Open(p) \ given
  /\ reserved'[p] = Less(reserved[p], n)
  /\ Sum(Estimate, given) <= n
  /\ ~doubled'[p] => n = Sum(Estimate, given)

ColumnMoves(p) ==
  \/ \E c \in Calls : Takes(p, c)
  \/ \E given \in SUBSET Open(p), n \in Nat : Gives(p, given, n)

\* A step that leaves the statuses and the counter of p alone gives nothing.
LEMMA GivesNothing ==
  ASSUME TypeOK, NEW p \in Policies, Open(p)' = Open(p), reserved'[p] = reserved[p]
  PROVE  ColumnMoves(p)
<1>1. reserved[p] \in Nat
  BY DEF TypeOK
<1>2. Less(reserved[p], 0) = reserved[p]
  BY <1>1 DEF Less
<1>3. Gives(p, {}, 0)
  BY <1>2, SumEmpty DEF Gives
<1> QED
  BY <1>3 DEF ColumnMoves

\* One call gives its hold back.
LEMMA GivesOne ==
  ASSUME TypeOK, NEW p \in Policies, NEW c \in Open(p), Open(p)' = Open(p) \ {c},
         reserved'[p] = Less(reserved[p], Estimate[c])
  PROVE  ColumnMoves(p)
<1>1. c \in Calls /\ {c} \in SUBSET Calls /\ Estimate[c] \in Nat
  BY EstimateAssumption DEF Open, InStatus
<1>2. Sum(Estimate, {c}) = Estimate[c] + Sum(Estimate, {c} \ {c})
  BY <1>1, EstimatesAdd
<1>3. {c} \ {c} = {}
  OBVIOUS
<1>4. Sum(Estimate, {c}) = Estimate[c]
  BY <1>1, <1>2, <1>3, SumEmpty
<1>5. Gives(p, {c}, Estimate[c])
  BY <1>1, <1>4 DEF Gives
<1> QED
  BY <1>1, <1>5 DEF ColumnMoves

LEMMA ReapMoves ==
  ASSUME TypeOK, NEW r \in Calls \cup {Sweeper}, Reap(snaps[r]), NEW p \in Policies
  PROVE  ColumnMoves(p)
<1> DEFINE named == {c \in Calls : <<c, p>> \in snaps[r]}
           given == named \cap Open(p)
           n == Sum(Estimate, named)
<1>1. Open(p) \subseteq Calls /\ given \in SUBSET Open(p) /\ given \in SUBSET named
  BY DEF Open, InStatus
<1>2. reserved'[p] = Less(reserved[p], n)
  BY DEF Reap, Owed
<1>3. \A c \in Calls : events'[c][p] =
        IF c \in named /\ events[c][p].status = "reserved"
          THEN Released(events[c][p]) ELSE events[c][p]
  BY Zenon DEF Reap
<1>4. \A c \in Calls : Released(events[c][p]).status = "released"
  BY DEF Released, TypeOK, Event
<1>5. Open(p)' = Open(p) \ given
  BY <1>3, <1>4 DEF Open, InStatus
<1>6. n \in Nat /\ Sum(Estimate, given) <= n
  <2>1. named \in SUBSET Calls
    OBVIOUS
  <2> HIDE DEF named, given
  <2>2. /\ n \in Nat /\ n = Sum(Estimate, given) + Sum(Estimate, named \ given)
        /\ Sum(Estimate, given) \in Nat /\ Sum(Estimate, named \ given) \in Nat
    BY <1>1, <2>1, EstimatesAdd
  <2> QED
    BY <2>2
<1>7. ~doubled'[p] => n = Sum(Estimate, given)
  <2>1. doubled'[p] = (doubled[p] \/ \E c \in Calls : /\ <<c, p>> \in snaps[r]
                                                     /\ events[c][p].status # "reserved")
    BY Zenon DEF Reap
  <2>2. ~doubled'[p] => named \subseteq Open(p)
    BY <2>1 DEF Open, InStatus
  <2>3. ~doubled'[p] => given = named
    BY <2>2
  <2> QED
    BY <2>3
<1> HIDE DEF named, given, n
<1>8. Gives(p, given, n)
  BY <1>2, <1>5, <1>6, <1>7 DEF Gives
<1> QED
  BY <1>1, <1>6, <1>8 DEF ColumnMoves

LEMMA HoldMoves ==
  ASSUME TypeOK, Placed, ChainInv, NEW c \in Calls, Hold(c), NEW p \in Policies
  PROVE  ColumnMoves(p)
<1> DEFINE q == Policy(c)
           look == calls[c].look
<1>1. /\ q \in Policies /\ q # NoPolicy /\ q = Chain[c][calls[c].pos]
      /\ calls[c].stage \in Reserving /\ calls[c].pos \in DOMAIN Chain[c]
      /\ look \in Look
  BY PolicyType DEF Hold, Placed, Policy, Reserving, TypeOK, Call
<1>2. events[c][q].status = "none"
  <2>1. calls[c].pos \in Nat
    BY DEF TypeOK, Call
  <2>2. events[c][q].status # "none" <=> calls[c].pos < calls[c].pos
    BY <1>1 DEF ChainInv, ChainInvOf, WalkedBy
  <2> QED
    BY <2>1, <2>2
<1>3. /\ ~Denied(c, q, look) /\ Roll(q, look)
      /\ reserved' = [reserved EXCEPT ![q] = @ + Estimate[c]]
      /\ events' = [events EXCEPT ![c][q] =
                      [status |-> "reserved", cents |-> Estimate[c], lapsed |-> FALSE]]
  BY DEF Hold
<1> HIDE DEF q, look
<1>4. CASE p = q
  <2>1. \A d \in Calls : events'[d][p].status =
          IF d = c THEN "reserved" ELSE events[d][p].status
    BY <1>1, <1>3, <1>4 DEF TypeOK
  <2>2. c \notin Open(p) /\ Open(p)' = Open(p) \cup {c}
    BY <1>2, <1>4, <2>1 DEF Open, InStatus
  <2>3. reserved'[p] = reserved[p] + Estimate[c]
    BY <1>3, <1>4 DEF TypeOK
  <2>4. /\ spent'[p] = RolledSpent(p, look) /\ RolledSpent(p, look) \in Nat
        /\ reserved[p] \in Nat /\ Estimate[c] \in Nat /\ Limit[p] \in Nat
    BY <1>1, <1>3, <1>4, EstimateAssumption, PolicyAssumption DEF Roll, RolledSpent, TypeOK
  <2>5. spent'[p] + reserved'[p] <= Limit[p]
    BY <1>3, <1>4, <2>3, <2>4 DEF Denied
  <2> QED
    BY <2>2, <2>3, <2>5 DEF Takes, ColumnMoves
<1>5. CASE p # q
  <2>1. \A d \in Calls : events'[d][p] = events[d][p]
    BY <1>1, <1>3, <1>5 DEF TypeOK
  <2>2. Open(p)' = Open(p) /\ reserved'[p] = reserved[p]
    BY <1>1, <1>3, <1>5, <2>1 DEF Open, InStatus, TypeOK
  <2> QED
    BY <2>2, GivesNothing
<1> QED
  BY <1>4, <1>5

LEMMA RefuseMoves ==
  ASSUME TypeOK, NEW c \in Calls, Refuse(c), NEW p \in Policies
  PROVE  ColumnMoves(p)
<1> DEFINE back == GivenBack(c)
<1>1. back \subseteq Policies /\ (p \in back => c \in Open(p))
  BY DEF GivenBack, Open, InStatus
<1>2. /\ reserved' = [q \in Policies |->
           IF q \in back THEN Less(reserved[q], Estimate[c]) ELSE reserved[q]]
      /\ events' = [events EXCEPT ![c] = [q \in Policies |->
           IF q \in back THEN Released(events[c][q]) ELSE events[c][q]]]
  BY DEF Refuse
<1>3. Released(events[c][p]).status = "released"
  BY DEF Released, TypeOK, Event
<1> HIDE DEF back
<1>4. CASE p \in back
  <2>1. \A d \in Calls : events'[d][p].status =
          IF d = c THEN "released" ELSE events[d][p].status
    BY <1>2, <1>3, <1>4 DEF TypeOK
  <2>2. Open(p)' = Open(p) \ {c}
    BY <2>1 DEF Open, InStatus
  <2>3. reserved'[p] = Less(reserved[p], Estimate[c])
    BY <1>2, <1>4
  <2> QED
    BY <1>1, <1>4, <2>2, <2>3, GivesOne
<1>5. CASE p \notin back
  <2>1. \A d \in Calls : events'[d][p] = events[d][p]
    BY <1>2, <1>5 DEF TypeOK
  <2>2. Open(p)' = Open(p) /\ reserved'[p] = reserved[p]
    BY <1>2, <1>5, <2>1 DEF Open, InStatus
  <2> QED
    BY <2>2, GivesNothing
<1> QED
  BY <1>4, <1>5

\* What the two settlements that find their hold reserved have in common.
Settles(c, p, s) ==
  /\ p \in Policies /\ StillReserved(c, p) /\ s # "reserved"
  /\ reserved' = [reserved EXCEPT ![p] = Less(reserved[p], Estimate[c])]
  /\ events'[c][p].status = s
  /\ \A d \in Calls, q \in Policies : d # c \/ q # p => events'[d][q] = events[d][q]

LEMMA SettlementSettles ==
  ASSUME TypeOK, Placed, NEW c \in Calls
  PROVE  /\ Commit(c) => Settles(c, Head(calls[c].held), "committed")
         /\ Release(c) => Settles(c, Head(calls[c].held), "released")
<1> DEFINE p == Head(calls[c].held)
<1>1. calls[c].stage = "settle" => p \in Policies
  BY HeldType
<1>2. ASSUME Commit(c) PROVE Settles(c, p, "committed")
  <2>1. p \in Policies /\ events[c][p] \in Event
    BY <1>1, <1>2 DEF Commit, TypeOK
  <2>2. /\ events' = [events EXCEPT ![c][p].status = "committed", ![c][p].cents = calls[c].cost]
        /\ reserved' = [reserved EXCEPT ![p] = Less(reserved[p], Estimate[c])]
        /\ StillReserved(c, p)
    BY <1>2 DEF Commit
  <2> HIDE DEF p
  <2> QED
    BY <2>1, <2>2 DEF Settles, TypeOK, Event
<1>3. ASSUME Release(c) PROVE Settles(c, p, "released")
  <2>1. p \in Policies /\ events[c][p] \in Event
    BY <1>1, <1>3 DEF Release, TypeOK
  <2>2. /\ events' = [events EXCEPT ![c][p] = Released(@)]
        /\ reserved' = [reserved EXCEPT ![p] = Less(@, Estimate[c])]
        /\ StillReserved(c, p)
    BY <1>3 DEF Release
  <2> HIDE DEF p
  <2> QED
    BY <2>1, <2>2 DEF Settles, TypeOK, Event, Released
<1> QED
  BY <1>2, <1>3

LEMMA SettleMoves ==
  ASSUME TypeOK, NEW c \in Calls, NEW q, NEW s, Settles(c, q, s), NEW p \in Policies
  PROVE  ColumnMoves(p)
<1>1. CASE p = q
  <2>1. c \in Open(p) /\ Open(p)' = Open(p) \ {c}
    BY <1>1 DEF Settles, StillReserved, Open, InStatus
  <2>2. reserved'[p] = Less(reserved[p], Estimate[c])
    BY <1>1 DEF Settles, TypeOK
  <2> QED
    BY <2>1, <2>2, GivesOne
<1>2. CASE p # q
  <2>1. Open(p)' = Open(p) /\ reserved'[p] = reserved[p]
    BY <1>2 DEF Settles, Open, InStatus, TypeOK
  <2> QED
    BY <2>1, GivesNothing
<1> QED
  BY <1>1, <1>2

LEMMA ColumnSteps ==
  ASSUME TypeOK, Placed, ChainInv, [Next]_vars, NEW p \in Policies
  PROVE  ColumnMoves(p)
<1>1. ASSUME NEW c \in Calls, ReapApplies(c) PROVE ColumnMoves(p)
  BY <1>1, ReapMoves DEF ReapApplies
<1>2. CASE SweepApplies
  BY <1>2, ReapMoves DEF SweepApplies
<1>3. ASSUME NEW c \in Calls, SettleStep(c) PROVE ColumnMoves(p)
  <2>1. CASE Commit(c) \/ Release(c)
    BY <2>1, SettlementSettles, SettleMoves
  <2>2. CASE SettlesLate(c) \/ SettleFails(c)
    <3>1. UNCHANGED <<reserved, events>>
      BY <2>2 DEF SettlesLate, SettleFails, books
    <3> QED
      BY <3>1, GivesNothing DEF Open, InStatus
  <2> QED
    BY <1>3, <2>1, <2>2 DEF SettleStep
<1>4. ASSUME NEW c \in Calls, NEW q \in Policies, HoldLapses(c, q) PROVE ColumnMoves(p)
  <2>1. \A d \in Calls : events'[d][p].status = events[d][p].status
    BY <1>4 DEF HoldLapses, TypeOK, Event
  <2>2. Open(p)' = Open(p) /\ reserved'[p] = reserved[p]
    BY <1>4, <2>1 DEF HoldLapses, books, Open, InStatus
  <2> QED
    BY <2>2, GivesNothing
<1>5. CASE UNCHANGED <<reserved, events>>
  BY <1>5, GivesNothing DEF Open, InStatus
<1> QED
  BY <1>1, <1>2, <1>3, <1>4, <1>5, HoldMoves, RefuseMoves
     DEF Next, vars, books, ReserveStep, ReapReads, ScopeIsFree, PolicyReads, ReserveFails, Dies,
         CallEnds, SweepReads, SweepFails, WindowTurns

-----------------------------------------------------------------------------
(* The counter of the holds.                                               *)

LEMMA LessBounds ==
  \A r, n \in Nat : Less(r, n) \in Nat /\ Less(r, n) <= r /\ (Less(r, n) = 0 \/ Less(r, n) = r - n)
BY DEF Less

\* A counter that the open holds cover is covered after the step.
LEMMA BackedStep ==
  ASSUME TypeOK, NEW p \in Policies, ColumnMoves(p), reserved[p] <= Held(p)
  PROVE  reserved'[p] <= Held(p)'
<1>1. Open(p) \in SUBSET Calls /\ reserved[p] \in Nat
  BY DEF Open, InStatus, TypeOK
<1>2. Held(p) \in Nat
  BY <1>1, EstimatesAdd DEF Held
<1>3. ASSUME NEW c \in Calls, Takes(p, c) PROVE reserved'[p] <= Held(p)'
  <2> DEFINE O == Open(p) \cup {c}
  <2>1. O \in SUBSET Calls /\ c \in O /\ O \ {c} = Open(p) /\ Estimate[c] \in Nat
    BY <1>1, <1>3, EstimateAssumption DEF Takes
  <2> HIDE DEF O
  <2>2. Sum(Estimate, O) = Estimate[c] + Sum(Estimate, O \ {c})
    BY <2>1, EstimatesAdd
  <2>3. Held(p)' = Sum(Estimate, O)
    BY <1>3 DEF Takes, Held, O
  <2>4. reserved'[p] = reserved[p] + Estimate[c]
    BY <1>3 DEF Takes
  <2> QED
    BY <1>1, <1>2, <2>1, <2>2, <2>3, <2>4 DEF Held
<1>4. ASSUME NEW given \in SUBSET Open(p), NEW n \in Nat, Gives(p, given, n)
      PROVE  reserved'[p] <= Held(p)'
  <2>1. /\ Held(p) = Sum(Estimate, given) + Sum(Estimate, Open(p) \ given)
        /\ Sum(Estimate, given) \in Nat /\ Sum(Estimate, Open(p) \ given) \in Nat
    BY <1>1, EstimatesAdd DEF Held
  <2>2. Held(p)' = Sum(Estimate, Open(p) \ given)
    BY <1>4 DEF Gives, Held
  <2>3. reserved'[p] = 0 \/ reserved'[p] = reserved[p] - n
    BY <1>1, <1>4, LessBounds DEF Gives
  <2>4. Sum(Estimate, given) <= n
    BY <1>4 DEF Gives
  <2> QED
    BY <1>1, <1>2, <2>1, <2>2, <2>3, <2>4
<1> QED
  BY <1>3, <1>4 DEF ColumnMoves

\* reserved_cents is covered by open holds (HoldsAreBacked): whatever interleaving of
\* settlements, refusals and reapers takes a hold off twice, none leaves one on.
THEOREM HoldsAreBackedHolds == Spec => []HoldsAreBacked
<1> DEFINE Covered == \A p \in Policies : reserved[p] <= Held(p)
<1>1. Init => Covered
  <2> SUFFICES ASSUME Init, NEW p \in Policies PROVE reserved[p] <= Held(p)
    OBVIOUS
  <2>1. Open(p) = {} /\ reserved[p] = 0
    BY DEF Init, NoEvent, Open, InStatus
  <2> QED
    BY <2>1, SumEmpty DEF Held
<1>2. TypeOK /\ Placed /\ ChainInv /\ Covered /\ [Next]_vars => Covered'
  BY ColumnSteps, BackedStep
<1>3. TypeOK /\ RowInv /\ Covered => HoldsAreBacked
  BY OpenHoldsIsHeld DEF HoldsAreBacked
<1> QED
  BY <1>1, <1>2, <1>3, TypeAndPlace, ChainInvariant, RowInvariant, PTL DEF Spec

-----------------------------------------------------------------------------
(* The counter of the spend.                                               *)

Charged(p) == InStatus(p, "committed")

\* Nobody read a policy at a time that is still to come, and no window has turned yet.
Timely == \A c \in Calls : calls[c].look.now <= period
FirstWindow == Timely /\ period = 1

\* One call is charged what it cost, in its row and in the counter, within the limit.
Charges(p, c) ==
  /\ c \in Calls /\ c \notin Charged(p) /\ Charged(p)' = Charged(p) \cup {c}
  /\ spent'[p] = spent[p] + Cents(p)'[c]
  /\ spent'[p] + reserved'[p] <= Limit[p]

\* A roll takes the spend of the last window off.
Lowers(p) == spent'[p] <= spent[p] /\ (FirstWindow => spent'[p] = spent[p])

SpendMoves(p) ==
  \/ \E c \in Calls : Charges(p, c)
  \/ Charged(p)' = Charged(p) /\ Lowers(p)

LEMMA RollLowers ==
  ASSUME TypeOK, NEW c \in Calls, Policy(c) \in Policies, Roll(Policy(c), calls[c].look),
         NEW p \in Policies
  PROVE  Lowers(p)
<1> DEFINE look == calls[c].look
<1>1. look \in Look
  BY DEF TypeOK, Call
<1>2. spent' = [spent EXCEPT ![Policy(c)] = RolledSpent(Policy(c), look)]
  BY DEF Roll
<1>3. spent'[p] \in {0, spent[p]}
  BY <1>2 DEF RolledSpent, TypeOK
<1>4. FirstWindow => ~Turns(look)
  BY <1>1, BoundAssumption DEF FirstWindow, Timely, Turns, Look, Unset
<1>5. FirstWindow => spent'[p] = spent[p]
  BY <1>2, <1>4 DEF RolledSpent, TypeOK
<1> QED
  BY <1>3, <1>5 DEF Lowers, TypeOK

\* Only a commit makes a row committed.
LEMMA CommittedRows ==
  ASSUME TypeOK, Placed, ChainInv, [Next]_vars, \A d \in Calls : ~Commit(d),
         NEW c \in Calls, NEW p \in Policies
  PROVE  events'[c][p].status = "committed" <=> events[c][p].status = "committed"
<1>1. events[c][p].status = "committed" => events'[c][p] = events[c][p]
  BY ClosedStays DEF Closed
<1>2. /\ events[c][p] \in Event /\ Released(events[c][p]).status = "released"
  BY DEF TypeOK, Event, Released
<1>3. ASSUME NEW snap, Reap(snap), events'[c][p].status = "committed"
      PROVE  events[c][p].status = "committed"
  <2>1. events'[c][p] = IF <<c, p>> \in snap /\ events[c][p].status = "reserved"
                          THEN Released(events[c][p]) ELSE events[c][p]
    BY <1>3, Zenon DEF Reap
  <2> QED
    BY <1>2, <1>3, <2>1
<1>4. ASSUME events'[c][p].status = "committed", NEW d \in Calls, Hold(d) \/ Refuse(d) \/ Release(d)
      PROVE  events[c][p].status = "committed"
  <2>1. CASE Hold(d)
    BY <1>4, <2>1 DEF Hold, TypeOK
  <2>2. CASE Refuse(d)
    BY <1>2, <1>4, <2>2 DEF Refuse, TypeOK
  <2>3. CASE Release(d)
    BY <1>2, <1>4, <2>3 DEF Release, TypeOK
  <2> QED
    BY <1>4, <2>1, <2>2, <2>3
<1>5. ASSUME events'[c][p].status = "committed", NEW d \in Calls, NEW q \in Policies, HoldLapses(d, q)
      PROVE  events[c][p].status = "committed"
  BY <1>2, <1>5 DEF HoldLapses, TypeOK, Event
<1> QED
  BY <1>1, <1>3, <1>4, <1>5
     DEF Next, vars, ReserveStep, SettleStep, ReapReads, ReapApplies, ScopeIsFree, PolicyReads,
         ReserveFails, SettlesLate, SettleFails, Dies, CallEnds, SweepReads, SweepApplies,
         SweepFails, WindowTurns

LEMMA CommitCharges ==
  ASSUME TypeOK, Placed, NEW c \in Calls, Commit(c), NEW p \in Policies
  PROVE  SpendMoves(p)
<1> DEFINE q == Head(calls[c].held)
           k == calls[c].cost
           rest == Less(reserved[q], Estimate[c])
<1>1. q \in Policies /\ events[c][q] \in Event /\ k \in Nat
  BY HeldType DEF Commit, TypeOK, Call
<1>2. Settles(c, q, "committed")
  BY SettlementSettles
<1>3. /\ events' = [events EXCEPT ![c][q].status = "committed", ![c][q].cents = k]
      /\ reserved' = [reserved EXCEPT ![q] = rest] /\ spent' = [spent EXCEPT ![q] = @ + k]
      /\ Allowed(q, spent[q] + k, rest) /\ StillReserved(c, q)
  BY DEF Commit
<1> HIDE DEF q, k, rest
<1>4. CASE p = q
  <2>1. c \notin Charged(p) /\ Charged(p)' = Charged(p) \cup {c}
    <3>1. \A d \in Calls : events'[d][p].status =
            IF d = c THEN "committed" ELSE events[d][p].status
      BY <1>2, <1>4 DEF Settles
    <3>2. events[c][p].status = "reserved"
      BY <1>3, <1>4 DEF StillReserved
    <3> QED
      BY <3>1, <3>2 DEF Charged, InStatus
  <2>2. events'[c][p].cents = k
    BY <1>1, <1>3, <1>4 DEF TypeOK, Event
  <2>3. Cents(p)'[c] = k
    BY <2>2 DEF Cents
  <2>4. spent'[p] = spent[p] + k /\ reserved'[p] = rest
    BY <1>1, <1>3, <1>4 DEF TypeOK
  <2>5. Charges(p, c)
    BY <1>3, <1>4, <2>1, <2>3, <2>4 DEF Charges, Allowed
  <2> QED
    BY <2>5 DEF SpendMoves
<1>5. CASE p # q
  <2>1. Charged(p)' = Charged(p)
    BY <1>2, <1>5 DEF Settles, Charged, InStatus
  <2>2. spent'[p] = spent[p] /\ spent[p] \in Nat
    BY <1>3, <1>5 DEF TypeOK
  <2> QED
    BY <2>1, <2>2 DEF SpendMoves, Lowers
<1> QED
  BY <1>4, <1>5

LEMMA SpendSteps ==
  ASSUME TypeOK, Placed, ChainInv, [Next]_vars, NEW p \in Policies
  PROVE  SpendMoves(p)
<1>1. ASSUME NEW c \in Calls, Commit(c) PROVE SpendMoves(p)
  BY <1>1, CommitCharges
<1>2. CASE \A c \in Calls : ~Commit(c)
  <2>1. Charged(p)' = Charged(p)
    BY <1>2, CommittedRows DEF Charged, InStatus
  <2>2. Lowers(p)
    <3>1. ASSUME NEW c \in Calls, Hold(c) PROVE Lowers(p)
      <4>1. Roll(Policy(c), calls[c].look) /\ Policy(c) \in Policies
        BY <3>1, PolicyType DEF Hold, Placed
      <4> QED
        BY <4>1, RollLowers
    <3>2. ASSUME NEW c \in Calls, Refuse(c) PROVE Lowers(p)
      <4>1. UNCHANGED spent \/ (Roll(Policy(c), calls[c].look) /\ Policy(c) \in Policies)
        BY <3>2, PolicyType DEF Refuse, Placed
      <4> QED
        BY <4>1, RollLowers DEF TypeOK, Lowers
    <3>3. CASE UNCHANGED spent
      BY <3>3 DEF TypeOK, Lowers
    <3> QED
      BY <1>2, <3>1, <3>2, <3>3
         DEF Next, vars, books, ReserveStep, SettleStep, ReapReads, ReapApplies, Reap, ScopeIsFree,
             PolicyReads, ReserveFails, Release, SettlesLate, SettleFails, Dies, CallEnds,
             SweepReads, SweepApplies, SweepFails, HoldLapses, WindowTurns
  <2> QED
    BY <2>1, <2>2 DEF SpendMoves
<1> QED
  BY <1>1, <1>2

\* What the charged rows sum to changes by the charge only.
LEMMA ChargedStep ==
  ASSUME TypeOK, Placed, ChainInv, [Next]_vars, NEW p \in Policies
  PROVE  /\ Committed(p) \in Nat /\ Committed(p)' \in Nat
         /\ \E k \in Nat : /\ Committed(p)' = Committed(p) + k
                           /\ spent'[p] <= spent[p] + k
                           /\ FirstWindow => spent'[p] = spent[p] + k
<1> DEFINE f == Cents(p)
           g == Cents(p)'
           C == Charged(p)
<1>1. C \in SUBSET Calls /\ IsFiniteSet(C)
  BY InStatusFinite DEF Charged
<1>2. TypeOK'
  BY StepType
<1>3. \A c \in Calls : f[c] \in Nat /\ g[c] \in Nat
  BY <1>2 DEF Cents, TypeOK, Event
<1>4. \A c \in C : g[c] = f[c]
  BY ClosedStays DEF Charged, InStatus, Cents, Closed
<1>5. Committed(p) = Sum(f, C) /\ Committed(p)' = Sum(g, C')
  BY DEF Committed, Charged
<1>6. spent[p] \in Nat /\ spent'[p] \in Nat
  BY <1>2 DEF TypeOK
<1> HIDE DEF f, g, C
<1>7. Sum(g, C) = Sum(f, C) /\ Sum(g, C) \in Nat
  BY <1>1, <1>3, <1>4, SumSame, SumNat
<1>8. ASSUME NEW c \in Calls, Charges(p, c)
      PROVE  Committed(p)' = Committed(p) + g[c] /\ spent'[p] = spent[p] + g[c]
  <2> DEFINE D == C \cup {c}
  <2>1. c \in D /\ D \ {c} = C /\ IsFiniteSet(D) /\ \A x \in D : g[x] \in Nat
    BY <1>1, <1>3, <1>8, FS_AddElement DEF Charges, C
  <2>2. C' = D
    BY <1>8 DEF Charges, C
  <2> HIDE DEF D
  <2>3. Sum(g, D) = g[c] + Sum(g, D \ {c})
    BY <2>1, SumRemove
  <2>4. spent'[p] = spent[p] + g[c]
    BY <1>8 DEF Charges, g
  <2> QED
    BY <1>3, <1>5, <1>6, <1>7, <2>1, <2>2, <2>3, <2>4
<1>9. ASSUME Charged(p)' = Charged(p), Lowers(p)
      PROVE  Committed(p)' = Committed(p) + 0 /\ Lowers(p)
  <2>1. C' = C
    BY <1>9 DEF C
  <2> QED
    BY <1>5, <1>6, <1>7, <1>9, <2>1
<1> QED
  <2>1. Committed(p) \in Nat /\ Committed(p)' \in Nat
    BY <1>3, <1>5, <1>8, <1>9, <1>7, SpendSteps DEF SpendMoves
  <2>2. CASE \E c \in Calls : Charges(p, c)
    BY <1>3, <1>6, <1>8, <2>1, <2>2
  <2>3. CASE Charged(p)' = Charged(p) /\ Lowers(p)
    BY <1>6, <1>9, <2>1, <2>3 DEF Lowers
  <2> QED
    BY <2>1, <2>2, <2>3, SpendSteps DEF SpendMoves

\* spent_cents never passes what the rows of committed holds add up to
\* (SpentIsCommitted): a hold is charged once, by whoever finds it reserved.
THEOREM SpentIsCommittedHolds == Spec => []SpentIsCommitted
<1>1. Init => SpentIsCommitted
  <2> SUFFICES ASSUME Init, NEW p \in Policies PROVE spent[p] <= Committed(p)
    BY DEF SpentIsCommitted
  <2>1. InStatus(p, "committed") = {} /\ spent[p] = 0
    BY DEF Init, NoEvent, InStatus
  <2> QED
    BY <2>1, SumEmpty DEF Committed
<1>2. TypeOK /\ Placed /\ ChainInv /\ SpentIsCommitted /\ [Next]_vars => SpentIsCommitted'
  <2> SUFFICES ASSUME TypeOK, Placed, ChainInv, [Next]_vars, NEW p \in Policies,
                      spent[p] <= Committed(p)
               PROVE  spent'[p] <= Committed(p)'
    BY DEF SpentIsCommitted
  <2>1. spent[p] \in Nat /\ spent'[p] \in Nat
    BY StepType DEF TypeOK
  <2> QED
    BY <2>1, ChargedStep
<1> QED
  BY <1>1, <1>2, TypeAndPlace, ChainInvariant, PTL DEF Spec

LEMMA TimelyStep ==
  ASSUME TypeOK, Placed, Timely, [Next]_vars
  PROVE  Timely' /\ (period' = 1 => period = 1)
<1>0. period \in Nat \ {0}
  BY BoundAssumption DEF TypeOK
<1>1. \A c \in Calls : calls[c].look \in Look
  BY DEF TypeOK, Call
<1>2. period' = period \/ period' = period + 1
  <2>1. CASE WindowTurns
    BY <2>1 DEF WindowTurns
  <2>2. CASE ~WindowTurns
    <3>1. period' = period
      BY <2>2, Zenon
         DEF Next, vars, ReserveStep, SettleStep, ReapReads, ReapApplies, Reap, ScopeIsFree,
             PolicyReads, Hold, Refuse, ReserveFails, Commit, Release, SettlesLate, SettleFails,
             Dies, CallEnds, SweepReads, SweepApplies, SweepFails, HoldLapses
    <3> QED
      BY <3>1
  <2> QED
    BY <2>1, <2>2
<1>3. ASSUME NEW d \in Calls PROVE calls'[d].look = calls[d].look \/ calls'[d].look.now = period
  <2>1. ASSUME NEW c \in Calls, NEW stage, Enter(c, stage) PROVE calls'[d].look = calls[d].look
    BY <2>1 DEF Enter, TypeOK, Call
  <2>2. ASSUME NEW c \in Calls, NEW rest, Settling(c, rest) PROVE calls'[d].look = calls[d].look
    BY <2>2 DEF Settling, TypeOK, Call
  <2>3. \A c \in Calls : Advanced(c).look = calls[c].look
    BY DEF Advanced, TypeOK, Call
  <2>4. ASSUME NEW c \in Calls, PolicyReads(c)
        PROVE  calls'[d].look = calls[d].look \/ calls'[d].look.now = period
    BY <2>4 DEF PolicyReads, TypeOK, Call, Look
  <2>5. ASSUME NEW c \in Calls, ScopeIsFree(c) PROVE calls'[d].look = calls[d].look
    BY <2>3, <2>5 DEF ScopeIsFree, TypeOK
  <2>6. ASSUME NEW c \in Calls, Hold(c) PROVE calls'[d].look = calls[d].look
    <3>1. calls'[d] = IF d = c THEN [Advanced(c) EXCEPT !.held = Append(@, Policy(c))] ELSE calls[d]
      BY <2>6 DEF Hold, TypeOK
    <3>2. Advanced(c) \in Call
      BY AdvancedType
    <3>3. \A v : [Advanced(c) EXCEPT !.held = v].look = Advanced(c).look
      BY <3>2 DEF Call
    <3>4. [Advanced(c) EXCEPT !.held = Append(@, Policy(c))].look = calls[c].look
      BY <2>3, <3>3
    <3> QED
      BY <3>1, <3>4
  <2>7. ASSUME NEW c \in Calls, ReserveFails(c) \/ \E cost \in Costs : CallEnds(c, cost)
        PROVE  calls'[d].look = calls[d].look
    <3>1. calls[c] \in Call /\ calls \in [Calls -> Call]
      BY DEF TypeOK
    <3>2. CASE ReserveFails(c)
      <4>1. PICK stage : calls' = [calls EXCEPT ![c].stage = stage, ![c].held = <<>>]
        BY <3>2 DEF ReserveFails
      <4> QED
        BY <3>1, <4>1 DEF Call
    <3>3. ASSUME NEW cost \in Costs, CallEnds(c, cost) PROVE calls'[d].look = calls[d].look
      <4>1. PICK stage : calls' = [calls EXCEPT ![c].cost = cost, ![c].stage = stage]
        BY <3>3 DEF CallEnds
      <4> QED
        BY <3>1, <4>1 DEF Call
    <3> QED
      BY <2>7, <3>2, <3>3
  <2>8. CASE UNCHANGED calls
    BY <2>8
  <2> QED
    BY <2>1, <2>2, <2>4, <2>5, <2>6, <2>7, <2>8
       DEF Next, vars, ReserveStep, SettleStep, ReapReads, ReapApplies, Refuse, Commit, Release,
           SettlesLate, SettleFails, Dies, SweepReads, SweepApplies, SweepFails, HoldLapses,
           WindowTurns
<1>4. ASSUME NEW d \in Calls PROVE calls'[d].look.now <= period'
  BY <1>0, <1>1, <1>2, <1>3 DEF Timely, Look
<1> QED
  BY <1>0, <1>2, <1>4 DEF Timely

\* Until the first window turns, nothing is lost either: the counter is what the rows of
\* committed holds add up to.  After that a roll may take new spend off (the README).
SpentIsExact == period = 1 => \A p \in Policies : spent[p] = Committed(p)

THEOREM SpentIsExactHolds == Spec => []SpentIsExact
<1>1. Init => Timely /\ SpentIsExact
  <2> SUFFICES ASSUME Init PROVE Timely /\ SpentIsExact
    OBVIOUS
  <2>1. Timely
    BY DEF Init, Timely, NoLook
  <2>2. ASSUME NEW p \in Policies PROVE spent[p] = Committed(p)
    <3>1. InStatus(p, "committed") = {} /\ spent[p] = 0
      BY DEF Init, NoEvent, InStatus
    <3> QED
      BY <3>1, SumEmpty DEF Committed
  <2> QED
    BY <2>1, <2>2 DEF SpentIsExact
<1>2. TypeOK /\ Placed /\ ChainInv /\ Timely /\ SpentIsExact /\ [Next]_vars =>
        (Timely /\ SpentIsExact)'
  BY ChargedStep, TimelyStep DEF SpentIsExact, FirstWindow
<1> QED
  BY <1>1, <1>2, TypeAndPlace, ChainInvariant, PTL DEF Spec

-----------------------------------------------------------------------------
(* The limit.                                                              *)

\* What the CHECK constraint budget_never_overcommitted says of every row.
NeverOvercommitted == \A p \in Policies : spent[p] + reserved[p] <= Limit[p]

LEMMA FitsStep ==
  ASSUME TypeOK, Placed, ChainInv, [Next]_vars, NEW p \in Policies,
         spent[p] + reserved[p] <= Limit[p]
  PROVE  spent'[p] + reserved'[p] <= Limit[p]
<1>1. /\ spent[p] \in Nat /\ reserved[p] \in Nat /\ Limit[p] \in Nat
      /\ spent'[p] \in Nat /\ reserved'[p] \in Nat
  BY StepType, PolicyAssumption DEF TypeOK
<1>2. CASE \E c \in Calls : Takes(p, c) \/ Charges(p, c)
  BY <1>2 DEF Takes, Charges
<1>3. CASE /\ \E given \in SUBSET Open(p), n \in Nat : Gives(p, given, n)
           /\ spent'[p] <= spent[p]
  <2>1. PICK n \in Nat : reserved'[p] = Less(reserved[p], n)
    BY <1>3 DEF Gives
  <2>2. reserved'[p] <= reserved[p]
    BY <1>1, <2>1, LessBounds
  <2> QED
    BY <1>1, <1>3, <2>2
<1> QED
  BY <1>2, <1>3, ColumnSteps, SpendSteps DEF ColumnMoves, SpendMoves, Lowers

\* No policy's counters pass its limit (NeverOvercommitted): where a settlement would,
\* the constraint of the table stops it, and no other step can.
THEOREM CountersFit == Spec => []NeverOvercommitted
<1>1. Init => NeverOvercommitted
  BY PolicyAssumption DEF Init, NeverOvercommitted
<1>2. TypeOK /\ Placed /\ ChainInv /\ NeverOvercommitted /\ [Next]_vars => NeverOvercommitted'
  BY FitsStep DEF NeverOvercommitted
<1> QED
  BY <1>1, <1>2, TypeAndPlace, ChainInvariant, PTL DEF Spec

\* What a hold was given back twice for is not forgotten.
LEMMA DoubledStays ==
  ASSUME TypeOK, [Next]_vars, NEW p \in Policies, doubled[p]
  PROVE  doubled'[p]
<1>1. ASSUME NEW snap, Reap(snap) PROVE doubled'[p]
  BY <1>1, Zenon DEF Reap
<1>2. CASE UNCHANGED doubled
  BY <1>2
<1> QED
  BY <1>1, <1>2
     DEF Next, vars, books, history, ReserveStep, SettleStep, ReapReads, ReapApplies, ScopeIsFree,
         PolicyReads, Hold, Refuse, ReserveFails, Commit, Release, SettlesLate, SettleFails, Dies,
         CallEnds, SweepReads, SweepApplies, SweepFails, HoldLapses, WindowTurns

\* While no hold was given back twice, the counter is exact: a hold is taken off once,
\* with the amount it was put on.
LEMMA ExactStep ==
  ASSUME TypeOK, NEW p \in Policies, ColumnMoves(p), reserved[p] = Held(p), ~doubled'[p]
  PROVE  reserved'[p] = Held(p)'
<1>1. Open(p) \in SUBSET Calls /\ reserved[p] \in Nat
  BY DEF Open, InStatus, TypeOK
<1>2. ASSUME NEW c \in Calls, Takes(p, c) PROVE reserved'[p] = Held(p)'
  <2> DEFINE O == Open(p) \cup {c}
  <2>1. O \in SUBSET Calls /\ c \in O /\ O \ {c} = Open(p) /\ Estimate[c] \in Nat
    BY <1>1, <1>2, EstimateAssumption DEF Takes
  <2> HIDE DEF O
  <2>2. Sum(Estimate, O) = Estimate[c] + Sum(Estimate, O \ {c})
    BY <2>1, EstimatesAdd
  <2>3. Held(p)' = Sum(Estimate, O)
    BY <1>2 DEF Takes, Held, O
  <2>4. reserved'[p] = reserved[p] + Estimate[c]
    BY <1>2 DEF Takes
  <2>5. Held(p) = Sum(Estimate, O \ {c}) /\ Held(p) \in Nat
    BY <1>1, <2>1, EstimatesAdd DEF Held
  <2> QED
    BY <2>1, <2>2, <2>3, <2>4, <2>5
<1>3. ASSUME NEW given \in SUBSET Open(p), NEW n \in Nat, Gives(p, given, n)
      PROVE  reserved'[p] = Held(p)'
  <2>1. /\ Held(p) = Sum(Estimate, given) + Sum(Estimate, Open(p) \ given)
        /\ Sum(Estimate, given) \in Nat /\ Sum(Estimate, Open(p) \ given) \in Nat
    BY <1>1, EstimatesAdd DEF Held
  <2>2. Held(p)' = Sum(Estimate, Open(p) \ given)
    BY <1>3 DEF Gives, Held
  <2>3. n = Sum(Estimate, given) /\ reserved'[p] = Less(reserved[p], n)
    BY <1>3 DEF Gives
  <2>4. Less(reserved[p], n) = reserved[p] - n
    BY <1>1, <2>1, <2>3 DEF Less
  <2> QED
    BY <1>1, <2>1, <2>2, <2>3, <2>4
<1> QED
  BY <1>2, <1>3 DEF ColumnMoves

\* Until a hold is given back twice, the counter of a policy is the sum of its open holds.
CountersAreExact == \A p \in Policies : doubled[p] \/ reserved[p] = OpenHolds(p)

\* Deaths, reaps, late settlements and refusals leave reserved_cents exact
\* (CountersAreExact); only a reaper that gives back a hold already over does not.
THEOREM ReservedIsExact == Spec => []CountersAreExact
<1> DEFINE Exact == \A p \in Policies : doubled[p] \/ reserved[p] = Held(p)
<1>1. Init => Exact
  <2> SUFFICES ASSUME Init, NEW p \in Policies PROVE reserved[p] = Held(p)
    OBVIOUS
  <2>1. Open(p) = {} /\ reserved[p] = 0
    BY DEF Init, NoEvent, Open, InStatus
  <2> QED
    BY <2>1, SumEmpty DEF Held
<1>2. TypeOK /\ Placed /\ ChainInv /\ Exact /\ [Next]_vars => Exact'
  <2> SUFFICES ASSUME TypeOK, Placed, ChainInv, Exact, [Next]_vars, NEW p \in Policies,
                      ~doubled'[p]
               PROVE  reserved'[p] = Held(p)'
    OBVIOUS
  <2>1. reserved[p] = Held(p)
    BY DoubledStays
  <2> QED
    BY <2>1, ColumnSteps, ExactStep
<1>3. TypeOK /\ RowInv /\ Exact => CountersAreExact
  BY OpenHoldsIsHeld DEF CountersAreExact
<1> QED
  BY <1>1, <1>2, <1>3, TypeAndPlace, ChainInvariant, RowInvariant, PTL DEF Spec

\* Until a roll takes spend of the window off, the counter has all that was paid in it.
PaidIsSpent == \A p \in Policies : erased[p] \/ paid[p] <= spent[p]

LEMMA RollKeepsPaid ==
  ASSUME TypeOK, NEW q \in Policies, NEW look \in Look, Roll(q, look), NEW p \in Policies,
         erased[p] \/ paid[p] <= spent[p]
  PROVE  erased'[p] \/ paid'[p] <= spent'[p]
<1>1. /\ spent[p] \in Nat /\ paid[p] \in Nat
      /\ RolledSpent(q, look) \in Nat
  BY DEF TypeOK, RolledSpent
<1>2. CASE p # q
  <2>1. spent'[p] = spent[p] /\ paid'[p] = paid[p] /\ erased'[p] = erased[p]
    BY <1>2 DEF Roll, TypeOK
  <2> QED
    BY <2>1
<1>3. CASE p = q
  <2>1. spent'[p] = RolledSpent(p, look) /\ paid'[p] = IF Opens(p, look) THEN 0 ELSE paid[p]
    BY <1>3 DEF Roll, TypeOK
  <2>2. erased'[p] = (~Opens(p, look) /\ (erased[p] \/ RolledSpent(p, look) < spent[p]))
    <3>1. erased' = [erased EXCEPT ![p] =
                       ~Opens(p, look) /\ (@ \/ RolledSpent(p, look) < spent[p])]
      BY <1>3 DEF Roll
    <3>2. p \in DOMAIN erased
      BY DEF TypeOK
    <3> QED
      BY <3>1, <3>2, Zenon
  <2>3. CASE Opens(p, look)
    <3>1. paid'[p] = 0 /\ spent'[p] \in Nat
      BY <1>1, <1>3, <2>1, <2>3
    <3> QED
      BY <3>1
  <2>4. CASE ~Opens(p, look)
    <3>1. paid'[p] = paid[p]
      BY <2>1, <2>4
    <3>2. ~erased'[p] => ~erased[p] /\ ~(RolledSpent(p, look) < spent[p])
      BY <2>2, <2>4, Zenon
    <3>3. RolledSpent(p, look) \in Nat
      BY <1>1, <1>3
    <3>4. ~erased'[p] => paid[p] <= spent[p] /\ spent[p] <= RolledSpent(p, look)
      BY <1>1, <3>2, <3>3
    <3> QED
      BY <1>1, <2>1, <3>1, <3>3, <3>4
  <2> QED
    BY <2>3, <2>4
<1> QED
  BY <1>2, <1>3

LEMMA PaidStep ==
  ASSUME TypeOK, Placed, [Next]_vars, NEW p \in Policies, erased[p] \/ paid[p] <= spent[p]
  PROVE  erased'[p] \/ paid'[p] <= spent'[p]
<1>1. \A c \in Calls : calls[c].look \in Look
  BY DEF TypeOK, Call
<1>2. ASSUME NEW c \in Calls, Hold(c) PROVE erased'[p] \/ paid'[p] <= spent'[p]
  <2>1. Roll(Policy(c), calls[c].look) /\ Policy(c) \in Policies
    BY <1>2, PolicyType DEF Hold, Placed
  <2> QED
    BY <1>1, <2>1, RollKeepsPaid
<1>3. CASE UNCHANGED <<spent, paid, erased>>
  BY <1>3
<1>4. ASSUME NEW c \in Calls, Refuse(c) PROVE erased'[p] \/ paid'[p] <= spent'[p]
  <2>1. \/ UNCHANGED <<spent, paid, erased>>
        \/ Roll(Policy(c), calls[c].look) /\ Policy(c) \in Policies
    BY <1>4, PolicyType DEF Refuse, Placed
  <2> QED
    BY <1>1, <1>3, <2>1, RollKeepsPaid
<1>5. ASSUME NEW c \in Calls, Commit(c) PROVE erased'[p] \/ paid'[p] <= spent'[p]
  <2> DEFINE q == Head(calls[c].held)
             k == calls[c].cost
  <2>1. /\ spent' = [spent EXCEPT ![q] = @ + k] /\ paid' = [paid EXCEPT ![q] = @ + k]
        /\ UNCHANGED erased
    BY <1>5 DEF Commit
  <2>2. spent[p] \in Nat /\ paid[p] \in Nat /\ k \in Nat
    <3>1. calls[c] \in Call /\ spent[p] \in Nat /\ paid[p] \in Nat
      BY DEF TypeOK
    <3> QED
      BY <3>1 DEF Call
  <2>3. /\ spent'[p] = IF p = q THEN spent[p] + k ELSE spent[p]
        /\ paid'[p] = IF p = q THEN paid[p] + k ELSE paid[p]
    BY <2>1 DEF TypeOK
  <2> HIDE DEF q, k
  <2> QED
    BY <2>1, <2>2, <2>3
<1> QED
  BY <1>2, <1>3, <1>4, <1>5
     DEF Next, vars, books, history, ReserveStep, SettleStep, ReapReads, ReapApplies, Reap,
         ScopeIsFree, PolicyReads, ReserveFails, Release, SettlesLate, SettleFails, Dies,
         CallEnds, SweepReads, SweepApplies, SweepFails, HoldLapses, WindowTurns

LEMMA PaidIsSpentHolds == Spec => []PaidIsSpent
<1>1. Init => PaidIsSpent
  BY DEF Init, PaidIsSpent
<1>2. TypeOK /\ Placed /\ PaidIsSpent /\ [Next]_vars => PaidIsSpent'
  BY PaidStep DEF PaidIsSpent
<1> QED
  BY <1>1, <1>2, TypeAndPlace, PTL DEF Spec

\* What calls were charged in a policy's window and what is held open fit its limit, unless
\* a hold was given back twice or a roll took spend of the window off (LimitIsKept).
THEOREM LimitIsKeptHolds == Spec => []LimitIsKept
<1>1. TypeOK /\ RowInv /\ NeverOvercommitted /\ CountersAreExact /\ PaidIsSpent => LimitIsKept
  <2> SUFFICES ASSUME TypeOK, RowInv, NeverOvercommitted, CountersAreExact, PaidIsSpent,
                      NEW p \in Policies, ~erased[p], ~doubled[p]
               PROVE  paid[p] + OpenHolds(p) <= Limit[p]
    BY DEF LimitIsKept
  <2>1. /\ spent[p] + reserved[p] <= Limit[p] /\ reserved[p] = OpenHolds(p)
        /\ paid[p] <= spent[p]
    BY DEF NeverOvercommitted, CountersAreExact, PaidIsSpent
  <2>2. /\ spent[p] \in Nat /\ reserved[p] \in Nat /\ paid[p] \in Nat /\ Limit[p] \in Nat
    BY PolicyAssumption DEF TypeOK
  <2> QED
    BY <2>1, <2>2
<1> QED
  BY <1>1, CountersFit, ReservedIsExact, PaidIsSpentHolds, TypeAndPlace, RowInvariant, PTL
=============================================================================
