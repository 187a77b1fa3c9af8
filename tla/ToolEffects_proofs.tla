------------------------- MODULE ToolEffects_proofs -------------------------
(***************************************************************************)
(* Theorems about ToolEffects, for any slots, contents, classes and bounds.*)
(***************************************************************************)
EXTENDS ToolEffects, TLAPS

USE ClassAssumption, EpochAssumption

-----------------------------------------------------------------------------
(* Types.                                                                  *)

\* Replacing a call by one with another stage, or dropping it, keeps the type.
LEMMA CallEdits ==
  ASSUME calls \subseteq Call, NEW k \in calls
  PROVE  /\ Dismiss(k) => calls' \subseteq Call
         /\ \A o \in Settled : Replace(k, [k EXCEPT !.stage = o]) => calls' \subseteq Call
         /\ Replace(k, [k EXCEPT !.happened = TRUE]) => calls' \subseteq Call
<1>1. k \in Call
  OBVIOUS
<1>2. /\ [k EXCEPT !.stage = "gone"] \in Call
      /\ \A o \in Settled : [k EXCEPT !.stage = o] \in Call
      /\ [k EXCEPT !.happened = TRUE] \in Call
  BY <1>1 DEF Call
<1>3. \A l \in Call : Replace(k, l) => calls' \subseteq Call
  BY DEF Replace
<1>4. Dismiss(k) => calls' \subseteq Call
  <2>1. Dismiss(k) => calls' = calls \ {k} \/ Replace(k, [k EXCEPT !.stage = "gone"])
    BY DEF Dismiss
  <2> QED
    BY <1>2, <1>3, <2>1
<1> QED
  BY <1>2, <1>3, <1>4

\* A claim stores a well-formed row and starts a well-formed call.
LEMMA HoldType ==
  ASSUME TypeOK, NEW s \in Slots, NEW row \in Row, Hold(s, row)
  PROVE  TypeOK'
<1>1. [slot |-> s, count |-> row.count, stage |-> "running", happened |-> FALSE] \in Call
  BY DEF Call, Row
<1>2. calls' \subseteq Call
  BY <1>1 DEF Hold, TypeOK
<1> QED
  BY <1>2 DEF Hold, TypeOK

LEMMA TakeType == TypeOK => \A s \in Slots : Taken(rows[s]) \in Row
BY DEF TypeOK, Taken, Row, Status

\* Every variable keeps its type (TypeOK): the tool_effects rows and the calls.
THEOREM TypeCorrect == Spec => []TypeOK
<1>1. Init => TypeOK
  <2> SUFFICES ASSUME Init PROVE TypeOK
    OBVIOUS
  <2>1. epoch \in Nat /\ owned \in BOOLEAN
    BY DEF Init, Turn!Init
  <2>2. NoRow \in Row
    BY DEF NoRow, Row, Status
  <2> QED
    BY <2>1, <2>2 DEF Init, TypeOK
<1>2. TypeOK /\ [Next]_vars => TypeOK'
  <2> SUFFICES ASSUME TypeOK, [Next]_vars PROVE TypeOK'
    OBVIOUS
  <2>1. CASE TurnLeft \/ TurnClaimed
    <3>1. CASE TurnLeft
      BY <3>1 DEF TurnLeft, Turn!Ends, TypeOK
    <3>2. CASE TurnClaimed
      BY <3>2 DEF TurnClaimed, Turn!Starts, TypeOK
    <3> QED
      BY <2>1, <3>1, <3>2
  <2>2. ASSUME NEW e \in 1..epoch, NEW s \in Slots, ClaimStep(e, s) PROVE TypeOK'
    <3>1. ASSUME NEW c \in Contents, Open(e, s, c) PROVE TypeOK'
      <4>1. [status |-> "executing", content |-> c, count |-> 1, opener |-> e, lapsed |-> FALSE] \in Row
        BY DEF Row, Status, TypeOK
      <4> QED
        BY <3>1, <4>1, HoldType DEF Open
    <3>2. CASE Retry(e, s) \/ Retake(e, s)
      BY <3>2, HoldType, TakeType DEF Retry, Retake, Take
    <3>3. CASE HandToOperator(e, s)
      BY <3>3 DEF HandToOperator, TypeOK, Row, Status
    <3> QED
      BY <2>2, <3>1, <3>2, <3>3 DEF ClaimStep
  <2>3. ASSUME NEW k \in calls, CallStep(k) PROVE TypeOK'
    <3> k \in Call /\ calls \subseteq Call
      BY DEF TypeOK
    <3>1. CASE Happens(k)
      <4>1. calls' \subseteq Call
        BY <3>1, CallEdits DEF Happens
      <4> QED
        BY <3>1, <4>1 DEF Happens, TypeOK, Call
    <3>2. CASE Settle(k)
      <4>1. calls' \subseteq Call
        BY <3>2, CallEdits DEF Settle
      <4> QED
        BY <3>2, <4>1 DEF Settle, TypeOK, Row, Status
    <3>3. CASE Abandoned(k)
      BY <3>3, CallEdits DEF Abandoned, TypeOK
    <3>4. ASSUME NEW o \in Settled, Returns(k, o) PROVE TypeOK'
      BY <3>4, CallEdits DEF Returns, TypeOK
    <3> QED
      BY <2>3, <3>1, <3>2, <3>3, <3>4 DEF CallStep
  <2>4. ASSUME NEW s \in Slots, LeaseLapses(s) \/ ExpireLease(s) \/ Resolve(s) PROVE TypeOK'
    <3>1. rows[s] \in Row
      BY DEF TypeOK
    <3>2. \A r \in Row, v \in Status, b \in BOOLEAN :
            /\ [r EXCEPT !.lapsed = b] \in Row
            /\ [r EXCEPT !.status = v] \in Row
            /\ [r EXCEPT !.status = v, !.lapsed = b] \in Row
      BY DEF Row
    <3>3. {"ambiguous", "succeeded", "failed"} \subseteq Status
      BY DEF Status, Settled
    <3>4. CASE LeaseLapses(s)
      BY <3>1, <3>2, <3>4 DEF LeaseLapses, TypeOK, Status
    <3>5. CASE ExpireLease(s)
      BY <3>1, <3>2, <3>3, <3>5 DEF ExpireLease, TypeOK
    <3>6. CASE Resolve(s)
      <4>1. \A r \in Row : [rows EXCEPT ![s] = r] \in [Slots -> Row]
        BY DEF TypeOK
      <4>2. /\ [rows[s] EXCEPT !.status = "succeeded"] \in Row
            /\ [rows[s] EXCEPT !.status = "failed"] \in Row
        BY <3>1, <3>2, <3>3
      <4>3. \/ rows' = [rows EXCEPT ![s] = [rows[s] EXCEPT !.status = "succeeded"]]
            \/ rows' = [rows EXCEPT ![s] = [rows[s] EXCEPT !.status = "failed"]]
        BY <3>6 DEF Resolve
      <4>4. rows' \in [Slots -> Row]
        BY <4>1, <4>2, <4>3
      <4>5. /\ UNCHANGED <<epoch, owned, calls, effects>>
            /\ reopened' = reopened \/ reopened' = reopened \cup {s}
        BY <3>6 DEF Resolve
      <4> QED
        BY <4>4, <4>5 DEF TypeOK
    <3> QED
      BY <2>4, <3>4, <3>5, <3>6
  <2>5. CASE UNCHANGED vars
    BY <2>5 DEF vars, TypeOK
  <2> QED
    BY <2>1, <2>2, <2>3, <2>4, <2>5 DEF Next
<1> QED
  BY <1>1, <1>2, PTL DEF Spec

-----------------------------------------------------------------------------
(* One execution opens the slots.                                          *)

\* Rows were opened by an execution the turn has had.
OpenerInPast == \A s \in Slots : rows[s].status # Unwritten => rows[s].opener \in 1..epoch

\* Nothing but Open changes the opener of a written row.
LEMMA OpenerSteps ==
  ASSUME TypeOK, [Next]_vars
  PROVE  /\ epoch' >= epoch
         /\ \/ \A s \in Slots : /\ rows'[s].opener = rows[s].opener
                                /\ rows'[s].status = Unwritten <=> rows[s].status = Unwritten
            \/ \E e \in 1..epoch, s \in Slots, c \in Contents : Open(e, s, c)
<1> USE DEF TypeOK, Row
<1>1. CASE TurnLeft \/ TurnClaimed
  BY <1>1 DEF TurnLeft, TurnClaimed, Turn!Ends, Turn!Starts
<1>2. ASSUME NEW e \in 1..epoch, NEW s \in Slots, Retry(e, s) \/ Retake(e, s) \/ HandToOperator(e, s)
      PROVE  /\ epoch' >= epoch
             /\ \A u \in Slots : /\ rows'[u].opener = rows[u].opener
                                 /\ rows'[u].status = Unwritten <=> rows[u].status = Unwritten
  <2>1. rows[s].status # Unwritten /\ UNCHANGED epoch
    BY <1>2 DEF Retry, Retake, HandToOperator, Take, Hold, Unknown, Lapsed, Unwritten
  <2>2. CASE HandToOperator(e, s)
    BY <2>1, <2>2 DEF HandToOperator, Unwritten
  <2>3. CASE Retry(e, s) \/ Retake(e, s)
    <3>1. rows' = [rows EXCEPT ![s] = Taken(rows[s])]
      BY <2>3 DEF Retry, Retake, Take, Hold
    <3> QED
      BY <2>1, <3>1 DEF Taken, Unwritten
  <2> QED
    BY <1>2, <2>2, <2>3
<1>3. ASSUME NEW e \in 1..epoch, NEW s \in Slots, NEW c \in Contents, Open(e, s, c)
      PROVE  epoch' = epoch
  BY <1>3 DEF Open, Hold
<1>4. ASSUME NEW k \in calls, CallStep(k)
      PROVE  /\ epoch' >= epoch
             /\ \A u \in Slots : /\ rows'[u].opener = rows[u].opener
                                 /\ rows'[u].status = Unwritten <=> rows[u].status = Unwritten
  BY <1>4 DEF CallStep, Happens, Settle, Abandoned, Returns, Holds, Settled, Unwritten, Call
<1>5. ASSUME NEW s \in Slots, LeaseLapses(s) \/ ExpireLease(s) \/ Resolve(s)
      PROVE  /\ epoch' >= epoch
             /\ \A u \in Slots : /\ rows'[u].opener = rows[u].opener
                                 /\ rows'[u].status = Unwritten <=> rows[u].status = Unwritten
  BY <1>5 DEF LeaseLapses, ExpireLease, Resolve, Lapsed, Unwritten
<1>6. CASE UNCHANGED vars
  BY <1>6 DEF vars
<1> QED
  BY <1>1, <1>2, <1>3, <1>4, <1>5, <1>6 DEF Next, ClaimStep

\* All slots of a turn are opened by one of its executions (OneOpener): a recovered
\* execution that finds writes of an earlier one opens none of its own.
THEOREM OneOpenerHolds == Spec => []OneOpener
<1>1. Init => OpenerInPast /\ OneOpener
  BY DEF Init, OpenerInPast, OneOpener, NoRow
<1>2. TypeOK /\ TypeOK' /\ OpenerInPast /\ OneOpener /\ [Next]_vars => OpenerInPast' /\ OneOpener'
  <2> SUFFICES ASSUME TypeOK, TypeOK', OpenerInPast, OneOpener, [Next]_vars
               PROVE  OpenerInPast' /\ OneOpener'
    OBVIOUS
  <2>1. CASE \A s \in Slots : /\ rows'[s].opener = rows[s].opener
                              /\ rows'[s].status = Unwritten <=> rows[s].status = Unwritten
    <3>1. epoch \in Nat /\ epoch' \in Nat /\ epoch' >= epoch
      BY OpenerSteps DEF TypeOK
    <3> QED
      BY <2>1, <3>1 DEF OpenerInPast, OneOpener
  <2>2. ASSUME NEW e \in 1..epoch, NEW s \in Slots, NEW c \in Contents, Open(e, s, c)
        PROVE  OpenerInPast' /\ OneOpener'
    <3>1. /\ e = epoch /\ epoch' = epoch /\ epoch \in Nat
          /\ rows'[s].opener = e
          /\ \A u \in Slots \ {s} : rows'[u] = rows[u]
      BY <2>2 DEF Open, Current, Hold, TypeOK
    <3>2. \A u \in Slots \ {s} : rows[u].status # Unwritten => rows[u].opener = e
      BY <2>2, <3>1 DEF Open, MayOpen, OpenerInPast
    <3> QED
      BY <3>1, <3>2 DEF OpenerInPast, OneOpener
  <2> QED
    BY <2>1, <2>2, OpenerSteps
<1> QED
  BY <1>1, <1>2, TypeCorrect, PTL DEF Spec

-----------------------------------------------------------------------------
(* A non-idempotent effect happens once.                                   *)

\* The effect of the call may still happen.
Pending(k) == ~k.happened /\ k.stage # "failed"

\* Each call belongs to one claim of its row, and says the truth about its effect.
CallsInv ==
  /\ \A k \in calls : /\ rows[k.slot].status # Unwritten
                      /\ k.count <= rows[k.slot].count
                      /\ k.stage = "succeeded" => k.happened
                      /\ k.happened => effects[k.slot] > 0
  /\ \A k, l \in calls : k.slot = l.slot /\ k.count = l.count => k = l
  /\ \A s \in Slots : rows[s].status = Unwritten =>
                       effects[s] = 0 /\ rows[s].count = 0 /\ s \notin reopened

\* A slot whose call must not be repeated and that no operator reopened.
Guarded(s) == rows[s].status # Unwritten /\ Unsafe(rows[s].content) /\ s \notin reopened

\* At a guarded slot only the row's last claim may still take effect, and only while
\* nothing happened; a failed row has had no effect and cannot get one.
OnceInv ==
  \A s \in Slots : Guarded(s) =>
    /\ effects[s] <= 1
    /\ \A k \in calls : k.slot = s /\ Pending(k) => k.count = rows[s].count /\ effects[s] = 0
    /\ \A k \in calls : k.slot = s /\ k.stage = "failed" /\ k.count = rows[s].count => effects[s] = 0
    /\ rows[s].status = "failed" => effects[s] = 0 /\ \A k \in calls : k.slot = s => ~Pending(k)

\* A failed call has no effect, whether or not its row was settled.
FailedIsQuiet == \A k \in calls : k.stage = "failed" => ~k.happened

EffectInv == CallsInv /\ OnceInv /\ FailedIsQuiet /\ ReplayIsTrue

\* A claim adds a call with a count of its own; the calls before it had lower ones.
LEMMA HoldInductive ==
  ASSUME TypeOK, EffectInv, NEW s \in Slots, NEW row \in Row, Hold(s, row),
         row.status = "executing", row.count > rows[s].count,
         \/ rows[s].status = Unwritten
         \/ row.content = rows[s].content /\ (~Unsafe(row.content) \/ rows[s].status = "failed")
  PROVE  EffectInv'
<1> DEFINE new == [slot |-> s, count |-> row.count, stage |-> "running", happened |-> FALSE]
<1>1. /\ rows' = [rows EXCEPT ![s] = row] /\ calls' = calls \cup {new}
      /\ UNCHANGED <<epoch, owned, effects, reopened>>
  BY DEF Hold
<1>2. /\ \A k \in calls : k \in Call /\ k.slot \in Slots /\ k.count \in Nat
      /\ \A k \in calls : k.slot = s => k.count < row.count
      /\ rows[s].count \in Nat /\ row.count \in Nat
  BY DEF TypeOK, Call, Row, EffectInv, CallsInv
<1>3. CallsInv'
  <2>1. \A k \in calls' : /\ rows'[k.slot].status # Unwritten
                          /\ k.count <= rows'[k.slot].count
                          /\ k.stage = "succeeded" => k.happened
                          /\ k.happened => effects'[k.slot] > 0
    <3>1. rows'[s] = row /\ row.status # Unwritten
      BY <1>1 DEF TypeOK, Unwritten
    <3>2. \A k \in calls : k.slot # s => rows'[k.slot] = rows[k.slot]
      BY <1>1, <1>2 DEF TypeOK
    <3> QED
      BY <1>1, <1>2, <3>1, <3>2 DEF EffectInv, CallsInv
  <2>2. \A k, l \in calls' : k.slot = l.slot /\ k.count = l.count => k = l
    <3>1. \A k \in calls : ~(k.slot = s /\ k.count = row.count)
      BY <1>2
    <3>2. new.slot = s /\ new.count = row.count
      OBVIOUS
    <3> HIDE DEF new
    <3> QED
      BY <1>1, <3>1, <3>2 DEF EffectInv, CallsInv
  <2>3. \A u \in Slots : rows'[u].status = Unwritten =>
                           effects'[u] = 0 /\ rows'[u].count = 0 /\ u \notin reopened'
    BY <1>1 DEF EffectInv, CallsInv, TypeOK, Unwritten
  <2> QED
    BY <2>1, <2>2, <2>3 DEF CallsInv
<1>4. OnceInv'
  <2> SUFFICES ASSUME NEW u \in Slots, Guarded(u)'
               PROVE  /\ effects[u] <= 1
                      /\ \A k \in calls' : k.slot = u /\ Pending(k) =>
                           k.count = rows'[u].count /\ effects[u] = 0
                      /\ \A k \in calls' : k.slot = u /\ k.stage = "failed" /\ k.count = rows'[u].count
                           => effects[u] = 0
                      /\ rows'[u].status = "failed" =>
                           effects[u] = 0 /\ \A k \in calls' : k.slot = u => ~Pending(k)
    BY <1>1 DEF OnceInv, Pending
  <2>1. CASE u # s
    BY <1>1, <2>1 DEF EffectInv, OnceInv, Guarded, TypeOK
  <2>2. CASE u = s
    <3>1. effects[s] = 0 /\ \A k \in calls : k.slot = s => ~Pending(k)
      BY <1>1, <2>2 DEF EffectInv, OnceInv, CallsInv, Guarded, TypeOK
    <3> QED
      BY <1>1, <1>2, <2>2, <3>1 DEF TypeOK
  <2> QED
    BY <2>1, <2>2
<1>5. FailedIsQuiet' /\ ReplayIsTrue'
  BY <1>1 DEF EffectInv, FailedIsQuiet, ReplayIsTrue, TypeOK
<1> QED
  BY <1>3, <1>4, <1>5 DEF EffectInv

\* A step that starts no call, makes no effect happen and makes no row failed.
LEMMA RowInductive ==
  ASSUME TypeOK, EffectInv, NEW s \in Slots, NEW v \in Status \ {Unwritten}, NEW b \in BOOLEAN,
         rows' = [rows EXCEPT ![s].status = v, ![s].lapsed = b],
         rows[s].status # Unwritten, v # "failed",
         v = "succeeded" => effects[s] > 0,
         UNCHANGED <<calls, effects, reopened>>
  PROVE  EffectInv'
<1>1. \A u \in Slots : /\ rows'[u].content = rows[u].content /\ rows'[u].count = rows[u].count
                       /\ rows'[u].status = IF u = s THEN v ELSE rows[u].status
  BY DEF TypeOK, Row
<1>2. \A k \in calls : k.slot \in Slots
  BY DEF TypeOK, Call
<1>3. CallsInv' /\ FailedIsQuiet' /\ ReplayIsTrue'
  <2>1. \A u \in Slots : rows'[u].status = Unwritten <=> rows[u].status = Unwritten
    BY <1>1
  <2>2. CallsInv'
    <3>1. \A k \in calls : /\ rows'[k.slot].status # Unwritten
                           /\ k.count <= rows'[k.slot].count
      BY <1>1, <1>2, <2>1 DEF EffectInv, CallsInv
    <3>2. \A u \in Slots : rows'[u].status = Unwritten =>
                             effects[u] = 0 /\ rows'[u].count = 0 /\ u \notin reopened
      BY <1>1, <2>1 DEF EffectInv, CallsInv
    <3> QED
      BY <3>1, <3>2 DEF EffectInv, CallsInv
  <2>3. FailedIsQuiet'
    BY DEF EffectInv, FailedIsQuiet
  <2>4. ReplayIsTrue'
    BY <1>1 DEF EffectInv, ReplayIsTrue
  <2> QED
    BY <2>2, <2>3, <2>4
<1>4. OnceInv'
  <2> SUFFICES ASSUME NEW u \in Slots, Guarded(u)'
               PROVE  /\ effects[u] <= 1
                      /\ \A k \in calls : k.slot = u /\ Pending(k) =>
                           k.count = rows'[u].count /\ effects[u] = 0
                      /\ \A k \in calls : k.slot = u /\ k.stage = "failed" /\ k.count = rows'[u].count
                           => effects[u] = 0
                      /\ rows'[u].status = "failed" =>
                           effects[u] = 0 /\ \A k \in calls : k.slot = u => ~Pending(k)
    BY DEF OnceInv, Pending
  <2>1. Guarded(u) /\ (rows'[u].status = "failed" => rows[u].status = "failed")
    BY <1>1 DEF Guarded
  <2>2. rows'[u].count = rows[u].count
    BY <1>1
  <2> QED
    BY <2>1, <2>2 DEF EffectInv, OnceInv
<1> QED
  BY <1>3, <1>4 DEF EffectInv

\* What dismissing a call leaves behind.
LEMMA DismissLeaves ==
  ASSUME TypeOK, EffectInv, NEW k \in calls, Dismiss(k)
  PROVE  /\ \A m \in calls' :
              \/ m \in calls
              \/ /\ m.slot = k.slot /\ m.count = k.count /\ m.stage = "gone"
                 /\ ~m.happened /\ Pending(k)
         /\ \A m, l \in calls' : m.slot = l.slot /\ m.count = l.count => m = l
<1>1. k \in Call
  BY DEF TypeOK
<1>2. CASE k.happened \/ k.stage = "failed"
  BY <1>2 DEF Dismiss, EffectInv, CallsInv
<1>3. CASE ~k.happened /\ k.stage # "failed"
  <2> DEFINE n == [k EXCEPT !.stage = "gone"]
  <2>1. n.slot = k.slot /\ n.count = k.count /\ n.stage = "gone" /\ n.happened = k.happened
    BY <1>1 DEF Call
  <2>2. calls' = (calls \ {k}) \cup {n}
    BY <1>3 DEF Dismiss, Replace
  <2> HIDE DEF n
  <2>3. \A m \in calls' : m \in calls \/ m = n
    BY <2>2
  <2>4. \A m, l \in calls' : m.slot = l.slot /\ m.count = l.count => m = l
    BY <2>1, <2>2 DEF EffectInv, CallsInv
  <2> QED
    BY <1>3, <2>1, <2>3, <2>4 DEF Pending
<1> QED
  BY <1>2, <1>3

\* Dismissing a call without touching its row.
LEMMA DismissInductive ==
  ASSUME TypeOK, EffectInv, NEW k \in calls, Dismiss(k), UNCHANGED <<rows, effects, reopened>>
  PROVE  EffectInv'
<1>2. CallsInv'
  <2>1. \A m \in calls' : /\ rows[m.slot].status # Unwritten
                          /\ m.count <= rows[m.slot].count
                          /\ m.stage = "succeeded" => m.happened
                          /\ m.happened => effects[m.slot] > 0
    BY DismissLeaves DEF EffectInv, CallsInv
  <2> QED
    BY <2>1, DismissLeaves DEF EffectInv, CallsInv
<1>3. OnceInv'
  BY DismissLeaves DEF EffectInv, OnceInv, Guarded, Pending
<1>4. FailedIsQuiet' /\ ReplayIsTrue'
  BY DismissLeaves DEF EffectInv, FailedIsQuiet, ReplayIsTrue
<1> QED
  BY <1>2, <1>3, <1>4 DEF EffectInv

\* The effect of a call happens.
LEMMA HappensInductive ==
  ASSUME TypeOK, EffectInv, NEW k \in calls, Happens(k)
  PROVE  EffectInv'
<1> DEFINE l == [k EXCEPT !.happened = TRUE]
<1>1. /\ k \in Call /\ k.slot \in Slots /\ Pending(k) /\ effects[k.slot] \in Nat
      /\ k.stage # "succeeded"
      /\ \A m \in calls : m.slot \in Slots
  BY DEF TypeOK, Call, Happens, Pending
<1>2. l.slot = k.slot /\ l.count = k.count /\ l.stage = k.stage /\ l.happened
  BY <1>1 DEF Call
<1>3. \A m \in calls' : m = l \/ (m \in calls /\ m # k)
  BY DEF Happens, Replace
<1> HIDE DEF l
<1>4. /\ UNCHANGED <<rows, reopened>>
      /\ effects'[k.slot] = effects[k.slot] + 1
      /\ \A u \in Slots \ {k.slot} : effects'[u] = effects[u]
  BY <1>1 DEF Happens, TypeOK
<1>5. \A u \in Slots : effects[u] \in Nat
  BY DEF TypeOK
<1>6. CallsInv'
  <2>1. \A m \in calls' : /\ rows[m.slot].status # Unwritten
                          /\ m.count <= rows[m.slot].count
                          /\ m.stage = "succeeded" => m.happened
                          /\ m.happened => effects'[m.slot] > 0
    BY <1>1, <1>2, <1>3, <1>4, <1>5 DEF EffectInv, CallsInv
  <2>2. \A m, n \in calls' : m.slot = n.slot /\ m.count = n.count => m = n
    BY <1>2, <1>3 DEF EffectInv, CallsInv
  <2>3. rows[k.slot].status # Unwritten
    BY DEF EffectInv, CallsInv
  <2> QED
    BY <1>4, <2>1, <2>2, <2>3 DEF EffectInv, CallsInv
<1>7. OnceInv'
  <2> SUFFICES ASSUME NEW u \in Slots, Guarded(u)
               PROVE  /\ effects'[u] <= 1
                      /\ \A m \in calls' : m.slot = u /\ Pending(m) =>
                           m.count = rows[u].count /\ effects'[u] = 0
                      /\ \A m \in calls' : m.slot = u /\ m.stage = "failed" /\ m.count = rows[u].count
                           => effects'[u] = 0
                      /\ rows[u].status = "failed" =>
                           effects'[u] = 0 /\ \A m \in calls' : m.slot = u => ~Pending(m)
    BY <1>4 DEF OnceInv, Guarded, Pending
  <2>1. ~Pending(l) /\ l.stage # "failed"
    BY <1>1, <1>2 DEF Pending
  <2>2. CASE u # k.slot
    BY <1>2, <1>3, <1>4, <2>1, <2>2 DEF EffectInv, OnceInv
  <2>3. CASE u = k.slot
    <3>1. k.count = rows[u].count /\ effects[u] = 0 /\ rows[u].status # "failed"
      BY <1>1, <2>3 DEF EffectInv, OnceInv
    <3>2. \A m \in calls : m.slot = u /\ m.count = rows[u].count => m = k
      BY <2>3, <3>1 DEF EffectInv, CallsInv
    <3>3. \A m \in calls : m.slot = u /\ Pending(m) => m = k
      BY <3>2 DEF EffectInv, OnceInv
    <3> QED
      BY <1>3, <1>4, <2>1, <2>3, <3>1, <3>2, <3>3
  <2> QED
    BY <2>2, <2>3
<1>8. FailedIsQuiet' /\ ReplayIsTrue'
  BY <1>1, <1>2, <1>3, <1>4, <1>5 DEF EffectInv, FailedIsQuiet, ReplayIsTrue, Pending
<1> QED
  BY <1>6, <1>7, <1>8 DEF EffectInv

\* The tool returns.
LEMMA ReturnsInductive ==
  ASSUME TypeOK, EffectInv, NEW k \in calls, NEW o \in Settled, Returns(k, o)
  PROVE  EffectInv'
<1> DEFINE l == [k EXCEPT !.stage = o]
<1>1. /\ k \in Call /\ k.stage = "running"
      /\ o = "succeeded" => k.happened
      /\ o = "failed" => ~k.happened
  BY DEF TypeOK, Returns, Provable
<1>2. l.slot = k.slot /\ l.count = k.count /\ l.stage = o /\ l.happened = k.happened
  BY <1>1 DEF Call
<1>3. \A m \in calls' : m = l \/ (m \in calls /\ m # k)
  BY DEF Returns, Replace
<1>4. UNCHANGED <<rows, effects, reopened>>
  BY DEF Returns
<1> HIDE DEF l
<1>5. CallsInv'
  <2>1. \A m \in calls' : /\ rows[m.slot].status # Unwritten
                          /\ m.count <= rows[m.slot].count
                          /\ m.stage = "succeeded" => m.happened
                          /\ m.happened => effects[m.slot] > 0
    BY <1>1, <1>2, <1>3 DEF EffectInv, CallsInv
  <2>2. \A m, n \in calls' : m.slot = n.slot /\ m.count = n.count => m = n
    BY <1>2, <1>3 DEF EffectInv, CallsInv
  <2> QED
    BY <1>4, <2>1, <2>2 DEF EffectInv, CallsInv
<1>6. OnceInv'
  <2>1. Pending(l) => Pending(k)
    BY <1>1, <1>2 DEF Pending
  <2>2. o = "failed" => Pending(k)
    BY <1>1 DEF Pending
  <2> QED
    BY <1>2, <1>3, <1>4, <2>1, <2>2 DEF EffectInv, OnceInv, Guarded, Pending
<1>7. FailedIsQuiet' /\ ReplayIsTrue'
  BY <1>1, <1>2, <1>3, <1>4 DEF EffectInv, FailedIsQuiet, ReplayIsTrue
<1> QED
  BY <1>5, <1>6, <1>7 DEF EffectInv

\* The call's outcome is stored, and the call dismissed.
LEMMA SettleInductive ==
  ASSUME TypeOK, EffectInv, NEW k \in calls, Settle(k)
  PROVE  EffectInv'
<1>1. /\ k \in Call /\ k.slot \in Slots /\ k.stage \in Settled
      /\ rows[k.slot].status = "executing" /\ rows[k.slot].count = k.count
      /\ Dismiss(k) /\ UNCHANGED <<effects, reopened>>
      /\ \A m \in calls : m.slot \in Slots
  BY DEF Settle, Holds, TypeOK, Call
<1>2. \A u \in Slots : /\ rows'[u].content = rows[u].content /\ rows'[u].count = rows[u].count
                       /\ rows'[u].status = IF u = k.slot THEN k.stage ELSE rows[u].status
  BY <1>1 DEF Settle, TypeOK, Row
<1>3. \A u \in Slots : rows'[u].status = Unwritten <=> rows[u].status = Unwritten
  BY <1>1, <1>2 DEF Settled, Unwritten
<1>4. CallsInv'
  <2>1. \A m \in calls' : /\ m.slot \in Slots
                          /\ rows[m.slot].status # Unwritten
                          /\ m.count <= rows[m.slot].count
                          /\ m.stage = "succeeded" => m.happened
                          /\ m.happened => effects[m.slot] > 0
    BY <1>1, DismissLeaves DEF EffectInv, CallsInv
  <2>2. \A m \in calls' : /\ rows'[m.slot].status # Unwritten
                          /\ m.count <= rows'[m.slot].count
                          /\ m.stage = "succeeded" => m.happened
                          /\ m.happened => effects'[m.slot] > 0
    BY <1>1, <1>2, <1>3, <2>1
  <2>3. \A u \in Slots : rows'[u].status = Unwritten =>
                           effects'[u] = 0 /\ rows'[u].count = 0 /\ u \notin reopened'
    BY <1>1, <1>2, <1>3 DEF EffectInv, CallsInv
  <2> QED
    BY <1>1, <2>2, <2>3, DismissLeaves DEF CallsInv
<1>5. OnceInv'
  <2> SUFFICES ASSUME NEW u \in Slots, Guarded(u)'
               PROVE  /\ effects'[u] <= 1
                      /\ \A m \in calls' : m.slot = u /\ Pending(m) =>
                           m.count = rows'[u].count /\ effects'[u] = 0
                      /\ \A m \in calls' : m.slot = u /\ m.stage = "failed" /\ m.count = rows'[u].count
                           => effects'[u] = 0
                      /\ rows'[u].status = "failed" =>
                           effects'[u] = 0 /\ \A m \in calls' : m.slot = u => ~Pending(m)
    BY DEF OnceInv, Pending
  <2>1. Guarded(u) /\ rows'[u].count = rows[u].count /\ effects'[u] = effects[u]
    BY <1>1, <1>2, <1>3 DEF Guarded
  <2>2. \A m \in calls' : m.slot = u /\ Pending(m) => m.count = rows[u].count /\ effects[u] = 0
    BY <1>1, <2>1, DismissLeaves DEF EffectInv, OnceInv
  <2>3. \A m \in calls' : m.slot = u /\ m.stage = "failed" /\ m.count = rows[u].count => effects[u] = 0
    BY <1>1, <2>1, DismissLeaves DEF EffectInv, OnceInv
  <2>4. ASSUME rows'[u].status = "failed"
        PROVE  effects[u] = 0 /\ \A m \in calls' : m.slot = u => ~Pending(m)
    <3>1. CASE u # k.slot
      BY <1>1, <1>2, <2>1, <2>4, <3>1, DismissLeaves DEF EffectInv, OnceInv
    <3>2. CASE u = k.slot
      <4>1. k.stage = "failed" /\ ~Pending(k)
        BY <1>2, <2>4, <3>2 DEF Pending
      <4>2. \A m \in calls : m.slot = u /\ Pending(m) => m = k
        BY <1>1, <2>1, <3>2 DEF EffectInv, OnceInv, CallsInv
      <4> QED
        BY <1>1, <2>1, <3>2, <4>1, <4>2, DismissLeaves DEF EffectInv, OnceInv
    <3> QED
      BY <3>1, <3>2
  <2> QED
    BY <2>1, <2>2, <2>3, <2>4 DEF EffectInv, OnceInv
<1>6. FailedIsQuiet'
  BY <1>1, DismissLeaves DEF EffectInv, FailedIsQuiet
<1>7. ReplayIsTrue'
  BY <1>1, <1>2 DEF EffectInv, ReplayIsTrue, CallsInv
<1> QED
  BY <1>4, <1>5, <1>6, <1>7 DEF EffectInv

\* The operator's decision.
LEMMA ResolveInductive ==
  ASSUME TypeOK, EffectInv, NEW s \in Slots, Resolve(s)
  PROVE  EffectInv'
<1>1. rows[s].status \in {"ambiguous", "manual_recovery_required"} /\ rows[s].lapsed \in BOOLEAN
  BY DEF Resolve, TypeOK, Row
<1>2. CASE effects[s] > 0
  <2>1. rows' = [rows EXCEPT ![s].status = "succeeded", ![s].lapsed = rows[s].lapsed]
    BY <1>2 DEF Resolve, TypeOK, Row
  <2> QED
    <3>1. rows[s].status # Unwritten /\ "succeeded" \in Status \ {Unwritten}
      BY <1>1 DEF Status, Settled, Unwritten
    <3>2. UNCHANGED <<calls, effects, reopened>>
      BY <1>2 DEF Resolve
    <3> QED
      BY <1>1, <1>2, <2>1, <3>1, <3>2, RowInductive
<1>3. CASE effects[s] = 0
  <2>1. /\ UNCHANGED <<calls, effects>> /\ reopened' = reopened \cup {s}
        /\ \A u \in Slots : /\ rows'[u].content = rows[u].content /\ rows'[u].count = rows[u].count
                             /\ rows'[u].status = IF u = s THEN "failed" ELSE rows[u].status
    BY <1>3 DEF Resolve, TypeOK, Row
  <2>2. \A u \in Slots : rows'[u].status = Unwritten <=> rows[u].status = Unwritten
    BY <1>1, <2>1 DEF Unwritten
  <2>3. \A k \in calls : k.slot \in Slots
    BY DEF TypeOK, Call
  <2>4. CallsInv'
    BY <1>1, <2>1, <2>2, <2>3 DEF EffectInv, CallsInv, Unwritten
  <2>5. OnceInv'
    BY <2>1, <2>2 DEF EffectInv, OnceInv, Guarded, Pending
  <2>6. FailedIsQuiet' /\ ReplayIsTrue'
    BY <2>1 DEF EffectInv, FailedIsQuiet, ReplayIsTrue
  <2> QED
    BY <2>4, <2>5, <2>6 DEF EffectInv
<1> QED
  BY <1>2, <1>3 DEF TypeOK

LEMMA EffectInductive == TypeOK /\ EffectInv /\ [Next]_vars => EffectInv'
<1> SUFFICES ASSUME TypeOK, EffectInv, [Next]_vars PROVE EffectInv'
  OBVIOUS
<1> \A k \in calls : k \in Call
  BY DEF TypeOK
<1>0. ASSUME UNCHANGED <<rows, calls, effects, reopened>> PROVE EffectInv'
  BY <1>0 DEF EffectInv, CallsInv, OnceInv, FailedIsQuiet, ReplayIsTrue, Guarded, Pending
<1>1. CASE TurnLeft \/ TurnClaimed \/ UNCHANGED vars
  BY <1>0, <1>1 DEF TurnLeft, TurnClaimed, vars
<1>2. ASSUME NEW e \in 1..epoch, NEW s \in Slots, ClaimStep(e, s) PROVE EffectInv'
  <2>1. ASSUME NEW c \in Contents, Open(e, s, c) PROVE EffectInv'
    <3> DEFINE row == [status |-> "executing", content |-> c, count |-> 1, opener |-> e,
                       lapsed |-> FALSE]
    <3>1. row \in Row /\ row.status = "executing" /\ row.count = 1
      BY DEF Row, Status, TypeOK
    <3>2. Hold(s, row) /\ rows[s].status = Unwritten
      BY <2>1 DEF Open, MayOpen
    <3>3. rows[s].count = 0
      BY <3>2 DEF EffectInv, CallsInv
    <3> HIDE DEF row
    <3> QED
      BY <3>1, <3>2, <3>3, HoldInductive
  <2>2. CASE Retry(e, s) \/ Retake(e, s)
    <3>1. Taken(rows[s]) \in Row /\ Hold(s, Taken(rows[s]))
      BY <2>2, TakeType DEF Retry, Retake, Take
    <3>2. /\ Taken(rows[s]).status = "executing"
          /\ Taken(rows[s]).count > rows[s].count
          /\ Taken(rows[s]).content = rows[s].content
      BY DEF Taken, TypeOK, Row
    <3>3. /\ ~Unsafe(rows[s].content) \/ rows[s].status = "failed"
          /\ rows[s].status # Unwritten
      BY <2>2 DEF Retry, Retake, Unknown, Lapsed, Unwritten
    <3> QED
      BY <3>1, <3>2, <3>3, HoldInductive
  <2>3. CASE HandToOperator(e, s)
    <3>1. rows[s].status # Unwritten
      BY <2>3 DEF HandToOperator, Unknown, Lapsed, Unwritten
    <3>2. "manual_recovery_required" \in Status \ {Unwritten}
      BY DEF Status, Unwritten
    <3> QED
      BY <2>3, <3>1, <3>2, RowInductive DEF HandToOperator
  <2> QED
    BY <1>2, <2>1, <2>2, <2>3 DEF ClaimStep
<1>3. ASSUME NEW k \in calls, CallStep(k) PROVE EffectInv'
  <2>1. CASE Happens(k)
    BY <2>1, HappensInductive
  <2>2. CASE Settle(k)
    BY <2>2, SettleInductive
  <2>3. CASE Abandoned(k)
    BY <2>3, DismissInductive DEF Abandoned
  <2>4. ASSUME NEW o \in Settled, Returns(k, o) PROVE EffectInv'
    BY <2>4, ReturnsInductive
  <2> QED
    BY <1>3, <2>1, <2>2, <2>3, <2>4 DEF CallStep
<1>4. ASSUME NEW s \in Slots, LeaseLapses(s) \/ ExpireLease(s) \/ Resolve(s) PROVE EffectInv'
  <2>1. CASE LeaseLapses(s)
    <3>1. rows' = [rows EXCEPT ![s].status = "executing", ![s].lapsed = TRUE]
      BY <2>1 DEF LeaseLapses, TypeOK, Row
    <3> QED
      BY <2>1, <3>1, RowInductive DEF LeaseLapses, Status, Unwritten
  <2>2. CASE ExpireLease(s)
    <3>1. rows[s].status # Unwritten /\ "ambiguous" \in Status \ {Unwritten}
      BY <2>2 DEF ExpireLease, Lapsed, Status, Settled, Unwritten
    <3> QED
      BY <2>2, <3>1, RowInductive DEF ExpireLease
  <2>3. CASE Resolve(s)
    BY <2>3, ResolveInductive
  <2> QED
    BY <1>4, <2>1, <2>2, <2>3
<1> QED
  BY <1>1, <1>2, <1>3, <1>4 DEF Next

LEMMA EffectInvariant == Spec => [](TypeOK /\ EffectInv)
<1>1. Init => EffectInv
  BY DEF Init, EffectInv, CallsInv, OnceInv, FailedIsQuiet, ReplayIsTrue, Guarded, NoRow, Unwritten
<1> QED
  BY <1>1, TypeCorrect, EffectInductive, PTL DEF Spec

\* A non-idempotent effect happens at most once, whatever crashes, recoveries and
\* lapsed leases there are, unless an operator reopened its slot (AtMostOnce).
THEOREM AtMostOnceHolds == Spec => []AtMostOnce
<1>1. EffectInv => AtMostOnce
  BY DEF EffectInv, OnceInv, Guarded, AtMostOnce, UnsafeSlots
<1> QED
  BY <1>1, EffectInvariant, PTL

\* A replayed call did happen (ReplayIsTrue).
THEOREM ReplayIsTrueHolds == Spec => []ReplayIsTrue
<1>1. EffectInv => ReplayIsTrue
  BY DEF EffectInv
<1> QED
  BY <1>1, EffectInvariant, PTL

-----------------------------------------------------------------------------
(* A live claim is its holder's.                                           *)

\* The claim of a slot is in force: its row is executing and its lease runs.
Live(s) == rows[s].status = "executing" /\ ~rows[s].lapsed

\* A call with the claim of slot s, and the row's next status as its outcome.
Decides(k, s) == k.slot = s /\ k.count = rows[s].count /\ k.stage = rows'[s].status

\* A claim is taken at a row that is not live, so it changes no live row.
LEMMA HoldSparesLive ==
  ASSUME TypeOK, NEW u \in Slots, ~Live(u), NEW row, Hold(u, row)
  PROVE  \A s \in Slots : Live(s) => rows'[s] = rows[s]
BY DEF Hold, TypeOK, Live

\* Only the settlement of a call that holds the claim ends a live one.
LEMMA LiveStep ==
  ASSUME TypeOK, [Next]_vars, NEW s \in Slots, Live(s), rows'[s].status # "executing"
  PROVE  \E k \in calls : Decides(k, s)
<1>1. ASSUME rows' = rows PROVE FALSE
  BY <1>1 DEF Live
<1>2. CASE TurnLeft \/ TurnClaimed \/ UNCHANGED vars
  BY <1>1, <1>2 DEF TurnLeft, TurnClaimed, vars
<1>3. ASSUME NEW e \in 1..epoch, NEW u \in Slots, ClaimStep(e, u) PROVE FALSE
  <2>1. CASE HandToOperator(e, u)
    <3>1. ~Live(u)
      BY <2>1 DEF HandToOperator, Unknown, Lapsed, Live
    <3>2. rows' = [rows EXCEPT ![u].status = "manual_recovery_required", ![u].lapsed = FALSE]
      BY <2>1 DEF HandToOperator
    <3>3. u # s /\ rows'[s] = rows[s]
      BY <3>1, <3>2 DEF TypeOK
    <3> QED
      BY <3>3 DEF Live
  <2>2. CASE ~HandToOperator(e, u)
    <3>1. ~Live(u)
      BY <1>3, <2>2
      DEF ClaimStep, Open, MayOpen, Retry, Retake, Unknown, Lapsed, Live, Unwritten
    <3>2. PICK row : Hold(u, row)
      BY <1>3, <2>2 DEF ClaimStep, Open, Retry, Retake, Take
    <3>3. rows'[s] = rows[s]
      BY <3>1, <3>2, HoldSparesLive
    <3> QED
      BY <3>3 DEF Live
  <2> QED
    BY <2>1, <2>2
<1>4. ASSUME NEW k \in calls, CallStep(k) PROVE Decides(k, s)
  <2>1. CASE Settle(k)
    <3>1. k \in Call /\ k.slot \in Slots /\ Holds(k)
      BY <2>1 DEF TypeOK, Call, Settle
    <3>2. rows' = [rows EXCEPT ![k.slot].status = k.stage, ![k.slot].lapsed = FALSE]
      BY <2>1 DEF Settle
    <3>3. k.slot = s
      BY <3>1, <3>2 DEF TypeOK, Live
    <3>4. rows'[s].status = k.stage
      BY <3>2, <3>3 DEF TypeOK, Row
    <3> QED
      BY <3>1, <3>3, <3>4 DEF Holds, Decides
  <2>2. CASE ~Settle(k)
    <3>1. rows' = rows
      BY <1>4, <2>2 DEF CallStep, Happens, Abandoned, Returns
    <3> QED
      BY <1>1, <3>1
  <2> QED
    BY <2>1, <2>2
<1>5. ASSUME NEW u \in Slots, LeaseLapses(u) \/ ExpireLease(u) \/ Resolve(u) PROVE FALSE
  <2>1. CASE LeaseLapses(u)
    BY <2>1 DEF LeaseLapses, TypeOK, Row, Live
  <2>2. CASE ExpireLease(u)
    BY <2>2 DEF ExpireLease, Lapsed, TypeOK, Live
  <2>3. CASE Resolve(u)
    BY <2>3 DEF Resolve, TypeOK, Live
  <2> QED
    BY <1>5, <2>1, <2>2, <2>3
<1> QED
  BY <1>2, <1>3, <1>4, <1>5 DEF Next

\* A claim is decided by its own holder or after its lease lapsed (LiveClaimIsHeld): a
\* replaced holder, the sweep or an operator never changes a live claim.
THEOREM LiveClaimIsHeldHolds == Spec => LiveClaimIsHeld
<1>1. ASSUME TypeOK, [Next]_vars
      PROVE  \A s \in Slots :
               rows[s].status = "executing" /\ ~rows[s].lapsed /\ rows'[s].status # "executing" =>
                 \E k \in calls : /\ k.slot = s /\ k.count = rows[s].count
                                  /\ k.stage = rows'[s].status
  BY <1>1, LiveStep DEF Live, Decides
<1> QED
  BY <1>1, TypeCorrect, PTL DEF Spec, LiveClaimIsHeld
=============================================================================
