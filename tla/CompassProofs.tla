----------------------------- MODULE CompassProofs -----------------------------
(***************************************************************************)
(* Theorems about Compass, for every calendar, persistence lengths, shock  *)
(* window and set of inputs: its type correctness, and, as long as no      *)
(* range of past days is backfilled, that the classification table         *)
(* implements PersistenceMachine, that every current row follows from the  *)
(* row current before it, that a regime moves with streaks only, and that  *)
(* the historical replay reproduces the table; backfilled or not, that a   *)
(* stored shock fired within its window.                                   *)
(***************************************************************************)
EXTENDS CompassReplay, FiniteSetTheorems, WellFoundedInduction, TLAPS

-------------------------------------------------------------------------------
(* The prior lookup. *)

Above(x, S) == {y \in S : x < y}

LEMMA DaysAreNumbers == Days \subseteq Nat
BY ConfigAssumption DEF Days

(* A table with a row for any day has one for a latest day.                *)
LEMMA LatestExists ==
  ASSUME NEW S \in SUBSET Days, S # {}
  PROVE  Latest(S) \in S /\ \A d \in S : d <= Latest(S)
<1>1. IsFiniteSet(S)
  <2>1. IsFiniteSet(1..MaxDay)
    BY FS_Interval, ConfigAssumption
  <2> QED
    BY <2>1, FS_Subset DEF Days
<1> DEFINE T == {Above(x, S) : x \in S}
<1>2. T \subseteq FiniteSubsetsOf(S)
  <2> SUFFICES ASSUME NEW x \in S PROVE Above(x, S) \in FiniteSubsetsOf(S)
    OBVIOUS
  <2>1. Above(x, S) \in SUBSET S
    BY DEF Above
  <2> QED
    BY <1>1, <2>1, FS_FiniteSubsetsOfFinite
<1>3. PICK m \in S : \A y \in S : <<Above(y, S), Above(m, S)>> \notin StrictSubsetOrdering(S)
  <2>1. IsWellFoundedOn(StrictSubsetOrdering(S), FiniteSubsetsOf(S))
    BY FS_StrictSubsetOrderingWellFounded
  <2>2. T # {}
    OBVIOUS
  <2> HIDE DEF T
  <2>3. \E A \in T : \A B \in T : <<B, A>> \notin StrictSubsetOrdering(S)
    BY <1>2, <2>1, <2>2, WFMin
  <2> QED
    BY <2>3 DEF T
<1>4. \A d \in S : d <= m
  <2> SUFFICES ASSUME NEW d \in S, m < d PROVE FALSE
    <3>1. m \in Nat /\ \A d \in S : d \in Nat
      BY DaysAreNumbers
    <3>2. \A d \in S : ~ (m < d) => d <= m
      BY <3>1
    <3> QED
      BY <3>2
  <2>0. S \subseteq Nat
    BY DaysAreNumbers
  <2>1. /\ Above(d, S) \subseteq Above(m, S)
        /\ d \in Above(m, S) /\ d \notin Above(d, S)
    <3>1. d \in Nat /\ m \in Nat
      BY <2>0
    <3>2. ASSUME NEW y \in S, d < y PROVE m < y
      <4>1. y \in Nat
        BY <2>0
      <4> QED
        BY <3>1, <3>2, <4>1
    <3>3. ~ (d < d)
      BY <3>1
    <3> QED
      BY <3>2, <3>3 DEF Above
  <2>2. Above(d, S) \in SUBSET S /\ Above(m, S) \in SUBSET S
    BY DEF Above
  <2>3. <<Above(d, S), Above(m, S)>> \in StrictSubsetOrdering(S)
    BY <2>1, <2>2 DEF StrictSubsetOrdering
  <2> QED
    BY <1>3, <2>3
<1> QED
  BY <1>4 DEF Latest

(* The latest day of a set whose latest day is known.                      *)
LEMMA LatestIs ==
  ASSUME NEW S \in SUBSET Days, NEW m \in S, \A d \in S : d <= m
  PROVE  Latest(S) = m
<1>1. Latest(S) \in S /\ \A d \in S : d <= Latest(S)
  BY LatestExists
<1>2. Latest(S) \in Nat /\ m \in Nat
  BY <1>1, DaysAreNumbers
<1>3. Latest(S) <= m /\ m <= Latest(S)
  BY <1>1
<1> QED
  BY <1>2, <1>3

(* A lookup finds a stored row or nothing.                                 *)
LEMMA RowAtTyped ==
  ASSUME TypeOK, NEW S, S \subseteq Classified
  PROVE  RowAt(S) \in Row \cup {None}
<1>1. S \in SUBSET Days
  BY DEF Classified
<1>2. S # {} => Latest(S) \in Days
  BY <1>1, LatestExists
<1> QED
  BY <1>2 DEF RowAt, TypeOK

(* The machine computes a regime and a count.                              *)
LEMMA ResolveTyped ==
  ASSUME NEW c \in Regimes, NEW prior \in Row \cup {None}
  PROVE  /\ ResolveActiveRegime(c, prior).active \in Regimes
         /\ ResolveActiveRegime(c, prior).count \in Nat
<1>1. CASE prior = None
  BY <1>1 DEF ResolveActiveRegime, Regimes
<1>2. CASE prior # None
  <2>1. prior.active \in Regimes /\ prior.count \in Nat
    BY <1>2 DEF Row
  <2>2. NewCount(c, prior) \in Nat
    BY <2>1 DEF NewCount
  <2> QED
    BY <1>2, <2>1, <2>2 DEF ResolveActiveRegime
<1> QED
  BY <1>1, <1>2

-------------------------------------------------------------------------------
(* Type correctness. *)

ShockStates == [active : BOOLEAN, expiry : Days \cup {None}]

LEMMA AdvanceTyped ==
  ASSUME NEW prior \in ShockStates, NEW fired \in BOOLEAN, NEW d \in Days, NEW S \in SUBSET Days
  PROVE  AdvanceShockState(prior, fired, d, S) \in ShockStates
<1>1. ExpiryFrom(d, S) \in Days
  BY DEF ExpiryFrom
<1>2. prior.expiry \in Days \cup {None}
  BY DEF ShockStates
<1> QED
  BY <1>1, <1>2 DEF AdvanceShockState, NoShock, ShockStates

LEMMA TypeInit == Init => TypeOK
<1> SUFFICES ASSUME Init PROVE TypeOK
  OBVIOUS
<1>1. NoInput \in Input
  BY DEF NoInput, Input, Regimes
<1>2. NoShock \in [active : BOOLEAN, expiry : Days \cup {None}]
  BY DEF NoShock
<1>3. revisions \in 0..MaxRevisions
  BY ConfigAssumption DEF Init
<1> QED
  BY <1>1, <1>2, <1>3 DEF Init, TypeOK

(* The row a run would store is a row.                                     *)
LEMMA ClassifyTyped ==
  ASSUME TypeOK, NEW d \in Days, Classify(d)
  PROVE  /\ shock' \in [Triggers -> ShockStates]
         /\ run' \in [day : Days, row : Row]
<1> DEFINE i    == input[d]
           std  == ResolveActiveRegime(i.cand, MostRecentBefore(d))
           next == [t \in Triggers |->
                      AdvanceShockState(shock[t], t \in i.fires, d, Series(t, d))]
           on   == {t \in Triggers : next[t].active}
           row  == [cand |-> i.cand, active |-> std.active, count |-> std.count,
                    fired |-> i.fires, shock |-> on,
                    final |-> IF "A" \in on THEN "Risk-Off" ELSE std.active]
<1>1. i.cand \in Regimes /\ i.fires \in SUBSET Triggers
  BY DEF TypeOK, Input
<1>2. next \in [Triggers -> ShockStates]
  <2> SUFFICES ASSUME NEW t \in Triggers
               PROVE  AdvanceShockState(shock[t], t \in i.fires, d, Series(t, d)) \in ShockStates
    OBVIOUS
  <2>1. shock[t] \in ShockStates
    BY DEF TypeOK, ShockStates
  <2>2. Series(t, d) \in SUBSET Days
    BY DEF Series
  <2>3. (t \in i.fires) \in BOOLEAN
    OBVIOUS
  <2> QED
    BY <2>1, <2>2, <2>3, AdvanceTyped
<1>3. std.active \in Regimes /\ std.count \in Nat
  <2>1. MostRecentBefore(d) \in Row \cup {None}
    BY RowAtTyped DEF MostRecentBefore
  <2> QED
    BY <1>1, <2>1, ResolveTyped
<1>4. on \in SUBSET Triggers
  OBVIOUS
<1>5. shock' = next /\ run' = [day |-> d, row |-> row]
  BY DEF Classify
<1> HIDE DEF std, next, on
<1>6. row \in Row
  BY <1>1, <1>3, <1>4 DEF Row, Regimes
<1> QED
  BY <1>2, <1>5, <1>6

LEMMA TypeStep == TypeOK /\ [Next]_vars => TypeOK'
<1> SUFFICES ASSUME TypeOK, [Next]_vars PROVE TypeOK'
  OBVIOUS
<1>1. CASE NextDay
  BY <1>1 DEF NextDay, TypeOK
<1>2. ASSUME NEW d \in Days, Ingest(d) PROVE TypeOK'
  <2>1. PICK i \in Inputs : /\ input' = [input EXCEPT ![d] = i]
                            /\ \/ UNCHANGED revisions
                               \/ revisions < MaxRevisions /\ revisions' = revisions + 1
    BY <1>2 DEF Ingest
  <2>2. i \in Input
    BY InputsAssumption
  <2>3. revisions' \in 0..MaxRevisions
    BY <2>1, ConfigAssumption DEF TypeOK
  <2> QED
    BY <1>2, <2>1, <2>2, <2>3 DEF Ingest, TypeOK
<1>3. ASSUME NEW d \in Days, Classify(d) PROVE TypeOK'
  <2>1. shock' \in [Triggers -> ShockStates] /\ run' \in [day : Days, row : Row]
    BY <1>3, ClassifyTyped
  <2> QED
    BY <1>3, <2>1 DEF Classify, TypeOK, ShockStates
<1>4. CASE Persist
  <2>1. run.day \in Days /\ run.row \in Row
    BY <1>4 DEF Persist, TypeOK
  <2> QED
    BY <1>4, <2>1 DEF Persist, TypeOK
<1>5. CASE Fail
  BY <1>5 DEF Fail, TypeOK
<1>6. CASE UNCHANGED vars
  BY <1>6 DEF vars, TypeOK
<1> QED
  BY <1>1, <1>2, <1>3, <1>4, <1>5, <1>6 DEF Next

(* Every state of the classifier is well typed: whatever is ingested and   *)
(* in whatever order days are classified, a stored row always has a        *)
(* regime, a streak and its shocks.                                        *)
THEOREM TypeCorrect == Spec => []TypeOK
<1>1. Init => TypeOK
  BY TypeInit
<1>2. TypeOK /\ [Next]_vars => TypeOK'
  BY TypeStep
<1> QED
  BY <1>1, <1>2, PTL DEF Spec

-------------------------------------------------------------------------------
(* The table implements the machine. *)

(* No later day is classified, and a run under way is today's and holds    *)
(* what the machine gives for the row before today.                        *)
NoLaterDay == \A d \in Classified : d <= today
RunIsTodays ==
  run # None =>
    /\ run.day = today
    /\ ResolveActiveRegime(run.row.cand, MostRecentBefore(today))
         = [active |-> run.row.active, count |-> run.row.count]
ForwardInv == TypeOK /\ NoLaterDay /\ RunIsTodays

(* The columns of two rows carry the machine from one day to the next.     *)
LEMMA ResolveIsAfter ==
  ASSUME NEW row \in Row, NEW prior \in Row \cup {None},
         ResolveActiveRegime(row.cand, prior) = [active |-> row.active, count |-> row.count]
  PROVE  StateOf(row) = Machine!After(StateOf(prior), row.cand)
<1> DEFINE c == row.cand
           s == StateOf(prior)
<1>1. c \in Regimes /\ c # None /\ row # None
  BY ConfigAssumption DEF Row
<1>2. StateOf(row) = [active  |-> ResolveActiveRegime(c, prior).active,
                      pending |-> IF ResolveActiveRegime(c, prior).count > 0 THEN c ELSE None,
                      count   |-> ResolveActiveRegime(c, prior).count]
  BY <1>1 DEF StateOf
<1>3. CASE prior = None
  <2>1. s = [active |-> None, pending |-> None, count |-> 0]
    BY <1>3 DEF StateOf
  <2> QED
    BY <1>1, <1>2, <1>3, <2>1
       DEF ResolveActiveRegime, Machine!After, Machine!Settled, Machine!Pending
<1>4. CASE prior # None
  <2>1. /\ prior.active \in Regimes /\ prior.count \in Nat /\ prior.cand \in Regimes
        /\ prior.active # None /\ prior.cand # None
    BY <1>4, ConfigAssumption DEF Row
  <2>2. s = [active  |-> prior.active,
             pending |-> IF prior.count > 0 THEN prior.cand ELSE None,
             count   |-> prior.count]
    BY <1>4 DEF StateOf
  <2>3. Machine!Streak(s, c) = NewCount(c, prior)
    BY <1>1, <2>1, <2>2 DEF Machine!Streak, NewCount
  <2>4. NewCount(c, prior) \in Nat /\ NewCount(c, prior) > 0
    BY <2>1 DEF NewCount
  <2>5. Machine!Required(c, s.active) = Required(c, prior.active)
    BY <2>2 DEF Machine!Required, Required, Machine!Severity, Severity,
                Machine!Regimes, Regimes
  <2>6. s.active = prior.active
    BY <2>2
  <2> HIDE DEF s
  <2>7. CASE c = prior.active \/ NewCount(c, prior) >= Required(c, prior.active)
    <3>1. ResolveActiveRegime(c, prior) = [active |-> c, count |-> 0]
      BY <1>4, <2>7 DEF ResolveActiveRegime
    <3>2. Machine!After(s, c) = Machine!Settled(c)
      BY <2>1, <2>3, <2>5, <2>6, <2>7 DEF Machine!After
    <3> QED
      BY <1>2, <3>1, <3>2 DEF s, Machine!Settled
  <2>8. CASE ~ (c = prior.active \/ NewCount(c, prior) >= Required(c, prior.active))
    <3>1. ResolveActiveRegime(c, prior)
            = [active |-> prior.active, count |-> NewCount(c, prior)]
      BY <1>4, <2>8 DEF ResolveActiveRegime
    <3>2. Machine!After(s, c) = Machine!Pending(prior.active, c, NewCount(c, prior))
      BY <2>1, <2>3, <2>5, <2>6, <2>8 DEF Machine!After
    <3> QED
      BY <1>2, <2>4, <3>1, <3>2 DEF s, Machine!Pending
  <2> QED
    BY <2>7, <2>8
<1> QED
  BY <1>3, <1>4

LEMMA ForwardInit == Init => ForwardInv
<1> SUFFICES ASSUME Init PROVE ForwardInv
  OBVIOUS
<1>1. Classified = {} /\ run = None
  BY DEF Init, Classified
<1> QED
  BY <1>1, TypeInit DEF ForwardInv, NoLaterDay, RunIsTodays

(* The prior row of a day depends on the classification table only.        *)
LEMMA PriorUnchanged ==
  ASSUME cls' = cls, today' = today
  PROVE  /\ Classified' = Classified
         /\ MostRecentBefore(today)' = MostRecentBefore(today)
BY DEF Classified, MostRecentBefore, RowAt

LEMMA ForwardStep ==
  ASSUME Backfill = FALSE, ForwardInv, [Next]_vars
  PROVE  ForwardInv'
<1>1. TypeOK'
  BY TypeStep DEF ForwardInv
<1>2. CASE NextDay
  <2>1. NoLaterDay'
    <3> SUFFICES ASSUME NEW d \in Classified PROVE d <= today + 1
      BY <1>2 DEF NextDay, NoLaterDay, Classified
    <3>1. d <= today /\ d \in Nat /\ today \in Nat
      BY DaysAreNumbers DEF ForwardInv, NoLaterDay, Classified, TypeOK
    <3> QED
      BY <3>1
  <2>2. RunIsTodays'
    BY <1>2 DEF NextDay, RunIsTodays
  <2> QED
    BY <1>1, <2>1, <2>2 DEF ForwardInv
<1>3. ASSUME NEW d \in Days, Ingest(d) PROVE ForwardInv'
  <2>1. cls' = cls /\ today' = today /\ run' = run
    BY <1>3 DEF Ingest
  <2> QED
    BY <1>1, <2>1, PriorUnchanged DEF ForwardInv, NoLaterDay, RunIsTodays
<1>4. ASSUME NEW d \in Days, Classify(d) PROVE ForwardInv'
  <2>1. d = today /\ cls' = cls /\ today' = today
    BY <1>4 DEF Classify
  <2>2. /\ run'.day = d
        /\ run'.row.cand   = input[d].cand
        /\ run'.row.active = ResolveActiveRegime(input[d].cand, MostRecentBefore(d)).active
        /\ run'.row.count  = ResolveActiveRegime(input[d].cand, MostRecentBefore(d)).count
    BY <1>4 DEF Classify
  <2>3. ResolveActiveRegime(input[d].cand, MostRecentBefore(d))
          = [active |-> run'.row.active, count |-> run'.row.count]
    BY <2>2 DEF ResolveActiveRegime
  <2>4. RunIsTodays'
    BY <2>1, <2>2, <2>3, PriorUnchanged DEF RunIsTodays
  <2>5. NoLaterDay'
    BY <2>1, PriorUnchanged DEF ForwardInv, NoLaterDay
  <2> QED
    BY <1>1, <2>4, <2>5 DEF ForwardInv
<1>5. CASE Persist
  <2>1. run.day = today /\ today \in Nat
    BY <1>5 DEF Persist, ForwardInv, RunIsTodays, TypeOK
  <2>2. Classified' \subseteq Classified \cup {today}
    BY <1>5, <2>1 DEF Persist, Classified, ForwardInv, TypeOK
  <2>3. NoLaterDay'
    BY <1>5, <2>1, <2>2 DEF Persist, ForwardInv, NoLaterDay
  <2>4. RunIsTodays'
    BY <1>5 DEF Persist, RunIsTodays
  <2> QED
    BY <1>1, <2>3, <2>4 DEF ForwardInv
<1>6. CASE Fail
  <2>1. cls' = cls /\ today' = today /\ run' = None
    BY <1>6 DEF Fail
  <2> QED
    BY <1>1, <2>1, PriorUnchanged DEF ForwardInv, NoLaterDay, RunIsTodays
<1>7. CASE UNCHANGED vars
  <2>1. cls' = cls /\ today' = today /\ run' = run
    BY <1>7 DEF vars
  <2> QED
    BY <1>1, <2>1, PriorUnchanged DEF ForwardInv, NoLaterDay, RunIsTodays
<1> QED
  BY <1>2, <1>3, <1>4, <1>5, <1>6, <1>7 DEF Next

-------------------------------------------------------------------------------
(* Only Persist moves the machine. *)

LEMMA MachineUnmoved == cls' = cls => UNCHANGED Machine!vars
BY DEF Machine!vars, StateOf, RowAt, Classified, AllButLatest

(* Storing today's row: what the lookups give before and after.            *)
LEMMA StoreToday ==
  ASSUME ForwardInv, Persist
  PROVE  LET earlier == {x \in Classified : x < today} IN
         /\ today \in Days /\ run.row \in Row
         /\ Classified' = Classified \cup {today}
         /\ RowAt(Classified)' = run.row
         /\ RowAt(AllButLatest)' = RowAt(earlier)
         /\ today \notin Classified => earlier = Classified
         /\ today \in Classified => /\ AllButLatest = earlier
                                    /\ RowAt(Classified) \in Row
<1> DEFINE earlier == {x \in Classified : x < today}
<1>1. /\ run # None /\ run.day = today
      /\ today \in Days /\ run.row \in Row
      /\ cls' = [cls EXCEPT ![today] = run.row]
  BY DEF Persist, ForwardInv, RunIsTodays, TypeOK
<1>2. run.row # None
  BY <1>1, ConfigAssumption
<1>3. cls'[today] = run.row /\ \A d \in Days \ {today} : cls'[d] = cls[d]
  BY <1>1 DEF ForwardInv, TypeOK
<1>4. Classified' = Classified \cup {today}
  BY <1>1, <1>2, <1>3 DEF Classified
<1>5. today \in Nat /\ \A d \in Classified : d \in Nat /\ d <= today
  BY <1>1, DaysAreNumbers DEF ForwardInv, NoLaterDay, Classified
<1>6. \A d \in Classified' : d <= today
  BY <1>4, <1>5
<1>7. Classified \subseteq Days /\ Classified' \subseteq Days
  BY <1>1, <1>4 DEF Classified
<1>8. Latest(Classified') = today
  BY <1>4, <1>6, <1>7, LatestIs
<1>9. RowAt(Classified)' = run.row
  BY <1>3, <1>4, <1>8 DEF RowAt
<1>10. AllButLatest' = earlier
  <2>1. AllButLatest' = {d \in Classified' : \E x \in Classified' : d < x}
    BY DEF AllButLatest
  <2>2. ASSUME NEW d \in Classified', NEW x \in Classified', d < x
        PROVE  d \in earlier
    <3>1. d \in Nat /\ x \in Nat /\ x <= today
      BY <1>4, <1>5, <1>6
    <3>2. d < today
      BY <1>5, <2>2, <3>1
    <3>3. d \in Classified
      BY <1>4, <1>5, <3>2
    <3> QED
      BY <3>2, <3>3
  <2>3. ASSUME NEW d \in earlier PROVE d \in Classified' /\ today \in Classified' /\ d < today
    BY <1>4
  <2> QED
    BY <2>1, <2>2, <2>3
<1>11. RowAt(AllButLatest)' = RowAt(earlier)
  <2>1. earlier \subseteq Days /\ \A d \in earlier : d # today
    BY <1>5, <1>7
  <2>2. CASE earlier = {}
    BY <1>10, <2>2 DEF RowAt
  <2>3. CASE earlier # {}
    <3>1. Latest(earlier) \in earlier
      BY <2>1, <2>3, LatestExists
    <3>2. cls'[Latest(earlier)] = cls[Latest(earlier)]
      BY <1>3, <2>1, <3>1
    <3> QED
      BY <1>10, <2>3, <3>2 DEF RowAt
  <2> QED
    BY <2>2, <2>3
<1>12. ASSUME today \notin Classified PROVE earlier = Classified
  <2>1. ASSUME NEW d \in Classified PROVE d < today
    BY <1>5, <1>12
  <2> QED
    BY <2>1
<1>13. ASSUME today \in Classified
       PROVE  AllButLatest = earlier /\ RowAt(Classified) \in Row
  <2>1. ASSUME NEW d \in Classified, NEW x \in Classified, d < x PROVE d < today
    <3>1. d \in Nat /\ x \in Nat /\ x <= today
      BY <1>5
    <3> QED
      BY <1>5, <2>1, <3>1
  <2>2. AllButLatest = earlier
    BY <1>13, <2>1 DEF AllButLatest
  <2>3. Latest(Classified) = today
    BY <1>5, <1>7, <1>13, LatestIs
  <2>4. RowAt(Classified) = cls[today] /\ cls[today] # None
    BY <1>13, <2>3 DEF RowAt, Classified
  <2>5. cls[today] \in Row
    BY <1>1, <2>4 DEF ForwardInv, TypeOK
  <2> QED
    BY <2>2, <2>4, <2>5
<1> QED
  BY <1>1, <1>4, <1>9, <1>10, <1>11, <1>12, <1>13

LEMMA PersistIsMachineStep ==
  ASSUME ForwardInv, Persist
  PROVE  Machine!Next
<1> DEFINE earlier == {x \in Classified : x < today}
           row     == run.row
<1>1. /\ row \in Row
      /\ RowAt(Classified)' = row
      /\ RowAt(AllButLatest)' = RowAt(earlier)
      /\ today \notin Classified => earlier = Classified
      /\ today \in Classified => AllButLatest = earlier /\ RowAt(Classified) \in Row
  BY StoreToday
<1>2. MostRecentBefore(today) = RowAt(earlier)
  BY DEF MostRecentBefore
<1>3. ResolveActiveRegime(row.cand, RowAt(earlier)) = [active |-> row.active, count |-> row.count]
  BY <1>2 DEF Persist, ForwardInv, RunIsTodays
<1>4. RowAt(earlier) \in Row \cup {None}
  BY RowAtTyped DEF ForwardInv
<1>5. StateOf(row) = Machine!After(StateOf(RowAt(earlier)), row.cand)
  BY <1>1, <1>3, <1>4, ResolveIsAfter
<1>6. row.cand \in Machine!Regimes
  BY <1>1 DEF Row, Regimes, Machine!Regimes
<1>7. /\ StateOf(RowAt(Classified))' = StateOf(row)
      /\ StateOf(RowAt(AllButLatest))' = StateOf(RowAt(earlier))
  BY <1>1 DEF StateOf
<1> HIDE DEF earlier, row
<1>8. CASE today \notin Classified
  BY <1>1, <1>5, <1>6, <1>7, <1>8 DEF Machine!Next, Machine!NextDay
<1>9. CASE today \in Classified
  <2>1. StateOf(RowAt(Classified)).active \in Regimes
    BY <1>1, <1>9, ConfigAssumption DEF StateOf, Row
  <2>2. StateOf(RowAt(Classified)) # Machine!Blank
    BY <2>1, ConfigAssumption DEF Machine!Blank
  <2> QED
    BY <1>1, <1>5, <1>6, <1>7, <1>9, <2>2 DEF Machine!Next, Machine!Again
<1> QED
  BY <1>8, <1>9

(* Without backfills, however often a day is run again, whatever its       *)
(* inputs are corrected to, whatever the shock layer does and wherever a   *)
(* run fails, the two columns of the classification table behave as the    *)
(* persistence machine with its own memory of the pending regime.          *)
THEOREM ImplementsMachine ==
  ASSUME Backfill = FALSE
  PROVE  Spec => MachineIsAsSpecified
<1>1. Init => Machine!Init
  <2> SUFFICES ASSUME Init PROVE Machine!Init
    OBVIOUS
  <2>1. Classified = {} /\ AllButLatest = {}
    BY DEF Init, Classified, AllButLatest
  <2> QED
    BY <2>1 DEF Machine!Init, Machine!Blank, StateOf, RowAt
<1>2. Init => ForwardInv
  BY ForwardInit
<1>3. ForwardInv /\ [Next]_vars => ForwardInv'
  BY ForwardStep
<1>4. ForwardInv /\ [Next]_vars => [Machine!Next]_Machine!vars
  <2> SUFFICES ASSUME ForwardInv, [Next]_vars
               PROVE  Machine!Next \/ UNCHANGED Machine!vars
    OBVIOUS
  <2>1. CASE Persist
    BY <2>1, PersistIsMachineStep
  <2>2. CASE ~ Persist
    <3>1. cls' = cls
      BY <2>2 DEF Next, vars, NextDay, Ingest, Classify, Fail
    <3> QED
      BY <3>1, MachineUnmoved
  <2> QED
    BY <2>1, <2>2
<1> QED
  BY <1>1, <1>2, <1>3, <1>4, PTL DEF Spec, MachineIsAsSpecified, Machine!Spec

-------------------------------------------------------------------------------
(* Storing today's row leaves what is known of earlier days.               *)

LEMMA TodayIsLast ==
  ASSUME ForwardInv, Persist
  PROVE  /\ run.day = today /\ today \in Days /\ today \in Nat /\ run.row \in Row
         /\ Classified \in SUBSET Days
         /\ Classified' = Classified \cup {today}
         /\ \A d \in Classified : d \in Nat /\ d <= today
         /\ cls'[today] = run.row /\ \A d \in Days \ {today} : cls'[d] = cls[d]
<1>1. /\ run # None /\ run.day = today /\ today \in Days /\ run.row \in Row
      /\ cls' = [cls EXCEPT ![today] = run.row]
  BY DEF Persist, ForwardInv, RunIsTodays, TypeOK
<1>2. cls'[today] = run.row /\ \A d \in Days \ {today} : cls'[d] = cls[d]
  BY <1>1 DEF ForwardInv, TypeOK
<1>3. Classified' = Classified \cup {today}
  BY StoreToday
<1>4. Classified \in SUBSET Days
  BY DEF Classified
<1>5. \A d \in Classified : d \in Nat /\ d <= today
  BY <1>4, DaysAreNumbers DEF ForwardInv, NoLaterDay
<1> QED
  BY <1>1, <1>2, <1>3, <1>4, <1>5, DaysAreNumbers

(* The row before a day does not change, today's included.                 *)
LEMMA PriorKept ==
  ASSUME ForwardInv, Persist, NEW d \in Nat, d <= today
  PROVE  /\ {x \in Classified' : x < d} = {x \in Classified : x < d}
         /\ MostRecentBefore(d)' = MostRecentBefore(d)
<1> DEFINE B == {x \in Classified : x < d}
<1>1. /\ today \in Nat /\ Classified \in SUBSET Days
      /\ Classified' = Classified \cup {today}
      /\ \A x \in Days \ {today} : cls'[x] = cls[x]
  BY TodayIsLast
<1>2. {x \in Classified' : x < d} = B
  BY <1>1
<1>3. MostRecentBefore(d)' = RowAt(B)'
  BY <1>2 DEF MostRecentBefore, RowAt
<1>4. CASE B = {}
  BY <1>2, <1>4 DEF MostRecentBefore, RowAt
<1>5. CASE B # {}
  <2>1. Latest(B) \in B
    BY <1>1, <1>5, LatestExists
  <2>2. Latest(B) \in Days /\ Latest(B) # today
    BY <1>1, <2>1
  <2> QED
    BY <1>1, <1>2, <1>5, <2>2 DEF MostRecentBefore, RowAt
<1> QED
  BY <1>2, <1>4, <1>5

LEMMA DerivedStep ==
  ASSUME ForwardInv, [Next]_vars, DerivedFromCurrentPrior
  PROVE  DerivedFromCurrentPrior'
<1>1. CASE Persist
  <2> SUFFICES ASSUME NEW d \in Classified'
               PROVE  ResolveActiveRegime(cls'[d].cand, MostRecentBefore(d)')
                        = [active |-> cls'[d].active, count |-> cls'[d].count]
    BY DEF DerivedFromCurrentPrior, ResolveActiveRegime, NewCount, Required
  <2>1. /\ today \in Nat /\ run.row \in Row /\ Classified \in SUBSET Days
        /\ Classified' = Classified \cup {today}
        /\ \A x \in Classified : x \in Nat /\ x <= today
        /\ cls'[today] = run.row /\ \A x \in Days \ {today} : cls'[x] = cls[x]
    BY <1>1, TodayIsLast
  <2>2. MostRecentBefore(d)' = MostRecentBefore(d)
    BY <1>1, <2>1, PriorKept
  <2>3. CASE d = today
    BY <1>1, <2>1, <2>2, <2>3 DEF Persist, ForwardInv, RunIsTodays
  <2>4. CASE d # today
    BY <2>1, <2>2, <2>4 DEF DerivedFromCurrentPrior
  <2> QED
    BY <2>3, <2>4
<1>2. CASE ~ Persist
  <2>1. cls' = cls
    BY <1>2 DEF Next, vars, NextDay, Ingest, Classify, Fail
  <2> QED
    BY <2>1 DEF DerivedFromCurrentPrior, Classified, MostRecentBefore, RowAt
<1> QED
  BY <1>1, <1>2

LEMMA DerivedInit == Init => DerivedFromCurrentPrior
BY DEF Init, Classified, DerivedFromCurrentPrior

(* Without backfills every stored regime and count follow from the stored  *)
(* candidate and the row now current for the day before: no correction and *)
(* no re-run leaves a day derived from a row that was superseded.          *)
THEOREM RowsFollowFromTheirPriors ==
  ASSUME Backfill = FALSE
  PROVE  Spec => []DerivedFromCurrentPrior
<1>1. Init => ForwardInv /\ DerivedFromCurrentPrior
  BY ForwardInit, DerivedInit
<1>2. ForwardInv /\ DerivedFromCurrentPrior /\ [Next]_vars
        => ForwardInv' /\ DerivedFromCurrentPrior'
  BY ForwardStep, DerivedStep
<1> QED
  BY <1>1, <1>2, PTL DEF Spec

-------------------------------------------------------------------------------
(* Streaks. *)

LEMMA LastDaysFinite ==
  ASSUME NEW d, NEW n
  PROVE  LastDays(d, n) \subseteq Days /\ IsFiniteSet(LastDays(d, n))
<1>1. IsFiniteSet(Days)
  BY FS_Interval, ConfigAssumption DEF Days
<1>2. LastDays(d, n) \subseteq Days
  BY DEF LastDays, Classified
<1> QED
  BY <1>1, <1>2, FS_Subset

(* No days are the last none.                                              *)
LEMMA NoLastDays == ASSUME NEW d PROVE LastDays(d, 0) = {}
<1>1. IsFiniteSet(Days)
  BY FS_Interval, ConfigAssumption DEF Days
<1>2. ASSUME NEW x PROVE Cardinality({y \in Classified : x < y /\ y <= d}) \in Nat
  <2>1. {y \in Classified : x < y /\ y <= d} \subseteq Days
    BY DEF Classified
  <2> QED
    BY <1>1, <2>1, FS_Subset, FS_CardinalityType
<1>3. ASSUME NEW x PROVE ~ (Cardinality({y \in Classified : x < y /\ y <= d}) < 0)
  BY <1>2
<1> QED
  BY <1>3 DEF LastDays

(* The last days up to an earlier one stay as they are.                    *)
LEMMA LastDaysKept ==
  ASSUME ForwardInv, Persist, NEW d \in Classified, d # today, NEW n \in Nat
  PROVE  LastDays(d, n)' = LastDays(d, n)
<1>1. /\ today \in Nat /\ Classified' = Classified \cup {today}
      /\ \A x \in Classified : x \in Nat /\ x <= today
  BY TodayIsLast
<1>2. d \in Nat /\ d < today
  BY <1>1
<1>3. {x \in Classified' : x <= d} = {x \in Classified : x <= d}
  BY <1>1, <1>2
<1>4. ASSUME NEW x
      PROVE  {y \in Classified' : x < y /\ y <= d} = {y \in Classified : x < y /\ y <= d}
  BY <1>3
<1>5. LastDays(d, n)' =
        {x \in Classified' : x <= d /\ Cardinality({y \in Classified' : x < y /\ y <= d}) < n}
  BY DEF LastDays
<1>6. LastDays(d, n)' =
        {x \in Classified' : x <= d /\ Cardinality({y \in Classified : x < y /\ y <= d}) < n}
  BY <1>4, <1>5
<1> QED
  BY <1>3, <1>6 DEF LastDays

(* Today and the last days up to the one before it are the last days.      *)
LEMMA LastDaysGrow ==
  ASSUME ForwardInv, Persist, NEW d, d = today, NEW n \in Nat
  PROVE  LET earlier == {x \in Classified : x < today}
             p == Latest(earlier)
         IN /\ earlier = {} => LastDays(d, n + 1)' = {today}
            /\ earlier # {} => /\ p \in Classified /\ p < today
                               /\ LastDays(d, n + 1)' = {today} \cup LastDays(p, n)
<1> DEFINE earlier == {x \in Classified : x < today}
           p == Latest(earlier)
           After(x) == {y \in Classified' : x < y /\ y <= d}
<1>1. /\ today \in Nat /\ Classified \in SUBSET Days
      /\ Classified' = Classified \cup {today}
      /\ \A x \in Classified : x \in Nat /\ x <= today
  BY TodayIsLast
<1>2. LastDays(d, n + 1)' = {x \in Classified' : x <= d /\ Cardinality(After(x)) < n + 1}
  BY DEF LastDays
<1>3. Cardinality(After(today)) < n + 1
  <2>1. After(today) = {}
    BY <1>1
  <2> QED
    BY <2>1, FS_EmptySet
<1>4. today \in LastDays(d, n + 1)'
  BY <1>1, <1>2, <1>3
<1>5. CASE earlier = {}
  <2>1. Classified' = {today}
    BY <1>1, <1>5
  <2> QED
    BY <1>2, <1>4, <1>5, <2>1
<1>6. CASE earlier # {}
  <2>1. p \in earlier /\ \A x \in earlier : x <= p
    BY <1>1, <1>6, LatestExists
  <2> HIDE DEF p
  <2>2. p \in Classified /\ p < today /\ p \in Nat
    BY <1>1, <2>1
  <2>3. ASSUME NEW x \in earlier
        PROVE  /\ Cardinality(After(x)) = Cardinality({y \in Classified : x < y /\ y <= p}) + 1
               /\ Cardinality({y \in Classified : x < y /\ y <= p}) \in Nat
    <3> DEFINE Y == {y \in Classified : x < y /\ y <= p}
    <3>1. After(x) = Y \cup {today}
      <4>1. x \in Nat /\ x < today
        BY <1>1
      <4>2. ASSUME NEW y \in Classified, y # today PROVE y \in Nat /\ y <= p /\ y <= today
        <5>1. y \in Nat /\ y <= today
          BY <1>1
        <5>2. y < today
          BY <1>1, <4>2, <5>1
        <5>3. y \in earlier
          BY <5>2
        <5> QED
          BY <2>1, <5>1, <5>3
      <4>3. ASSUME NEW y PROVE y \in After(x) <=> y \in Y \cup {today}
        <5>1. CASE y = today
          BY <1>1, <4>1, <5>1
        <5>2. CASE y # today /\ y \in Classified
          BY <1>1, <4>2, <5>2
        <5>3. CASE y # today /\ y \notin Classified
          BY <1>1, <5>3
        <5> QED
          BY <5>1, <5>2, <5>3
      <4> QED
        BY <4>3
    <3>2. today \notin Y
      BY <1>1, <2>2
    <3>3. IsFiniteSet(Y)
      <4>1. IsFiniteSet(Days)
        BY FS_Interval, ConfigAssumption DEF Days
      <4> QED
        BY <1>1, <4>1, FS_Subset
    <3> QED
      BY <3>1, <3>2, <3>3, FS_AddElement, FS_CardinalityType
  <2>4. ASSUME NEW x \in earlier
        PROVE  Cardinality(After(x)) < n + 1
                 <=> Cardinality({y \in Classified : x < y /\ y <= p}) < n
    BY <2>3
  <2>5. ASSUME NEW x PROVE x \in LastDays(d, n + 1)' <=> x \in {today} \cup LastDays(p, n)
    <3>1. CASE x = today
      BY <1>4, <3>1
    <3>2. CASE x \in earlier
      <4>1. x # today /\ x \in Classified /\ x \in Classified' /\ x <= p /\ x <= d
        BY <1>1, <2>1, <3>2
      <4> QED
        BY <1>2, <2>4, <3>2, <4>1 DEF LastDays
    <3>3. CASE x \notin earlier /\ x # today
      <4>1. x \notin Classified
        BY <1>1, <3>3
      <4> QED
        BY <1>1, <1>2, <3>3, <4>1 DEF LastDays
    <3> QED
      BY <3>1, <3>2, <3>3
  <2> QED
    BY <1>6, <2>2, <2>5 DEF p
<1> QED
  BY <1>5, <1>6

(* The last n days there are n of, and all had candidate c.                *)
AllVotedFor(d, n, c) ==
  Cardinality(LastDays(d, n)) = n /\ \A x \in LastDays(d, n) : cls[x].cand = c

(* A count is the length of the streak behind it: no shorter, and while    *)
(* the candidate is pending, no longer.                                    *)
StreaksCounted ==
  \A d \in Classified :
    /\ \A n \in 0..cls[d].count : AllVotedFor(d, n, cls[d].cand)
    /\ cls[d].count = 0 <=> cls[d].cand = cls[d].active
    /\ cls[d].cand # cls[d].active =>
         \A n \in Nat : n > cls[d].count => ~ AllVotedFor(d, n, cls[d].cand)

LEMMA VotesKept ==
  ASSUME ForwardInv, Persist, NEW d \in Classified, d # today, NEW n \in Nat, NEW c
  PROVE  AllVotedFor(d, n, c)' <=> AllVotedFor(d, n, c)
<1>1. LastDays(d, n)' = LastDays(d, n)
  BY LastDaysKept
<1>2. ASSUME NEW x \in LastDays(d, n) PROVE cls'[x] = cls[x]
  <2>1. /\ today \in Nat /\ \A y \in Classified : y \in Nat /\ y <= today
        /\ Classified \in SUBSET Days /\ \A y \in Days \ {today} : cls'[y] = cls[y]
    BY TodayIsLast
  <2>2. x \in Classified /\ x <= d
    BY DEF LastDays
  <2> QED
    BY <2>1, <2>2
<1> QED
  BY <1>1, <1>2 DEF AllVotedFor

LEMMA VotesGrow ==
  ASSUME ForwardInv, Persist, NEW d, d = today, NEW n \in Nat, NEW c, c = run.row.cand
  PROVE  LET earlier == {x \in Classified : x < today}
         IN /\ earlier = {} => (AllVotedFor(d, n + 1, c)' <=> n = 0)
            /\ earlier # {} => (AllVotedFor(d, n + 1, c)' <=> AllVotedFor(Latest(earlier), n, c))
<1> DEFINE earlier == {x \in Classified : x < today}
           p == Latest(earlier)
<1>1. /\ today \in Nat /\ Classified \in SUBSET Days
      /\ \A x \in Classified : x \in Nat /\ x <= today
      /\ cls'[today] = run.row /\ \A x \in Days \ {today} : cls'[x] = cls[x]
  BY TodayIsLast
<1>2. CASE earlier = {}
  <2>1. LastDays(d, n + 1)' = {today}
    BY <1>2, LastDaysGrow
  <2>2. Cardinality({today}) = 1
    BY FS_Singleton
  <2> QED
    BY <1>1, <1>2, <2>1, <2>2 DEF AllVotedFor
<1>3. CASE earlier # {}
  <2>1. p \in Classified /\ p < today /\ LastDays(d, n + 1)' = {today} \cup LastDays(p, n)
    BY <1>3, LastDaysGrow
  <2> HIDE DEF p
  <2>2. ASSUME NEW x \in LastDays(p, n) PROVE x \in Days /\ x # today
    <3>1. x \in Classified /\ x <= p
      BY DEF LastDays
    <3> QED
      BY <1>1, <2>1, <3>1
  <2>3. /\ Cardinality({today} \cup LastDays(p, n)) = Cardinality(LastDays(p, n)) + 1
        /\ Cardinality(LastDays(p, n)) \in Nat
    <3>1. today \notin LastDays(p, n)
      BY <2>2
    <3> QED
      BY <3>1, LastDaysFinite, FS_AddElement, FS_CardinalityType
  <2>4. (\A x \in {today} \cup LastDays(p, n) : cls'[x].cand = c)
          <=> (\A x \in LastDays(p, n) : cls[x].cand = c)
    BY <1>1, <2>2
  <2>5. Cardinality({today} \cup LastDays(p, n)) = n + 1 <=> Cardinality(LastDays(p, n)) = n
    BY <2>3
  <2>6. AllVotedFor(d, n + 1, c)' <=> AllVotedFor(p, n, c)
    BY <2>1, <2>4, <2>5 DEF AllVotedFor
  <2> QED
    BY <1>3, <2>6 DEF p
<1> QED
  BY <1>2, <1>3

LEMMA NoVotes == ASSUME NEW d, NEW c PROVE AllVotedFor(d, 0, c)
BY NoLastDays, FS_EmptySet DEF AllVotedFor

(* The row before today, and what becomes of its count.                    *)
LEMMA PriorOfToday ==
  ASSUME ForwardInv
  PROVE  LET earlier == {x \in Classified : x < today}
             p == Latest(earlier)
         IN /\ earlier = {} => MostRecentBefore(today) = None
            /\ earlier # {} => /\ p \in Classified /\ p \in Nat /\ p < today
                               /\ MostRecentBefore(today) = cls[p]
                               /\ cls[p] \in Row /\ cls[p] # None
<1> DEFINE earlier == {x \in Classified : x < today}
           p == Latest(earlier)
<1>1. Classified \in SUBSET Days /\ Days \subseteq Nat
  BY DaysAreNumbers DEF Classified
<1>2. MostRecentBefore(today) = RowAt(earlier)
  BY DEF MostRecentBefore
<1>3. CASE earlier = {}
  BY <1>2, <1>3 DEF RowAt
<1>4. CASE earlier # {}
  <2>1. p \in earlier
    BY <1>1, <1>4, LatestExists
  <2> HIDE DEF p
  <2>2. p \in Classified /\ p \in Nat /\ p < today /\ cls[p] # None /\ cls[p] \in Row
    BY <1>1, <2>1 DEF Classified, ForwardInv, TypeOK
  <2> QED
    BY <1>2, <1>4, <2>2 DEF RowAt, p
<1> QED
  BY <1>3, <1>4

(* The count a run works with never exceeds the streak of its candidate.   *)
LEMMA CountedVotes ==
  ASSUME ForwardInv, Persist, StreaksCounted, NEW d, d = today,
         NEW c, c = run.row.cand, NEW k \in Nat,
         k = IF MostRecentBefore(today) = None THEN 1 ELSE NewCount(c, MostRecentBefore(today)),
         NEW n \in 0..k
  PROVE  AllVotedFor(d, n, c)'
<1> DEFINE earlier == {x \in Classified : x < today}
           p == Latest(earlier)
<1>1. CASE n = 0
  <2>1. AllVotedFor(d, 0, c)'
    BY NoVotes, PTL
  <2> QED
    BY <1>1, <2>1
<1>2. CASE n # 0
  <2> DEFINE m == n - 1
  <2>1. m \in Nat /\ n = m + 1
    BY <1>2
  <2> HIDE DEF m
  <2>2. CASE earlier = {}
    <3>1. k = 1 /\ m = 0
      BY <2>1, <2>2, PriorOfToday
    <3> QED
      BY <2>1, <2>2, <3>1, VotesGrow
  <2>3. CASE earlier # {}
    <3>1. /\ p \in Classified /\ MostRecentBefore(today) = cls[p]
          /\ cls[p] \in Row /\ cls[p] # None
      BY <2>3, PriorOfToday
    <3>2. AllVotedFor(d, n, c)' <=> AllVotedFor(p, m, c)
      BY <2>1, <2>3, VotesGrow
    <3> HIDE DEF p
    <3>3. k = NewCount(c, cls[p]) /\ cls[p].count \in Nat
      BY <3>1 DEF Row
    <3>4. CASE cls[p].count > 0 /\ c = cls[p].cand
      <4>1. m \in 0..cls[p].count
        BY <2>1, <3>3, <3>4 DEF NewCount
      <4> QED
        BY <3>1, <3>2, <3>4, <4>1 DEF StreaksCounted
    <3>5. CASE ~ (cls[p].count > 0 /\ c = cls[p].cand)
      <4>1. m = 0
        BY <2>1, <3>3, <3>5 DEF NewCount
      <4> QED
        BY <3>2, <4>1, NoVotes
    <3> QED
      BY <3>4, <3>5
  <2> QED
    BY <2>2, <2>3
<1> QED
  BY <1>1, <1>2

(* A candidate that is not the active regime after today's run has not     *)
(* been voted for longer than the run counted.                             *)
LEMMA UncountedVotes ==
  ASSUME ForwardInv, Persist, StreaksCounted, NEW d, d = today,
         NEW c, c = run.row.cand, c # run.row.active, NEW n \in Nat, n > run.row.count
  PROVE  ~ AllVotedFor(d, n, c)'
<1> DEFINE earlier == {x \in Classified : x < today}
           p == Latest(earlier)
           m == n - 1
<1>1. /\ run.row \in Row /\ c \in Regimes /\ run.row.count \in Nat
      /\ ResolveActiveRegime(c, MostRecentBefore(today))
           = [active |-> run.row.active, count |-> run.row.count]
  <2>1. run.row \in Row
    BY TodayIsLast
  <2> QED
    BY <2>1 DEF Row, Persist, ForwardInv, RunIsTodays
<1>2. m \in Nat /\ n = m + 1
  BY <1>1
<1> HIDE DEF m
<1>3. CASE earlier = {}
  <2>1. MostRecentBefore(today) = None
    BY <1>3, PriorOfToday
  <2>2. run.row.count = 1
    BY <1>1, <2>1 DEF ResolveActiveRegime
  <2>3. m # 0
    BY <1>2, <2>2
  <2> QED
    BY <1>2, <1>3, <2>3, VotesGrow
<1>4. CASE earlier # {}
  <2>1. /\ p \in Classified /\ p \in Nat /\ MostRecentBefore(today) = cls[p]
        /\ cls[p] \in Row /\ cls[p] # None
    BY <1>4, PriorOfToday
  <2>2. AllVotedFor(d, n, c)' <=> AllVotedFor(p, m, c)
    BY <1>2, <1>4, VotesGrow
  <2> HIDE DEF p
  <2>3. /\ run.row.active = cls[p].active /\ run.row.count = NewCount(c, cls[p])
        /\ cls[p].count \in Nat
    BY <1>1, <2>1 DEF ResolveActiveRegime, Row
  <2> SUFFICES ASSUME AllVotedFor(p, m, c) PROVE FALSE
    BY <2>2
  <2>4. p \in LastDays(p, m)
    <3>1. m > 0
      BY <1>2, <2>3 DEF NewCount
    <3>2. {y \in Classified : p < y /\ y <= p} = {}
      <4>1. ASSUME NEW y \in Classified PROVE ~ (p < y /\ y <= p)
        <5>1. y \in Nat /\ p \in Nat
          BY <2>1, TodayIsLast
        <5> QED
          BY <5>1
      <4> QED
        BY <4>1
    <3>3. Cardinality({y \in Classified : p < y /\ y <= p}) < m
      BY <1>2, <3>1, <3>2, FS_EmptySet
    <3> QED
      BY <2>1, <3>3 DEF LastDays
  <2>5. cls[p].cand = c
    BY <2>4 DEF AllVotedFor
  <2>6. cls[p].cand # cls[p].active
    BY <2>3, <2>5
  <2>7. cls[p].count > 0
    BY <2>1, <2>3, <2>6 DEF StreaksCounted
  <2>8. m > cls[p].count
    BY <1>2, <2>3, <2>5, <2>7 DEF NewCount
  <2> QED
    BY <1>2, <2>1, <2>5, <2>6, <2>8 DEF StreaksCounted
<1> QED
  BY <1>3, <1>4

LEMMA StreaksStep ==
  ASSUME ForwardInv, StreaksCounted, [Next]_vars
  PROVE  StreaksCounted'
<1>1. CASE Persist
  <2> SUFFICES ASSUME NEW d \in Classified'
      PROVE /\ \A n \in 0..cls'[d].count : AllVotedFor(d, n, cls[d].cand)'
            /\ cls'[d].count = 0 <=> cls'[d].cand = cls'[d].active
            /\ cls'[d].cand # cls'[d].active =>
                 \A n \in Nat : n > cls'[d].count => ~ AllVotedFor(d, n, cls[d].cand)'
    BY DEF StreaksCounted
  <2> DEFINE c == cls'[d].cand
  <2>0. \A n : AllVotedFor(d, n, cls[d].cand)'
          <=> Cardinality(LastDays(d, n)') = n /\ \A x \in LastDays(d, n)' : cls'[x].cand = c
    BY DEF AllVotedFor
  <2>1. /\ today \in Nat /\ run.row \in Row /\ Classified' = Classified \cup {today}
        /\ Classified \in SUBSET Days
        /\ cls'[today] = run.row /\ \A x \in Days \ {today} : cls'[x] = cls[x]
    BY <1>1, TodayIsLast
  <2>2. CASE d # today
    <3>1. d \in Classified /\ cls'[d] = cls[d]
      BY <2>1, <2>2
    <3>2. ASSUME NEW n \in Nat
          PROVE  AllVotedFor(d, n, cls[d].cand)' <=> AllVotedFor(d, n, cls[d].cand)
      <4>1. PICK v : v = cls[d].cand
        OBVIOUS
      <4>2. AllVotedFor(d, n, v)' <=> AllVotedFor(d, n, v)
        BY <1>1, <2>2, <3>1, VotesKept
      <4>3. AllVotedFor(d, n, cls[d].cand)' <=> AllVotedFor(d, n, v)'
        BY <2>0, <3>1, <4>1 DEF AllVotedFor
      <4> QED
        BY <4>1, <4>2, <4>3
    <3>3. cls[d].count \in Nat
      BY <3>1 DEF Classified, ForwardInv, TypeOK, Row
    <3>4. \A n \in 0..cls[d].count : n \in Nat
      BY <3>3
    <3> QED
      BY <3>1, <3>2, <3>4 DEF StreaksCounted
  <2>3. CASE d = today
    <3> DEFINE prior == MostRecentBefore(today)
               k == IF prior = None THEN 1 ELSE NewCount(c, prior)
    <3>1. /\ cls'[d] = run.row /\ c = run.row.cand /\ c \in Regimes /\ run.row.count \in Nat
          /\ ResolveActiveRegime(c, prior) = [active |-> run.row.active, count |-> run.row.count]
      BY <1>1, <2>1, <2>3 DEF Row, Persist, ForwardInv, RunIsTodays
    <3>2. prior \in Row \cup {None}
      BY RowAtTyped DEF MostRecentBefore, ForwardInv
    <3>3. k \in Nat /\ k > 0
      BY <3>2 DEF NewCount, Row
    <3>4. /\ run.row.count = 0 <=> c = run.row.active
          /\ run.row.count \in {0, k}
      <4>1. CASE prior = None
        BY <3>1, <4>1 DEF ResolveActiveRegime
      <4>2. CASE prior # None
        BY <3>1, <3>3, <4>2 DEF ResolveActiveRegime
      <4> QED
        BY <4>1, <4>2
    <3> HIDE DEF k, prior
    <3>5. ASSUME NEW n \in 0..cls'[d].count PROVE AllVotedFor(d, n, cls[d].cand)'
      <4>1. n \in 0..k
        BY <3>1, <3>3, <3>4
      <4>2. PICK v : v = run.row.cand
        OBVIOUS
      <4>3. AllVotedFor(d, n, v)'
        BY <1>1, <2>3, <3>1, <3>3, <4>1, <4>2, CountedVotes DEF k, prior
      <4> QED
        BY <2>0, <3>1, <4>2, <4>3 DEF AllVotedFor
    <3>6. ASSUME cls'[d].cand # cls'[d].active, NEW n \in Nat, n > cls'[d].count
          PROVE  ~ AllVotedFor(d, n, cls[d].cand)'
      <4>1. PICK v : v = run.row.cand
        OBVIOUS
      <4>2. ~ AllVotedFor(d, n, v)'
        BY <1>1, <2>3, <3>1, <3>6, <4>1, UncountedVotes
      <4> QED
        BY <2>0, <3>1, <4>1, <4>2 DEF AllVotedFor
    <3> QED
      BY <3>1, <3>4, <3>5, <3>6
  <2> QED
    BY <2>2, <2>3
<1>2. CASE ~ Persist
  <2>1. cls' = cls
    BY <1>2 DEF Next, vars, NextDay, Ingest, Classify, Fail
  <2> QED
    BY <2>1 DEF StreaksCounted, AllVotedFor, Classified, LastDays
<1> QED
  BY <1>1, <1>2

LEMMA FlipsStep ==
  ASSUME ForwardInv, StreaksCounted, FlipsOnlyOnStreak, [Next]_vars
  PROVE  FlipsOnlyOnStreak'
<1>1. CASE Persist
  <2> SUFFICES ASSUME NEW d \in Classified',
                      MostRecentBefore(d)' # None,
                      cls'[d].active # MostRecentBefore(d)'.active
      PROVE AllVotedFor(d, Required(cls[d].active, MostRecentBefore(d).active), cls[d].active)'
    BY DEF FlipsOnlyOnStreak, AllVotedFor
  <2>1. /\ today \in Nat /\ run.row \in Row /\ Classified' = Classified \cup {today}
        /\ Classified \in SUBSET Days /\ \A x \in Classified : x \in Nat /\ x <= today
        /\ cls'[today] = run.row /\ \A x \in Days \ {today} : cls'[x] = cls[x]
    BY <1>1, TodayIsLast
  <2>2. d \in Nat /\ d <= today /\ MostRecentBefore(d)' = MostRecentBefore(d)
    BY <1>1, <2>1, PriorKept
  <2>3. PICK v, need : /\ v = cls'[d].active
                       /\ need = Required(v, MostRecentBefore(d).active)
    OBVIOUS
  <2>4. need \in Nat \ {0}
    BY <2>3, ConfigAssumption DEF Required
  <2>5. SUFFICES AllVotedFor(d, need, v)'
    BY <2>2, <2>3 DEF AllVotedFor, Required
  <2>6. CASE d # today
    <3>1. d \in Classified /\ cls'[d] = cls[d]
      BY <2>1, <2>6
    <3>2. AllVotedFor(d, need, v)
      BY <2>2, <2>3, <3>1 DEF FlipsOnlyOnStreak, AllVotedFor
    <3> QED
      BY <1>1, <2>4, <2>6, <3>1, <3>2, VotesKept
  <2>7. CASE d = today
    <3> DEFINE prior == MostRecentBefore(today)
               c == run.row.cand
               k == NewCount(c, prior)
    <3>1. /\ prior # None /\ run.row.active # prior.active /\ v = run.row.active
          /\ need = Required(v, prior.active)
          /\ ResolveActiveRegime(c, prior) = [active |-> run.row.active, count |-> run.row.count]
      BY <1>1, <2>1, <2>2, <2>3, <2>7 DEF Persist, ForwardInv, RunIsTodays
    <3>2. prior \in Row \cup {None}
      BY RowAtTyped DEF MostRecentBefore, ForwardInv
    <3>3. k \in Nat
      BY <3>1, <3>2 DEF NewCount, Row
    <3>4. v = c /\ k >= need
      BY <3>1 DEF ResolveActiveRegime
    <3>5. need \in 0..k
      BY <2>4, <3>3, <3>4
    <3>6. PICK j : j = k
      OBVIOUS
    <3> QED
      BY <1>1, <2>7, <3>1, <3>3, <3>4, <3>5, <3>6, CountedVotes
  <2> QED
    BY <2>6, <2>7
<1>2. CASE ~ Persist
  <2>1. cls' = cls
    BY <1>2 DEF Next, vars, NextDay, Ingest, Classify, Fail
  <2> QED
    BY <2>1 DEF FlipsOnlyOnStreak, Classified, LastDays, MostRecentBefore, RowAt
<1> QED
  BY <1>1, <1>2

(* A streak as long as either move requires is longer than any count that  *)
(* was not enough, so its candidate is active.                             *)
LEMMA PersistenceWins ==
  ASSUME DaysToHigherSeverity > 1 \/ DaysToLowerSeverity > 1,
         TypeOK, StreaksCounted, DerivedFromCurrentPrior
  PROVE  PersistentCandidateWins
<1> SUFFICES ASSUME NEW d \in Classified, NEW n \in {DaysToHigherSeverity, DaysToLowerSeverity},
                    n >= DaysToHigherSeverity, n >= DaysToLowerSeverity,
                    AllVotedFor(d, n, cls[d].cand), cls[d].cand # cls[d].active
             PROVE  FALSE
  BY DEF PersistentCandidateWins, AllVotedFor
<1> DEFINE prior == MostRecentBefore(d)
           c == cls[d].cand
<1>1. cls[d] \in Row /\ cls[d].count \in Nat /\ n \in Nat /\ n > 1
  BY ConfigAssumption DEF Classified, TypeOK, Row
<1>2. ResolveActiveRegime(c, prior) = [active |-> cls[d].active, count |-> cls[d].count]
  BY DEF DerivedFromCurrentPrior
<1>3. prior \in Row \cup {None}
  BY RowAtTyped DEF MostRecentBefore
<1>4. n > cls[d].count
  <2>1. CASE prior = None
    BY <1>1, <1>2, <2>1 DEF ResolveActiveRegime
  <2>2. CASE prior # None
    <3>1. NewCount(c, prior) \in Nat /\ Required(c, prior.active) \in Nat
      BY <1>3, <2>2, ConfigAssumption DEF NewCount, Row, Required
    <3>2. n >= Required(c, prior.active)
      BY DEF Required
    <3>3. cls[d].count = NewCount(c, prior) /\ ~ (NewCount(c, prior) >= Required(c, prior.active))
      BY <1>2, <2>2 DEF ResolveActiveRegime
    <3> QED
      BY <1>1, <3>1, <3>2, <3>3
  <2> QED
    BY <2>1, <2>2
<1> QED
  BY <1>1, <1>4 DEF StreaksCounted

(* Without backfills the active regime moves exactly when a candidate has  *)
(* held for as many days as that move requires, whichever days were left   *)
(* out, failed or run again.  (If one day were enough for either move, the *)
(* first row would not follow its candidate.)                              *)
THEOREM RegimeNeedsAStreak ==
  ASSUME Backfill = FALSE, DaysToHigherSeverity > 1 \/ DaysToLowerSeverity > 1
  PROVE  Spec => []RegimeFollowsStreaks
<1> DEFINE Inv == ForwardInv /\ DerivedFromCurrentPrior /\ StreaksCounted /\ FlipsOnlyOnStreak
<1>1. Init => Inv
  <2> SUFFICES ASSUME Init PROVE Inv
    OBVIOUS
  <2>1. Classified = {}
    BY DEF Init, Classified
  <2> QED
    BY <2>1, ForwardInit, DerivedInit DEF StreaksCounted, FlipsOnlyOnStreak
<1>2. Inv /\ [Next]_vars => Inv'
  BY ForwardStep, DerivedStep, StreaksStep, FlipsStep
<1>3. Inv => RegimeFollowsStreaks
  BY PersistenceWins DEF ForwardInv, RegimeFollowsStreaks
<1> QED
  BY <1>1, <1>2, <1>3, PTL DEF Spec

-------------------------------------------------------------------------------
(* What a shock is on for. *)

(* Until an input is corrected, a trigger that is on expires on the day it *)
(* fired, whose inputs are complete; so does one that a run is about to    *)
(* store, or has stored, for a day its series has a value for.             *)
RowIsFired(d, row) ==
  input[d].complete /\ \A t \in row.shock \cap input[d].seen : t \in input[d].fires
ShocksCaused ==
  \A t \in Triggers : shock[t].active =>
    /\ shock[t].expiry \in Days
    /\ input[shock[t].expiry].complete /\ t \in input[shock[t].expiry].fires
RunCaused  == run # None => RowIsFired(run.day, run.row)
RowsCaused == \A d \in Classified : RowIsFired(d, cls[d])
CauseInv   == revisions = 0 => ShocksCaused /\ RunCaused /\ RowsCaused

(* No observation lies ahead of the day a run is for, so the day itself is *)
(* the expiry.                                                             *)
LEMMA ExpiryIsThatDay ==
  ASSUME NEW t, NEW d \in Days
  PROVE  ExpiryFrom(d, Series(t, d)) = d
<1> SUFFICES {x \in Series(t, d) : x > d /\ Cardinality({y \in Series(t, d) : d < y /\ y <= x})
                                              = Expiry - 1} = {}
  BY DEF ExpiryFrom
<1>1. \A x \in Series(t, d) : x \in Nat /\ x <= d
  BY DaysAreNumbers DEF Series
<1> QED
  BY <1>1, DaysAreNumbers

LEMMA ClassifyCaused ==
  ASSUME TypeOK, ShocksCaused, NEW d \in Days, Classify(d)
  PROVE  ShocksCaused' /\ RunCaused'
<1> DEFINE next == [t \in Triggers |->
                      AdvanceShockState(shock[t], t \in input[d].fires, d, Series(t, d))]
           on   == {t \in Triggers : next[t].active}
<1>1. input[d].complete /\ shock' = next /\ UNCHANGED input
  BY DEF Classify
<1>2. run'.day = d /\ run'.row.shock = on
  BY DEF Classify
<1>3. ASSUME NEW t \in Triggers, next[t].active
      PROVE  \/ t \in input[d].fires /\ next[t].expiry = d
             \/ /\ shock[t].active /\ next[t] = shock[t]
                /\ d \in Series(t, d) => shock[t].expiry = d
  <2>1. next[t] = AdvanceShockState(shock[t], t \in input[d].fires, d, Series(t, d))
    OBVIOUS
  <2>2. shock[t] \in ShockStates
    BY DEF TypeOK, ShockStates
  <2> HIDE DEF next
  <2>3. CASE t \in input[d].fires
    <3>1. next[t] = [active |-> TRUE, expiry |-> ExpiryFrom(d, Series(t, d))]
      BY <2>1, <2>3 DEF AdvanceShockState
    <3> QED
      BY <2>3, <3>1, ExpiryIsThatDay
  <2>4. CASE t \notin input[d].fires
    <3>1. shock[t].active /\ next[t] = shock[t]
      BY <1>3, <2>1, <2>2, <2>4 DEF AdvanceShockState, NoShock, ShockStates
    <3>2. ASSUME d \in Series(t, d) PROVE shock[t].expiry = d
      <4>1. shock[t].expiry \in Series(t, d) /\ d <= shock[t].expiry
        <5> DEFINE S == Series(t, d)
        <5> SUFFICES ASSUME ~ (shock[t].expiry \in S /\ d <= shock[t].expiry) PROVE FALSE
          OBVIOUS
        <5>2. d \in S
          BY <3>2
        <5> HIDE DEF S
        <5>3. next[t] = AdvanceShockState(shock[t], FALSE, d, S)
          BY <2>1, <2>4 DEF S, AdvanceShockState
        <5>4. next[t] = [active |-> FALSE, expiry |-> shock[t].expiry] \/ next[t] = NoShock
          BY <3>1, <5>2, <5>3 DEF AdvanceShockState
        <5> QED
          BY <1>3, <5>4 DEF NoShock
      <4>2. \A x \in Series(t, d) : x \in Nat /\ x <= d
        BY DaysAreNumbers DEF Series
      <4>3. d \in Nat
        BY DaysAreNumbers
      <4> QED
        BY <4>1, <4>2, <4>3
    <3> QED
      BY <3>1, <3>2
  <2> QED
    BY <2>3, <2>4
<1>4. ASSUME NEW t \in Triggers, t \in input[d].seen PROVE d \in Series(t, d)
  BY <1>4, DaysAreNumbers, ConfigAssumption DEF Series
<1> HIDE DEF next
<1>5. ASSUME NEW t \in Triggers, next[t].active
      PROVE  /\ next[t].expiry \in Days
             /\ input[next[t].expiry].complete /\ t \in input[next[t].expiry].fires
  BY <1>1, <1>3, <1>5 DEF ShocksCaused
<1>6. ASSUME NEW t \in on \cap input[d].seen PROVE t \in input[d].fires
  BY <1>3, <1>4, <1>6 DEF ShocksCaused
<1>7. ShocksCaused'
  BY <1>1, <1>5 DEF ShocksCaused
<1>8. RowIsFired(run.day, run.row)'
  BY <1>1, <1>2, <1>6 DEF RowIsFired
<1> QED
  BY <1>7, <1>8 DEF RunCaused

LEMMA CauseStep == TypeOK /\ CauseInv /\ [Next]_vars => CauseInv'
<1> SUFFICES ASSUME TypeOK, CauseInv, [Next]_vars, revisions' = 0
             PROVE  ShocksCaused' /\ RunCaused' /\ RowsCaused'
  BY DEF CauseInv
<1>1. ASSUME NEW d \in Days, Ingest(d)
      PROVE  revisions = 0 /\ \A e \in Days : input[e].complete => input'[e] = input[e]
  <2>1. PICK i \in Inputs : /\ \/ ~ input[d].complete /\ UNCHANGED revisions
                               \/ revisions' = revisions + 1
                            /\ input' = [input EXCEPT ![d] = i]
    BY <1>1 DEF Ingest
  <2>2. revisions \in Nat
    BY ConfigAssumption DEF TypeOK
  <2>3. ~ input[d].complete /\ revisions = 0
    BY <2>1, <2>2
  <2> QED
    BY <2>1, <2>3 DEF TypeOK
<1>2. revisions = 0
  <2>1. ASSUME ~ (\E d \in Days : Ingest(d)) PROVE UNCHANGED revisions
    BY <2>1 DEF Next, NextDay, Classify, Persist, Fail, vars
  <2> QED
    BY <1>1, <2>1
<1>3. ShocksCaused /\ RunCaused /\ RowsCaused
  BY <1>2 DEF CauseInv
<1>4. CASE \E d \in Days : Ingest(d)
  <2>1. UNCHANGED <<cls, shock, run>>
    BY <1>4 DEF Ingest
  <2>2. \A e \in Days : input[e].complete => input'[e] = input[e]
    BY <1>1, <1>4
  <2>3. run # None => run.day \in Days
    BY DEF TypeOK
  <2>4. ASSUME NEW e \in Days, NEW row, RowIsFired(e, row)
        PROVE  input'[e].complete /\ \A t \in row.shock \cap input'[e].seen : t \in input'[e].fires
    BY <2>2, <2>4 DEF RowIsFired
  <2>5. ShocksCaused'
    BY <1>3, <2>1, <2>2 DEF ShocksCaused
  <2>6. RunCaused'
    BY <1>3, <2>1, <2>3, <2>4 DEF RunCaused, RowIsFired
  <2>7. RowsCaused'
    BY <1>3, <2>1, <2>4 DEF RowsCaused, Classified, RowIsFired
  <2> QED
    BY <2>5, <2>6, <2>7
<1>5. ASSUME NEW d \in Days, Classify(d) PROVE ShocksCaused' /\ RunCaused' /\ RowsCaused'
  <2>1. UNCHANGED <<input, cls>>
    BY <1>5 DEF Classify
  <2> QED
    BY <1>3, <1>5, <2>1, ClassifyCaused DEF RowsCaused, Classified, RowIsFired
<1>6. CASE Persist
  <2>1. /\ run # None /\ run.day \in Days /\ run' = None
        /\ cls' = [cls EXCEPT ![run.day] = run.row]
        /\ UNCHANGED <<input, shock>>
    BY <1>6 DEF Persist, TypeOK
  <2>2. ASSUME NEW d \in Classified' PROVE RowIsFired(d, cls'[d])
    BY <1>3, <2>1, <2>2 DEF RunCaused, RowsCaused, Classified, TypeOK
  <2> QED
    BY <1>3, <2>1, <2>2 DEF ShocksCaused, RunCaused, RowsCaused, RowIsFired
<1>7. CASE NextDay \/ Fail \/ UNCHANGED vars
  <2>1. UNCHANGED <<input, cls, shock>> /\ (run' = run \/ run' = None)
    BY <1>7 DEF NextDay, Fail, vars
  <2> QED
    BY <1>3, <2>1 DEF ShocksCaused, RunCaused, RowsCaused, RowIsFired, Classified
<1> QED
  BY <1>4, <1>5, <1>6, <1>7 DEF Next

(* Until an input is corrected, a stored shock whose series has a value    *)
(* that day fired within its window, in whatever order days are ingested   *)
(* and classified, earlier days after later ones included, and whichever   *)
(* runs fail between the two writes.                                       *)
THEOREM ShocksHaveTheirCause == Spec => []ShockHasCause
<1>1. Init => CauseInv
  BY DEF Init, CauseInv, ShocksCaused, RunCaused, RowsCaused, NoShock, Classified
<1>2. TypeOK /\ CauseInv => ShockHasCause
  <2> SUFFICES ASSUME TypeOK, CauseInv, revisions = 0, NEW d \in Classified,
                      NEW t \in cls[d].shock \cap input[d].seen
               PROVE  \E x \in Days :
                        /\ x <= d /\ t \in input[x].fires
                        /\ Cardinality({y \in Series(t, d) : x < y}) < Expiry
    BY DEF ShockHasCause
  <2>1. d \in Days /\ t \in input[d].fires
    BY DEF CauseInv, RowsCaused, RowIsFired, Classified
  <2>2. \A y \in Series(t, d) : y \in Nat /\ y <= d
    BY <2>1, DaysAreNumbers DEF Series
  <2>3. Cardinality({y \in Series(t, d) : d < y}) < Expiry
    <3>1. {y \in Series(t, d) : d < y} = {}
      <4>1. d \in Nat
        BY <2>1, DaysAreNumbers
      <4>2. \A y \in Series(t, d) : ~(d < y)
        BY <2>2, <4>1
      <4> QED
        BY <4>2
    <3>2. Cardinality({}) = 0
      BY FS_EmptySet
    <3> QED
      BY <3>1, <3>2, ConfigAssumption
  <2>4. d <= d
    BY <2>1, DaysAreNumbers
  <2> QED
    BY <2>1, <2>3, <2>4
<1> QED
  BY <1>1, <1>2, TypeInit, TypeStep, CauseStep, PTL DEF Spec
-------------------------------------------------------------------------------
(* The replay as a recursion.                                              *)

ReplayStart == [row |-> None, shock |-> [t \in Triggers |-> NoShock]]
ReplayBefore(d) == IF d = 1 THEN ReplayStart ELSE RunReplay[d - 1]

Below == {p \in Nat \X Nat : p[1] < p[2]}
LEMMA NatBelow == IsWellFoundedOn(Below, Nat)
<1>1. Below = OpToRel(<, Nat)
  BY DEF OpToRel, Below
<1> QED
  BY <1>1, NatLessThanWellFounded

LEMMA Least ==
  ASSUME NEW T \in SUBSET Nat, T # {}
  PROVE  \E x \in T : \A y \in T : x <= y
<1>1. PICK x \in T : \A y \in T : ~ (<<y, x>> \in Below)
  BY NatBelow, WFMin
<1>2. ASSUME NEW y \in T PROVE x <= y
  <2>1. x \in Nat /\ y \in Nat /\ ~ (<<y, x>> \in Below)
    BY <1>1
  <2> QED
    BY <2>1 DEF Below
<1> QED
  BY <1>2

(* There is one: were there a least number of days without, the replay of  *)
(* one day less could be continued.                                        *)
LEMMA ReplayExists ==
  \E f : f = [d \in Days |-> ReplayDay(IF d = 1 THEN ReplayStart ELSE f[d - 1], d)]
<1> DEFINE IsReplay(f, k) ==
             f = [d \in 1..k |-> ReplayDay(IF d = 1 THEN ReplayStart ELSE f[d - 1], d)]
           Good(k) == \E f : IsReplay(f, k)
           bad == {k \in Nat : ~ Good(k)}
<1>1. Good(0)
  <2>1. IsReplay([d \in {} |-> 0], 0)
    OBVIOUS
  <2> QED
    BY <2>1
<1>2. ASSUME NEW k \in Nat, Good(k) PROVE Good(k + 1)
  <2>1. PICK f : IsReplay(f, k)
    BY <1>2
  <2> DEFINE next == ReplayDay(IF k + 1 = 1 THEN ReplayStart ELSE f[k], k + 1)
             g == [d \in 1..(k + 1) |-> IF d = k + 1 THEN next ELSE f[d]]
  <2>2. ASSUME NEW d \in 1..(k + 1)
        PROVE  g[d] = ReplayDay(IF d = 1 THEN ReplayStart ELSE g[d - 1], d)
    <3>1. CASE d = k + 1
      <4>1. g[d] = next
        BY <3>1
      <4>2. d # 1 => g[d - 1] = f[k]
        BY <3>1
      <4> QED
        BY <3>1, <4>1, <4>2
    <3>2. CASE d # k + 1
      <4>1. d \in 1..k /\ g[d] = f[d]
        BY <3>2
      <4>2. d # 1 => g[d - 1] = f[d - 1]
        BY <4>1
      <4>3. f[d] = ReplayDay(IF d = 1 THEN ReplayStart ELSE f[d - 1], d)
        BY <2>1, <4>1
      <4> QED
        BY <4>1, <4>2, <4>3
    <3> QED
      BY <3>1, <3>2
  <2>3. IsReplay(g, k + 1)
    <3>1. g = [d \in 1..(k + 1) |-> g[d]]
      OBVIOUS
    <3> HIDE DEF g
    <3> QED
      BY <2>2, <3>1
  <2> QED
    BY <2>3
<1> HIDE DEF Good
<1>3. bad = {}
  <2> SUFFICES ASSUME bad # {} PROVE FALSE
    OBVIOUS
  <2>1. PICK k \in bad : \A y \in bad : k <= y
    BY Least
  <2>2. k \in Nat /\ ~ Good(k) /\ k # 0
    BY <1>1, <2>1
  <2>3. k - 1 \in Nat /\ (k - 1) + 1 = k
    BY <2>2
  <2>4. k - 1 \in bad
    BY <1>2, <2>2, <2>3
  <2> QED
    BY <2>1, <2>2, <2>4
<1>4. Good(MaxDay)
  BY <1>3, ConfigAssumption
<1> QED
  BY <1>4 DEF Good, Days

LEMMA ReplayUnfolds == \A d \in Days : RunReplay[d] = ReplayDay(ReplayBefore(d), d)
<1>1. RunReplay = CHOOSE f : f = [x \in Days |->
                    ReplayDay(IF x = 1 THEN ReplayStart ELSE f[x - 1], x)]
  BY DEF RunReplay, ReplayStart
<1>2. RunReplay = [x \in Days |-> ReplayDay(IF x = 1 THEN ReplayStart ELSE RunReplay[x - 1], x)]
  BY <1>1, ReplayExists
<1> QED
  BY <1>2 DEF ReplayBefore

(* A day's replay reads no inputs of later days.                           *)
LEMMA ReplayDayIsLocal ==
  ASSUME NEW d \in Days, NEW before, \A x \in Days : x <= d => input'[x] = input[x]
  PROVE  ReplayDay(before, d)' = ReplayDay(before, d)
<1>1. \A t : Series(t, d)' = Series(t, d)
  BY DEF Series
<1>2. PICK i : i = input[d]
  OBVIOUS
<1>3. input'[d] = i
  BY <1>2, DaysAreNumbers
<1>4. PICK next : next = [t \in Triggers |->
                      AdvanceShockState(before.shock[t], t \in i.fires, d, Series(t, d))]
  OBVIOUS
<1>5. next = [t \in Triggers |->
                AdvanceShockState(before.shock[t], t \in i.fires, d, Series(t, d)')]
  BY <1>1, <1>4
<1> QED
  BY <1>2, <1>3, <1>4, <1>5 DEF ReplayDay

LEMMA ReplayIsLocal ==
  ASSUME NEW k \in Nat, \A x \in Days : x <= k => input'[x] = input[x]
  PROVE  \A d \in Days : d <= k => (RunReplay')[d] = RunReplay[d]
<1> DEFINE bad == {d \in Days : d <= k /\ (RunReplay')[d] # RunReplay[d]}
<1>1. (\A d \in Days : RunReplay[d] = ReplayDay(ReplayBefore(d), d))'
  BY ReplayUnfolds, PTL
<1> SUFFICES ASSUME bad # {} PROVE FALSE
  OBVIOUS
<1>2. bad \in SUBSET Nat
  BY DaysAreNumbers
<1>3. PICK d \in bad : \A y \in bad : d <= y
  <2> HIDE DEF bad
  <2> QED
    BY <1>2, Least
<1>4. d \in Days /\ d \in Nat /\ d <= k /\ (RunReplay')[d] # RunReplay[d]
  BY <1>2, <1>3
<1> HIDE DEF bad
<1>5. d # 1 => d - 1 \in Days /\ d - 1 <= k /\ ~ (d <= d - 1)
  BY <1>4, ConfigAssumption DEF Days
<1>6. d # 1 => (RunReplay')[d - 1] = RunReplay[d - 1]
  <2>1. d # 1 => d - 1 \notin bad
    BY <1>3, <1>5
  <2> QED
    BY <1>5, <2>1 DEF bad
<1>7. PICK before : before = ReplayBefore(d)
  OBVIOUS
<1>8. ReplayBefore(d)' = before
  BY <1>6, <1>7 DEF ReplayBefore, ReplayStart
<1>9. ReplayDay(before, d)' = ReplayDay(before, d)
  <2>1. ASSUME NEW x \in Days, x <= d PROVE x <= k
    <3>1. x \in Nat
      BY DaysAreNumbers
    <3> QED
      BY <1>4, <2>1, <3>1
  <2> HIDE DEF bad
  <2> QED
    BY <1>4, <2>1, ReplayDayIsLocal
<1>10. (RunReplay')[d] = ReplayDay(ReplayBefore(d), d)'
  BY <1>1, <1>4
<1>11. ReplayDay(ReplayBefore(d), d)' = ReplayDay(before, d)'
  BY <1>7, <1>8 DEF ReplayDay
<1>12. RunReplay[d] = ReplayDay(before, d)
  BY <1>4, <1>7, ReplayUnfolds
<1> QED
  BY <1>4, <1>9, <1>10, <1>11, <1>12

-------------------------------------------------------------------------------
(* A day's runs against the replay of that day.                            *)

(* A run repeated after its first write finds the triggers advanced        *)
(* already, and leaves them.                                               *)
LEMMA AdvanceTwice ==
  ASSUME NEW prior, NEW fired, NEW d, NEW S
  PROVE  AdvanceShockState(AdvanceShockState(prior, fired, d, S), fired, d, S)
           = AdvanceShockState(prior, fired, d, S)
<1> DEFINE next == AdvanceShockState(prior, fired, d, S)
<1>1. CASE fired
  BY <1>1 DEF AdvanceShockState
<1>2. CASE ~ fired
  <2>1. next = prior \/ \E x : next = [active |-> FALSE, expiry |-> x]
    BY <1>2 DEF AdvanceShockState, NoShock
  <2>2. ASSUME NEW x, next = [active |-> FALSE, expiry |-> x]
        PROVE  AdvanceShockState(next, fired, d, S) = next
    <3> HIDE DEF next
    <3> QED
      BY <1>2, <2>2 DEF AdvanceShockState
  <2> QED
    BY <2>1, <2>2
<1> QED
  BY <1>1, <1>2

(* Until an input is corrected, and while no day before today has been     *)
(* left out, the cache holds what the replay has for the day before today, *)
(* or what it has for today if today was advanced already; a run and the   *)
(* stored rows hold the replay's rows.  What they were made of is complete *)
(* and so does not change.                                                 *)
UpTo(d) == 1..d \subseteq Classified
InputsRead ==
  /\ \A d \in Classified : input[d].complete
  /\ run # None => input[today].complete
RowsReplayed == \A d \in Classified : UpTo(d) => cls[d] = RunReplay[d].row
Fresh    == today \notin Classified /\ run = None /\ shock = ReplayBefore(today).shock
Advanced == input[today].complete /\ shock = RunReplay[today].shock
TodayReplayed ==
  UpTo(today - 1) =>
    /\ Fresh \/ Advanced
    /\ run # None => run.row = RunReplay[today].row
ReplayInv ==
  today # 0 /\ (revisions = 0 => InputsRead /\ RowsReplayed /\ TodayReplayed)

(* The row current before today is the replay's, while nothing was left    *)
(* out.                                                                    *)
LEMMA PriorReplayed ==
  ASSUME ForwardInv, RowsReplayed, today \in Days, UpTo(today - 1)
  PROVE  MostRecentBefore(today) = ReplayBefore(today).row
<1> DEFINE B == {x \in Classified : x < today}
<1>1. today \in Nat /\ today >= 1 /\ Classified \in SUBSET Days /\ Days \subseteq Nat
  BY DaysAreNumbers DEF Days, Classified
<1>2. CASE today = 1
  <2>1. \A x \in Days : ~ (x < 1)
    BY ConfigAssumption DEF Days
  <2>2. B = {}
    BY <1>1, <1>2, <2>1
  <2> QED
    BY <1>2, <2>2 DEF MostRecentBefore, RowAt, ReplayBefore, ReplayStart
<1>3. CASE today # 1
  <2>1. today - 1 \in B
    BY <1>1, <1>3 DEF UpTo
  <2>2. \A x \in B : x <= today - 1
    BY <1>1
  <2>3. Latest(B) = today - 1
    BY <1>1, <2>1, <2>2, LatestIs
  <2>4. MostRecentBefore(today) = cls[today - 1]
    BY <2>1, <2>3 DEF MostRecentBefore, RowAt
  <2>5. cls[today - 1] = RunReplay[today - 1].row
    BY <2>1 DEF RowsReplayed
  <2> QED
    BY <1>3, <2>4, <2>5 DEF ReplayBefore
<1> QED
  BY <1>2, <1>3

LEMMA ClassifyReplays ==
  ASSUME ForwardInv, RowsReplayed, Fresh \/ Advanced, today \in Days, UpTo(today - 1),
         Classify(today)
  PROVE  /\ input[today].complete
         /\ shock' = RunReplay[today].shock
         /\ run'.row = RunReplay[today].row
<1> DEFINE i    == input[today]
           Next1(from) == [t \in Triggers |->
                             AdvanceShockState(from[t], t \in i.fires, today, Series(t, today))]
<1>1. PICK before : before = ReplayBefore(today)
  OBVIOUS
<1>2. RunReplay[today] = ReplayDay(before, today)
  BY <1>1, ReplayUnfolds
<1>3. RunReplay[today].shock = Next1(before.shock)
  BY <1>2 DEF ReplayDay
<1>4. shock' = Next1(shock)
  BY DEF Classify
<1>5. Next1(shock) = Next1(before.shock)
  <2>1. CASE Fresh
    BY <1>1, <2>1 DEF Fresh
  <2>2. CASE Advanced
    <3>1. shock = Next1(before.shock)
      BY <1>3, <2>2 DEF Advanced
    <3>2. ASSUME NEW t \in Triggers
          PROVE  AdvanceShockState(shock[t], t \in i.fires, today, Series(t, today)) = shock[t]
      <4>1. PICK fired : fired = (t \in i.fires)
        OBVIOUS
      <4>2. PICK S, b : S = Series(t, today) /\ b = before.shock[t]
        OBVIOUS
      <4>3. shock[t] = AdvanceShockState(b, fired, today, S)
        BY <3>1, <4>1, <4>2
      <4>4. AdvanceShockState(shock[t], fired, today, S) = shock[t]
        BY <4>3, AdvanceTwice
      <4> QED
        BY <4>1, <4>2, <4>4
    <3>3. Next1(shock) = [t \in Triggers |-> shock[t]]
      BY <3>2
    <3>4. shock = [t \in Triggers |-> shock[t]]
      BY DEF ForwardInv, TypeOK
    <3> QED
      BY <3>1, <3>3, <3>4
  <2> QED
    BY <2>1, <2>2
<1>6. PICK next : next = Next1(shock)
  OBVIOUS
<1>7. before.row = MostRecentBefore(today)
  BY <1>1, PriorReplayed
<1>8. PICK std : std = ResolveActiveRegime(i.cand, before.row)
  OBVIOUS
<1>9. PICK row : row = [cand |-> i.cand, active |-> std.active, count |-> std.count,
                        fired |-> i.fires, shock |-> {t \in Triggers : next[t].active},
                        final |-> IF next["A"].active THEN "Risk-Off" ELSE std.active]
  OBVIOUS
<1>10. run'.row = row
  <2>1. "A" \in {t \in Triggers : next[t].active} <=> next["A"].active
    BY DEF Triggers
  <2> QED
    BY <1>6, <1>7, <1>8, <1>9, <2>1 DEF Classify
<1>11. RunReplay[today].row = row
  <2>1. next = [t \in Triggers |-> AdvanceShockState(before.shock[t], t \in input[today].fires,
                                                     today, Series(t, today))]
    BY <1>5, <1>6
  <2>2. ReplayDay(before, today).row = row
    BY <1>8, <1>9, <2>1 DEF ReplayDay
  <2> QED
    BY <1>2, <2>2
<1>12. input[today].complete
  BY DEF Classify
<1> QED
  BY <1>3, <1>4, <1>5, <1>10, <1>11, <1>12

LEMMA ReplayStep ==
  ASSUME Backfill = FALSE, ForwardInv, ReplayInv, [Next]_vars
  PROVE  ReplayInv'
<1>0. today' # 0
  <2>1. today' = today \/ today' = today + 1
    BY DEF Next, NextDay, Ingest, Classify, Persist, Fail, vars
  <2> QED
    BY <2>1 DEF ReplayInv, ForwardInv, TypeOK
<1> SUFFICES ASSUME revisions' = 0 PROVE InputsRead' /\ RowsReplayed' /\ TodayReplayed'
  BY <1>0 DEF ReplayInv
<1>1. /\ today \in Nat \ {0} /\ revisions \in Nat
      /\ Classified \in SUBSET Days /\ Days \subseteq Nat
  BY DaysAreNumbers, ConfigAssumption DEF ReplayInv, ForwardInv, TypeOK, Classified
<1>2. revisions = 0
  <2>1. UNCHANGED revisions \/ revisions' = revisions + 1
    BY DEF Next, NextDay, Ingest, Classify, Persist, Fail, vars
  <2> QED
    BY <1>1, <2>1
<1>3. InputsRead /\ RowsReplayed /\ TodayReplayed
  BY <1>2 DEF ReplayInv
<1>4. \A d \in Classified : d \in Nat /\ d <= today
  BY <1>1 DEF ForwardInv, NoLaterDay
<1>5. CASE NextDay
  <2>1. today' = today + 1 /\ run = None /\ UNCHANGED <<input, cls, shock, run>>
    BY <1>5 DEF NextDay
  <2>2. UNCHANGED <<Classified, RunReplay>>
    BY <2>1 DEF Classified, RunReplay, ReplayDay, Series
  <2>3. InputsRead'
    BY <1>3, <2>1, <2>2 DEF InputsRead
  <2>4. RowsReplayed'
    BY <1>3, <2>1, <2>2 DEF RowsReplayed, UpTo
  <2>5. ASSUME UpTo(today) PROVE Fresh'
    <3>1. UpTo(today - 1) /\ today \in Classified
      BY <1>1, <2>5 DEF UpTo
    <3>2. shock = RunReplay[today].shock
      BY <1>3, <3>1 DEF TodayReplayed, Fresh, Advanced
    <3>3. today + 1 \notin Classified
      BY <1>1, <1>4
    <3>4. today + 1 # 1 /\ (today + 1) - 1 = today
      BY <1>1
    <3> QED
      BY <2>1, <2>2, <3>2, <3>3, <3>4 DEF Fresh, ReplayBefore
  <2>6. TodayReplayed'
    BY <1>1, <2>1, <2>2, <2>5 DEF TodayReplayed, UpTo
  <2> QED
    BY <2>3, <2>4, <2>6
<1>6. ASSUME NEW d \in Days, Ingest(d) PROVE InputsRead' /\ RowsReplayed' /\ TodayReplayed'
  <2>1. d = today /\ UNCHANGED <<today, cls, shock, run>>
    BY <1>6 DEF Ingest
  <2>2. PICK i \in Inputs : ~ input[d].complete /\ input' = [input EXCEPT ![d] = i]
    <3>1. PICK i \in Inputs : /\ ~ input[d].complete \/ revisions' = revisions + 1
                              /\ input' = [input EXCEPT ![d] = i]
      BY <1>6 DEF Ingest
    <3>2. ~ input[d].complete
      BY <1>1, <3>1
    <3> QED
      BY <3>1, <3>2
  <2>3. UNCHANGED Classified /\ today \notin Classified /\ run = None /\ ~ Advanced
    BY <1>3, <2>1, <2>2 DEF Classified, InputsRead, Advanced
  <2>4. \A x \in Days : x # today => input'[x] = input[x]
    BY <2>1, <2>2 DEF ForwardInv, TypeOK
  <2>5. \A x \in Days : x <= today - 1 => (RunReplay')[x] = RunReplay[x]
    <3>1. today - 1 \in Nat /\ \A x \in Days : x <= today - 1 => x # today
      BY <1>1
    <3> QED
      BY <2>4, <3>1, ReplayIsLocal
  <2>6. \A x \in Classified : x \in Days /\ x # today /\ x <= today - 1
    BY <1>1, <1>4, <2>3
  <2>7. InputsRead'
    BY <1>3, <2>1, <2>3, <2>4, <2>6 DEF InputsRead
  <2>8. RowsReplayed'
    BY <1>3, <2>1, <2>3, <2>5, <2>6 DEF RowsReplayed, UpTo
  <2>9. ReplayBefore(today)' = ReplayBefore(today)
    <3>1. today # 1 => today - 1 \in Days
      BY <1>1, <2>1, ConfigAssumption DEF Days
    <3>2. today - 1 <= today - 1
      BY <1>1
    <3> QED
      BY <2>1, <2>5, <3>1, <3>2 DEF ReplayBefore, ReplayStart
  <2>10. TodayReplayed'
    BY <1>3, <2>1, <2>3, <2>9 DEF TodayReplayed, UpTo, Fresh
  <2> QED
    BY <2>7, <2>8, <2>10
<1>7. ASSUME NEW d \in Days, Classify(d) PROVE InputsRead' /\ RowsReplayed' /\ TodayReplayed'
  <2>1. d = today /\ UNCHANGED <<today, input, cls>> /\ input[today].complete
    BY <1>7 DEF Classify
  <2>2. UNCHANGED <<Classified, RunReplay>>
    BY <2>1 DEF Classified, RunReplay, ReplayDay, Series
  <2>3. InputsRead'
    BY <1>3, <2>1, <2>2 DEF InputsRead
  <2>4. RowsReplayed'
    BY <1>3, <2>1, <2>2 DEF RowsReplayed, UpTo
  <2>5. ASSUME UpTo(today - 1)
        PROVE  shock' = RunReplay[today].shock /\ run'.row = RunReplay[today].row
    BY <1>3, <1>7, <2>1, <2>5, ClassifyReplays DEF TodayReplayed
  <2>6. TodayReplayed'
    BY <2>1, <2>2, <2>5 DEF TodayReplayed, UpTo, Advanced
  <2> QED
    BY <2>3, <2>4, <2>6
<1>8. CASE Persist
  <2>1. /\ run # None /\ run' = None /\ UNCHANGED <<today, input, shock>>
        /\ today \in Days /\ Classified' = Classified \cup {today}
        /\ cls'[today] = run.row /\ \A d \in Days \ {today} : cls'[d] = cls[d]
    BY <1>8, TodayIsLast DEF Persist
  <2>2. UNCHANGED RunReplay
    BY <2>1 DEF RunReplay, ReplayDay, Series
  <2>3. InputsRead'
    BY <1>3, <2>1 DEF InputsRead
  <2>4. ASSUME NEW d \in Nat, d < today, 1..d \subseteq Classified' PROVE UpTo(d)
    BY <1>1, <2>1, <2>4 DEF UpTo
  <2>5. UpTo(today - 1)' => UpTo(today - 1)
    <3>1. today - 1 \in Nat /\ today - 1 < today
      BY <1>1
    <3> QED
      BY <2>1, <2>4, <3>1 DEF UpTo
  <2>6. ASSUME NEW d \in Classified', 1..d \subseteq Classified'
        PROVE  cls'[d] = RunReplay[d].row
    <3>1. CASE d = today
      <4>1. 1..(today - 1) \subseteq 1..today
        BY <1>1
      <4>2. UpTo(today - 1)
        BY <2>1, <2>5, <2>6, <3>1, <4>1 DEF UpTo
      <4> QED
        BY <1>3, <2>1, <3>1, <4>2 DEF TodayReplayed
    <3>2. CASE d # today
      <4>1. d \in Classified /\ d \in Days /\ d \in Nat /\ d < today
        BY <1>1, <1>4, <2>1, <3>2
      <4>2. UpTo(d)
        BY <2>4, <2>6, <4>1
      <4> QED
        BY <1>3, <2>1, <3>2, <4>1, <4>2 DEF RowsReplayed
    <3> QED
      BY <3>1, <3>2
  <2>7. RowsReplayed'
    BY <2>2, <2>6 DEF RowsReplayed, UpTo
  <2>8. TodayReplayed'
    BY <1>3, <2>1, <2>2, <2>5 DEF TodayReplayed, Fresh, Advanced
  <2> QED
    BY <2>3, <2>7, <2>8
<1>9. CASE Fail \/ UNCHANGED vars
  <2>1. UNCHANGED <<today, input, cls, shock>> /\ (run' = run \/ run' = None)
    BY <1>9 DEF Fail, vars
  <2>2. UNCHANGED <<Classified, RunReplay>>
    BY <2>1 DEF Classified, RunReplay, ReplayDay, Series
  <2>3. UNCHANGED ReplayBefore(today)
    BY <2>1, <2>2 DEF ReplayBefore, ReplayStart
  <2>4. InputsRead' /\ RowsReplayed'
    BY <1>3, <2>1, <2>2 DEF InputsRead, RowsReplayed, UpTo
  <2>5. TodayReplayed'
    BY <1>3, <2>1, <2>2, <2>3 DEF TodayReplayed, UpTo, Fresh, Advanced
  <2> QED
    BY <2>4, <2>5
<1> QED
  BY <1>5, <1>6, <1>7, <1>8, <1>9 DEF Next

(* The replay reproduces live scoring: without backfills and until an      *)
(* input is corrected, as long as no day was left out, the stored          *)
(* classifications are the rows of one pass over the inputs that has its   *)
(* state in memory, whichever runs of a day failed between the write of    *)
(* the cache and that of the row, or were repeated.                        *)
THEOREM ReplayReproducesLive ==
  ASSUME Backfill = FALSE
  PROVE  Spec => []ReplayAgrees
<1>1. Init => ReplayInv
  <2> SUFFICES ASSUME Init PROVE InputsRead /\ RowsReplayed /\ TodayReplayed /\ today # 0
    BY DEF ReplayInv
  <2>1. Classified = {} /\ run = None /\ today = 1
    BY DEF Init, Classified
  <2>2. shock = ReplayBefore(today).shock
    BY <2>1 DEF Init, ReplayBefore, ReplayStart
  <2> QED
    BY <2>1, <2>2 DEF InputsRead, RowsReplayed, TodayReplayed, Fresh
<1>2. ForwardInv /\ ReplayInv => ReplayAgrees
  <2> SUFFICES ASSUME ForwardInv, ReplayInv, revisions = 0, Classified # {},
                      Classified = 1..Latest(Classified), NEW d \in Classified
               PROVE  cls[d] = RunReplay[d].row
    BY DEF ReplayAgrees
  <2>1. Classified \in SUBSET Days
    BY DEF Classified
  <2>2. Latest(Classified) \in Nat /\ d \in Nat /\ d <= Latest(Classified)
    BY <2>1, LatestExists, DaysAreNumbers
  <2>3. 1..d \subseteq 1..Latest(Classified)
    BY <2>2
  <2> QED
    BY <2>3 DEF ReplayInv, RowsReplayed, UpTo
<1> QED
  BY <1>1, <1>2, ForwardInit, ForwardStep, ReplayStep, PTL DEF Spec
===============================================================================
