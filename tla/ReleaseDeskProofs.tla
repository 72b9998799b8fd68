-------------------------- MODULE ReleaseDeskProofs --------------------------
(***************************************************************************)
(* A theorem about ReleaseDesk, for any feed, calendar, mapping, number of *)
(* admins and of fetches at once: what was ingested is not asked for       *)
(* again, and only a deferral newer than the last entry hides a release.   *)
(***************************************************************************)
EXTENDS ReleaseDesk, FiniteSetTheorems, WellFoundedInduction, TLAPS

FeedRow == [title : Titles, at : Times, filled : BOOLEAN, actual : BOOLEAN]
EventRow == [id : Nat, title : Titles, at : Nat, filled : BOOLEAN, actual : BOOLEAN]
Deferral == [born : Nat \ {0}, variant : Variants, event : Nat \cup {None}, until : Untils]
Working == [stage : {"store", "score"}, todo : SUBSET FeedRow, sent : SUBSET FeedRow,
            event : FeedRow \cup {None}, found : EventRow \cup {None},
            written : Nat, mapped : Nat, deferred : Nat, scored : Nat, errors : Nat]
Clearing == [stage : {"clear"}, variant : Variants]
Placing == [stage : {"standing"}, variant : Variants, until : Untils,
            found : Deferral \cup {None}]

(* Ids are unique and counted.                                              *)
Calendar(E) ==
  /\ E \subseteq EventRow /\ IsFiniteSet(E)
  /\ \A e \in E : e.id <= Cardinality(E)
  /\ \A e, q \in E : e.id = q.id => e = q

(* The units of time in order, instants from some origin up to some horizon,*)
(* seeds that are calendars, titles mapped to variants the indicator has.   *)
DeskAssumptions ==
  /\ Day \in Nat \ {0} /\ Ist \in Nat /\ Window \in Nat /\ Window <= Ist /\ Ist < Day
  /\ \E horizon \in Nat : Times \subseteq 0..horizon
  /\ \A S \in Seeds : Calendar(S)
  /\ \A title \in Titles : Mapped(title) => Resolve[title].variant \in Variants
  /\ None \notin Nat /\ None \notin FeedRow /\ None \notin EventRow /\ None \notin Deferral

(* A row that was read is still on the calendar, under its id and title.    *)
OnFile(id, title, E) == \E e \in E : e.id = id /\ e.title = title

FetchOK(c, E) ==
  \/ c.stage \in {"idle", "done"}
  \/ /\ c \in Working
     /\ c.stage = "score" => c.event # None
     /\ c.found # None => OnFile(c.found.id, c.found.title, E)
FetchesOK(F, E) ==
  /\ F = [f \in Fetchers |-> F[f]]
  /\ \A f \in Fetchers : FetchOK(F[f], E)

DeferralOK(d, E, b) ==
  /\ d \in Deferral /\ d.born <= b
  /\ d.event # None => \E e \in E : /\ e.id = d.event
                                    /\ Resolve[e.title].variant = d.variant
DeskOK == desk \in [Admins -> {Idle} \cup Clearing \cup Placing]
EntriesOK == born \in Nat /\ entered \in [Variants -> Nat] /\ \A v \in Variants : entered[v] <= born

(* A deferral is newer than the last entry of its variant, or that entry is *)
(* being finished, or failed.                                               *)
BeingCleared(v) == \E a \in Admins : desk[a].stage = "clear" /\ desk[a].variant = v
Snoozing(d) == d.born > entered[d.variant] \/ d.variant \in broken \/ BeingCleared(d.variant)

IngestedOK(i) ==
  /\ i.at \in Nat /\ i.variant = Resolve[i.title].variant
  /\ Point(i.variant, UtcDate(i.at)) \in points

DeskInv ==
  /\ feed \subseteq FeedRow
  /\ Calendar(events)
  /\ FetchesOK(fetch, events)
  /\ \A d \in deferrals : DeferralOK(d, events, born)
  /\ DeskOK
  /\ EntriesOK
  /\ \A d \in deferrals : Snoozing(d)
  /\ \A i \in ingested : IngestedOK(i)

-------------------------------------------------------------------------------
Below == {p \in Nat \X Nat : p[1] < p[2]}
LEMMA NatBelow == IsWellFoundedOn(Below, Nat)
<1>1. Below = OpToRel(<, Nat)
  BY DEF OpToRel, Below
<1> QED
  BY <1>1, NatLessThanWellFounded

(* A set of numbers has a least, one with a bound a greatest.               *)
LEMMA Least ==
  ASSUME NEW T \in SUBSET Nat, T # {}
  PROVE  \E x \in T : \A y \in T : x <= y
<1>1. PICK x \in T : \A y \in T : ~(<<y, x>> \in Below)
  BY NatBelow, WFMin
<1>2. ASSUME NEW y \in T PROVE x <= y
  <2>1. x \in Nat /\ y \in Nat /\ ~(<<y, x>> \in Below)
    BY <1>1
  <2> QED
    BY <2>1 DEF Below
<1> QED
  BY <1>2

LEMMA Greatest ==
  ASSUME NEW k \in Nat, NEW T \in SUBSET (0..k), T # {}
  PROVE  \E x \in T : \A y \in T : y <= x
<1> DEFINE U == {m \in Nat : k - m \in T}
<1>1. U # {}
  <2>1. PICK x \in T : TRUE
    OBVIOUS
  <2>2. x \in 0..k /\ k - x \in Nat /\ k - (k - x) = x
    BY <2>1
  <2> QED
    BY <2>1, <2>2
<1>2. U \in SUBSET Nat
  OBVIOUS
<1> HIDE DEF U
<1>3. PICK m \in U : \A y \in U : m <= y
  BY <1>1, <1>2, Least
<1>4. m \in Nat /\ k - m \in T
  BY <1>3 DEF U
<1>5. ASSUME NEW y \in T PROVE y <= k - m
  <2>1. y \in 0..k /\ k - y \in Nat /\ k - (k - y) = y
    BY <1>5
  <2>2. k - y \in U
    BY <2>1 DEF U
  <2>3. m <= k - y
    BY <1>3, <2>2
  <2> QED
    BY <1>4, <2>1, <2>3
<1> QED
  BY <1>4, <1>5

-------------------------------------------------------------------------------
(* Every set of instants has its cluster starts: were there a least instant *)
(* up to which there are none, those before it would leave no choice there. *)
LEMMA StartsExist ==
  ASSUME NEW horizon \in Nat, NEW instants \in SUBSET (0..horizon), Window \in Nat
  PROVE  \E starts \in SUBSET instants :
           \A t \in instants : t \in starts <=> \A s \in starts : s < t => t - s > Window
<1> DEFINE Good(k) ==
             \E starts \in SUBSET {t \in instants : t < k} :
               \A t \in instants :
                 t < k => (t \in starts <=> \A s \in starts : s < t => t - s > Window)
           bad == {k \in Nat : ~Good(k)}
<1>1. Good(0)
  <2>1. {} \in SUBSET {t \in instants : t < 0} /\ \A t \in instants : ~(t < 0)
    OBVIOUS
  <2> QED
    BY <2>1
<1>2. ASSUME NEW k \in Nat, Good(k) PROVE Good(k + 1)
  <2>1. PICK starts \in SUBSET {t \in instants : t < k} :
          \A t \in instants :
            t < k => (t \in starts <=> \A s \in starts : s < t => t - s > Window)
    BY <1>2
  <2> DEFINE free == k \in instants /\ \A s \in starts : s < k => k - s > Window
             more == IF free THEN starts \cup {k} ELSE starts
  <2>2. more \in SUBSET {t \in instants : t < k + 1}
    BY <2>1
  <2>3. \A s \in more : s \in Nat /\ (s < k => s \in starts)
    BY <2>1
  <2>4. ASSUME NEW t \in instants, t < k + 1
        PROVE  t \in more <=> \A s \in more : s < t => t - s > Window
    <3>1. CASE t < k
      <4>1. t \in more <=> t \in starts
        BY <3>1
      <4>2. (\A s \in more : s < t => t - s > Window)
              <=> (\A s \in starts : s < t => t - s > Window)
        BY <2>1, <2>3, <3>1
      <4> QED
        BY <2>1, <3>1, <4>1, <4>2
    <3>2. CASE t = k
      <4>1. t \in more <=> free
        BY <2>1, <3>2
      <4>2. (\A s \in more : s < t => t - s > Window) <=> free
        BY <2>1, <2>3, <3>2
      <4> QED
        BY <4>1, <4>2
    <3> QED
      BY <2>4, <3>1, <3>2
  <2> QED
    BY <2>2, <2>4
<1> HIDE DEF Good
<1>3. bad = {}
  <2> SUFFICES ASSUME bad # {} PROVE FALSE
    OBVIOUS
  <2>1. PICK k \in bad : \A y \in bad : k <= y
    BY Least
  <2>2. k \in Nat /\ ~Good(k) /\ k # 0
    BY <1>1, <2>1
  <2>3. k - 1 \in Nat /\ (k - 1) + 1 = k
    BY <2>2
  <2>4. k - 1 \in bad
    BY <1>2, <2>2, <2>3
  <2> QED
    BY <2>1, <2>2, <2>4
<1>4. Good(horizon + 1)
  BY <1>3
<1> QED
  BY <1>4 DEF Good

(* Only rows of the feed survive its clusters.                              *)
LEMMA SurvivorsAreRows ==
  ASSUME DeskAssumptions, NEW rows \in SUBSET FeedRow
  PROVE  CollapseNearDuplicates(rows) \subseteq FeedRow
<1>1. PICK horizon \in Nat : Times \subseteq 0..horizon
  BY DEF DeskAssumptions
<1>2. ASSUME NEW cluster \in SUBSET rows, cluster # {} PROVE PickSurvivor(cluster) \in cluster
  <2> DEFINE populated == {r \in cluster : r.filled}
             ats == {r.at : r \in cluster}
  <2>1. CASE Cardinality(populated) = 1
    <3>1. populated # {}
      BY <2>1, FS_EmptySet
    <3> QED
      BY <2>1, <3>1 DEF PickSurvivor
  <2>2. CASE Cardinality(populated) # 1
    <3>1. ats \in SUBSET (0..horizon) /\ ats # {}
      BY <1>1, <1>2 DEF FeedRow
    <3>2. PICK x \in ats : \A y \in ats : y <= x
      <4> HIDE DEF ats
      <4> QED
        BY <3>1, Greatest
    <3>3. \E r \in cluster : \A q \in cluster : q.at <= r.at
      BY <3>2
    <3> QED
      BY <2>2, <3>3 DEF PickSurvivor
  <2> QED
    BY <2>1, <2>2
<1>3. ASSUME NEW title \in Titles,
             NEW start \in Starts({r.at : r \in {r \in rows : r.title = title}})
      PROVE  PickSurvivor({r \in {r \in rows : r.title = title} : r.at - start \in 0..Window})
               \in FeedRow
  <2> DEFINE group == {r \in rows : r.title = title}
             instants == {r.at : r \in group}
             cluster == {r \in group : r.at - start \in 0..Window}
  <2>1. instants \in SUBSET (0..horizon)
    BY <1>1 DEF FeedRow
  <2>2. Window \in Nat
    BY DEF DeskAssumptions
  <2>3. Starts(instants) \in SUBSET instants
    <3> HIDE DEF instants
    <3> QED
      BY <2>1, <2>2, StartsExist DEF Starts
  <2>4. start \in instants
    BY <1>3, <2>3
  <2>5. PICK r \in group : r.at = start
    BY <2>4
  <2>6. r \in cluster
    BY <2>1, <2>2, <2>4, <2>5
  <2>7. cluster \in SUBSET rows
    OBVIOUS
  <2> QED
    BY <1>2, <2>6, <2>7
<1>4. ASSUME NEW survivor \in CollapseNearDuplicates(rows) PROVE survivor \in FeedRow
  <2> DEFINE Group(title) == {r \in rows : r.title = title}
             Survivors(group) == {PickSurvivor({r \in group : r.at - start \in 0..Window}) :
                                    start \in Starts({r.at : r \in group})}
  <2>1. CollapseNearDuplicates(rows) = UNION {Survivors(Group(title)) : title \in Titles}
    BY DEF CollapseNearDuplicates
  <2>2. PICK title \in Titles : survivor \in Survivors(Group(title))
    BY <2>1
  <2>3. PICK start \in Starts({r.at : r \in Group(title)}) :
          survivor = PickSurvivor({r \in Group(title) : r.at - start \in 0..Window})
    BY <2>2
  <2> QED
    BY <1>3, <2>3
<1> QED
  BY <1>4

-------------------------------------------------------------------------------
LEMMA TimesAreNat == DeskAssumptions => Times \subseteq Nat
BY DEF DeskAssumptions

LEMMA FoundIsOnFile ==
  ASSUME DeskAssumptions, Calendar(events), NEW r \in FeedRow
  PROVE  Found(r) = None \/ (Found(r) \in events /\ Found(r) \in EventRow)
<1> DEFINE near == Near(r.title, r.at)
           ats == {e.at : e \in near}
<1>1. CASE near = {}
  BY <1>1 DEF Found
<1>2. CASE near # {}
  <2>1. near \subseteq events /\ events \subseteq EventRow
    BY DEF Near, Calendar
  <2>2. ats \in SUBSET Nat /\ ats # {}
    <3> HIDE DEF near
    <3> QED
      BY <1>2, <2>1 DEF EventRow
  <2>3. PICK x \in ats : \A y \in ats : x <= y
    <3> HIDE DEF ats
    <3> QED
      BY <2>2, Least
  <2>4. \E e \in near : \A q \in near : e.at <= q.at
    <3> HIDE DEF near
    <3> QED
      BY <2>3
  <2>5. Found(r) = CHOOSE e \in near : \A q \in near : e.at <= q.at
    BY <1>2 DEF Found
  <2> HIDE DEF near
  <2>6. Found(r) \in near
    BY <2>4, <2>5
  <2> QED
    BY <2>1, <2>6
<1> QED
  BY <1>1, <1>2

LEMMA MergedIs ==
  ASSUME DeskAssumptions, NEW e \in EventRow, NEW r \in FeedRow
  PROVE  Merged(e, r) \in EventRow /\ Merged(e, r).id = e.id /\ Merged(e, r).title = e.title
<1>1. r.at \in Nat /\ r.filled \in BOOLEAN /\ r.actual \in BOOLEAN
  BY TimesAreNat DEF FeedRow
<1> QED
  BY <1>1 DEF Merged, EventRow

(* Storing a release adds an id or changes the row of one: the calendar     *)
(* stays one, and what is on file stays on file.                            *)
LEMMA StoredIsCalendar ==
  ASSUME DeskAssumptions, Calendar(events), NEW r \in FeedRow, NEW found \in EventRow \cup {None},
         found # None => OnFile(found.id, found.title, events), Stored(found, r) # {}
  PROVE  /\ Calendar(Stored(found, r))
         /\ \A e \in events : OnFile(e.id, e.title, Stored(found, r))
<1> DEFINE row == IF found = None
                    THEN [id |-> Cardinality(events) + 1, title |-> r.title, at |-> r.at,
                          filled |-> r.filled, actual |-> r.actual]
                    ELSE Merged(found, r)
           rest == {e \in events : e.id # row.id}
           new == rest \cup {row}
<1>1. Stored(found, r) = new
  BY DEF Stored
<1>2. /\ events \subseteq EventRow /\ IsFiniteSet(events) /\ Cardinality(events) \in Nat
      /\ \A e \in events : e.id <= Cardinality(events)
      /\ \A e, q \in events : e.id = q.id => e = q
      /\ \A e \in events : e.id \in Nat
  BY FS_CardinalityType DEF Calendar, EventRow
<1>3. row \in EventRow
  <2>1. CASE found = None
    BY <1>2, <2>1, TimesAreNat DEF EventRow, FeedRow
  <2>2. CASE found # None
    BY <2>2, MergedIs
  <2> QED
    BY <2>1, <2>2
<1>4. CASE found = None
  <2>1. row.id = Cardinality(events) + 1
    BY <1>4
  <2> HIDE DEF row
  <2>2. rest = events /\ row \notin events
    BY <1>2, <2>1
  <2>3. IsFiniteSet(new) /\ Cardinality(new) = Cardinality(events) + 1
    BY <1>2, <2>2, FS_AddElement
  <2>4. \A e \in new : e.id <= Cardinality(new)
    BY <1>2, <2>1, <2>2, <2>3
  <2>5. \A e, q \in new : e.id = q.id => e = q
    BY <1>2, <2>2
  <2>6. Calendar(new)
    BY <1>2, <1>3, <2>2, <2>3, <2>4, <2>5 DEF Calendar
  <2>7. \A e \in events : OnFile(e.id, e.title, new)
    BY <2>2 DEF OnFile
  <2> HIDE DEF new
  <2> QED
    BY <1>1, <2>6, <2>7
<1>5. CASE found # None
  <2>1. row.id = found.id /\ row.title = found.title
    BY <1>5, MergedIs
  <2> HIDE DEF row
  <2>2. PICK old \in events : old.id = found.id /\ old.title = found.title
    BY <1>5 DEF OnFile
  <2>3. rest = events \ {old}
    BY <1>2, <2>1, <2>2
  <2>4. IsFiniteSet(rest) /\ Cardinality(rest) = Cardinality(events) - 1
    BY <1>2, <2>3, FS_RemoveElement
  <2>5. row \notin rest
    OBVIOUS
  <2>6. IsFiniteSet(new) /\ Cardinality(new) = Cardinality(rest) + 1
    BY <2>4, <2>5, FS_AddElement
  <2>7. Cardinality(new) = Cardinality(events)
    BY <1>2, <2>4, <2>6
  <2>8. \A e \in new : e.id <= Cardinality(new)
    BY <1>2, <2>1, <2>2, <2>7
  <2>9. \A e, q \in new : e.id = q.id => e = q
    BY <1>2
  <2>10. Calendar(new)
    BY <1>2, <1>3, <2>6, <2>8, <2>9 DEF Calendar
  <2>11. ASSUME NEW e \in events PROVE OnFile(e.id, e.title, new)
    BY <2>1, <2>2, <2>3 DEF OnFile
  <2> HIDE DEF new
  <2> QED
    BY <1>1, <2>10, <2>11
<1> QED
  BY <1>4, <1>5

(* What was read or deferred is on file in a calendar that keeps its rows.  *)
LEMMA OnFileStays ==
  ASSUME Calendar(events), NEW E, \A e \in events : OnFile(e.id, e.title, E)
  PROVE  /\ \A F : FetchesOK(F, events) => FetchesOK(F, E)
         /\ \A d, b : DeferralOK(d, events, b) => DeferralOK(d, E, b)
<1>1. \A id, title : OnFile(id, title, events) => OnFile(id, title, E)
  BY DEF OnFile
<1>2. ASSUME NEW d, NEW b, DeferralOK(d, events, b) PROVE DeferralOK(d, E, b)
  BY <1>2 DEF DeferralOK, OnFile
<1>3. \A c : FetchOK(c, events) => FetchOK(c, E)
  BY <1>1 DEF FetchOK
<1> QED
  BY <1>2, <1>3 DEF FetchesOK

-------------------------------------------------------------------------------
LEMMA DeskInit == DeskAssumptions /\ Init => DeskInv
<1> SUFFICES ASSUME DeskAssumptions, Init PROVE DeskInv
  OBVIOUS
<1>1. Calendar(events)
  BY DEF Init, DeskAssumptions
<1>2. FetchesOK(fetch, events)
  BY DEF Init, FetchesOK, FetchOK, Idle
<1>3. DeskOK /\ EntriesOK
  BY DEF Init, DeskOK, EntriesOK
<1> QED
  BY <1>1, <1>2, <1>3 DEF Init, DeskInv

(* A run of the fetch that changes alone.                                   *)
LEMMA FetchAlone ==
  ASSUME NEW F, NEW E, FetchesOK(F, E), NEW f \in Fetchers, NEW c, FetchOK(c, E)
  PROVE  FetchesOK([F EXCEPT ![f] = c], E)
BY DEF FetchesOK

(* A run that is counted and moves on is still a run.                       *)
LEMMA CountedIs ==
  ASSUME NEW c \in Working, NEW r, NEW stored \in BOOLEAN
  PROVE  /\ Counted(c, r, stored) \in Working
         /\ Counted(c, r, stored).found = c.found /\ Counted(c, r, stored).event = c.event
         /\ Counted(c, r, stored).stage = c.stage
<1> DEFINE m == Resolve[r.title]
           n == c.written + IF stored THEN 1 ELSE 0
           e == c.errors + IF stored THEN 0 ELSE 1
           k == c.mapped + IF m # None THEN 1 ELSE 0
           d == c.deferred + IF m = None THEN 0
                             ELSE IF ~m.alertOnly /\ ~r.actual THEN 1 ELSE 0
<1>1. Counted(c, r, stored) = [c EXCEPT !.written = n, !.errors = e, !.mapped = k, !.deferred = d]
  BY DEF Counted
<1>2. n \in Nat /\ e \in Nat /\ k \in Nat /\ d \in Nat
  BY DEF Working
<1> HIDE DEF n, e, k, d
<1> QED
  BY <1>1, <1>2 DEF Working

LEMMA Next1Is ==
  ASSUME NEW c \in Working, c.stage = "store", c.event # None, NEW r, NEW E,
         c.found # None => OnFile(c.found.id, c.found.title, E)
  PROVE  FetchOK(Next1(c, r), E)
<1>1. CASE Scoreable(r)
  <2> DEFINE new == [c EXCEPT !.stage = "score", !.todo = @ \ {r}]
  <2>1. new \in Working /\ new.event = c.event /\ new.found = c.found
    BY DEF Working
  <2> HIDE DEF new
  <2>2. FetchOK(new, E)
    BY <2>1 DEF FetchOK
  <2> QED
    BY <1>1, <2>2 DEF Next1, new
<1>2. CASE ~Scoreable(r)
  <2> DEFINE new == [c EXCEPT !.event = None, !.found = None, !.todo = @ \ {r}]
  <2>1. new \in Working /\ new.event = None /\ new.found = None /\ new.stage = c.stage
    BY DEF Working
  <2> HIDE DEF new
  <2> QED
    BY <1>2, <2>1 DEF Next1, new, FetchOK
<1> QED
  BY <1>1, <1>2

(* StoreEvent: the calendar keeps its rows, the run moves on.               *)
LEMMA StoreEventKeeps ==
  ASSUME DeskAssumptions, Calendar(events), FetchesOK(fetch, events),
         NEW f \in Fetchers, StoreEvent(f)
  PROVE  /\ Calendar(events') /\ FetchesOK(fetch', events')
         /\ \A d, b : DeferralOK(d, events, b) => DeferralOK(d, events', b)
<1> DEFINE c == fetch[f]
           r == c.event
           stored == Stored(c.found, r)
<1>1. c \in Working /\ r \in FeedRow /\ c.found \in EventRow \cup {None} /\ c.stage = "store"
      /\ r # None /\ (c.found # None => OnFile(c.found.id, c.found.title, events))
  <2>1. c.stage = "store" /\ c.event # None
    BY DEF StoreEvent
  <2>2. c \in Working /\ (c.found # None => OnFile(c.found.id, c.found.title, events))
    BY <2>1 DEF FetchesOK, FetchOK
  <2> HIDE DEF c
  <2> QED
    BY <2>1, <2>2 DEF Working
<1>2. \/ /\ stored # {} /\ events' = stored
         /\ fetch' = [fetch EXCEPT ![f] = Next1(Counted(c, r, TRUE), r)]
      \/ events' = events /\ fetch' = [fetch EXCEPT ![f] = Next1(Counted(c, r, FALSE), r)]
  BY DEF StoreEvent, FetchesOK
<1> HIDE DEF c, r, stored
<1>3. ASSUME NEW E, NEW b \in BOOLEAN, FetchesOK(fetch, E),
             c.found # None => OnFile(c.found.id, c.found.title, E)
      PROVE  FetchesOK([fetch EXCEPT ![f] = Next1(Counted(c, r, b), r)], E)
  <2>1. /\ Counted(c, r, b) \in Working /\ Counted(c, r, b).stage = "store"
        /\ Counted(c, r, b).found = c.found /\ Counted(c, r, b).event # None
    BY <1>1, CountedIs DEF r
  <2>2. FetchOK(Next1(Counted(c, r, b), r), E)
    BY <1>3, <2>1, Next1Is
  <2> QED
    BY <1>3, <2>2, FetchAlone
<1>4. CASE /\ stored # {} /\ events' = stored
           /\ fetch' = [fetch EXCEPT ![f] = Next1(Counted(c, r, TRUE), r)]
  <2>1. Calendar(stored) /\ \A e \in events : OnFile(e.id, e.title, stored)
    BY <1>1, <1>4, StoredIsCalendar DEF stored
  <2>2. /\ FetchesOK(fetch, stored)
        /\ \A d, b : DeferralOK(d, events, b) => DeferralOK(d, stored, b)
    BY <2>1, OnFileStays
  <2>3. c.found # None => OnFile(c.found.id, c.found.title, stored)
    BY <1>1, <2>1 DEF OnFile
  <2> QED
    BY <1>3, <1>4, <2>1, <2>2, <2>3
<1>5. CASE events' = events /\ fetch' = [fetch EXCEPT ![f] = Next1(Counted(c, r, FALSE), r)]
  BY <1>1, <1>3, <1>5
<1> QED
  BY <1>2, <1>4, <1>5

(* The other steps of a run.                                                *)
LEMMA FetchStepKeeps ==
  ASSUME DeskAssumptions, DeskInv, NEW f \in Fetchers,
         StartFetch(f) \/ FindEvent(f) \/ ScoreEvent(f) \/ FinishFetch(f) \/ CrashFetch(f)
  PROVE  FetchesOK(fetch', events)
<1> DEFINE c == fetch[f]
<1>1. FetchesOK(fetch, events) /\ Calendar(events) /\ feed \in SUBSET FeedRow
  BY DEF DeskInv
<1>2. ASSUME NEW new, fetch' = [fetch EXCEPT ![f] = new], FetchOK(new, events)
      PROVE  FetchesOK(fetch', events)
  BY <1>1, <1>2, FetchAlone
<1>3. CASE StartFetch(f)
  <2> DEFINE new == [stage |-> "store", todo |-> CollapseNearDuplicates(feed), sent |-> feed,
                     event |-> None, found |-> None,
                     written |-> 0, mapped |-> 0, deferred |-> 0, scored |-> 0, errors |-> 0]
  <2>1. CollapseNearDuplicates(feed) \in SUBSET FeedRow
    BY <1>1, SurvivorsAreRows
  <2>2. new \in Working /\ new.stage = "store" /\ new.found = None
    BY <1>1, <2>1 DEF Working
  <2>3. fetch' = [fetch EXCEPT ![f] = new]
    BY <1>3 DEF StartFetch
  <2> HIDE DEF new
  <2> QED
    BY <1>2, <2>2, <2>3 DEF FetchOK
<1>4. CASE FindEvent(f)
  <2>1. PICK r \in c.todo : fetch' = [fetch EXCEPT ![f].event = r, ![f].found = Found(r)]
    BY <1>4 DEF FindEvent
  <2>2. c \in Working /\ c.stage = "store"
    BY <1>1, <1>4 DEF FindEvent, FetchesOK, FetchOK
  <2>3. r \in FeedRow
    BY <2>1, <2>2 DEF Working
  <2>4. Found(r) = None \/ (Found(r) \in events /\ Found(r) \in EventRow)
    BY <1>1, <2>3, FoundIsOnFile
  <2> DEFINE new == [c EXCEPT !.event = r, !.found = Found(r)]
  <2>5. fetch' = [fetch EXCEPT ![f] = new]
    BY <1>1, <2>1 DEF FetchesOK
  <2>6. new \in Working /\ new.found = Found(r) /\ new.stage = "store"
    BY <2>2, <2>3, <2>4 DEF Working
  <2> HIDE DEF new
  <2>7. new.found # None => OnFile(new.found.id, new.found.title, events)
    BY <2>4, <2>6 DEF OnFile
  <2> QED
    BY <1>2, <2>5, <2>6, <2>7 DEF FetchOK
<1>5. CASE ScoreEvent(f)
  <2> DEFINE on == [c EXCEPT !.stage = "store", !.event = None, !.found = None]
             done == [on EXCEPT !.scored = @ + 1]
             lost == [on EXCEPT !.errors = @ + 1]
  <2>1. fetch' = [fetch EXCEPT ![f] = done] \/ fetch' = [fetch EXCEPT ![f] = lost]
    BY <1>5 DEF ScoreEvent
  <2>2. c \in Working
    BY <1>1, <1>5 DEF ScoreEvent, FetchesOK, FetchOK
  <2>3. /\ done \in Working /\ done.stage = "store" /\ done.found = None
        /\ lost \in Working /\ lost.stage = "store" /\ lost.found = None
    <3>1. on \in Working /\ on.stage = "store" /\ on.found = None
      BY <2>2 DEF Working
    <3> HIDE DEF on
    <3>2. on.scored + 1 \in Nat /\ on.errors + 1 \in Nat
      BY <3>1 DEF Working
    <3> QED
      BY <3>1, <3>2 DEF Working
  <2> HIDE DEF done, lost
  <2>4. FetchOK(done, events) /\ FetchOK(lost, events)
    BY <2>3 DEF FetchOK
  <2> QED
    BY <1>2, <2>1, <2>4
<1>6. CASE FinishFetch(f)
  <2> DEFINE new == [stage |-> "done", status |-> ResolveRunStatus(c), mapped |-> c.mapped,
                     scored |-> c.scored]
  <2>1. fetch' = [fetch EXCEPT ![f] = new]
    BY <1>1, <1>6 DEF FinishFetch, FetchesOK
  <2>2. FetchOK(new, events)
    BY DEF FetchOK
  <2> HIDE DEF new
  <2> QED
    BY <1>2, <2>1, <2>2
<1>7. CASE CrashFetch(f)
  <2>1. fetch' = [fetch EXCEPT ![f] = Idle] /\ FetchOK(Idle, events)
    BY <1>7 DEF CrashFetch, FetchOK, Idle
  <2> QED
    BY <1>2, <2>1
<1> QED
  BY <1>3, <1>4, <1>5, <1>6, <1>7

-------------------------------------------------------------------------------
(* A step of the fetch leaves the deferrals and the desk alone.             *)
LEMMA DeskStays ==
  ASSUME DeskInv, deferrals' = deferrals, born' = born, desk' = desk, entered' = entered,
         broken' = broken
  PROVE  /\ \A d \in deferrals' : DeferralOK(d, events, born')
         /\ DeskOK' /\ EntriesOK' /\ \A d \in deferrals' : Snoozing(d)'
BY DEF DeskInv, DeskOK, EntriesOK, Snoozing, BeingCleared

LEMMA IngestedStays ==
  ASSUME DeskInv, ingested' = ingested, points' = points
  PROVE  \A i \in ingested' : IngestedOK(i)'
BY DEF DeskInv, IngestedOK

LEMMA FetchStep ==
  ASSUME DeskAssumptions, DeskInv,
         \/ Tick \/ Publish
         \/ \E f \in Fetchers : \/ StartFetch(f) \/ FindEvent(f) \/ StoreEvent(f)
                                \/ ScoreEvent(f) \/ FinishFetch(f) \/ CrashFetch(f)
  PROVE  DeskInv'
<1>1. /\ deferrals' = deferrals /\ born' = born /\ desk' = desk /\ entered' = entered
      /\ broken' = broken
  BY DEF Tick, Publish, StartFetch, FindEvent, StoreEvent, ScoreEvent, FinishFetch, CrashFetch
<1>2. /\ \A d \in deferrals' : DeferralOK(d, events, born')
      /\ DeskOK' /\ EntriesOK' /\ \A d \in deferrals' : Snoozing(d)'
  BY <1>1, DeskStays
<1>3. CASE Tick
  <2>1. /\ feed' = feed /\ events' = events /\ fetch' = fetch /\ points' = points
        /\ ingested' = ingested
    BY <1>3 DEF Tick
  <2> QED
    BY <1>2, <2>1, IngestedStays DEF DeskInv
<1>4. CASE Publish
  <2>1. events' = events /\ fetch' = fetch /\ points' = points /\ ingested' = ingested
    BY <1>4 DEF Publish
  <2>2. feed \subseteq FeedRow
    BY DEF DeskInv
  <2>3. /\ \A title \in Titles, at \in Times, filled \in BOOLEAN :
             Row(title, at, filled) \in FeedRow
        /\ \A r \in feed : /\ [r EXCEPT !.filled = TRUE] \in FeedRow
                          /\ [r EXCEPT !.actual = TRUE] \in FeedRow
    BY <2>2 DEF Row, FeedRow
  <2>4. feed' \subseteq FeedRow
    <3>1. CASE \E title \in Titles, at \in Times, filled \in BOOLEAN :
                 feed' = feed \cup {Row(title, at, filled)}
      BY <2>2, <2>3, <3>1
    <3>2. CASE \E r \in feed : feed' = (feed \ {r}) \cup {[r EXCEPT !.filled = TRUE]}
      BY <2>2, <2>3, <3>2
    <3>3. CASE \E r \in feed : feed' = (feed \ {r}) \cup {[r EXCEPT !.actual = TRUE]}
      BY <2>2, <2>3, <3>3
    <3>4. CASE \E r \in feed : feed' = feed \ {r}
      BY <2>2, <3>4
    <3> QED
      BY <1>4, <3>1, <3>2, <3>3, <3>4, Zenon DEF Publish
  <2> QED
    BY <1>2, <2>1, <2>4, IngestedStays DEF DeskInv
<1>5. ASSUME NEW f \in Fetchers, StoreEvent(f) PROVE DeskInv'
  <2>1. feed' = feed /\ points' = points /\ ingested' = ingested
    BY <1>5 DEF StoreEvent
  <2>2. Calendar(events) /\ FetchesOK(fetch, events)
    BY DEF DeskInv
  <2>3. /\ Calendar(events') /\ FetchesOK(fetch', events')
        /\ \A d, b : DeferralOK(d, events, b) => DeferralOK(d, events', b)
    BY <1>5, <2>2, StoreEventKeeps
  <2> QED
    BY <1>2, <2>1, <2>3, IngestedStays DEF DeskInv
<1>6. ASSUME NEW f \in Fetchers, StartFetch(f) \/ FindEvent(f) \/ FinishFetch(f) \/ CrashFetch(f)
      PROVE  DeskInv'
  <2>1. feed' = feed /\ events' = events /\ points' = points /\ ingested' = ingested
    BY <1>6 DEF StartFetch, FindEvent, FinishFetch, CrashFetch
  <2>2. FetchesOK(fetch', events)
    BY <1>6, FetchStepKeeps
  <2> QED
    BY <1>2, <2>1, <2>2, IngestedStays DEF DeskInv
<1>7. ASSUME NEW f \in Fetchers, ScoreEvent(f) PROVE DeskInv'
  <2> DEFINE r == fetch[f].event
             v == Resolve[r.title].variant
  <2>1. feed' = feed /\ events' = events
    BY <1>7 DEF ScoreEvent
  <2>2. FetchesOK(fetch', events)
    BY <1>7, FetchStepKeeps
  <2>3. r \in FeedRow
    <3>1. fetch[f].stage = "score"
      BY <1>7 DEF ScoreEvent
    <3>2. fetch[f] \in Working /\ fetch[f].event # None
      BY <3>1 DEF DeskInv, FetchesOK, FetchOK
    <3> QED
      BY <3>2 DEF Working
  <2>4. r.at \in Nat
    BY <2>3, TimesAreNat DEF FeedRow
  <2>5. \/ /\ points' = points \cup {Point(v, UtcDate(r.at))}
           /\ ingested' = ingested \cup {[variant |-> v, title |-> r.title, at |-> r.at]}
        \/ points' = points /\ ingested' = ingested
    BY <1>7 DEF ScoreEvent
  <2> HIDE DEF r
  <2>6. \A i \in ingested' : IngestedOK(i)'
    BY <2>4, <2>5, IngestedStays DEF IngestedOK, DeskInv
  <2> QED
    BY <1>2, <2>1, <2>2, <2>6 DEF DeskInv
<1> QED
  BY <1>3, <1>4, <1>5, <1>6, <1>7

-------------------------------------------------------------------------------
LEMMA DeskTypes ==
  ASSUME DeskInv, NEW a \in Admins
  PROVE  /\ desk[a] \in {Idle} \cup Clearing \cup Placing
         /\ desk[a].stage = "clear" => desk[a] \in Clearing
         /\ desk[a].stage = "standing" => desk[a] \in Placing
         /\ desk[a] = Idle => desk[a].stage = "idle"
<1>1. desk[a] \in {Idle} \cup Clearing \cup Placing
  BY DEF DeskInv, DeskOK
<1>2. Idle.stage = "idle"
  BY DEF Idle
<1> QED
  BY <1>1, <1>2 DEF Clearing, Placing

(* What the desk does leaves the feed, the calendar and the fetch alone.    *)
LEMMA EntryStep ==
  ASSUME DeskInv,
         feed' = feed /\ events' = events /\ fetch' = fetch,
         \A d \in deferrals' : DeferralOK(d, events, born'),
         DeskOK', EntriesOK', \A d \in deferrals' : Snoozing(d)',
         \A i \in ingested' : IngestedOK(i)'
  PROVE  DeskInv'
BY DEF DeskInv

LEMMA Entering ==
  ASSUME DeskAssumptions, DeskInv, NEW a \in Admins, NEW v \in Variants, NEW date,
         NEW mismatch, NEW confirmed, EnterValue(a, v, date, mismatch, confirmed)
  PROVE  DeskInv'
<1>1. /\ feed' = feed /\ events' = events /\ fetch' = fetch /\ deferrals' = deferrals
      /\ ingested' = ingested /\ broken' = broken
      /\ points' = points \cup {Point(v, date)} /\ born' = born + 1
      /\ entered' = [entered EXCEPT ![v] = born + 1] /\ desk[a] = Idle
      /\ desk' = [desk EXCEPT ![a] = [stage |-> "clear", variant |-> v]]
  BY DEF EnterValue
<1>2. DeskOK /\ EntriesOK /\ \A d \in deferrals : DeferralOK(d, events, born) /\ Snoozing(d)
  BY DEF DeskInv
<1>3. DeskOK'
  BY <1>1, <1>2 DEF DeskOK, Clearing
<1>4. EntriesOK'
  BY <1>1, <1>2 DEF EntriesOK
<1>5. \A d \in deferrals' : DeferralOK(d, events, born')
  BY <1>1, <1>2 DEF DeferralOK, EntriesOK, Deferral
<1>6. ASSUME NEW d \in deferrals' PROVE Snoozing(d)'
  <2>1. Snoozing(d) /\ d.variant \in Variants
    BY <1>1, <1>2, <1>6 DEF DeferralOK, Deferral
  <2>2. CASE d.variant = v
    <3>1. desk'[a].stage = "clear" /\ desk'[a].variant = d.variant
      BY <1>1, <1>2, <2>2 DEF DeskOK
    <3> QED
      BY <3>1 DEF Snoozing, BeingCleared
  <2>3. CASE d.variant # v
    <3>1. entered'[d.variant] = entered[d.variant]
      BY <1>1, <1>2, <2>1, <2>3 DEF EntriesOK
    <3>2. BeingCleared(d.variant) => BeingCleared(d.variant)'
      <4>1. \A b \in Admins : desk[b].stage = "clear" => b # a /\ desk'[b] = desk[b]
        BY <1>1, <1>2, DeskTypes DEF DeskOK
      <4> QED
        BY <4>1 DEF BeingCleared
    <3> QED
      BY <1>1, <2>1, <3>1, <3>2 DEF Snoozing
  <2> QED
    BY <2>2, <2>3
<1>7. \A i \in ingested' : IngestedOK(i)'
  BY <1>1 DEF DeskInv, IngestedOK
<1> QED
  BY <1>1, <1>3, <1>4, <1>5, <1>6, <1>7, EntryStep

(* The desk serves another request; the one that was clearing is done.      *)
LEMMA ClearingStays ==
  ASSUME DeskInv, NEW a \in Admins, NEW new, desk' = [desk EXCEPT ![a] = new],
         entered' = entered, broken \subseteq broken', NEW d, Snoozing(d),
         \/ desk[a].stage # "clear" \/ desk[a].variant # d.variant \/ d.variant \in broken'
  PROVE  Snoozing(d)'
<1>1. \A b \in Admins : b # a => desk'[b] = desk[b]
  BY DEF DeskInv, DeskOK
<1>2. BeingCleared(d.variant) => BeingCleared(d.variant)' \/ d.variant \in broken'
  BY <1>1 DEF BeingCleared
<1> QED
  BY <1>2 DEF Snoozing

LEMMA Finishing ==
  ASSUME DeskAssumptions, DeskInv, NEW a \in Admins, ClearDeferrals(a) \/ EntryFails(a)
  PROVE  DeskInv'
<1>1. /\ feed' = feed /\ events' = events /\ fetch' = fetch /\ ingested' = ingested
      /\ points' = points /\ born' = born /\ entered' = entered
      /\ desk' = [desk EXCEPT ![a] = Idle] /\ desk[a].stage = "clear"
      /\ broken \subseteq broken' /\ deferrals' \subseteq deferrals
      /\ \A d \in deferrals' : desk[a].variant # d.variant \/ d.variant \in broken'
  BY DEF ClearDeferrals, EntryFails, Cleared
<1>2. DeskOK /\ EntriesOK /\ \A d \in deferrals : DeferralOK(d, events, born) /\ Snoozing(d)
  BY DEF DeskInv
<1>3. DeskOK'
  BY <1>1, <1>2 DEF DeskOK
<1>4. EntriesOK' /\ \A d \in deferrals' : DeferralOK(d, events, born')
  BY <1>1, <1>2 DEF EntriesOK
<1>5. \A d \in deferrals' : Snoozing(d)'
  BY <1>1, <1>2, ClearingStays
<1> QED
  BY <1>1, <1>3, <1>4, <1>5, EntryStep, IngestedStays

LEMMA Moving ==
  ASSUME DeskAssumptions, DeskInv, NEW a \in Admins, NEW p, NEW v, NEW date,
         EditEntry(a, p, v, date)
  PROVE  DeskInv'
<1>1. /\ feed' = feed /\ events' = events /\ fetch' = fetch /\ deferrals' = deferrals
      /\ born' = born /\ desk' = desk /\ entered' = entered /\ broken' = broken
      /\ points' = (points \ {p}) \cup {Point(v, date)}
      /\ ingested' = {i \in ingested : Point(i.variant, UtcDate(i.at)) # p}
  BY DEF EditEntry
<1>2. \A i \in ingested' : IngestedOK(i)'
  BY <1>1 DEF DeskInv, IngestedOK
<1> QED
  BY <1>1, <1>2, DeskStays, EntryStep

LEMMA DeferringEvent ==
  ASSUME DeskAssumptions, DeskInv, NEW a \in Admins, NEW e \in events, NEW until \in Untils,
         DeferEvent(a, e, until)
  PROVE  DeskInv'
<1> DEFINE new == [born |-> born + 1, variant |-> Resolve[e.title].variant, event |-> e.id,
                   until |-> until]
<1>1. /\ feed' = feed /\ events' = events /\ fetch' = fetch /\ ingested' = ingested
      /\ points' = points /\ entered' = entered /\ broken' = broken /\ desk' = desk
      /\ born' = born + 1 /\ Mapped(e.title)
      /\ deferrals' = deferrals \cup {new}
  BY DEF DeferEvent
<1>2. /\ DeskOK /\ EntriesOK /\ events \subseteq EventRow
      /\ \A d \in deferrals : DeferralOK(d, events, born) /\ Snoozing(d)
  BY DEF DeskInv, Calendar
<1>3. e.id \in Nat /\ e.title \in Titles
  BY <1>2 DEF EventRow
<1>4. new.variant \in Variants
  BY <1>1, <1>3 DEF DeskAssumptions
<1>5. new \in Deferral
  BY <1>2, <1>3, <1>4 DEF Deferral, EntriesOK
<1>6. DeferralOK(new, events, born') /\ new.born > entered[new.variant]
  BY <1>1, <1>2, <1>4, <1>5 DEF DeferralOK, EntriesOK
<1> HIDE DEF new
<1>7. \A d \in deferrals' : DeferralOK(d, events, born')
  BY <1>1, <1>2, <1>6 DEF DeferralOK, EntriesOK, Deferral
<1>8. \A d \in deferrals' : Snoozing(d)'
  BY <1>1, <1>2, <1>6 DEF Snoozing, BeingCleared
<1>9. DeskOK' /\ EntriesOK'
  BY <1>1, <1>2 DEF DeskOK, EntriesOK
<1> QED
  BY <1>1, <1>7, <1>8, <1>9, EntryStep, IngestedStays

LEMMA DeferringAll ==
  ASSUME DeskAssumptions, DeskInv, NEW a \in Admins, NEW v \in Variants, NEW until \in Untils,
         DeferStanding(a, v, until)
  PROVE  DeskInv'
<1>1. /\ feed' = feed /\ events' = events /\ fetch' = fetch /\ ingested' = ingested
      /\ points' = points /\ entered' = entered /\ broken' = broken /\ deferrals' = deferrals
      /\ born' = born /\ desk[a] = Idle
  BY DEF DeferStanding
<1>2. PICK found \in IF Standing(v) = {} THEN {None} ELSE Standing(v) :
        desk' = [desk EXCEPT ![a] =
                   [stage |-> "standing", variant |-> v, until |-> until, found |-> found]]
  BY DEF DeferStanding
<1>3. /\ DeskOK /\ EntriesOK
      /\ \A d \in deferrals : DeferralOK(d, events, born) /\ Snoozing(d)
  BY DEF DeskInv
<1>4. found \in Deferral \cup {None}
  BY <1>2, <1>3 DEF Standing, DeferralOK
<1>5. DeskOK'
  BY <1>2, <1>3, <1>4 DEF DeskOK, Placing
<1>6. desk[a].stage # "clear"
  BY <1>1, DeskTypes
<1>7. \A d \in deferrals' : Snoozing(d)'
  BY <1>1, <1>2, <1>3, <1>6, ClearingStays
<1> QED
  BY <1>1, <1>3, <1>5, <1>7, EntryStep, IngestedStays DEF EntriesOK

LEMMA Placed ==
  ASSUME DeskAssumptions, DeskInv, NEW a \in Admins, WriteStanding(a)
  PROVE  DeskInv'
<1> DEFINE d == desk[a]
           moved == [d.found EXCEPT !.until = d.until]
           new == [born |-> born + 1, variant |-> d.variant, event |-> None, until |-> d.until]
<1>1. /\ feed' = feed /\ events' = events /\ fetch' = fetch /\ ingested' = ingested
      /\ points' = points /\ entered' = entered /\ broken' = broken
      /\ d.stage = "standing" /\ desk' = [desk EXCEPT ![a] = Idle]
  BY DEF WriteStanding
<1>2. \/ d.found \in deferrals /\ deferrals' = (deferrals \ {d.found}) \cup {moved} /\ born' = born
      \/ born' = born + 1 /\ deferrals' = deferrals \cup {new}
      \/ deferrals' = deferrals /\ born' = born
  BY DEF WriteStanding
<1>3. /\ DeskOK /\ EntriesOK
      /\ \A q \in deferrals : DeferralOK(q, events, born) /\ Snoozing(q)
  BY DEF DeskInv
<1>4. d \in Placing /\ d.variant \in Variants /\ d.until \in Untils /\ d.stage # "clear"
  <2>1. d \in Placing
    BY <1>1, DeskTypes
  <2> HIDE DEF d
  <2> QED
    BY <1>1, <2>1 DEF Placing
<1>5. DeskOK'
  BY <1>1, <1>3 DEF DeskOK
<1>6. ASSUME NEW q, Snoozing(q) PROVE Snoozing(q)'
  BY <1>1, <1>4, <1>6, ClearingStays
<1>7. CASE /\ d.found \in deferrals /\ born' = born
           /\ deferrals' = (deferrals \ {d.found}) \cup {moved}
  <2>1. DeferralOK(d.found, events, born) /\ Snoozing(d.found)
    BY <1>3, <1>7
  <2>2. /\ moved \in Deferral /\ moved.born = d.found.born /\ moved.variant = d.found.variant
        /\ moved.event = d.found.event
    BY <1>4, <2>1 DEF DeferralOK, Deferral
  <2> HIDE DEF moved, d
  <2>3. DeferralOK(moved, events, born) /\ Snoozing(moved)
    BY <2>1, <2>2 DEF DeferralOK, Snoozing
  <2>4. \A q \in deferrals' : DeferralOK(q, events, born') /\ Snoozing(q)'
    BY <1>3, <1>6, <1>7, <2>3
  <2> QED
    BY <1>1, <1>3, <1>5, <1>7, <2>4, EntryStep, IngestedStays DEF EntriesOK
<1>8. CASE born' = born + 1 /\ deferrals' = deferrals \cup {new}
  <2>1. new \in Deferral /\ new.born = born + 1 /\ new.variant \in Variants /\ new.event = None
    BY <1>3, <1>4 DEF Deferral, EntriesOK
  <2> HIDE DEF new, d
  <2>2. DeferralOK(new, events, born') /\ Snoozing(new)
    BY <1>3, <1>8, <2>1 DEF DeferralOK, Snoozing, EntriesOK
  <2>3. \A q \in deferrals : DeferralOK(q, events, born')
    BY <1>3, <1>8 DEF DeferralOK, Deferral, EntriesOK
  <2>4. \A q \in deferrals' : DeferralOK(q, events, born') /\ Snoozing(q)'
    BY <1>3, <1>6, <1>8, <2>2, <2>3
  <2>5. EntriesOK'
    BY <1>1, <1>3, <1>8 DEF EntriesOK
  <2> QED
    BY <1>1, <1>5, <2>4, <2>5, EntryStep, IngestedStays
<1>9. CASE deferrals' = deferrals /\ born' = born
  <2>1. \A q \in deferrals' : DeferralOK(q, events, born') /\ Snoozing(q)'
    BY <1>3, <1>6, <1>9
  <2> QED
    BY <1>1, <1>3, <1>5, <1>9, <2>1, EntryStep, IngestedStays DEF EntriesOK
<1> QED
  BY <1>2, <1>7, <1>8, <1>9

LEMMA Undeferring ==
  ASSUME DeskAssumptions, DeskInv, NEW a \in Admins, NEW d, Undefer(a, d)
  PROVE  DeskInv'
<1>1. /\ feed' = feed /\ events' = events /\ fetch' = fetch /\ ingested' = ingested
      /\ points' = points /\ entered' = entered /\ broken' = broken /\ desk' = desk
      /\ born' = born /\ deferrals' = deferrals \ {d}
  BY DEF Undefer
<1>2. /\ DeskOK /\ EntriesOK
      /\ \A q \in deferrals : DeferralOK(q, events, born) /\ Snoozing(q)
  BY DEF DeskInv
<1>3. \A q \in deferrals' : DeferralOK(q, events, born') /\ Snoozing(q)'
  BY <1>1, <1>2 DEF Snoozing, BeingCleared
<1> QED
  BY <1>1, <1>2, <1>3, EntryStep, IngestedStays DEF DeskOK, EntriesOK

LEMMA DeskStep == ASSUME DeskAssumptions, DeskInv, [Next]_vars PROVE DeskInv'
<1>1. CASE UNCHANGED vars
  <2>1. /\ feed' = feed /\ events' = events /\ fetch' = fetch /\ ingested' = ingested
        /\ points' = points /\ entered' = entered /\ broken' = broken /\ desk' = desk
        /\ born' = born /\ deferrals' = deferrals
    BY <1>1 DEF vars
  <2> QED
    BY <2>1, DeskStays, IngestedStays DEF DeskInv
<1>2. CASE \/ Tick \/ Publish
           \/ \E f \in Fetchers : \/ StartFetch(f) \/ FindEvent(f) \/ StoreEvent(f)
                                  \/ ScoreEvent(f) \/ FinishFetch(f) \/ CrashFetch(f)
  BY <1>2, FetchStep
<1>3. ASSUME NEW a \in Admins,
             \/ \E v \in Variants, date \in 0..UtcDate(Max(Clock)),
                   mismatch, confirmed \in BOOLEAN :
                  EnterValue(a, v, date, mismatch, confirmed)
             \/ ClearDeferrals(a) \/ EntryFails(a) \/ WriteStanding(a)
             \/ \E p \in points, v \in Variants, date \in 0..UtcDate(Max(Clock)) :
                  EditEntry(a, p, v, date)
             \/ \E e \in events, until \in Untils : DeferEvent(a, e, until)
             \/ \E v \in Variants, until \in Untils : DeferStanding(a, v, until)
             \/ \E d \in deferrals : Undefer(a, d)
      PROVE  DeskInv'
  BY <1>3, Entering, Finishing, Moving, DeferringEvent, DeferringAll, Placed, Undeferring
<1> QED
  BY <1>1, <1>2, <1>3 DEF Next

-------------------------------------------------------------------------------
(* Midnight by UTC and by Indian time: instants a window apart.             *)
LEMMA WindowAcrossMidnight ==
  ASSUME Day \in Nat \ {0}, Ist \in Nat, Window \in Nat, Window <= Ist, Ist < Day,
         NEW at \in Int, NEW stored \in Int, stored - at \in -Window..Window,
         UtcDate(at) # UtcDate(stored), UtcDate(at) # IstDate(stored)
  PROVE  UtcDate(at) < UtcDate(stored)
BY DEF UtcDate, IstDate

LEMMA NotAskedAgain == ASSUME DeskAssumptions, DeskInv PROVE IngestedIsNotOverdue
<1> SUFFICES ASSUME NEW e \in Overdue, NEW i \in ingested, i.title = e.title,
                    e.at - i.at \in -Window..Window
             PROVE  UtcDate(i.at) < UtcDate(e.at)
  BY DEF IngestedIsNotOverdue
<1>1. e \in events /\ ~Entered(e)
  BY DEF Overdue, Awaited
<1>2. Point(Resolve[e.title].variant, UtcDate(i.at)) \in points /\ i.at \in Int
  BY DEF DeskInv, IngestedOK
<1>3. e.at \in Int
  BY <1>1 DEF DeskInv, Calendar, EventRow
<1>4. UtcDate(i.at) # UtcDate(e.at) /\ UtcDate(i.at) # IstDate(e.at)
  BY <1>1, <1>2 DEF Entered
<1> QED
  BY <1>2, <1>3, <1>4, WindowAcrossMidnight DEF DeskAssumptions

LEMMA NewestIs ==
  ASSUME DeskInv, NEW ds \in SUBSET deferrals, ds # {}
  PROVE  Newest(ds) \in ds
<1> DEFINE births == {d.born : d \in ds}
<1>1. born \in Nat /\ births \in SUBSET (0..born) /\ births # {}
  BY DEF DeskInv, EntriesOK, DeferralOK, Deferral
<1>2. PICK x \in births : \A y \in births : y <= x
  <2> HIDE DEF births
  <2> QED
    BY <1>1, Greatest
<1>3. \E d \in ds : \A q \in ds : q.born <= d.born
  BY <1>2
<1> QED
  BY <1>3 DEF Newest

LEMMA OnlyNewerSnoozes == ASSUME DeskAssumptions, DeskInv PROVE SnoozedSinceEntry
<1> SUFFICES ASSUME NEW e \in Overdue, ReleaseState(e) # "overdue"
             PROVE  \/ ActiveDeferral(e).born > entered[Resolve[e.title].variant]
                    \/ Resolve[e.title].variant \in broken
                    \/ BeingCleared(Resolve[e.title].variant)
  BY DEF SnoozedSinceEntry, BeingCleared
<1> DEFINE own == {d \in deferrals : d.event = e.id}
           standing == Standing(Resolve[e.title].variant)
           d == ActiveDeferral(e)
<1>1. e \in events /\ e.id \in Nat
  BY DEF Overdue, DeskInv, Calendar, EventRow
<1>2. d # None
  BY DEF ReleaseState
<1>3. own # {} \/ standing # {}
  BY <1>2 DEF ActiveDeferral
<1>4. d \in deferrals /\ d.variant = Resolve[e.title].variant
  <2>1. CASE own # {}
    <3>1. own \in SUBSET deferrals /\ d = Newest(own)
      BY <2>1 DEF ActiveDeferral
    <3>2. d \in deferrals /\ d.event = e.id
      BY <2>1, <3>1, NewestIs
    <3> HIDE DEF d
    <3>3. d.event # None
      BY <1>1, <3>2 DEF DeskAssumptions
    <3>4. PICK q \in events : q.id = d.event /\ Resolve[q.title].variant = d.variant
      BY <3>2, <3>3 DEF DeskInv, DeferralOK
    <3>5. q = e
      BY <1>1, <3>2, <3>4 DEF DeskInv, Calendar
    <3> QED
      BY <3>2, <3>4, <3>5
  <2>2. CASE own = {}
    <3>1. standing \in SUBSET deferrals /\ d = Newest(standing) /\ standing # {}
      BY <1>3, <2>2 DEF ActiveDeferral, Standing
    <3>2. d \in standing
      BY <3>1, NewestIs
    <3> QED
      BY <3>2 DEF Standing
  <2> QED
    BY <2>1, <2>2
<1> HIDE DEF d
<1>5. Snoozing(d)
  BY <1>4 DEF DeskInv
<1> QED
  BY <1>4, <1>5 DEF Snoozing, d

(* Whatever the feed publishes, however many fetches and admins interleave  *)
(* and whichever of their statements fail: what was ingested is not asked   *)
(* for again, save for a row kept across midnight from the feed's; and only *)
(* a deferral newer than the last value entered hides a release, save while *)
(* that entry is being finished, or where it failed.                        *)
THEOREM DeskHolds ==
  ASSUME DeskAssumptions
  PROVE  Spec => [](IngestedIsNotOverdue /\ SnoozedSinceEntry)
<1>1. DeskInv => IngestedIsNotOverdue /\ SnoozedSinceEntry
  BY NotAskedAgain, OnlyNewerSnoozes
<1>2. Init => DeskInv
  BY DeskInit
<1>3. DeskInv /\ [Next]_vars => DeskInv'
  BY DeskStep
<1> QED
  BY <1>1, <1>2, <1>3, PTL DEF Spec
=============================================================================
