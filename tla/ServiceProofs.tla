---------------------------- MODULE ServiceProofs ----------------------------
(***************************************************************************)
(* Theorems about six services.  CycleStances: what the PUTs of a bank's   *)
(* stance leave in force, for any number of days, admins and PUTs.         *)
(* NseSession: what one fault costs a call, for any number of calls.       *)
(* TradeJournal: what edits in several windows leave of a trade.           *)
(* EdgeScores: what a yen pair's score has of the gate it was computed     *)
(* under.  NiftyScorecard: when a peak score ceiling lapses.               *)
(* CompassInputs: what the curve's row is scored with.                     *)
(*                                                                         *)
(* A PUT that overlaps no other changes the latest open row alone: it says *)
(* something else of it, or closes it on the eve of a new one.  So of the  *)
(* rows that are not closed before they start, the one that starts last    *)
(* before a day has the stance that was declared last for it, and none of  *)
(* them ends before the next one starts.                                   *)
(***************************************************************************)
EXTENDS CycleStances, FiniteSetTheorems, SequenceTheorems, WellFoundedInduction, TLAPS

Row == [id : Nat, from : Int, to : Int \cup {None}, stance : Stances \cup {"seeded"},
        fed : Constraints \cup {None}]
PutRecord == [stage : {"write"}, from : Days, stance : Stances, fed : Constraints \cup {None},
              open : Row \cup {None}]
Saying == [from : Days, stance : Stances, fed : Constraints \cup {None}]

(* Days are counted from 1, and None is no day and no row.                  *)
DaysAndNone ==
  /\ \E n \in Nat \ {0} : Days = 1..n
  /\ None \notin Int /\ None \notin Row

(* A row is live unless it was closed before it starts.                     *)
Live(r) == r.to = None \/ r.to >= r.from
Latest(o, S) == o \in S /\ o.to = None /\ \A q \in S : q.to = None => q.from <= o.from

(* Ids and start days are keys; the seed's id starts on day 1; a period is  *)
(* closed on the eve of a day.                                              *)
Keyed(S, D) ==
  /\ S \subseteq Row /\ D \in Seq(Saying)
  /\ \A r \in S : /\ r.id <= Len(D) /\ r.from \in Days /\ (r.id = 0 => r.from = 1)
                  /\ r.to # None => r.to + 1 \in Days
  /\ \A r, q \in S : r.id = q.id \/ r.from = q.from => r = q

(* Where PUTs do not overlap: one row is open beside an untouched seed,     *)
(* none only before the first PUT; the latest open row has the constraint   *)
(* that was said last.                                                      *)
SaidLast(i, D) ==
  /\ i \in DOMAIN D /\ D[i].fed # None
  /\ \A j \in DOMAIN D : D[j].fed # None => j <= i
OpenRows(S, D) ==
  /\ (\A r \in S : r.to # None) => S = {} /\ D = <<>>
  /\ \A r, q \in S : r.to = None /\ q.to = None => r = q \/ r = SeedRow \/ q = SeedRow
  /\ \A o \in S, i \in DOMAIN D : Latest(o, S) /\ SaidLast(i, D) => o.fed = D[i].fed

(* Where none reaches behind a closed period either: no live row starts     *)
(* after the latest open one; the end of a live row is met by another; and  *)
(* of the live rows up to a day the last speaks for it.                     *)
LiveBelow(S) == \A r, o \in S : Live(r) /\ Latest(o, S) => r.from <= o.from
NoGap(S) == \A r \in S : Live(r) /\ r.to # None =>
              \E q \in S : Live(q) /\ r.from < q.from /\ q.from <= r.to + 1
LastFor(i, d, D) ==
  /\ i \in DOMAIN D /\ D[i].from <= d
  /\ \A j \in DOMAIN D : D[j].from <= d => j <= i
Speaks(r, d, S) ==
  /\ r \in S /\ Live(r) /\ r.from <= d
  /\ \A q \in S : Live(q) /\ q.from <= d => q.from <= r.from
Heard(S, D) == \A d \in Days, i \in DOMAIN D : LastFor(i, d, D) =>
                 \E r \in S : Speaks(r, d, S) /\ r.stance = D[i].stance
Periods(S, D) == LiveBelow(S) /\ NoGap(S) /\ Heard(S, D)

(* A PUT in progress has read the row that is still the latest open one;    *)
(* where it found none, at most the seed has come since.                    *)
StillOpen(o, S, D) == IF o = None THEN S \subseteq {SeedRow} /\ D = <<>> ELSE Latest(o, S)
Alone == \A a, b \in Admins : put[a] # Idle /\ put[b] # Idle => a = b

StanceInv ==
  /\ Keyed(rows, declared)
  /\ put \in [Admins -> {Idle} \cup PutRecord]
  /\ ~overlap => /\ Alone /\ OpenRows(rows, declared)
                 /\ \A a \in Admins : put[a] # Idle => StillOpen(put[a].open, rows, declared)
  /\ ~overlap /\ ~behind => Periods(rows, declared)

-------------------------------------------------------------------------------
Below == {p \in Nat \X Nat : p[1] < p[2]}
LEMMA NatBelow == IsWellFoundedOn(Below, Nat)
<1>1. Below = OpToRel(<, Nat)
  BY DEF OpToRel, Below
<1> QED
  BY <1>1, NatLessThanWellFounded

(* A set of numbers with a bound has a greatest.                            *)
LEMMA Greatest ==
  ASSUME NEW k \in Nat, NEW T \in SUBSET (1..k), T # {}
  PROVE  \E x \in T : \A y \in T : y <= x
<1> DEFINE U == {m \in Nat : k - m \in T}
<1>1. U # {}
  <2>1. PICK x \in T : TRUE
    OBVIOUS
  <2>2. x \in 1..k /\ k - x \in Nat /\ k - (k - x) = x
    BY <2>1
  <2> QED
    BY <2>1, <2>2
<1>2. U \in SUBSET Nat
  OBVIOUS
<1> HIDE DEF U
<1>3. PICK m \in U : \A y \in U : ~(<<y, m>> \in Below)
  BY <1>1, <1>2, NatBelow, WFMin
<1>4. m \in Nat /\ k - m \in T
  BY <1>3 DEF U
<1>5. ASSUME NEW y \in T PROVE y <= k - m
  <2>1. y \in 1..k /\ k - y \in Nat /\ k - (k - y) = y
    BY <1>5
  <2>2. k - y \in U
    BY <2>1 DEF U
  <2>3. ~(k - y < m)
    BY <1>3, <1>4, <2>1, <2>2 DEF Below
  <2> QED
    BY <1>4, <2>1, <2>3
<1> QED
  BY <1>4, <1>5

LEMMA SeedIsRow == 0 \in Nat /\ SeedRow \in Row /\ SeedRow.id = 0 /\ SeedRow.from = 1
                   /\ SeedRow.to = None /\ SeedRow.fed = None
BY DEF SeedRow, Row

LEMMA OneIsADay == DaysAndNone => 1 \in Days /\ \A d \in Days : d \in Nat /\ d >= 1
BY DEF DaysAndNone

LEMMA Appended ==
  ASSUME NEW D \in Seq(Saying), NEW s \in Saying
  PROVE  /\ Append(D, s) \in Seq(Saying) /\ Len(D) \in Nat
         /\ Len(Append(D, s)) = Len(D) + 1 /\ DOMAIN D = 1..Len(D)
         /\ DOMAIN Append(D, s) = 1..(Len(D) + 1)
         /\ Append(D, s)[Len(D) + 1] = s
         /\ \A i \in 1..Len(D) : Append(D, s)[i] = D[i]
OBVIOUS

-------------------------------------------------------------------------------
(* The latest open row is there as soon as one is.                          *)
LEMMA LatestExists ==
  ASSUME DaysAndNone, NEW S, NEW D, Keyed(S, D), OpenRows(S, D), NEW p \in S, p.to = None
  PROVE  \E o \in S : Latest(o, S)
<1>1. \A r \in S : r.from \in Int /\ r.from >= 1
  BY OneIsADay DEF Keyed
<1>2. CASE \A q \in S : q.to = None => q = SeedRow
  BY <1>1, <1>2 DEF Latest
<1>3. CASE ~\A q \in S : q.to = None => q = SeedRow
  <2>1. PICK o \in S : o.to = None /\ o # SeedRow
    BY <1>3
  <2>2. \A q \in S : q.to = None => q = o \/ q = SeedRow
    BY <2>1 DEF OpenRows
  <2>3. SeedRow.from <= o.from
    BY <1>1, SeedIsRow
  <2> QED
    BY <1>1, <2>1, <2>2, <2>3 DEF Latest
<1> QED
  BY <1>2, <1>3

LEMMA SeedKeeps ==
  ASSUME DaysAndNone, NEW S, NEW D, Keyed(S, D), ~\E r \in S : r.from = 1
  PROVE  LET T == S \cup {SeedRow}
         IN /\ Keyed(T, D)
            /\ OpenRows(S, D) => OpenRows(T, D)
            /\ OpenRows(S, D) /\ Periods(S, D) => Periods(T, D)
            /\ \A o : StillOpen(o, S, D) => StillOpen(o, T, D)
<1> DEFINE T == S \cup {SeedRow}
<1>1. \A r \in S : r.from \in Int /\ r.from > 1
  BY OneIsADay DEF Keyed
<1>2. Keyed(T, D)
  <2>1. S \subseteq Row /\ D \in Seq(Saying) /\ Len(D) \in Nat
    BY DEF Keyed
  <2>2. \A r \in S : r.id # SeedRow.id /\ r.from # SeedRow.from
    BY SeedIsRow DEF Keyed
  <2>3. \A r \in T : /\ r.id <= Len(D) /\ r.from \in Days /\ (r.id = 0 => r.from = 1)
                     /\ r.to # None => r.to + 1 \in Days
    BY <2>1, SeedIsRow, OneIsADay DEF Keyed
  <2>4. \A r, q \in T : r.id = q.id \/ r.from = q.from => r = q
    BY <2>2 DEF Keyed
  <2> QED
    BY <2>1, <2>3, <2>4, SeedIsRow DEF Keyed
<1>3. ASSUME NEW o \in S, Latest(o, S) PROVE Latest(o, T)
  BY <1>1, <1>3, SeedIsRow DEF Latest
<1>4. ASSUME NEW o \in T, Latest(o, T) PROVE (o \in S /\ Latest(o, S)) \/ \A q \in S : q.to # None
  BY <1>1, <1>4, SeedIsRow DEF Latest
<1>5. OpenRows(S, D) => OpenRows(T, D)
  <2> SUFFICES ASSUME OpenRows(S, D) PROVE OpenRows(T, D)
    OBVIOUS
  <2>1. ~\A r \in T : r.to # None
    BY SeedIsRow
  <2>2. \A r, q \in T : r.to = None /\ q.to = None => r = q \/ r = SeedRow \/ q = SeedRow
    BY DEF OpenRows
  <2>3. ASSUME NEW o \in T, NEW i \in DOMAIN D, Latest(o, T), SaidLast(i, D)
        PROVE  o.fed = D[i].fed
    <3>1. ~\A q \in S : q.to # None
      <4>1. D # <<>>
        BY <2>3
      <4> QED
        BY <4>1 DEF OpenRows
    <3> QED
      BY <1>4, <2>3, <3>1 DEF OpenRows
  <2> QED
    BY <2>1, <2>2, <2>3 DEF OpenRows
<1>6. ASSUME OpenRows(S, D), Periods(S, D) PROVE Periods(T, D)
  <2>1. LiveBelow(T)
    <3> SUFFICES ASSUME NEW r \in T, NEW o \in T, Live(r), Latest(o, T) PROVE r.from <= o.from
      BY DEF LiveBelow
    <3>1. CASE \A q \in S : q.to # None
      BY <1>6, <3>1, SeedIsRow DEF OpenRows
    <3>2. CASE o \in S /\ Latest(o, S)
      BY <1>1, <1>6, <3>2, SeedIsRow DEF Periods, LiveBelow
    <3> QED
      BY <1>4, <3>1, <3>2
  <2>2. NoGap(T)
    BY <1>6, SeedIsRow DEF Periods, NoGap
  <2>3. Heard(T, D)
    <3> SUFFICES ASSUME NEW d \in Days, NEW i \in DOMAIN D, LastFor(i, d, D)
                 PROVE  \E r \in T : Speaks(r, d, T) /\ r.stance = D[i].stance
      BY DEF Heard
    <3>1. PICK r \in S : Speaks(r, d, S) /\ r.stance = D[i].stance
      BY <1>6 DEF Periods, Heard
    <3>2. Speaks(r, d, T)
      BY <1>1, <3>1, SeedIsRow DEF Speaks
    <3> QED
      BY <3>1, <3>2
  <2> QED
    BY <2>1, <2>2, <2>3 DEF Periods
<1>7. ASSUME NEW o, StillOpen(o, S, D) PROVE StillOpen(o, T, D)
  BY <1>3, <1>7 DEF StillOpen, Latest
<1> QED
  BY <1>2, <1>5, <1>6, <1>7

-------------------------------------------------------------------------------
(* What a PUT makes of each row.                                            *)
Patched(c, r) ==
  IF r.id = c.open.id THEN [r EXCEPT !.stance = c.stance, !.fed = FedOr(c.fed, c.open)] ELSE r
Shut(c, r) == IF c.open # None /\ r.id = c.open.id THEN Closed(r, c.from) ELSE r
Opening(c, D) == [id |-> Len(D) + 1, from |-> c.from, to |-> None, stance |-> c.stance,
                  fed |-> FedOr(c.fed, c.open)]

LEMMA PutFields ==
  ASSUME NEW c \in PutRecord
  PROVE  /\ c.stage = "write" /\ c.from \in Days /\ c.stance \in Stances
         /\ c.fed \in Constraints \cup {None} /\ c.open \in Row \cup {None}
         /\ FedOr(c.fed, c.open) \in Constraints \cup {None}
         /\ Said(c) \in Saying /\ Said(c).from = c.from /\ Said(c).stance = c.stance
         /\ Said(c).fed = c.fed /\ c # Idle
BY DEF PutRecord, FedOr, Said, Saying, Row, Idle

LEMMA PatchedRow ==
  ASSUME NEW c \in PutRecord, NEW r \in Row
  PROVE  /\ Patched(c, r) \in Row
         /\ Patched(c, r).id = r.id /\ Patched(c, r).from = r.from /\ Patched(c, r).to = r.to
         /\ r.id # c.open.id => Patched(c, r) = r
         /\ r.id = c.open.id => /\ Patched(c, r).stance = c.stance
                                /\ Patched(c, r).fed = FedOr(c.fed, c.open)
BY PutFields DEF Patched, Row

LEMMA ShutRow ==
  ASSUME DaysAndNone, NEW c \in PutRecord, NEW r \in Row
  PROVE  /\ Shut(c, r) \in Row
         /\ Shut(c, r).id = r.id /\ Shut(c, r).from = r.from
         /\ Shut(c, r).stance = r.stance /\ Shut(c, r).fed = r.fed
         /\ ~(c.open # None /\ r.id = c.open.id) => Shut(c, r) = r
         /\ c.open # None /\ r.id = c.open.id =>
              /\ Shut(c, r).to = c.from - 1 /\ Shut(c, r).to # None
              /\ Shut(c, r).to + 1 = c.from
<1>1. c.from \in Int /\ c.from - 1 \in Int /\ None \notin Int
  BY PutFields, OneIsADay DEF DaysAndNone
<1> QED
  BY <1>1 DEF Shut, Closed, Row

LEMMA OpeningRow ==
  ASSUME DaysAndNone, NEW c \in PutRecord, NEW D \in Seq(Saying)
  PROVE  /\ Opening(c, D) \in Row /\ Opening(c, D).id = Len(D) + 1
         /\ Opening(c, D).from = c.from /\ Opening(c, D).to = None
         /\ Opening(c, D).stance = c.stance /\ Opening(c, D).fed = FedOr(c.fed, c.open)
<1>1. c.from \in Int /\ Len(D) + 1 \in Nat
  BY PutFields, OneIsADay
<1> QED
  BY <1>1, PutFields DEF Opening, Row

(* A row of the open one's date is rewritten: keys stay, whatever was read. *)
LEMMA PatchKeyed ==
  ASSUME DaysAndNone, NEW S, NEW D, Keyed(S, D), NEW c \in PutRecord
  PROVE  Keyed({Patched(c, r) : r \in S}, Append(D, Said(c)))
<1> DEFINE T == {Patched(c, r) : r \in S}
           E == Append(D, Said(c))
<1>1. S \subseteq Row /\ D \in Seq(Saying)
  BY DEF Keyed
<1>2. E \in Seq(Saying) /\ Len(E) = Len(D) + 1 /\ Len(D) \in Nat
  BY <1>1, PutFields, Appended
<1>3. ASSUME NEW r \in S
      PROVE  /\ Patched(c, r) \in Row
             /\ Patched(c, r).id = r.id /\ Patched(c, r).from = r.from /\ Patched(c, r).to = r.to
  BY <1>1, PatchedRow
<1> HIDE DEF E
<1>4. T \subseteq Row
  BY <1>3
<1>5. ASSUME NEW t \in T
      PROVE  /\ t.id <= Len(E) /\ t.from \in Days /\ (t.id = 0 => t.from = 1)
             /\ t.to # None => t.to + 1 \in Days
  <2>1. PICK r \in S : t = Patched(c, r)
    OBVIOUS
  <2>2. r.id \in Nat /\ r.id <= Len(D)
    BY <1>1 DEF Keyed, Row
  <2> QED
    BY <1>2, <1>3, <2>1, <2>2 DEF Keyed
<1>6. ASSUME NEW t \in T, NEW u \in T, t.id = u.id \/ t.from = u.from PROVE t = u
  <2>1. PICK r \in S, q \in S : t = Patched(c, r) /\ u = Patched(c, q)
    OBVIOUS
  <2> QED
    BY <1>3, <1>6, <2>1 DEF Keyed
<1> QED
  BY <1>2, <1>4, <1>5, <1>6 DEF Keyed, E

LEMMA ShutKeyed ==
  ASSUME DaysAndNone, NEW S, NEW D, Keyed(S, D), NEW c \in PutRecord,
         ~\E r \in S : r.from = c.from
  PROVE  Keyed({Shut(c, r) : r \in S} \cup {Opening(c, D)}, Append(D, Said(c)))
<1> DEFINE T == {Shut(c, r) : r \in S} \cup {Opening(c, D)}
           E == Append(D, Said(c))
           N == Opening(c, D)
<1>1. S \subseteq Row /\ D \in Seq(Saying)
  BY DEF Keyed
<1>2. E \in Seq(Saying) /\ Len(E) = Len(D) + 1 /\ Len(D) \in Nat
  BY <1>1, PutFields, Appended
<1>3. ASSUME NEW r \in S
      PROVE  /\ Shut(c, r) \in Row
             /\ Shut(c, r).id = r.id /\ Shut(c, r).from = r.from
             /\ Shut(c, r).to # None => Shut(c, r).to + 1 \in Days
             /\ r.id \in Nat /\ r.id <= Len(D) /\ r.from # c.from
  <2>1. r \in Row /\ r.id <= Len(D) /\ r.from # c.from /\ (r.to # None => r.to + 1 \in Days)
    BY <1>1 DEF Keyed
  <2>2. c.from \in Days
    BY PutFields
  <2> QED
    BY <2>1, <2>2, ShutRow DEF Row
<1>4. /\ N \in Row /\ N.id = Len(D) + 1 /\ N.from = c.from /\ N.to = None /\ c.from \in Days
  BY <1>1, OpeningRow, PutFields
<1> HIDE DEF E, N
<1>5. T = {Shut(c, r) : r \in S} \cup {N}
  BY DEF N
<1> HIDE DEF T
<1>6. T \subseteq Row
  BY <1>3, <1>4, <1>5
<1>7. ASSUME NEW t \in T
      PROVE  /\ t.id <= Len(E) /\ t.from \in Days /\ (t.id = 0 => t.from = 1)
             /\ t.to # None => t.to + 1 \in Days
  <2>1. CASE t = N
    BY <1>2, <1>4, <2>1
  <2>2. CASE t # N
    <3>1. PICK r \in S : t = Shut(c, r)
      BY <1>5, <2>2
    <3> QED
      BY <1>2, <1>3, <3>1 DEF Keyed
  <2> QED
    BY <2>1, <2>2
<1>8. ASSUME NEW t \in T, NEW u \in T, t.id = u.id \/ t.from = u.from PROVE t = u
  <2>1. CASE t # N /\ u # N
    <3>1. PICK r \in S, q \in S : t = Shut(c, r) /\ u = Shut(c, q)
      BY <1>5, <2>1
    <3> QED
      BY <1>3, <1>8, <3>1 DEF Keyed
  <2>2. ASSUME NEW v \in T, v # N PROVE v.id # N.id /\ v.from # N.from
    <3>1. PICK r \in S : v = Shut(c, r)
      BY <1>5, <2>2
    <3> QED
      BY <1>2, <1>3, <1>4, <3>1
  <2> QED
    BY <1>8, <2>1, <2>2
<1> QED
  BY <1>2, <1>5, <1>6, <1>7, <1>8 DEF Keyed, E, N

-------------------------------------------------------------------------------
(* What is last once something more is said.                                *)
LEMMA SaidLastStep ==
  ASSUME NEW D \in Seq(Saying), NEW s \in Saying, NEW i \in DOMAIN Append(D, s),
         SaidLast(i, Append(D, s))
  PROVE  \/ s.fed # None /\ Append(D, s)[i].fed = s.fed
         \/ s.fed = None /\ i \in DOMAIN D /\ SaidLast(i, D) /\ Append(D, s)[i] = D[i]
<1> DEFINE E == Append(D, s)
<1>1. /\ Len(D) \in Nat /\ DOMAIN D = 1..Len(D) /\ DOMAIN E = 1..(Len(D) + 1)
      /\ E[Len(D) + 1] = s /\ \A j \in 1..Len(D) : E[j] = D[j]
  BY Appended
<1> HIDE DEF E
<1>2. i \in DOMAIN E /\ E[i].fed # None /\ \A j \in DOMAIN E : E[j].fed # None => j <= i
  BY DEF SaidLast, E
<1>3. CASE s.fed # None
  <2>1. Len(D) + 1 <= i
    BY <1>1, <1>2, <1>3
  <2>2. i = Len(D) + 1
    BY <1>1, <1>2, <2>1
  <2> QED
    BY <1>1, <1>3, <2>2 DEF E
<1>4. CASE s.fed = None
  <2>1. i \in 1..Len(D)
    BY <1>1, <1>2, <1>4
  <2>2. SaidLast(i, D) /\ E[i] = D[i]
    BY <1>1, <1>2, <2>1 DEF SaidLast
  <2> QED
    BY <1>1, <1>4, <2>1, <2>2 DEF E
<1> QED
  BY <1>3, <1>4

LEMMA LastForStep ==
  ASSUME NEW D \in Seq(Saying), NEW s \in Saying, NEW i \in DOMAIN Append(D, s), NEW d \in Nat,
         s.from \in Nat, LastFor(i, d, Append(D, s))
  PROVE  \/ s.from <= d /\ Append(D, s)[i] = s
         \/ s.from > d /\ i \in DOMAIN D /\ LastFor(i, d, D) /\ Append(D, s)[i] = D[i]
<1> DEFINE E == Append(D, s)
<1>1. /\ Len(D) \in Nat /\ DOMAIN D = 1..Len(D) /\ DOMAIN E = 1..(Len(D) + 1)
      /\ E[Len(D) + 1] = s /\ \A j \in 1..Len(D) : E[j] = D[j]
  BY Appended
<1> HIDE DEF E
<1>2. i \in DOMAIN E /\ E[i].from <= d /\ \A j \in DOMAIN E : E[j].from <= d => j <= i
  BY DEF LastFor, E
<1>3. CASE s.from <= d
  <2>1. Len(D) + 1 <= i
    BY <1>1, <1>2, <1>3
  <2>2. i = Len(D) + 1
    BY <1>1, <1>2, <2>1
  <2> QED
    BY <1>1, <1>3, <2>2 DEF E
<1>4. CASE s.from > d
  <2>1. i \in 1..Len(D)
    BY <1>1, <1>2, <1>4
  <2>2. LastFor(i, d, D) /\ E[i] = D[i]
    BY <1>1, <1>2, <2>1 DEF LastFor
  <2> QED
    BY <1>1, <1>4, <2>1, <2>2 DEF E
<1> QED
  BY <1>3, <1>4

(* What a rewrite of the latest open row changes: that row alone.           *)
LEMMA PatchLatest ==
  ASSUME DaysAndNone, NEW S, NEW D, Keyed(S, D), NEW c \in PutRecord, Latest(c.open, S)
  PROVE  LET T == {Patched(c, r) : r \in S}
             M == Patched(c, c.open)
         IN /\ M \in T /\ M.from = c.open.from /\ M.to = None /\ M.stance = c.stance
            /\ M.fed = FedOr(c.fed, c.open)
            /\ \A r \in S : r # c.open => Patched(c, r) = r
            /\ \A t \in T : t = M \/ (t \in S /\ t # c.open)
            /\ \A t \in T : Latest(t, T) => t = M
            /\ c.open \in Row
<1> DEFINE T == {Patched(c, r) : r \in S}
           M == Patched(c, c.open)
<1>1. /\ c.open \in S /\ c.open.to = None /\ S \subseteq Row
      /\ \A r, q \in S : r.id = q.id \/ r.from = q.from => r = q
      /\ \A q \in S : q.to = None => q.from <= c.open.from
      /\ \A q \in S : q.from \in Int
  BY OneIsADay DEF Keyed, Latest, Row
<1>2. /\ M \in T /\ M.from = c.open.from /\ M.to = None /\ M.stance = c.stance
      /\ M.fed = FedOr(c.fed, c.open)
  BY <1>1, PatchedRow
<1>3. \A r \in S : r # c.open => Patched(c, r) = r
  BY <1>1, PatchedRow
<1>4. \A t \in T : t = M \/ (t \in S /\ t # c.open)
  BY <1>3
<1> HIDE DEF M, T
<1>5. ASSUME NEW t \in T, Latest(t, T) PROVE t = M
  <2> SUFFICES ASSUME t \in S, t # c.open PROVE FALSE
    BY <1>4
  <2>1. t.to = None /\ M.from <= t.from
    BY <1>2, <1>5 DEF Latest
  <2> QED
    BY <1>1, <1>2, <2>1
<1> QED
  BY <1>1, <1>2, <1>3, <1>4, <1>5 DEF M, T

LEMMA PatchOpen ==
  ASSUME DaysAndNone, NEW S, NEW D, Keyed(S, D), OpenRows(S, D), NEW c \in PutRecord,
         Latest(c.open, S)
  PROVE  OpenRows({Patched(c, r) : r \in S}, Append(D, Said(c)))
<1> DEFINE T == {Patched(c, r) : r \in S}
           E == Append(D, Said(c))
           M == Patched(c, c.open)
<1>1. /\ M \in T /\ M.from = c.open.from /\ M.to = None /\ M.fed = FedOr(c.fed, c.open)
      /\ \A t \in T : t = M \/ (t \in S /\ t # c.open)
      /\ \A t \in T : Latest(t, T) => t = M
  BY PatchLatest
<1>2. D \in Seq(Saying) /\ Said(c) \in Saying /\ Said(c).fed = c.fed
  BY PutFields DEF Keyed
<1> HIDE DEF M, T
<1>3. ASSUME NEW t \in T, t.to = None PROVE t = M \/ t = SeedRow
  <2> SUFFICES ASSUME t \in S, t # c.open, t # SeedRow PROVE FALSE
    BY <1>1
  <2>1. c.open = SeedRow
    BY <1>3 DEF OpenRows, Latest
  <2>2. t.from <= 1
    BY <1>3, <2>1, SeedIsRow DEF Latest
  <2>3. t.from = SeedRow.from
    BY <2>2, SeedIsRow, OneIsADay DEF Keyed
  <2> QED
    BY <2>1, <2>3 DEF Keyed, Latest
<1>4. ASSUME NEW o \in T, NEW i \in DOMAIN E, Latest(o, T), SaidLast(i, E)
      PROVE  o.fed = E[i].fed
  <2>1. o.fed = FedOr(c.fed, c.open)
    BY <1>1, <1>4
  <2>2. CASE c.fed # None /\ E[i].fed = c.fed
    BY <2>1, <2>2 DEF FedOr
  <2>3. CASE c.fed = None /\ i \in DOMAIN D /\ SaidLast(i, D) /\ E[i] = D[i]
    <3>1. c.open.fed = D[i].fed
      BY <2>3 DEF OpenRows, Latest
    <3>2. c.open # None
      BY DEF Latest, Keyed, DaysAndNone
    <3> QED
      BY <2>1, <2>3, <3>1, <3>2 DEF FedOr
  <2> QED
    BY <1>2, <1>4, <2>2, <2>3, SaidLastStep
<1> HIDE DEF E
<1>5. ~\A t \in T : t.to # None
  BY <1>1
<1>6. OpenRows(T, E)
  BY <1>3, <1>4, <1>5 DEF OpenRows
<1> QED
  BY <1>6 DEF T, E

LEMMA PatchPeriods ==
  ASSUME DaysAndNone, NEW S, NEW D, Keyed(S, D), NEW c \in PutRecord,
         Latest(c.open, S), c.open.from = c.from, Periods(S, D)
  PROVE  Periods({Patched(c, r) : r \in S}, Append(D, Said(c)))
<1> DEFINE T == {Patched(c, r) : r \in S}
           E == Append(D, Said(c))
           M == Patched(c, c.open)
<1>1. /\ M \in T /\ M.from = c.open.from /\ M.to = None /\ M.stance = c.stance
      /\ \A r \in S : r # c.open => Patched(c, r) = r
      /\ \A t \in T : t = M \/ (t \in S /\ t # c.open)
      /\ \A t \in T : Latest(t, T) => t = M
  BY PatchLatest
<1>2. D \in Seq(Saying) /\ Said(c) \in Saying /\ Said(c).from = c.from /\ Said(c).stance = c.stance
      /\ c.from \in Nat
  BY PutFields, OneIsADay DEF Keyed
<1>3. c.open \in S /\ Live(c.open) /\ Live(M) /\ \A r \in S : r.from \in Int
  BY <1>1, OneIsADay DEF Latest, Live, Keyed, Row
<1>4. ASSUME NEW r \in S, r # c.open PROVE r \in T
  BY <1>1, <1>4
<1> HIDE DEF M, T
<1>5. ASSUME NEW t \in T, Live(t) PROVE t.from <= c.open.from
  BY <1>1, <1>3, <1>5 DEF Periods, LiveBelow
<1>6. LiveBelow(T)
  BY <1>1, <1>5 DEF LiveBelow
<1>7. ASSUME NEW t \in T, Live(t), t.to # None
      PROVE  \E q \in T : Live(q) /\ t.from < q.from /\ q.from <= t.to + 1
  <2>1. t \in S
    BY <1>1, <1>7
  <2>2. PICK q \in S : Live(q) /\ t.from < q.from /\ q.from <= t.to + 1
    BY <1>7, <2>1 DEF Periods, NoGap
  <2>3. CASE q = c.open
    BY <1>1, <1>3, <2>2, <2>3
  <2>4. CASE q # c.open
    BY <1>4, <2>2, <2>4
  <2> QED
    BY <2>3, <2>4
<1>8. ASSUME NEW d \in Days, NEW i \in DOMAIN E, LastFor(i, d, E)
      PROVE  \E r \in T : Speaks(r, d, T) /\ r.stance = E[i].stance
  <2>1. d \in Nat
    BY OneIsADay
  <2>2. CASE c.from <= d /\ E[i] = Said(c)
    <3>1. Speaks(M, d, T)
      BY <1>1, <1>3, <1>5, <2>2 DEF Speaks
    <3> QED
      BY <1>1, <1>2, <2>2, <3>1
  <2>3. CASE c.from > d /\ i \in DOMAIN D /\ LastFor(i, d, D) /\ E[i] = D[i]
    <3>1. PICK r \in S : Speaks(r, d, S) /\ r.stance = D[i].stance
      BY <2>3 DEF Periods, Heard
    <3>2. r # c.open
      BY <1>2, <1>3, <2>1, <2>3, <3>1 DEF Speaks
    <3>3. ASSUME NEW q \in T, Live(q), q.from <= d PROVE q.from <= r.from
      <4>1. q # M
        BY <1>1, <1>2, <2>1, <2>3, <3>3
      <4>2. q \in S
        BY <1>1, <4>1
      <4> QED
        BY <3>1, <3>3, <4>2 DEF Speaks
    <3>4. Speaks(r, d, T)
      BY <1>4, <3>1, <3>2, <3>3 DEF Speaks
    <3> QED
      BY <1>4, <2>3, <3>1, <3>2, <3>4
  <2> QED
    BY <1>2, <1>8, <2>1, <2>2, <2>3, LastForStep
<1> HIDE DEF E
<1>9. Periods(T, E)
  BY <1>6, <1>7, <1>8 DEF Periods, NoGap, Heard
<1> QED
  BY <1>9 DEF T, E

-------------------------------------------------------------------------------
(* What a succession changes: the row that was read is closed on the eve of *)
(* the new one, which is the latest open row from then on.                  *)
LEMMA ShutLatest ==
  ASSUME DaysAndNone, NEW S, NEW D, Keyed(S, D), OpenRows(S, D), NEW c \in PutRecord,
         StillOpen(c.open, S, D), ~\E r \in S : r.from = c.from
  PROVE  LET N == Opening(c, D)
             T == {Shut(c, r) : r \in S} \cup {N}
         IN /\ N \in T /\ N.from = c.from /\ N.to = None /\ N.stance = c.stance
            /\ N.fed = FedOr(c.fed, c.open)
            /\ \A r \in S : r # c.open => Shut(c, r) = r
            /\ \A t \in T : \/ t = N
                            \/ t \in S /\ t # c.open
                            \/ c.open \in S /\ t = Shut(c, c.open)
            /\ c.open \in S => LET L == Shut(c, c.open)
                               IN /\ L \in T /\ L.from = c.open.from /\ L.stance = c.open.stance
                                  /\ L.to # None /\ L.to + 1 = c.from /\ L.to \in Int
            /\ \A t \in T : t.to = None => t = N \/ (t \in S /\ t = SeedRow)
            /\ \A t \in T : Latest(t, T) => t = N
<1> DEFINE N == Opening(c, D)
           T == {Shut(c, r) : r \in S} \cup {N}
           L == Shut(c, c.open)
<1>1. /\ S \subseteq Row /\ D \in Seq(Saying)
      /\ \A r, q \in S : r.id = q.id \/ r.from = q.from => r = q
      /\ \A q \in S : q.from \in Days /\ q.from \in Nat /\ q.from >= 1
      /\ c.from \in Nat /\ c.from >= 1 /\ None \notin S
  BY OneIsADay, PutFields DEF Keyed, DaysAndNone
<1>2. N.from = c.from /\ N.to = None /\ N.stance = c.stance /\ N.fed = FedOr(c.fed, c.open)
  BY <1>1, OpeningRow
<1>3. c.open # None => Latest(c.open, S)
  BY DEF StillOpen
<1>4. ASSUME NEW r \in S, r # c.open PROVE Shut(c, r) = r
  <2>1. c.open # None => r.id # c.open.id
    BY <1>1, <1>3, <1>4 DEF Latest
  <2> QED
    BY <1>1, <2>1, ShutRow
<1>5. ASSUME c.open \in S
      PROVE  /\ L \in T /\ L.from = c.open.from /\ L.stance = c.open.stance
             /\ L.to # None /\ L.to + 1 = c.from /\ L.to \in Int
  <2>1. c.open # None /\ c.open \in Row
    BY <1>1, <1>5
  <2>2. L \in Row
    BY <2>1, ShutRow
  <2> QED
    BY <1>5, <2>1, <2>2, ShutRow DEF Row
<1>6. \A t \in T : t = N \/ (t \in S /\ t # c.open) \/ (c.open \in S /\ t = L)
  BY <1>4
<1> HIDE DEF N, L, T
<1>7. ASSUME NEW t \in T, t.to = None, t # N PROVE t \in S /\ t = SeedRow
  <2>1. t \in S /\ t # c.open
    BY <1>5, <1>6, <1>7
  <2>2. CASE c.open = None
    BY <2>1, <2>2 DEF StillOpen
  <2>3. CASE c.open # None
    <3> SUFFICES ASSUME t # SeedRow PROVE FALSE
      BY <2>1
    <3>1. c.open = SeedRow
      BY <1>3, <1>7, <2>1, <2>3 DEF OpenRows, Latest
    <3>2. t.from <= 1 /\ c.open.from = 1
      BY <1>3, <1>7, <2>1, <2>3, <3>1, SeedIsRow DEF Latest
    <3> QED
      BY <1>1, <1>3, <2>1, <2>3, <3>2 DEF Latest
  <2> QED
    BY <2>2, <2>3
<1>8. N \in T
  BY DEF T
<1>9. ASSUME NEW t \in T, Latest(t, T) PROVE t = N
  <2> SUFFICES ASSUME t # N PROVE FALSE
    OBVIOUS
  <2>1. t \in S /\ t = SeedRow
    BY <1>7, <1>9 DEF Latest
  <2>2. c.from <= 1
    BY <1>2, <1>8, <1>9, <2>1, SeedIsRow DEF Latest
  <2> QED
    BY <1>1, <2>1, <2>2, SeedIsRow
<1> QED
  BY <1>2, <1>4, <1>5, <1>6, <1>7, <1>8, <1>9 DEF N, L, T

LEMMA ShutOpen ==
  ASSUME DaysAndNone, NEW S, NEW D, Keyed(S, D), OpenRows(S, D), NEW c \in PutRecord,
         StillOpen(c.open, S, D), ~\E r \in S : r.from = c.from
  PROVE  OpenRows({Shut(c, r) : r \in S} \cup {Opening(c, D)}, Append(D, Said(c)))
<1> DEFINE N == Opening(c, D)
           T == {Shut(c, r) : r \in S} \cup {N}
           E == Append(D, Said(c))
<1>1. /\ N \in T /\ N.to = None /\ N.fed = FedOr(c.fed, c.open)
      /\ \A t \in T : t.to = None => t = N \/ (t \in S /\ t = SeedRow)
      /\ \A t \in T : Latest(t, T) => t = N
  BY ShutLatest
<1>2. D \in Seq(Saying) /\ Said(c) \in Saying /\ Said(c).fed = c.fed
  BY PutFields DEF Keyed
<1> HIDE DEF N, T
<1>3. ASSUME NEW o \in T, NEW i \in DOMAIN E, Latest(o, T), SaidLast(i, E)
      PROVE  o.fed = E[i].fed
  <2>1. o.fed = FedOr(c.fed, c.open)
    BY <1>1, <1>3
  <2>2. CASE c.fed # None /\ E[i].fed = c.fed
    BY <2>1, <2>2 DEF FedOr
  <2>3. CASE c.fed = None /\ i \in DOMAIN D /\ SaidLast(i, D) /\ E[i] = D[i]
    <3>1. c.open # None /\ Latest(c.open, S)
      BY <2>3 DEF StillOpen
    <3>2. c.open.fed = D[i].fed
      BY <2>3, <3>1 DEF OpenRows, Latest
    <3> QED
      BY <2>1, <2>3, <3>1, <3>2 DEF FedOr
  <2> QED
    BY <1>2, <1>3, <2>2, <2>3, SaidLastStep
<1> HIDE DEF E
<1>4. ~\A t \in T : t.to # None
  BY <1>1
<1>5. OpenRows(T, E)
  BY <1>1, <1>3, <1>4 DEF OpenRows
<1> QED
  BY <1>5 DEF N, T, E

LEMMA ShutPeriods ==
  ASSUME DaysAndNone, NEW S, NEW D, Keyed(S, D), OpenRows(S, D), NEW c \in PutRecord,
         StillOpen(c.open, S, D), ~\E r \in S : r.from = c.from, Periods(S, D),
         ~\E r \in S : r.to # None /\ c.from < r.from /\ r.from <= r.to
  PROVE  Periods({Shut(c, r) : r \in S} \cup {Opening(c, D)}, Append(D, Said(c)))
<1> DEFINE N == Opening(c, D)
           T == {Shut(c, r) : r \in S} \cup {N}
           E == Append(D, Said(c))
           L == Shut(c, c.open)
<1>1. /\ N \in T /\ N.from = c.from /\ N.to = None /\ N.stance = c.stance
      /\ \A r \in S : r # c.open => Shut(c, r) = r
      /\ \A t \in T : t = N \/ (t \in S /\ t # c.open) \/ (c.open \in S /\ t = L)
      /\ c.open \in S => /\ L \in T /\ L.from = c.open.from /\ L.stance = c.open.stance
                         /\ L.to # None /\ L.to + 1 = c.from /\ L.to \in Int
      /\ \A t \in T : t.to = None => t = N \/ (t \in S /\ t = SeedRow)
      /\ \A t \in T : Latest(t, T) => t = N
  BY ShutLatest
<1>2. /\ D \in Seq(Saying) /\ Said(c) \in Saying /\ Said(c).from = c.from
      /\ Said(c).stance = c.stance /\ c.from \in Nat /\ c.from >= 1
  BY PutFields, OneIsADay DEF Keyed
<1>3. /\ \A r \in S : r.from \in Nat /\ r.from # c.from
      /\ \A r \in S : r.to # None => r.to \in Int
      /\ None \notin S
  BY OneIsADay DEF Keyed, Row, DaysAndNone
<1>4. ASSUME NEW r \in S, r # c.open PROVE r \in T
  BY <1>1, <1>4
<1>5. c.open \in S => Latest(c.open, S)
  BY <1>3 DEF StillOpen
<1> HIDE DEF N, L, T
<1>6. c.open \in S /\ Live(L) => c.open.from < c.from
  BY <1>1, <1>2, <1>3 DEF Live
<1>7. c.open \in S /\ c.open.from < c.from => Live(L)
  BY <1>1, <1>2, <1>3 DEF Live
<1>8. ASSUME NEW t \in T, Live(t) PROVE t.from <= c.from
  <2>1. CASE t = N
    BY <1>1, <1>2, <2>1
  <2>2. CASE c.open \in S /\ t = L
    BY <1>1, <1>2, <1>3, <1>6, <1>8, <2>2
  <2>3. CASE t \in S /\ t.to # None
    BY <1>2, <1>3, <1>8, <2>3 DEF Live
  <2>4. CASE t \in S /\ t.to = None /\ t # N
    BY <1>1, <1>2, <2>4, SeedIsRow
  <2> QED
    BY <1>1, <2>1, <2>2, <2>3, <2>4
<1>9. LiveBelow(T)
  BY <1>1, <1>8 DEF LiveBelow
<1>10. ASSUME NEW t \in T, Live(t), t.to # None
       PROVE  \E q \in T : Live(q) /\ t.from < q.from /\ q.from <= t.to + 1
  <2>1. Live(N)
    BY <1>1 DEF Live
  <2>2. CASE c.open \in S /\ t = L
    <3>1. t.from < N.from /\ N.from <= t.to + 1
      BY <1>1, <1>2, <1>6, <1>10, <2>2
    <3> QED
      BY <1>1, <2>1, <3>1
  <2>3. CASE t \in S /\ t # c.open
    <3>1. PICK q \in S : Live(q) /\ t.from < q.from /\ q.from <= t.to + 1
      BY <1>10, <2>3 DEF Periods, NoGap
    <3>2. CASE q # c.open
      BY <1>4, <3>1, <3>2
    <3>3. CASE q = c.open /\ q.from < c.from
      BY <1>1, <1>7, <3>1, <3>3
    <3>4. CASE q = c.open /\ ~(q.from < c.from)
      <4>1. t.from < c.from
        BY <1>2, <1>3, <1>10, <2>3 DEF Live
      <4>2. N.from <= t.to + 1
        BY <1>1, <1>2, <1>3, <1>10, <2>3, <3>1, <3>4
      <4> QED
        BY <1>1, <2>1, <4>1, <4>2
    <3> QED
      BY <3>2, <3>3, <3>4
  <2> QED
    BY <1>1, <1>10, <2>2, <2>3
<1>11. ASSUME NEW d \in Days, NEW i \in DOMAIN E, LastFor(i, d, E)
       PROVE  \E r \in T : Speaks(r, d, T) /\ r.stance = E[i].stance
  <2>1. d \in Nat
    BY OneIsADay
  <2>2. CASE c.from <= d /\ E[i] = Said(c)
    <3>1. Speaks(N, d, T)
      BY <1>1, <1>8, <2>2 DEF Speaks, Live
    <3> QED
      BY <1>1, <1>2, <2>2, <3>1
  <2>3. CASE c.from > d /\ i \in DOMAIN D /\ LastFor(i, d, D) /\ E[i] = D[i]
    <3>1. PICK r \in S : Speaks(r, d, S) /\ r.stance = D[i].stance
      BY <2>3 DEF Periods, Heard
    <3>2. ASSUME NEW q \in T, Live(q), q.from <= d PROVE q.from <= r.from
      <4>1. q # N
        BY <1>1, <1>2, <2>1, <2>3, <3>2
      <4>2. CASE q \in S
        BY <3>1, <3>2, <4>2 DEF Speaks
      <4>3. CASE c.open \in S /\ q = L
        BY <1>1, <1>5, <3>1, <3>2, <4>3 DEF Speaks, Latest, Live
      <4> QED
        BY <1>1, <4>1, <4>2, <4>3
    <3>3. CASE r # c.open
      BY <1>4, <2>3, <3>1, <3>2, <3>3 DEF Speaks
    <3>4. CASE r = c.open
      <4>1. L \in T /\ L.from = r.from /\ L.stance = r.stance
        BY <1>1, <3>4
      <4>2. r.from < c.from
        BY <1>2, <1>3, <2>1, <2>3, <3>1 DEF Speaks
      <4>3. Live(L)
        BY <1>7, <3>4, <4>2
      <4>4. Speaks(L, d, T)
        BY <3>1, <3>2, <4>1, <4>3 DEF Speaks
      <4> QED
        BY <2>3, <3>1, <4>1, <4>4
    <3> QED
      BY <3>3, <3>4
  <2> QED
    BY <1>2, <1>11, <2>1, <2>2, <2>3, LastForStep
<1> HIDE DEF E
<1>12. Periods(T, E)
  BY <1>9, <1>10, <1>11 DEF Periods, NoGap, Heard
<1> QED
  BY <1>12 DEF N, T, E

-------------------------------------------------------------------------------
LEMMA LatestOpenIs ==
  ASSUME DaysAndNone, Keyed(rows, declared)
  PROVE  /\ Open = {} => LatestOpen = None
         /\ Open # {} => Latest(LatestOpen, rows)
         /\ LatestOpen \in Row \cup {None}
<1>1. CASE Open = {}
  BY <1>1 DEF LatestOpen
<1>2. CASE Open # {}
  <2> DEFINE starts == {r.from : r \in Open}
  <2>1. PICK n \in Nat \ {0} : Days = 1..n
    BY DEF DaysAndNone
  <2>2. starts \in SUBSET (1..n) /\ starts # {}
    BY <1>2, <2>1 DEF Open, Keyed
  <2>3. PICK x \in starts : \A y \in starts : y <= x
    <3> HIDE DEF starts
    <3> QED
      BY <2>2, Greatest
  <2>4. \E r \in Open : \A q \in Open : q.from <= r.from
    BY <2>3
  <2>5. LatestOpen \in Open /\ \A q \in Open : q.from <= LatestOpen.from
    BY <1>2, <2>4 DEF LatestOpen
  <2> QED
    BY <1>2, <2>5 DEF Latest, Open, Keyed
<1> QED
  BY <1>1, <1>2

LEMMA StanceInit == DaysAndNone /\ Init => StanceInv
<1> SUFFICES ASSUME DaysAndNone, Init PROVE StanceInv
  OBVIOUS
<1>1. declared = <<>> /\ declared \in Seq(Saying) /\ Len(declared) = 0 /\ DOMAIN declared = {}
  BY DEF Init
<1>2. rows = {} \/ rows = {SeedRow}
  BY DEF Init
<1>3. Keyed(rows, declared)
  BY <1>1, <1>2, SeedIsRow, OneIsADay DEF Keyed
<1>4. OpenRows(rows, declared)
  BY <1>1, <1>2, SeedIsRow DEF OpenRows
<1>5. Periods(rows, declared)
  BY <1>1, <1>2, SeedIsRow DEF Periods, LiveBelow, NoGap, Heard, Latest
<1>6. put \in [Admins -> {Idle} \cup PutRecord] /\ \A a \in Admins : put[a] = Idle
  BY DEF Init
<1> QED
  BY <1>3, <1>4, <1>5, <1>6 DEF StanceInv, Alone

(* A PUT ends: its admin is idle, and where PUTs do not overlap so are all. *)
LEMMA EndKeeps ==
  ASSUME StanceInv, NEW a \in Admins, put[a] # Idle, put' = [put EXCEPT ![a] = Idle]
  PROVE  /\ put' \in [Admins -> {Idle} \cup PutRecord]
         /\ ~overlap => \A b \in Admins : put'[b] = Idle
BY DEF StanceInv, Alone

LEMMA Writing ==
  ASSUME StanceInv, NEW a \in Admins, put[a].stage = "write"
  PROVE  /\ put[a] # Idle /\ put[a] \in PutRecord
         /\ ~overlap => StillOpen(put[a].open, rows, declared)
<1>1. put[a] # Idle
  BY DEF Idle
<1> QED
  BY <1>1 DEF StanceInv

LEMMA StanceStep == ASSUME DaysAndNone, StanceInv, [Next]_vars PROVE StanceInv'
<1>1. CASE UNCHANGED vars
  <2>1. /\ rows' = rows /\ put' = put /\ declared' = declared /\ overlap' = overlap
        /\ behind' = behind
    BY <1>1 DEF vars
  <2> QED
    BY <2>1 DEF StanceInv, Alone
<1>2. CASE Seed
  <2>1. /\ rows' = rows \cup {SeedRow} /\ ~\E r \in rows : r.from = 1
        /\ put' = put /\ declared' = declared /\ overlap' = overlap /\ behind' = behind
    BY <1>2 DEF Seed
  <2>2. Keyed(rows, declared)
    BY DEF StanceInv
  <2>3. /\ Keyed(rows', declared)
        /\ OpenRows(rows, declared) => OpenRows(rows', declared)
        /\ OpenRows(rows, declared) /\ Periods(rows, declared) => Periods(rows', declared)
        /\ \A o : StillOpen(o, rows, declared) => StillOpen(o, rows', declared)
    BY <2>1, <2>2, SeedKeeps
  <2> QED
    BY <2>1, <2>3 DEF StanceInv, Alone
<1>3. ASSUME NEW a \in Admins, Read(a) PROVE StanceInv'
  <2>1. /\ rows' = rows /\ declared' = declared /\ behind' = behind
        /\ overlap' = (overlap \/ \E b \in Admins \ {a} : put[b] # Idle)
    BY <1>3 DEF Read
  <2>2. PICK from \in Days, stance \in Stances, fed \in Constraints \cup {None} :
          put' = [put EXCEPT ![a] = [stage |-> "write", from |-> from, stance |-> stance,
                                     fed |-> fed, open |-> LatestOpen]]
    BY <1>3 DEF Read
  <2>3. Keyed(rows, declared) /\ put \in [Admins -> {Idle} \cup PutRecord]
    BY DEF StanceInv
  <2>4. LatestOpen \in Row \cup {None}
    BY <2>3, LatestOpenIs
  <2>5. /\ put'[a] \in PutRecord /\ put'[a].open = LatestOpen
        /\ \A b \in Admins \ {a} : put'[b] = put[b]
    BY <2>2, <2>3, <2>4 DEF PutRecord
  <2>6. put' \in [Admins -> {Idle} \cup PutRecord]
    BY <2>2, <2>3, <2>5
  <2>7. ASSUME ~overlap' PROVE Alone' /\ \A b \in Admins : put'[b] # Idle => b = a
    <3>1. \A b \in Admins : b # a => put'[b] = Idle
      BY <2>1, <2>5, <2>7
    <3> QED
      BY <3>1 DEF Alone
  <2>8. ASSUME ~overlap' PROVE StillOpen(LatestOpen, rows, declared)
    <3>1. OpenRows(rows, declared)
      BY <2>1, <2>8 DEF StanceInv
    <3>2. CASE Open = {}
      BY <2>3, <3>1, <3>2, LatestOpenIs DEF OpenRows, StillOpen, Open
    <3>3. CASE Open # {}
      <4>1. Latest(LatestOpen, rows)
        BY <2>3, <3>3, LatestOpenIs
      <4>2. LatestOpen # None
        BY <2>3, <4>1 DEF Latest, Keyed, DaysAndNone
      <4> QED
        BY <4>1, <4>2 DEF StillOpen
    <3> QED
      BY <3>2, <3>3
  <2>9. ~overlap' => ~overlap
    BY <2>1
  <2> QED
    BY <2>1, <2>3, <2>5, <2>6, <2>7, <2>8, <2>9 DEF StanceInv
<1>4. ASSUME NEW a \in Admins, Update(a) PROVE StanceInv'
  <2> DEFINE c == put[a]
  <2>1. /\ c.stage = "write" /\ SameDate(c)
        /\ rows' = {Patched(c, r) : r \in rows} /\ declared' = Append(declared, Said(c))
        /\ put' = [put EXCEPT ![a] = Idle] /\ overlap' = overlap /\ behind' = behind
    BY <1>4 DEF Update, Rewritten, Patched
  <2>2. /\ c # Idle /\ c \in PutRecord /\ Keyed(rows, declared)
        /\ ~overlap => StillOpen(c.open, rows, declared)
    BY <2>1, Writing DEF StanceInv
  <2>3. c.open # None /\ c.open.from = c.from
    BY <2>1 DEF SameDate
  <2>4. /\ put' \in [Admins -> {Idle} \cup PutRecord]
        /\ ~overlap => \A b \in Admins : put'[b] = Idle
    BY <2>1, <2>2, EndKeeps
  <2> HIDE DEF c
  <2>5. Keyed(rows', declared')
    BY <2>1, <2>2, PatchKeyed
  <2>6. ~overlap => OpenRows(rows', declared')
    BY <2>1, <2>2, <2>3, PatchOpen DEF StanceInv, StillOpen
  <2>7. ~overlap /\ ~behind => Periods(rows', declared')
    BY <2>1, <2>2, <2>3, PatchPeriods DEF StanceInv, StillOpen
  <2> QED
    BY <2>1, <2>4, <2>5, <2>6, <2>7 DEF StanceInv, Alone
<1>5. ASSUME NEW a \in Admins, Replace(a) PROVE StanceInv'
  <2> DEFINE c == put[a]
  <2>1. /\ c.stage = "write" /\ ~\E r \in rows : r.from = c.from
        /\ rows' = {Shut(c, r) : r \in rows} \cup {Opening(c, declared)}
        /\ declared' = Append(declared, Said(c))
        /\ put' = [put EXCEPT ![a] = Idle] /\ overlap' = overlap
        /\ behind' = (behind \/ \E r \in rows : r.to # None /\ c.from < r.from /\ r.from <= r.to)
    BY <1>5 DEF Replace, Succeeded, Shut, Opening
  <2>2. /\ c # Idle /\ c \in PutRecord /\ Keyed(rows, declared)
        /\ ~overlap => StillOpen(c.open, rows, declared)
    BY <2>1, Writing DEF StanceInv
  <2>3. /\ put' \in [Admins -> {Idle} \cup PutRecord]
        /\ ~overlap => \A b \in Admins : put'[b] = Idle
    BY <2>1, <2>2, EndKeeps
  <2> HIDE DEF c
  <2>4. Keyed(rows', declared')
    BY <2>1, <2>2, ShutKeyed
  <2>5. ~overlap => OpenRows(rows', declared')
    BY <2>1, <2>2, ShutOpen DEF StanceInv
  <2>6. ~overlap /\ ~behind' => Periods(rows', declared')
    BY <2>1, <2>2, ShutPeriods DEF StanceInv
  <2> QED
    BY <2>1, <2>3, <2>4, <2>5, <2>6 DEF StanceInv, Alone
<1>6. ASSUME NEW a \in Admins, Refused(a) PROVE StanceInv'
  <2>1. /\ put[a].stage = "write" /\ put' = [put EXCEPT ![a] = Idle]
        /\ rows' = rows /\ declared' = declared /\ overlap' = overlap /\ behind' = behind
    BY <1>6 DEF Refused
  <2>2. put[a] # Idle
    BY <2>1, Writing
  <2>3. /\ put' \in [Admins -> {Idle} \cup PutRecord]
        /\ ~overlap => \A b \in Admins : put'[b] = Idle
    BY <2>1, <2>2, EndKeeps
  <2> QED
    BY <2>1, <2>3 DEF StanceInv, Alone
<1> QED
  BY <1>1, <1>2, <1>3, <1>4, <1>5, <1>6 DEF Next

-------------------------------------------------------------------------------
(* What the invariant says of the rows that are read.                       *)
LEMMA SpeakerIsInForce ==
  ASSUME DaysAndNone, Keyed(rows, declared), NoGap(rows), NEW d \in Days, NEW r, Speaks(r, d, rows)
  PROVE  InForce(d) = r
<1> DEFINE on == {q \in rows : q.from <= d /\ (q.to = None \/ q.to >= d)}
<1>1. d \in Nat /\ \A q \in rows : q.from \in Nat /\ (q.to # None => q.to \in Int)
  BY OneIsADay DEF Keyed, Row
<1>2. r \in rows /\ Live(r) /\ r.from <= d
      /\ (\A q \in rows : Live(q) /\ q.from <= d => q.from <= r.from)
  BY DEF Speaks
<1>3. r \in on
  <2> SUFFICES ASSUME r.to # None, ~(r.to >= d) PROVE FALSE
    BY <1>2
  <2>1. PICK q \in rows : Live(q) /\ r.from < q.from /\ q.from <= r.to + 1
    BY <1>2 DEF NoGap
  <2> QED
    BY <1>1, <1>2, <2>1
<1>4. \A q \in on : q.from <= r.from
  BY <1>1, <1>2 DEF Live
<1>5. \A p \in on : (\A q \in on : q.from <= p.from) => p = r
  <2> SUFFICES ASSUME NEW p \in on, \A q \in on : q.from <= p.from PROVE p = r
    OBVIOUS
  <2>1. p.from <= r.from /\ r.from <= p.from /\ p \in rows
    BY <1>3, <1>4
  <2>2. p.from = r.from
    BY <1>1, <1>2, <2>1
  <2> QED
    BY <1>2, <2>1, <2>2 DEF Keyed
<1>6. InForce(d) = IF on = {} THEN None ELSE CHOOSE p \in on : \A q \in on : q.from <= p.from
  BY DEF InForce
<1> HIDE DEF on
<1> QED
  BY <1>3, <1>4, <1>5, <1>6

LEMMA HeardIsInForce == ASSUME DaysAndNone, StanceInv PROVE StanceIsLastDeclared
<1> SUFFICES ASSUME ~overlap, ~behind, NEW d \in Days, LastDeclared(d) # None
             PROVE  InForce(d) # None /\ InForce(d).stance = LastDeclared(d).stance
  BY DEF StanceIsLastDeclared
<1> DEFINE on == {i \in DOMAIN declared : declared[i].from <= d}
           i == CHOOSE i \in on : \A j \in on : j <= i
<1>1. Keyed(rows, declared) /\ Periods(rows, declared)
  BY DEF StanceInv
<1>2. declared \in Seq(Saying) /\ Len(declared) \in Nat /\ DOMAIN declared = 1..Len(declared)
  BY <1>1 DEF Keyed
<1>3. on # {} /\ LastDeclared(d) = declared[i]
  BY DEF LastDeclared
<1>4. on \in SUBSET (1..Len(declared))
  BY <1>2
<1>5. i \in on /\ \A j \in on : j <= i
  <2> HIDE DEF on
  <2>1. \E x \in on : \A y \in on : y <= x
    BY <1>2, <1>3, <1>4, Greatest
  <2> QED
    BY <2>1
<1> HIDE DEF i
<1>6. LastFor(i, d, declared) /\ i \in DOMAIN declared
  BY <1>5 DEF LastFor
<1>7. PICK r \in rows : Speaks(r, d, rows) /\ r.stance = declared[i].stance
  BY <1>1, <1>6 DEF Periods, Heard
<1>8. InForce(d) = r
  BY <1>1, <1>7, SpeakerIsInForce DEF Periods
<1>9. r # None
  BY <1>1 DEF Keyed, DaysAndNone
<1> QED
  BY <1>3, <1>7, <1>8, <1>9

(* On the last day only open rows are in force.                             *)
LEMMA FedIsInForce == ASSUME DaysAndNone, StanceInv PROVE FedIsLastDeclared
<1> DEFINE said == {i \in DOMAIN declared : declared[i].fed # None}
           last == CHOOSE d \in Days : \A e \in Days : e <= d
           i == CHOOSE i \in said : \A j \in said : j <= i
           on == {q \in rows : q.from <= last /\ (q.to = None \/ q.to >= last)}
<1> SUFFICES ASSUME ~overlap, said # {}
             PROVE  InForce(last).fed = declared[i].fed
  BY DEF FedIsLastDeclared
<1>1. Keyed(rows, declared) /\ OpenRows(rows, declared)
  BY DEF StanceInv
<1>2. declared \in Seq(Saying) /\ Len(declared) \in Nat /\ DOMAIN declared = 1..Len(declared)
  BY <1>1 DEF Keyed
<1>3. said \in SUBSET (1..Len(declared))
  BY <1>2
<1>4. i \in said /\ \A j \in said : j <= i
  <2> HIDE DEF said
  <2>1. \E x \in said : \A y \in said : y <= x
    BY <1>2, <1>3, Greatest
  <2> QED
    BY <2>1
<1>5. SaidLast(i, declared) /\ i \in DOMAIN declared
  <2> HIDE DEF i
  <2> QED
    BY <1>4 DEF SaidLast
<1>6. last \in Days /\ \A e \in Days : e <= last
  <2>1. PICK n \in Nat \ {0} : Days = 1..n
    BY DEF DaysAndNone
  <2>2. n \in Days /\ \A e \in Days : e <= n
    BY <2>1
  <2> QED
    BY <2>2
<1> HIDE DEF last, i, said
<1>7. \A q \in rows : q.from \in Days /\ (q.to # None => q.to \in Int /\ q.to + 1 \in Days)
  BY <1>1 DEF Keyed, Row
<1>8. \A q \in rows : q.to # None => ~(q.to >= last)
  BY <1>6, <1>7, OneIsADay
<1>9. on = Open
  BY <1>6, <1>7, <1>8 DEF Open
<1>10. Open # {}
  BY <1>1, <1>2, <1>5 DEF OpenRows, Open
<1>11. LatestOpen = InForce(last)
  <2>1. InForce(last) = IF on = {} THEN None ELSE CHOOSE r \in on : \A q \in on : q.from <= r.from
    BY DEF InForce
  <2> HIDE DEF on
  <2> QED
    BY <1>9, <2>1 DEF LatestOpen
<1>12. Latest(LatestOpen, rows)
  BY <1>1, <1>10, LatestOpenIs
<1> QED
  BY <1>1, <1>5, <1>11, <1>12 DEF OpenRows, Latest

LEMMA OpenIsExplained == ASSUME StanceInv PROVE SecondOpenIsExplained
<1> SUFFICES ASSUME ~overlap, SeedRow \notin rows PROVE ~(Cardinality(Open) > 1)
  BY DEF SecondOpenIsExplained
<1>1. \A r, q \in Open : r = q
  BY DEF StanceInv, OpenRows, Open
<1>2. CASE Open = {}
  BY <1>2, FS_EmptySet
<1>3. CASE Open # {}
  <2>1. PICK r \in Open : TRUE
    BY <1>3
  <2>2. Open = {r}
    BY <1>1, <2>1
  <2> QED
    BY <2>2, FS_Singleton
<1> QED
  BY <1>2, <1>3

(* Whatever dates the PUTs come with: the stance of a day is the one that   *)
(* was declared last for it while PUTs neither overlap nor reach behind a   *)
(* closed period; the Fed constraint survives the PUTs that leave it out;   *)
(* and a second open row takes overlapping PUTs, or the seed's row.         *)
THEOREM DeclarationsHold ==
  ASSUME DaysAndNone
  PROVE  Spec => [](StanceIsLastDeclared /\ FedIsLastDeclared /\ SecondOpenIsExplained)
<1>1. StanceInv => StanceIsLastDeclared /\ FedIsLastDeclared /\ SecondOpenIsExplained
  BY HeardIsInForce, FedIsInForce, OpenIsExplained
<1>2. Init => StanceInv
  BY StanceInit
<1>3. StanceInv /\ [Next]_vars => StanceInv'
  BY StanceStep
<1> QED
  BY <1>1, <1>2, <1>3, PTL DEF Spec
-------------------------------------------------------------------------------
(* NseSession.  The faults of a call are counted against where it stands:   *)
(* each later request was paid for by a fault, or by another call.          *)
CONSTANT Calls
VARIABLES session, call
Nse == INSTANCE NseSession

Requests == {"first", "second", "third"}
CallRecords ==
  [at : Requests \cup {"idle", "init", "answered", "failed"}, then : Requests \cup {None},
   faults : Nat, refused : BOOLEAN, robbed : BOOLEAN]

(* Where a call sends its request, now or once it has a session.            *)
Bound(k) == IF k.at = "init" THEN k.then ELSE k.at

(* A call that sends finds the session it began with or made, unless it was *)
(* robbed of it; beyond its first request it has had a fault or been robbed.*)
HasSession(k, s) == k.at \in Requests /\ s = None => k.robbed
PaidFor(k) == Bound(k) \in {"second", "third"} => k.faults >= 1 \/ k.robbed
Explained(k) == k.at = "failed" => k.refused \/ k.faults >= 2 \/ k.robbed

Sound(k, s) == k \in CallRecords /\ HasSession(k, s) /\ PaidFor(k) /\ Explained(k)
               /\ (k.at = "init" => k.then \in Requests)

SessionInv == call \in [Calls -> CallRecords] /\ \A c \in Calls : Sound(call[c], session)

LEMMA SoundInit == Nse!Init => SessionInv
BY DEF Nse!Init, SessionInv, Sound, CallRecords, HasSession, PaidFor, Explained, Bound,
       Nse!Idle, Requests

(* Another call drops the session: this one counts as robbed.               *)
LEMMA Robbed ==
  ASSUME NEW k, NEW s, Sound(k, s)
  PROVE  LET r == [k EXCEPT !.robbed = TRUE]
         IN /\ r \in CallRecords /\ PaidFor(r) /\ Explained(r)
            /\ r.robbed /\ (r.at = "init" => r.then \in Requests)
BY DEF Sound, CallRecords, PaidFor, Explained, Bound, Requests

LEMMA SoundRenew ==
  ASSUME SessionInv, NEW c \in Calls, NEW then \in {"second", "third"}, NEW faults \in Nat,
         faults >= 1 \/ call[c].robbed, Nse!Renew(c, then, faults)
  PROVE  SessionInv'
<1> DEFINE mine == [call[c] EXCEPT !.at = "init", !.then = then, !.faults = @ + faults]
           other(d) == [call[d] EXCEPT !.robbed = TRUE]
<1>1. call' = [d \in Calls |-> IF d = c THEN mine ELSE other(d)] /\ session' = None
  BY DEF Nse!Renew
<1>2. ASSUME NEW d \in Calls PROVE Sound(call'[d], session')
  <2>1. CASE d = c
    <3>1. call'[d] = mine
      BY <1>1, <2>1
    <3>2. Sound(call[c], session)
      BY DEF SessionInv
    <3>3. /\ call[c] \in CallRecords /\ then \in Requests
          /\ call[c].faults + faults \in Nat
      BY <3>2 DEF Sound, CallRecords, Requests
    <3>4. mine \in CallRecords
      BY <3>3 DEF CallRecords
    <3>5. mine.at = "init" /\ mine.then = then
          /\ mine.faults = call[c].faults + faults /\ mine.robbed = call[c].robbed
      BY <3>3 DEF CallRecords
    <3>6. mine.faults >= 1 \/ mine.robbed
      BY <3>3, <3>5 DEF CallRecords
    <3> HIDE DEF mine
    <3> QED
      BY <3>1, <3>3, <3>4, <3>5, <3>6 DEF Sound, HasSession, PaidFor, Explained, Bound, Requests
  <2>2. CASE d # c
    <3>1. call'[d] = other(d)
      BY <1>1, <2>2
    <3>2. Sound(call[d], session)
      BY DEF SessionInv
    <3> HIDE DEF other
    <3>3. other(d) = [call[d] EXCEPT !.robbed = TRUE]
      BY DEF other
    <3>4. LET r == call'[d]
          IN /\ r \in CallRecords /\ PaidFor(r) /\ Explained(r)
             /\ r.robbed /\ (r.at = "init" => r.then \in Requests)
      BY <3>1, <3>2, <3>3, Robbed
    <3> QED
      BY <3>4 DEF Sound, HasSession
  <2> QED
    BY <2>1, <2>2
<1>3. call' \in [Calls -> CallRecords]
  <2> HIDE DEF mine, other
  <2> QED
    BY <1>1, <1>2 DEF Sound
<1> QED
  BY <1>2, <1>3 DEF SessionInv

(* A call that changes alone, the session not being dropped.                *)
LEMMA SoundAlone ==
  ASSUME SessionInv, NEW c \in Calls, call' = [call EXCEPT ![c] = call'[c]],
         Sound(call'[c], session'), session' = session \/ session' # None
  PROVE  SessionInv'
<1>1. ASSUME NEW d \in Calls PROVE Sound(call'[d], session')
  BY DEF SessionInv, Sound, HasSession, PaidFor, Explained, Bound
<1> QED
  BY <1>1 DEF SessionInv, Sound

LEMMA SoundEnd ==
  ASSUME SessionInv, NEW c \in Calls, NEW at \in {"answered", "failed"}, NEW faults \in Nat,
         NEW refused \in BOOLEAN, Nse!End(c, at, faults, refused),
         at = "failed" => refused \/ call[c].faults + faults >= 2 \/ call[c].robbed
  PROVE  SessionInv'
<1>1. Sound(call[c], session)
  BY DEF SessionInv
<1>2. call'[c] = [call[c] EXCEPT !.at = at, !.faults = @ + faults, !.refused = refused]
  BY DEF Nse!End, SessionInv
<1>3. call' = [call EXCEPT ![c] = call'[c]] /\ session' = session
  BY <1>2 DEF Nse!End, SessionInv
<1>4. call[c] \in CallRecords /\ call[c].faults + faults \in Nat
  BY <1>1 DEF Sound, CallRecords
<1>5. call'[c] \in CallRecords
  BY <1>2, <1>4 DEF CallRecords
<1>6. /\ call'[c].at = at /\ call'[c].faults = call[c].faults + faults
      /\ call'[c].refused = refused /\ call'[c].robbed = call[c].robbed
  BY <1>2, <1>4 DEF CallRecords
<1>7. Sound(call'[c], session')
  BY <1>3, <1>5, <1>6 DEF Sound, HasSession, PaidFor, Explained, Bound, Requests
<1> QED
  BY <1>3, <1>7, SoundAlone

LEMMA SoundStep ==
  ASSUME None \notin {"valid", "expired"}, SessionInv, [Nse!Next]_Nse!vars
  PROVE  SessionInv'
<1>1. CASE UNCHANGED Nse!vars
  BY <1>1 DEF SessionInv, Nse!vars
<1>2. CASE Nse!Expire
  BY <1>2 DEF Nse!Expire, SessionInv, Sound, HasSession
<1>3. ASSUME NEW c \in Calls, Nse!Get(c) PROVE SessionInv'
  <2>1. call' = [call EXCEPT ![c] = call'[c]] /\ session' = session
    BY <1>3 DEF Nse!Get, SessionInv
  <2>2. call'[c] = IF session = "valid" THEN [Nse!Idle EXCEPT !.at = "first"]
                   ELSE [Nse!Idle EXCEPT !.at = "init", !.then = "first"]
    BY <1>3 DEF Nse!Get, SessionInv
  <2> DEFINE places == Requests \cup {"idle", "init", "answered", "failed"}
  <2>3. Nse!Idle \in CallRecords
    BY DEF CallRecords, Nse!Idle
  <2>4. "first" \in Requests /\ "first" \in places /\ "init" \in places
    BY DEF Requests
  <2>5. ASSUME NEW r \in CallRecords, NEW at \in places, NEW then \in Requests
        PROVE  /\ [r EXCEPT !.at = at] \in CallRecords
               /\ [r EXCEPT !.at = at, !.then = then] \in CallRecords
    BY DEF CallRecords
  <2> HIDE DEF places
  <2>6. Sound(call'[c], session')
    <3>1. CASE session = "valid"
      <4>1. call'[c].at = "first" /\ session' # None
        BY <2>1, <2>2, <3>1 DEF Nse!Idle
      <4>2. call'[c] \in CallRecords
        BY <2>2, <2>3, <2>4, <2>5, <3>1
      <4> QED
        BY <4>1, <4>2 DEF Sound, HasSession, PaidFor, Explained, Bound
    <3>2. CASE session # "valid"
      <4>1. call'[c].at = "init" /\ call'[c].then = "first"
        BY <2>2, <3>2 DEF Nse!Idle
      <4>2. [Nse!Idle EXCEPT !.at = "init", !.then = "first"] \in CallRecords
        BY <2>3, <2>4, <2>5
      <4>3. call'[c] \in CallRecords
        BY <2>2, <3>2, <4>2
      <4> QED
        BY <4>1, <4>3 DEF Sound, HasSession, PaidFor, Explained, Bound, Requests
    <3> QED
      BY <3>1, <3>2
  <2> QED
    BY <2>1, <2>6, SoundAlone
<1>4. ASSUME NEW c \in Calls, Nse!InitSession(c) PROVE SessionInv'
  <2>1. Sound(call[c], session) /\ call[c].at = "init"
    BY <1>4 DEF SessionInv, Nse!InitSession
  <2>2. CASE session' = "valid" /\ call' = [call EXCEPT ![c].at = call[c].then]
    <3>1. call'[c] = [call[c] EXCEPT !.at = call[c].then]
      BY <2>2 DEF SessionInv
    <3>2. call' = [call EXCEPT ![c] = call'[c]] /\ session' # None
      BY <2>2, <3>1 DEF SessionInv
    <3>3. Sound(call'[c], session')
      BY <2>1, <3>1, <3>2 DEF Sound, CallRecords, HasSession, PaidFor, Explained, Bound, Requests
    <3> QED
      BY <3>2, <3>3, SoundAlone
  <2>3. CASE call' = [call EXCEPT ![c].at = "failed", ![c].refused = TRUE] /\ session' = session
    <3>1. call'[c] = [call[c] EXCEPT !.at = "failed", !.refused = TRUE]
      BY <2>3 DEF SessionInv
    <3>2. call' = [call EXCEPT ![c] = call'[c]]
      BY <2>3, <3>1 DEF SessionInv
    <3>3. call'[c].at = "failed" /\ call'[c].refused = TRUE /\ call'[c] \in CallRecords
      BY <2>1, <3>1 DEF Sound, CallRecords
    <3>4. Sound(call'[c], session')
      BY <3>3 DEF Sound, HasSession, PaidFor, Explained, Bound, Requests
    <3> QED
      BY <2>3, <3>2, <3>4, SoundAlone
  <2> QED
    BY <1>4, <2>2, <2>3 DEF Nse!InitSession
<1>5. ASSUME NEW c \in Calls, Nse!Answer(c) PROVE SessionInv'
  BY <1>5, SoundEnd DEF Nse!Answer
<1>6. ASSUME NEW c \in Calls, Nse!Lost(c) PROVE SessionInv'
  <2> DEFINE fault == IF session = None THEN 0 ELSE 1
  <2>1. Sound(call[c], session) /\ call[c].at \in Requests
    BY <1>6 DEF SessionInv, Nse!Lost, Nse!Sending, Requests
  <2>2. fault \in Nat /\ (fault >= 1 \/ call[c].robbed)
    BY <2>1 DEF Sound, HasSession
  <2>3. CASE call[c].at = "first"
    <3>1. Nse!Renew(c, "second", fault)
      BY <1>6, <2>3 DEF Nse!Lost
    <3> HIDE DEF fault
    <3> QED
      BY <2>2, <3>1, SoundRenew
  <2>4. CASE call[c].at # "first"
    <3>1. Nse!End(c, "failed", fault, FALSE)
      BY <1>6, <2>4 DEF Nse!Lost
    <3>2. call[c].faults >= 1 \/ call[c].robbed
      BY <2>1, <2>4 DEF Sound, PaidFor, Bound, Requests
    <3>3. call[c].faults \in Nat
      BY <2>1 DEF Sound, CallRecords
    <3>4. call[c].faults + fault >= 2 \/ call[c].robbed
      BY <2>2, <3>2, <3>3
    <3> HIDE DEF fault
    <3> QED
      BY SoundEnd, <2>2, <3>1, <3>4
  <2> QED
    BY <2>3, <2>4
<1>7. ASSUME NEW c \in Calls, Nse!Rejected(c) PROVE SessionInv'
  <2>1. Sound(call[c], session)
    BY DEF SessionInv
  <2>2. CASE call[c].at = "third"
    <3>1. Nse!End(c, "failed", 1, FALSE)
      BY <1>7, <2>2 DEF Nse!Rejected
    <3>2. call[c].faults + 1 >= 2 \/ call[c].robbed
      BY <2>1, <2>2 DEF Sound, PaidFor, Bound, CallRecords
    <3> QED
      BY SoundEnd, <3>1, <3>2
  <2>3. CASE call[c].at # "third"
    BY <1>7, <2>3, SoundRenew DEF Nse!Rejected
  <2> QED
    BY <2>2, <2>3
<1>8. ASSUME NEW c \in Calls, Nse!Refused(c) PROVE SessionInv'
  BY <1>8, SoundEnd DEF Nse!Refused
<1> QED
  BY <1>1, <1>2, <1>3, <1>4, <1>5, <1>6, <1>7, <1>8 DEF Nse!Next

(* One lost request or one rejected session never costs a call, however     *)
(* many calls interleave, unless another drops the session they share.      *)
THEOREM OneFaultIsNotEnough ==
  ASSUME None \notin {"valid", "expired"}
  PROVE  Nse!Spec => []Nse!OneFaultIsSurvived
<1>1. SessionInv => Nse!OneFaultIsSurvived
  BY DEF SessionInv, Sound, Explained, Nse!OneFaultIsSurvived
<1>2. SessionInv /\ [Nse!Next]_Nse!vars => SessionInv'
  BY SoundStep
<1> QED
  BY <1>1, <1>2, SoundInit, PTL DEF Nse!Spec

-------------------------------------------------------------------------------
(* TradeJournal.  An edit of the plan that is let through keeps stop and    *)
(* entry apart in the row it was judged with, an edit of the fill writes it *)
(* whole: that is what every edit in progress carries until it commits.     *)
CONSTANTS Grace, Windows, Now, Plans, Fills, PlanPatches, FillPatches
VARIABLES plan, fill, edit, raced
Journal == INSTANCE TradeJournal

PlanColumns == {"sl", "entry"}
ExitColumns == {"closed", "exit", "partial", "pct", "pnl", "mfe", "mae"}

(* The stored plan has passed the rules of a new idea, the clock shows a    *)
(* time, and whether a fill is closed is said by yes or no.                 *)
InputsAreSound ==
  /\ \A p \in Plans : PlanColumns \subseteq DOMAIN p /\ p.sl # p.entry
  /\ \A f \in Fills : f.isClosed \in BOOLEAN
  /\ \A patch \in FillPatches : "isClosed" \in DOMAIN patch => patch.isClosed \in BOOLEAN
  /\ Now # None

(* A fill that is closed has its exit, one that is open nothing of it.      *)
Blank(f) ==
  /\ f.closed = None <=> f.exit = None
  /\ f.closed = None => f.pnl = 0 /\ {f.partial, f.pct, f.mfe, f.mae} = {None}
FillOK(f) == ExitColumns \subseteq DOMAIN f /\ Blank(f)

(* An edit of the plan keeps stop and entry apart in the row it read.       *)
PlanEditOK(e) ==
  /\ PlanColumns \subseteq DOMAIN e.read
  /\ Journal!Merged(e.read, e.write).sl # Journal!Merged(e.read, e.write).entry
EditOK(e) == /\ e.on \in {"plan", "fill"}
             /\ e.on = "plan" => PlanEditOK(e)
             /\ e.on = "fill" => FillOK(e.write)

JournalInv ==
  /\ PlanColumns \subseteq DOMAIN plan
  /\ FillOK(fill)
  /\ edit = [w \in Windows |-> edit[w]]
  /\ \A w \in Windows : edit[w] = None \/ EditOK(edit[w])
  /\ Journal!ZeroRiskIsRaced

-------------------------------------------------------------------------------
LEMMA StoredFillOK ==
  ASSUME InputsAreSound, NEW f \in Fills
  PROVE  FillOK(Journal!StoredFill(f, Now))
<1> DEFINE s == Journal!StoredFill(f, Now)
<1>1. ExitColumns \subseteq DOMAIN s
  BY DEF Journal!StoredFill, ExitColumns
<1>2. CASE Journal!Closed(f)
  <2>1. f.exit # None /\ Journal!ClosedAt(f, Now) # None
    BY <1>2 DEF Journal!Closed, Journal!ClosedAt, InputsAreSound
  <2>2. s.exit = f.exit /\ s.closed = Journal!ClosedAt(f, Now)
    BY <1>2 DEF Journal!StoredFill
  <2> QED
    BY <1>1, <2>1, <2>2 DEF FillOK, Blank
<1>3. CASE ~Journal!Closed(f)
  <2>1. /\ s.exit = None /\ s.closed = None /\ s.pnl = 0
        /\ s.partial = None /\ s.pct = None /\ s.mfe = None /\ s.mae = None
    BY <1>3 DEF Journal!StoredFill, Journal!ClosedAt
  <2> QED
    BY <1>1, <2>1 DEF FillOK, Blank
<1> QED
  BY <1>2, <1>3

LEMMA JournalInit == InputsAreSound /\ Journal!Init => JournalInv
<1> SUFFICES ASSUME InputsAreSound, Journal!Init PROVE JournalInv
  OBVIOUS
<1>1. FillOK(fill)
  BY StoredFillOK DEF Journal!Init
<1> QED
  BY <1>1 DEF Journal!Init, JournalInv, InputsAreSound, Journal!ZeroRiskIsRaced

(* An edit of the plan that is let through keeps stop and entry apart.      *)
LEMMA UpdateTradeOK ==
  ASSUME JournalInv, NEW w \in Windows, Journal!UpdateTrade(w)
  PROVE  EditOK(edit'[w])
<1>1. PICK patch \in PlanPatches :
        LET merged == Journal!Merged(plan, patch)
            dates == {p \in Journal!CheckFill(fill, fill.closed # None, merged.opened, Now) :
                        p.field = "date_closed"}
        IN /\ Journal!BlockingProblems(Journal!CheckPlan(merged, Now) \cup dates, "edit") = {}
           /\ edit' = [edit EXCEPT ![w] =
                [on |-> "plan", write |-> Journal!ColumnsWritten(merged, patch), read |-> plan]]
  BY DEF Journal!UpdateTrade
<1> DEFINE merged == Journal!Merged(plan, patch)
           written == Journal!ColumnsWritten(merged, patch)
           problem == [field |-> "planned_sl", severity |-> "blocking"]
<1>2. edit'[w] = [on |-> "plan", write |-> written, read |-> plan]
  BY <1>1 DEF JournalInv
<1>3. problem \notin Journal!CheckPlan(merged, Now)
  BY <1>1 DEF Journal!BlockingProblems, Journal!BlocksWrite
<1>4. merged.sl # merged.entry
  BY <1>3 DEF Journal!CheckPlan, Journal!CheckStopSide, Journal!Blocking
<1>5. /\ Journal!Merged(plan, written).sl = merged.sl
      /\ Journal!Merged(plan, written).entry = merged.entry
  <2>1. "sl" \in DOMAIN plan /\ "entry" \in DOMAIN plan
    BY DEF JournalInv, PlanColumns
  <2>2. DOMAIN written = Journal!AlwaysWritten \cup DOMAIN patch
        /\ \A k \in DOMAIN written : written[k] = merged[k]
    BY DEF Journal!ColumnsWritten
  <2>3. "sl" \in DOMAIN written /\ ("entry" \in DOMAIN written <=> "entry" \in DOMAIN patch)
    BY <2>2 DEF Journal!AlwaysWritten
  <2>4. \A k \in DOMAIN plan :
          /\ Journal!Merged(plan, written)[k] = IF k \in DOMAIN written THEN written[k] ELSE plan[k]
          /\ merged[k] = IF k \in DOMAIN patch THEN patch[k] ELSE plan[k]
    BY DEF Journal!Merged
  <2> HIDE DEF merged, written
  <2> QED
    BY <2>1, <2>2, <2>3, <2>4
<1> HIDE DEF merged, written
<1>6. /\ edit'[w].on = "plan" /\ edit'[w].write = written /\ edit'[w].read = plan
  BY <1>2
<1> QED
  BY <1>4, <1>5, <1>6 DEF EditOK, PlanEditOK, JournalInv

(* An edit of a fill that is let through leaves it closed or open.          *)
LEMMA UpdateExecutionOK ==
  ASSUME InputsAreSound, JournalInv, NEW w \in Windows, Journal!UpdateExecution(w)
  PROVE  EditOK(edit'[w])
<1>1. PICK patch \in FillPatches :
        LET edited == Journal!EditedFill(patch)
            judged == [edited EXCEPT !.exit = Journal!Merged(fill, patch).exit,
                                     !.pnl = Journal!Merged(fill, patch).pnl]
            problems == Journal!CheckExecution(plan, judged, Journal!IsClosed(patch),
                                               edited.exit # None, Now)
        IN /\ Journal!BlockingProblems(problems, "edit") = {}
           /\ edit' = [edit EXCEPT ![w] = [on |-> "fill", write |-> edited, read |-> fill]]
  BY DEF Journal!UpdateExecution
<1> DEFINE merged == Journal!Merged(fill, patch)
           edited == Journal!EditedFill(patch)
           judged == [edited EXCEPT !.exit = merged.exit, !.pnl = merged.pnl]
           kept == Journal!IsClosed(patch) /\ merged.exit # None
           at == IF "isClosed" \in DOMAIN patch /\ ~patch.isClosed THEN None
                 ELSE IF ~kept THEN fill.closed
                 ELSE IF "closed" \in DOMAIN patch /\ patch.closed # None THEN patch.closed
                 ELSE IF fill.closed # None THEN fill.closed ELSE Now
           problem == [field |-> "main_exit_price", severity |-> "blocking"]
<1>2. DOMAIN merged = DOMAIN fill /\ ExitColumns \subseteq DOMAIN merged
  BY DEF Journal!Merged, JournalInv, FillOK
<1>3. edited = [merged EXCEPT !.closed = at,
        !.exit = IF kept THEN merged.exit ELSE None,
        !.partial = IF kept THEN merged.partial ELSE None,
        !.pct = IF kept THEN merged.pct ELSE None,
        !.pnl = IF kept THEN Journal!Money(merged.pnl) ELSE 0,
        !.mfe = IF kept THEN merged.mfe ELSE None,
        !.mae = IF kept THEN merged.mae ELSE None]
  BY DEF Journal!EditedFill
<1> HIDE DEF merged, kept, at
<1>4. /\ DOMAIN edited = DOMAIN merged
      /\ edited.closed = at
      /\ edited.exit = IF kept THEN merged.exit ELSE None
      /\ ~kept => /\ edited.pnl = 0 /\ edited.partial = None /\ edited.pct = None
                  /\ edited.mfe = None /\ edited.mae = None
  BY <1>2, <1>3 DEF ExitColumns
<1> HIDE DEF edited
<1>5. judged.exit = merged.exit
  BY <1>2, <1>4 DEF ExitColumns
<1> HIDE DEF judged
<1>6. Journal!IsClosed(patch) => merged.exit # None
  <2>1. problem \notin Journal!CheckExecution(plan, judged, Journal!IsClosed(patch),
                                              edited.exit # None, Now)
    BY <1>1 DEF Journal!BlockingProblems, Journal!BlocksWrite, judged, edited, merged
  <2>2. problem \notin Journal!CheckExitPricePresent(Journal!IsClosed(patch), judged.exit)
    BY <2>1 DEF Journal!CheckExecution, Journal!CheckFill
  <2> QED
    BY <1>5, <2>2 DEF Journal!CheckExitPricePresent, Journal!Only, Journal!Blocking
<1>7. at = None <=> ~kept
  BY <1>6 DEF at, kept, Journal!IsClosed, InputsAreSound
<1>8. kept => edited.exit # None
  BY <1>4 DEF kept
<1>9. FillOK(edited)
  BY <1>2, <1>4, <1>7, <1>8 DEF FillOK, Blank
<1>10. edit'[w] = [on |-> "fill", write |-> edited, read |-> fill]
  BY <1>1 DEF JournalInv, edited
<1>11. edit'[w].on = "fill" /\ edit'[w].write = edited
  BY <1>10
<1> QED
  BY <1>9, <1>11 DEF EditOK

LEMMA CommitOK ==
  ASSUME JournalInv, NEW w \in Windows, Journal!Commit(w)
  PROVE  JournalInv'
<1>1. EditOK(edit[w]) /\ edit' = [edit EXCEPT ![w] = None]
  BY DEF Journal!Commit, Journal!Idle, JournalInv
<1>2. edit' = [v \in Windows |-> edit'[v]] /\ \A v \in Windows : edit'[v] = None \/ EditOK(edit'[v])
  BY <1>1 DEF JournalInv
<1>3. CASE edit[w].on = "plan"
  <2>1. /\ plan' = Journal!Merged(plan, edit[w].write) /\ fill' = fill
        /\ raced' = (raced \/ plan # edit[w].read)
    BY <1>3 DEF Journal!Commit
  <2>2. PlanColumns \subseteq DOMAIN plan'
    BY <2>1 DEF JournalInv, Journal!Merged
  <2>3. plan = edit[w].read => plan'.sl # plan'.entry
    BY <1>1, <1>3, <2>1 DEF EditOK, PlanEditOK
  <2>4. Journal!ZeroRiskIsRaced'
    BY <2>1, <2>3 DEF Journal!ZeroRiskIsRaced
  <2> QED
    BY <1>2, <2>1, <2>2, <2>4 DEF JournalInv
<1>4. CASE edit[w].on # "plan"
  <2>1. fill' = edit[w].write /\ UNCHANGED <<plan, raced>> /\ FillOK(edit[w].write)
    BY <1>1, <1>4 DEF Journal!Commit, EditOK
  <2> QED
    BY <1>2, <2>1 DEF JournalInv, Journal!ZeroRiskIsRaced
<1> QED
  BY <1>3, <1>4

LEMMA JournalStep == InputsAreSound /\ JournalInv /\ [Journal!Next]_Journal!vars => JournalInv'
<1> SUFFICES ASSUME InputsAreSound, JournalInv, [Journal!Next]_Journal!vars PROVE JournalInv'
  OBVIOUS
<1>1. ASSUME NEW w \in Windows, Journal!UpdateTrade(w) \/ Journal!UpdateExecution(w)
      PROVE  JournalInv'
  <2>1. EditOK(edit'[w])
    BY <1>1, UpdateTradeOK, UpdateExecutionOK
  <2>2. /\ UNCHANGED <<plan, fill, raced>> /\ edit' = [v \in Windows |-> edit'[v]]
        /\ \A v \in Windows : v # w => edit'[v] = edit[v]
    BY <1>1 DEF Journal!UpdateTrade, Journal!UpdateExecution, JournalInv
  <2> QED
    BY <2>1, <2>2 DEF JournalInv, Journal!ZeroRiskIsRaced
<1>2. ASSUME NEW w \in Windows, Journal!Commit(w) PROVE JournalInv'
  BY <1>2, CommitOK
<1>3. CASE UNCHANGED Journal!vars
  BY <1>3 DEF Journal!vars, JournalInv, Journal!ZeroRiskIsRaced
<1> QED
  BY <1>1, <1>2, <1>3 DEF Journal!Next

(* A stop at the entry is stored only by overlapping edits, and no overlap  *)
(* closes a fill without its exit or leaves money on an open one.           *)
THEOREM JournalStaysCoherent ==
  ASSUME InputsAreSound
  PROVE  Journal!Spec => []Journal!JournalIsCoherent
<1>1. JournalInv => Journal!JournalIsCoherent
  BY DEF JournalInv, FillOK, Blank, Journal!JournalIsCoherent, Journal!OpenFillIsBlank
<1>2. JournalInv /\ [Journal!Next]_Journal!vars => JournalInv'
  BY JournalStep
<1>3. Journal!Init => JournalInv
  BY JournalInit
<1> QED
  BY <1>1, <1>2, <1>3, PTL DEF Journal!Spec
-------------------------------------------------------------------------------
(* EdgeScores.  A scorecard keeps the gate it was assembled under beside    *)
(* the yen's boost, so a pair score that read it says of its boost what     *)
(* that gate says.                                                          *)
CONSTANT Gates
VARIABLES gates, cards, pairs
Chain == INSTANCE EdgeScores

GateRows  == {None} \cup {Chain!GateColumns(in) : in \in Gates}
CardOf(g) == [gate |-> g, o3 |-> Chain!JpySafeHaven(Chain!AssetGate(g))]
CardRows  == {None} \cup {CardOf(g) : g \in GateRows}
Boost(c)  == IF c = None THEN 0 ELSE c.o3
OverridesOf(g, c) ==
  Chain!PairOverrides(Chain!Pair("EUR", "JPY", TRUE), Chain!PairGate(g), Boost(c))
PairRows ==
  {None} \cup {[gate |-> g, card |-> c, o3 |-> OverridesOf(g, c).o3, o5 |-> OverridesOf(g, c).o5] :
                 g \in GateRows, c \in CardRows}

ChainInv ==
  gates \in [Days -> GateRows] /\ cards \in [Days -> CardRows] /\ pairs \in [Days -> PairRows]

LEMMA LatestIsAnEntry ==
  ASSUME DaysAndNone, NEW T, None \in T, NEW f \in [Days -> T], NEW day \in Days
  PROVE  Chain!AsOf(f, day) \in T
<1> DEFINE known == {d \in Days : d <= day /\ f[d] # None}
<1>1. PICK n \in Nat \ {0} : Days = 1..n
  BY DEF DaysAndNone
<1>2. CASE known = {}
  BY <1>2 DEF Chain!AsOf
<1>3. CASE known # {}
  <2>1. \E x \in known : \A y \in known : y <= x
    BY <1>1, <1>3, Greatest
  <2>2. \E x \in known : \A y \in known : x >= y
    BY <1>1, <2>1
  <2> HIDE DEF known
  <2>3. Chain!Max(known) \in known
    BY <2>2 DEF Chain!Max
  <2> QED
    BY <1>3, <2>3 DEF Chain!AsOf, known
<1> QED
  BY <1>2, <1>3

LEMMA ChainStep ==
  ASSUME DaysAndNone, ChainInv, [Chain!ChainNext]_Chain!chainVars PROVE ChainInv'
<1>1. CASE UNCHANGED Chain!chainVars
  BY <1>1 DEF ChainInv, Chain!chainVars
<1>2. ASSUME NEW d \in Days, Chain!Classify(d) PROVE ChainInv'
  BY <1>2 DEF Chain!Classify, ChainInv, GateRows
<1>3. ASSUME NEW d \in Days, Chain!AssembleJpyScorecard(d) PROVE ChainInv'
  <2>1. Chain!RegimeGateAsOf(d) \in GateRows
    BY LatestIsAnEntry DEF ChainInv, GateRows, Chain!RegimeGateAsOf
  <2>2. cards' = [cards EXCEPT ![d] = CardOf(Chain!RegimeGateAsOf(d))]
        /\ UNCHANGED <<gates, pairs>>
    BY <1>3 DEF Chain!AssembleJpyScorecard, CardOf
  <2>3. CardOf(Chain!RegimeGateAsOf(d)) \in CardRows
    BY <2>1 DEF CardRows
  <2> QED
    BY <2>2, <2>3 DEF ChainInv
<1>4. ASSUME NEW d \in Days, Chain!AssemblePairScore(d) PROVE ChainInv'
  <2> DEFINE g == Chain!RegimeGateAsOf(d)
             c == Chain!AsOf(cards, d)
             p == [gate |-> g, card |-> c, o3 |-> OverridesOf(g, c).o3, o5 |-> OverridesOf(g, c).o5]
  <2>1. g \in GateRows /\ c \in CardRows
    BY LatestIsAnEntry DEF ChainInv, GateRows, CardRows, Chain!RegimeGateAsOf
  <2>2. pairs' = [pairs EXCEPT ![d] = p] /\ UNCHANGED <<gates, cards>>
    BY <1>4 DEF Chain!AssemblePairScore, Chain!FetchJpySafeHavenBoost, OverridesOf, Boost
  <2>3. p \in PairRows
    BY <2>1 DEF PairRows
  <2> HIDE DEF p
  <2> QED
    BY <2>2, <2>3 DEF ChainInv
<1> QED
  BY <1>1, <1>2, <1>3, <1>4 DEF Chain!ChainNext

(* On one gate the boost is there exactly where the carry override is.      *)
LEMMA SameGateSameOverride ==
  ASSUME NEW g \in GateRows, CardOf(g) # None
  PROVE  OverridesOf(g, CardOf(g)).o3 = OverridesOf(g, CardOf(g)).o5
<1> DEFINE a == Chain!AssetGate(g)
           b == Chain!PairGate(g)
<1>1. a.o35 = b.o5 /\ (~b.path /\ ~b.shockB => ~a.o35)
  <2>1. CASE g = None
    BY <2>1 DEF Chain!AssetGate, Chain!PairGate, Chain!NoGate
  <2>2. CASE g # None
    <3>1. g.o3Suppressed = g.o5Suppressed
      BY <2>2 DEF GateRows, Chain!GateColumns
    <3> QED
      BY <2>2, <3>1 DEF Chain!AssetGate, Chain!PairGate
  <2> QED
    BY <2>1, <2>2
<1>2. CardOf(g).o3 = IF a.o35 THEN 1 ELSE 0
  BY DEF CardOf, Chain!JpySafeHaven
<1> QED
  BY <1>1, <1>2 DEF OverridesOf, Boost, Chain!PairOverrides, Chain!Pair

(* The yen's safe-haven boost, which comes by way of the yen's own          *)
(* scorecard, and the carry override of a yen pair come together on every   *)
(* pair score that read a scorecard of its own gate, in whatever order the  *)
(* jobs ran and for whatever days they ran again.                           *)
THEOREM CarryPairsAgreeAlways ==
  ASSUME DaysAndNone
  PROVE  Chain!ChainInit /\ [][Chain!ChainNext]_Chain!chainVars => []Chain!CarryPairsAgree
<1>1. Chain!ChainInit => ChainInv
  BY DEF Chain!ChainInit, ChainInv, GateRows, CardRows, PairRows
<1>2. ChainInv /\ [Chain!ChainNext]_Chain!chainVars => ChainInv'
  BY ChainStep
<1>3. ChainInv => Chain!CarryPairsAgree
  <2> SUFFICES ASSUME ChainInv, NEW d \in Days, pairs[d] # None, pairs[d].card # None,
                      pairs[d].card.gate = pairs[d].gate
               PROVE  pairs[d].o3 = pairs[d].o5
    BY DEF Chain!CarryPairsAgree
  <2>1. PICK g \in GateRows, c \in CardRows :
          pairs[d] = [gate |-> g, card |-> c,
                      o3 |-> OverridesOf(g, c).o3, o5 |-> OverridesOf(g, c).o5]
    BY DEF ChainInv, PairRows
  <2>2. c = CardOf(g)
    BY <2>1 DEF CardRows, CardOf
  <2> QED
    BY <2>1, <2>2, SameGateSameOverride
<1> QED
  BY <1>1, <1>2, <1>3, PTL
-------------------------------------------------------------------------------
(* NiftyScorecard.  The ledger of scorecards, assembled for the last day on *)
(* record or a later one, from whatever scores are whole numbers.           *)
CONSTANTS LookbackSessions, HistoryDepth, DeactivationSessions, Breakdowns
VARIABLE ledger
Ledger == INSTANCE NiftyScorecard WITH cards <- ledger

LEMMA LeastNat ==
  ASSUME NEW T \in SUBSET Nat, T # {}
  PROVE  \E x \in T : \A y \in T : x <= y
<1>1. PICK x \in T : \A y \in T : ~ (<<y, x>> \in Below)
  BY NatBelow, WFMin
<1>2. ASSUME NEW y \in T PROVE x <= y
  <2>1. x \in Nat /\ y \in Nat /\ ~ (<<y, x>> \in Below)
    BY <1>1
  <2> QED
    BY <2>1 DEF Below
<1> QED
  BY <1>2

(* A fold over a finite set is a recursion over its subsets; there is one:  *)
(* were there a least size without, the recursion of one element less could *)
(* be continued.                                                            *)
Pick(s) == CHOOSE x \in s : TRUE
Summing(f, g, s) == IF s = {} THEN 0 ELSE f[Pick(s)] + g[s \ {Pick(s)}]

IsSumming(g, f, S) == g = [s \in SUBSET S |-> Summing(f, g, s)]

LEMMA SumExists == ASSUME NEW S, IsFiniteSet(S), NEW f PROVE \E g : IsSumming(g, f, S)
<1> DEFINE Upto(g, k) ==
             g = [s \in SUBSET S |-> g[s]]
             /\ \A s \in SUBSET S : Cardinality(s) <= k => g[s] = Summing(f, g, s)
           Good(k) == \E g : Upto(g, k)
           bad == {k \in Nat : ~ Good(k)}
<1>0. \A s \in SUBSET S : /\ Cardinality(s) \in Nat
                          /\ Cardinality(s) = 0 => s = {}
                          /\ s # {} => /\ s \ {Pick(s)} \in SUBSET S
                                       /\ Cardinality(s \ {Pick(s)}) = Cardinality(s) - 1
  <2> SUFFICES ASSUME NEW s \in SUBSET S
               PROVE  /\ Cardinality(s) \in Nat
                      /\ Cardinality(s) = 0 => s = {}
                      /\ s # {} => /\ s \ {Pick(s)} \in SUBSET S
                                   /\ Cardinality(s \ {Pick(s)}) = Cardinality(s) - 1
    OBVIOUS
  <2>1. IsFiniteSet(s)
    BY FS_Subset
  <2>2. s # {} => Pick(s) \in s
    BY DEF Pick
  <2> QED
    BY <2>1, <2>2, FS_CardinalityType, FS_EmptySet, FS_RemoveElement
<1>1. Good(0)
  <2> DEFINE g == [s \in SUBSET S |-> 0]
  <2>1. ASSUME NEW s \in SUBSET S, Cardinality(s) <= 0 PROVE s = {}
    <3>1. Cardinality(s) \in Nat
      BY <1>0
    <3>2. Cardinality(s) = 0
      BY <2>1, <3>1
    <3> QED
      BY <1>0, <3>2
  <2>2. \A s \in SUBSET S : Cardinality(s) <= 0 => g[s] = Summing(f, g, s)
    BY <2>1 DEF Summing
  <2>3. g = [s \in SUBSET S |-> g[s]]
    OBVIOUS
  <2> HIDE DEF g
  <2> QED
    BY <2>2, <2>3
<1>2. ASSUME NEW k \in Nat, Good(k) PROVE Good(k + 1)
  <2>1. PICK g : Upto(g, k)
    BY <1>2
  <2> DEFINE h == [s \in SUBSET S |-> Summing(f, g, s)]
  <2>2. ASSUME NEW s \in SUBSET S, Cardinality(s) <= k + 1 PROVE h[s] = Summing(f, h, s)
    <3>1. CASE s = {}
      BY <3>1 DEF Summing
    <3>2. CASE s # {}
      <4> DEFINE r == s \ {Pick(s)}
      <4>1. r \in SUBSET S /\ Cardinality(r) <= k
        BY <1>0, <2>2, <3>2
      <4>2. g[r] = Summing(f, g, r)
        BY <2>1, <4>1
      <4>3. h[r] = g[r]
        BY <4>1, <4>2
      <4> QED
        BY <3>2, <4>3 DEF Summing
    <3> QED
      BY <3>1, <3>2
  <2>3. h = [s \in SUBSET S |-> h[s]]
    OBVIOUS
  <2> HIDE DEF h
  <2> QED
    BY <2>2, <2>3
<1>3. Good(Cardinality(S))
  <2> SUFFICES ASSUME bad # {} PROVE FALSE
    BY FS_CardinalityType
  <2> HIDE DEF Good
  <2>1. PICK k \in bad : \A y \in bad : k <= y
    BY LeastNat
  <2>2. k \in Nat /\ ~ Good(k) /\ k # 0
    BY <1>1, <2>1
  <2>3. k - 1 \in Nat /\ (k - 1) + 1 = k
    BY <2>2
  <2>4. k - 1 \in bad
    BY <1>2, <2>2, <2>3
  <2> QED
    BY <2>1, <2>2, <2>4
<1>4. PICK g : Upto(g, Cardinality(S))
  BY <1>3
<1>5. \A s \in SUBSET S : g[s] = Summing(f, g, s)
  BY <1>4, FS_Subset
<1> QED
  BY <1>4, <1>5 DEF IsSumming

LEMMA SumIsInt ==
  ASSUME NEW S, IsFiniteSet(S), NEW f, \A x \in S : f[x] \in Int
  PROVE  Ledger!SumOf(f, S) \in Int
<1>1. Ledger!SumOf(f, S) = (CHOOSE g : IsSumming(g, f, S))[S]
  BY DEF Ledger!SumOf, Ledger!FoldFunctionOnSet, Ledger!MapThenFoldSet, IsSumming, Summing, Pick
<1>2. PICK g : g = [s \in SUBSET S |-> Summing(f, g, s)] /\ Ledger!SumOf(f, S) = g[S]
  <2>1. IsSumming(CHOOSE g : IsSumming(g, f, S), f, S)
    BY SumExists
  <2> QED
    BY <1>1, <2>1 DEF IsSumming
<1> DEFINE bad == {s \in SUBSET S : g[s] \notin Int}
           sizes == {k \in Nat : \E s \in bad : k = Cardinality(s)}
<1>3. \A s \in SUBSET S : IsFiniteSet(s) /\ Cardinality(s) \in Nat
  BY FS_Subset, FS_CardinalityType
<1> SUFFICES ASSUME bad # {} PROVE FALSE
  BY <1>2
<1>4. PICK k \in sizes : \A y \in sizes : k <= y
  <2>1. sizes # {}
    BY <1>3
  <2>2. sizes \in SUBSET Nat
    OBVIOUS
  <2> HIDE DEF sizes
  <2> QED
    BY <2>1, <2>2, LeastNat
<1>5. PICK s \in bad : k = Cardinality(s)
  BY <1>4
<1>6. s # {}
  BY <1>2, <1>5 DEF Summing
<1> DEFINE r == s \ {Pick(s)}
<1>7. Pick(s) \in s /\ f[Pick(s)] \in Int
  BY <1>5, <1>6 DEF Pick
<1>8. r \in SUBSET S /\ Cardinality(r) = k - 1 /\ k - 1 \in Nat /\ ~ (k <= k - 1)
  BY <1>3, <1>5, <1>6, <1>7, FS_RemoveElement
<1>9. g[r] \in Int
  BY <1>4, <1>8
<1>10. g[s] = f[Pick(s)] + g[r]
  BY <1>2, <1>5, <1>6 DEF Summing
<1> QED
  BY <1>5, <1>7, <1>9, <1>10
(* Scores are whole numbers or missing; the ceiling's sessions are among    *)
(* those read and searched; None is no label and no state of a ceiling.     *)
LedgerAssumptions ==
  /\ \A b \in Breakdowns : \A c \in DOMAIN b : b[c] \in Int \cup {None}
  /\ {LookbackSessions, HistoryDepth} \subseteq Nat /\ DeactivationSessions \in Nat \ {0}
  /\ DeactivationSessions <= LookbackSessions /\ DeactivationSessions <= HistoryDepth
  /\ None \notin {"plus_10", "plus_9_120d_high"}
  /\ \A p : p.status = "active" => p # None

LEMMA FiniteCodes ==
  /\ IsFiniteSet(Ledger!DOMESTIC_INDICATORS) /\ IsFiniteSet(Ledger!EXTERNAL_INDICATORS)
<1>1. \A a, b, c, d, e, f : IsFiniteSet({a, b, c, d, e, f})
  <2> TAKE a, b, c, d, e, f
  <2>1. IsFiniteSet({a}) /\ IsFiniteSet({b}) /\ IsFiniteSet({c}) /\ IsFiniteSet({d})
        /\ IsFiniteSet({e}) /\ IsFiniteSet({f})
    BY FS_Singleton
  <2>2. IsFiniteSet({a} \cup {b} \cup {c})
    BY <2>1, FS_Union
  <2>3. IsFiniteSet({d} \cup {e} \cup {f})
    BY <2>1, FS_Union
  <2>4. IsFiniteSet(({a} \cup {b} \cup {c}) \cup ({d} \cup {e} \cup {f}))
    BY <2>2, <2>3, FS_Union
  <2>5. {a, b, c, d, e, f} = ({a} \cup {b} \cup {c}) \cup ({d} \cup {e} \cup {f})
    OBVIOUS
  <2> QED
    BY <2>4, <2>5
<1> QED
  BY <1>1 DEF Ledger!DOMESTIC_INDICATORS, Ledger!EXTERNAL_INDICATORS

LEMMA ScoresAddUp ==
  ASSUME LedgerAssumptions, NEW b \in Breakdowns, NEW codes, IsFiniteSet(codes)
  PROVE  Ledger!SumScoresByCodes(b, codes) \in Int
<1> DEFINE known == codes \ Ledger!MissingIn(b, codes)
<1>1. IsFiniteSet(known)
  BY FS_Difference
<1>2. \A c \in known : b[c] \in Int
  BY DEF LedgerAssumptions, Ledger!MissingIn
<1> QED
  BY <1>1, <1>2, SumIsInt DEF Ledger!SumScoresByCodes

-------------------------------------------------------------------------------
(* What a session reads of the earlier ones.                                *)
Before(d) == {e \in DOMAIN ledger : e < d /\ ledger[e] # None}
Since(x, d) == {e \in Before(d) : e > x}

LEMMA BeforeIsFinite ==
  ASSUME DaysAndNone, DOMAIN ledger = Days, NEW d \in Days
  PROVE  /\ Before(d) \subseteq Nat /\ IsFiniteSet(Before(d)) /\ Cardinality(Before(d)) \in Nat
         /\ \A x \in Before(d) : /\ IsFiniteSet(Since(x, d)) /\ Cardinality(Since(x, d)) \in Nat
                                 /\ Cardinality(Since(x, d)) < Cardinality(Before(d))
<1>1. PICK n \in Nat \ {0} : Days = 1..n
  BY DEF DaysAndNone
<1>2. Before(d) \subseteq Days /\ IsFiniteSet(Days)
  BY <1>1, FS_Interval DEF Before
<1>3. IsFiniteSet(Before(d)) /\ Cardinality(Before(d)) \in Nat
  BY <1>2, FS_Subset, FS_CardinalityType
<1>4. ASSUME NEW x \in Before(d)
      PROVE  /\ IsFiniteSet(Since(x, d)) /\ Cardinality(Since(x, d)) \in Nat
             /\ Cardinality(Since(x, d)) < Cardinality(Before(d))
  <2>1. x \notin Since(x, d) /\ Since(x, d) \subseteq Before(d)
    BY <1>1, <1>2 DEF Since
  <2>2. IsFiniteSet(Since(x, d)) /\ Cardinality(Since(x, d)) <= Cardinality(Before(d))
        /\ Cardinality(Since(x, d)) # Cardinality(Before(d))
    BY <1>3, <1>4, <2>1, FS_Subset
  <2> QED
    BY <1>3, <2>2, FS_CardinalityType
<1> QED
  BY <1>1, <1>2, <1>3, <1>4

LEMMA MinOfTwo ==
  ASSUME NEW a \in Nat, NEW b \in Nat
  PROVE  Ledger!Min({a, b}) = IF a <= b THEN a ELSE b
<1> DEFINE m == IF a <= b THEN a ELSE b
<1>1. m \in {a, b} /\ \A y \in {a, b} : m <= y
  OBVIOUS
<1>2. \A z \in {a, b} : (\A y \in {a, b} : z <= y) => z = m
  OBVIOUS
<1> HIDE DEF m
<1>3. (CHOOSE z \in {a, b} : \A y \in {a, b} : z =< y) = m
  BY <1>1, <1>2
<1> QED
  BY <1>3 DEF Ledger!Min, m

LEMMA SameCardinality == \A S : Ledger!Cardinality(S) = Cardinality(S)
BY DEF Ledger!Cardinality, Cardinality, Ledger!IsFiniteSet, IsFiniteSet

LEMMA HistoryAt ==
  ASSUME DaysAndNone, LedgerAssumptions, DOMAIN ledger = Days, NEW d \in Days
  PROVE  /\ Len(Ledger!History(d)) \in Nat
         /\ Ledger!History(d) \in Seq({Ledger!History(d)[i] : i \in 1..Len(Ledger!History(d))})
         /\ Ledger!History(d) = <<>> <=> Before(d) = {}
         /\ \A x \in Before(d) : LET i == Cardinality(Since(x, d)) + 1
                                 IN i <= HistoryDepth => /\ i \in 1..Len(Ledger!History(d))
                                                         /\ Ledger!History(d)[i] = ledger[x]
<1> DEFINE n == Ledger!Min({HistoryDepth, Cardinality(Before(d))})
           At(i) == ledger[CHOOSE x \in Before(d) : Cardinality(Since(x, d)) = i - 1]
           h == [i \in 1..n |-> At(i)]
<1>1. Ledger!History(d) = h
  <2> DEFINE CardAt(i) ==
        ledger[CHOOSE x \in Before(d) : Ledger!Cardinality(Since(x, d)) = i - 1]
  <2>1. Ledger!History(d) = [i \in 1..Ledger!Min({HistoryDepth, Ledger!Cardinality(Before(d))})
                             |-> CardAt(i)]
    BY DEF Ledger!History, Before, Since
  <2>2. n = Ledger!Min({HistoryDepth, Ledger!Cardinality(Before(d))})
    BY SameCardinality
  <2>3. \A i : CardAt(i) = At(i)
    BY SameCardinality
  <2> QED
    BY <2>1, <2>2, <2>3, Zenon
<1>2. n \in Nat /\ n <= HistoryDepth /\ n <= Cardinality(Before(d))
      /\ (n = HistoryDepth \/ n = Cardinality(Before(d)))
  BY MinOfTwo, BeforeIsFinite DEF LedgerAssumptions
<1>3. HistoryDepth \in Nat \ {0} /\ Cardinality(Before(d)) \in Nat
  BY BeforeIsFinite DEF LedgerAssumptions
<1>4. n = 0 <=> Before(d) = {}
  BY <1>2, <1>3, BeforeIsFinite, FS_EmptySet
<1> HIDE DEF n
<1>5. h \in Seq({h[i] : i \in 1..n}) /\ Len(h) = n /\ (h = <<>> <=> n = 0)
  <2>1. \A i \in 1..n : h[i] \in {h[j] : j \in 1..n}
    OBVIOUS
  <2>2. h = [i \in 1..n |-> h[i]]
    OBVIOUS
  <2> HIDE DEF h
  <2>3. h \in [1..n -> {h[j] : j \in 1..n}]
    BY <2>1, <2>2
  <2>4. h \in Seq({h[j] : j \in 1..n})
    BY <1>2, <2>3
  <2>5. Len(h) = n
    BY <1>2, <2>2, <2>4, LenProperties
  <2> QED
    BY <2>4, <2>5, EmptySeq
<1>6. ASSUME NEW x \in Before(d), Cardinality(Since(x, d)) + 1 <= HistoryDepth
      PROVE  Cardinality(Since(x, d)) + 1 \in 1..n
             /\ h[Cardinality(Since(x, d)) + 1] = ledger[x]
  <2> DEFINE i == Cardinality(Since(x, d)) + 1
  <2>1. i \in 1..n /\ i - 1 = Cardinality(Since(x, d))
    BY <1>2, <1>3, <1>6, BeforeIsFinite
  <2>2. ASSUME NEW y \in Before(d), NEW z \in Before(d), y < z
        PROVE  Cardinality(Since(z, d)) # Cardinality(Since(y, d))
    <3>1. z \in Since(y, d) /\ z \notin Since(z, d) /\ Since(z, d) \subseteq Since(y, d)
      BY <2>2, BeforeIsFinite DEF Since
    <3> QED
      BY <3>1, BeforeIsFinite, FS_Subset
  <2>3. \A y \in Before(d) : Cardinality(Since(y, d)) = i - 1 => y = x
    <3> SUFFICES ASSUME NEW y \in Before(d), Cardinality(Since(y, d)) = Cardinality(Since(x, d)),
                        y # x
                 PROVE  FALSE
      BY <2>1
    <3>1. x \in Nat /\ y \in Nat
      BY BeforeIsFinite
    <3>2. x < y \/ y < x
      BY <3>1
    <3> QED
      BY <2>2, <3>2
  <2>4. (CHOOSE y \in Before(d) : Cardinality(Since(y, d)) = i - 1) = x
    BY <2>1, <2>3
  <2> QED
    BY <2>1, <2>4
<1> QED
  BY <1>1, <1>2, <1>4, <1>5, <1>6
LEMMA HistoryHead ==
  ASSUME DaysAndNone, LedgerAssumptions, DOMAIN ledger = Days, NEW d \in Days, Before(d) # {}
  PROVE  \E e \in Before(d) : /\ \A y \in Before(d) : y <= e
                              /\ Ledger!History(d) # <<>>
                              /\ Head(Ledger!History(d)) = ledger[e]
<1>1. PICK n \in Nat \ {0} : Days = 1..n
  BY DEF DaysAndNone
<1>2. Before(d) \subseteq 1..n
  BY <1>1 DEF Before
<1>3. PICK e \in Before(d) : \A y \in Before(d) : y <= e
  BY <1>2, Greatest
<1>4. Since(e, d) = {}
  BY <1>2, <1>3 DEF Since
<1>5. Cardinality(Since(e, d)) + 1 = 1
  BY <1>4, FS_EmptySet
<1>6. 1 <= HistoryDepth
  BY DEF LedgerAssumptions
<1>7. Ledger!History(d)[1] = ledger[e] /\ Ledger!History(d) # <<>>
  BY <1>5, <1>6, HistoryAt
<1>8. Head(Ledger!History(d)) = Ledger!History(d)[1]
  BY <1>7, HistoryAt
<1> QED
  BY <1>3, <1>7, <1>8

(* A session near enough is in the window.                                  *)
LEMMA WindowSees ==
  ASSUME LedgerAssumptions, NEW R, NEW h \in Seq(R), NEW i \in 1..Len(h), i <= LookbackSessions
  PROVE  h[i].net \in Ledger!NetsOf(Ledger!Window(h))
<1> DEFINE m == Ledger!Min({LookbackSessions, Len(h)})
           w == SubSeq(h, 1, m)
<1>1. m \in Nat /\ m <= Len(h) /\ i <= m /\ Len(h) \in Nat
  BY MinOfTwo DEF LedgerAssumptions
<1> HIDE DEF m
<1>2. \A j \in 1..m : h[j] \in R
  BY <1>1
<1>3. w \in Seq(R) /\ Len(w) = m /\ \A j \in 1..m : w[j] = h[j]
  BY <1>1, <1>2, SubSeqProperties
<1>4. i \in DOMAIN w /\ w[i] = h[i]
  BY <1>1, <1>3, LenProperties
<1>5. Ledger!Window(h) = w
  BY DEF Ledger!Window, m
<1> HIDE DEF w
<1> QED
  BY <1>4, <1>5 DEF Ledger!NetsOf

-------------------------------------------------------------------------------
(* The states of the ceiling.                                               *)
Ceiling(p) ==
  /\ p = [status |-> "active", peakDate |-> p.peakDate, peakNetScore |-> p.peakNetScore,
          entryReason |-> p.entryReason, sessionsSincePeak |-> p.sessionsSincePeak,
          sessionsBelowThreshold |-> p.sessionsBelowThreshold]
  /\ p.entryReason \in {"plus_10", "plus_9_120d_high"}
  /\ p.peakNetScore \in Int /\ p.peakNetScore >= Ledger!ThresholdForState(p)

Begins(p, q) ==
  /\ Ceiling(p) /\ p.peakDate = q.date /\ p.peakNetScore = q.net /\ p.sessionsBelowThreshold = 0
Continues(p, q, below) ==
  /\ Ceiling(p) /\ p.peakDate = q.peakDate /\ p.peakNetScore = q.peakNetScore
  /\ p.entryReason = q.entryReason /\ p.sessionsBelowThreshold = below

LEMMA PeakBegins ==
  ASSUME LedgerAssumptions, NEW q, q.net \in Int, NEW h, Ledger!QualifiesForEntry(q.net, h) # None
  PROVE  Begins(Ledger!NewPeak(q, Ledger!QualifiesForEntry(q.net, h)), q)
<1> DEFINE r == Ledger!QualifiesForEntry(q.net, h)
           p == Ledger!NewPeak(q, r)
<1>1. r \in {"plus_10", "plus_9_120d_high"} /\ (r = "plus_10" => q.net >= 10) /\ q.net >= 9
  BY DEF Ledger!QualifiesForEntry
<1> HIDE DEF r
<1>2. p = [status |-> "active", peakDate |-> q.date, peakNetScore |-> q.net, entryReason |-> r,
           sessionsSincePeak |-> 0, sessionsBelowThreshold |-> 0]
  BY DEF Ledger!NewPeak
<1> HIDE DEF p
<1>3. p.entryReason = r /\ p.peakNetScore = q.net /\ p.peakDate = q.date
      /\ p.sessionsBelowThreshold = 0
  BY <1>2
<1>4. p.peakNetScore >= Ledger!ThresholdForState(p)
  BY <1>1, <1>3 DEF Ledger!ThresholdForState
<1>5. Ceiling(p)
  BY <1>1, <1>2, <1>3, <1>4 DEF Ceiling
<1> QED
  BY <1>3, <1>5 DEF Begins, p, r

LEMMA PeakContinues ==
  ASSUME NEW p, Ceiling(p), NEW q, NEW h, NEW below
  PROVE  Continues(Ledger!Aged(p, q, h, below), p, below)
<1>1. PICK since : since = 1 + Len(Ledger!SelectSeq(h, LAMBDA r : r.date > p.peakDate))
  OBVIOUS
<1> DEFINE a == [p EXCEPT !.sessionsSincePeak = since, !.sessionsBelowThreshold = below]
<1>2. Ledger!Aged(p, q, h, below) = a
  BY <1>1 DEF Ledger!Aged
<1>3. a = [status |-> "active", peakDate |-> p.peakDate, peakNetScore |-> p.peakNetScore,
           entryReason |-> p.entryReason, sessionsSincePeak |-> since,
           sessionsBelowThreshold |-> below]
  <2>1. PICK t, n, r, s, b :
          p = [status |-> "active", peakDate |-> t, peakNetScore |-> n, entryReason |-> r,
               sessionsSincePeak |-> s, sessionsBelowThreshold |-> b]
    BY DEF Ceiling
  <2>2. /\ p.peakDate = t /\ p.peakNetScore = n /\ p.entryReason = r
        /\ DOMAIN p = {"status", "peakDate", "peakNetScore", "entryReason", "sessionsSincePeak",
                        "sessionsBelowThreshold"}
        /\ p.status = "active" /\ p = [f \in DOMAIN p |-> p[f]]
    BY <2>1
  <2>3. /\ a = [f \in DOMAIN p |-> a[f]]
        /\ a.status = "active" /\ a.peakDate = t /\ a.peakNetScore = n /\ a.entryReason = r
        /\ a.sessionsSincePeak = since /\ a.sessionsBelowThreshold = below
    BY <2>2
  <2> HIDE DEF a
  <2> QED
    BY <2>2, <2>3
<1> HIDE DEF a
<1>4. /\ a.peakDate = p.peakDate /\ a.peakNetScore = p.peakNetScore
      /\ a.entryReason = p.entryReason /\ a.sessionsBelowThreshold = below
      /\ a.sessionsSincePeak = since
  BY <1>3
<1>5. Ledger!ThresholdForState(a) = Ledger!ThresholdForState(p)
  BY <1>4 DEF Ledger!ThresholdForState
<1>6. Ceiling(a)
  BY <1>3, <1>4, <1>5 DEF Ceiling
<1> QED
  BY <1>2, <1>4, <1>6 DEF Continues

(* Where no ceiling was in force the day begins one or none is; one in      *)
(* force is replaced by a higher one, goes on, or lapses.  An entry below   *)
(* the level would need a window of nines under it.                         *)
LEMMA PeakStarts ==
  ASSUME LedgerAssumptions, NEW q, q.net \in Int, NEW h, NEW prior,
         prior = None \/ prior = Ledger!Inactive
  PROVE  LET p == Ledger!ComputePeakScoreState(q, h, prior)
         IN p = Ledger!Inactive \/ Begins(p, q)
BY PeakBegins DEF Ledger!ComputePeakScoreState

LEMMA PeakGoesOn ==
  ASSUME LedgerAssumptions, NEW q, q.net \in Int, NEW h, NEW prior, Ceiling(prior),
         prior.sessionsBelowThreshold \in Nat,
         Ledger!ThresholdForState(prior) = 10 =>
           \E n \in Ledger!NetsOf(Ledger!Window(h)) : n \in Int /\ n >= 10
  PROVE  LET p == Ledger!ComputePeakScoreState(q, h, prior)
             level == Ledger!ThresholdForState(prior)
             below == prior.sessionsBelowThreshold + 1
         IN \/ Begins(p, q) /\ q.net > prior.peakNetScore
            \/ Continues(p, prior, 0) /\ q.net >= level /\ q.net <= prior.peakNetScore
            \/ p = Ledger!Inactive /\ q.net < level /\ below >= DeactivationSessions
            \/ Continues(p, prior, below) /\ q.net < level /\ below < DeactivationSessions
<1> DEFINE r == Ledger!QualifiesForEntry(q.net, h)
           level == Ledger!ThresholdForState(prior)
           below == prior.sessionsBelowThreshold + 1
           p == Ledger!ComputePeakScoreState(q, h, prior)
<1>1. level \in {9, 10} /\ level <= prior.peakNetScore /\ prior.peakNetScore \in Int
  BY DEF Ledger!ThresholdForState, Ceiling
<1>2. prior # None /\ prior # Ledger!Inactive
  <2>1. prior.status = "active"
    BY DEF Ceiling
  <2>2. Ledger!Inactive.status = "inactive"
    BY DEF Ledger!Inactive
  <2> QED
    BY <2>1, <2>2 DEF LedgerAssumptions
<1>3. r # None => q.net >= level
  BY <1>1 DEF Ledger!QualifiesForEntry
<1>4. r = None => q.net <= 9
  BY DEF Ledger!QualifiesForEntry, LedgerAssumptions
<1>5. r = None /\ q.net >= level => q.net <= prior.peakNetScore
  BY <1>1, <1>4
<1>6. CASE r # None /\ q.net > prior.peakNetScore
  <2>1. p = Ledger!NewPeak(q, r)
    BY <1>2, <1>6 DEF Ledger!ComputePeakScoreState
  <2> QED
    BY <1>6, <2>1, PeakBegins
<1>7. CASE ~(r # None /\ q.net > prior.peakNetScore) /\ (r # None \/ q.net >= level)
  <2>1. p = Ledger!Aged(prior, q, h, 0)
    BY <1>2, <1>7 DEF Ledger!ComputePeakScoreState
  <2>2. q.net >= level /\ q.net <= prior.peakNetScore
    BY <1>1, <1>3, <1>5, <1>7
  <2> QED
    BY <2>1, <2>2, PeakContinues
<1>8. CASE r = None /\ ~(q.net >= level) /\ below >= DeactivationSessions
  BY <1>1, <1>2, <1>8 DEF Ledger!ComputePeakScoreState
<1>9. CASE r = None /\ ~(q.net >= level) /\ ~(below >= DeactivationSessions)
  <2>1. p = Ledger!Aged(prior, q, h, below)
    BY <1>2, <1>9 DEF Ledger!ComputePeakScoreState
  <2>2. q.net < level /\ below < DeactivationSessions
    BY <1>1, <1>9 DEF LedgerAssumptions
  <2> QED
    BY <2>1, <2>2, PeakContinues
<1> QED
  BY <1>6, <1>7, <1>8, <1>9
-------------------------------------------------------------------------------
(* A table of scorecards: every ceiling in force is the highest net since   *)
(* its date and has counted its sessions below the level, and it lapses on  *)
(* the last of a full run of them.                                          *)
Sess(T) == {d \in DOMAIN T : T[d] # None}
Capped(T, d) == T[d].peak # Ledger!Inactive
Run(T, p, d) ==
  {f \in Sess(T) : f <= d /\ f > p.peakDate
     /\ \A g \in Sess(T) : g \in f..d => T[g].net < Ledger!ThresholdForState(p)}
Stands(T, p, d) ==
  /\ Ceiling(p)
  /\ p.peakDate \in Sess(T) /\ p.peakDate <= d /\ T[p.peakDate].net = p.peakNetScore
  /\ \A e \in Sess(T) : e \in p.peakDate..d => T[e].net <= p.peakNetScore
  /\ p.sessionsBelowThreshold = Cardinality(Run(T, p, d))
  /\ p.sessionsBelowThreshold < DeactivationSessions
Follows(T, e, d) == e < d /\ ~\E f \in Sess(T) : e < f /\ f < d
Lapses(T) ==
  \A d, e \in Sess(T) : Follows(T, e, d) /\ Capped(T, e) =>
    (~Capped(T, d) <=> Cardinality(Run(T, T[e].peak, d)) = DeactivationSessions)

LedgerOK(T) ==
  /\ T = [d \in Days |-> T[d]]
  /\ \A d \in Sess(T) : T[d].net \in Int /\ (Capped(T, d) => Stands(T, T[d].peak, d))
  /\ Lapses(T)

(* U is T with the card of d, which no session of T is later than.          *)
Reassembled(T, U, d) ==
  /\ T = [x \in Days |-> T[x]] /\ U = [x \in Days |-> U[x]]
  /\ \A x \in Days : x # d => U[x] = T[x]
  /\ \A x \in Sess(T) : x <= d

LEMMA Earlier ==
  ASSUME DaysAndNone, NEW T, NEW U, NEW d \in Days, Reassembled(T, U, d)
  PROVE  /\ \A x \in Sess(U) : x \in Nat /\ x <= d /\ (x < d => x \in Sess(T) /\ U[x] = T[x])
         /\ \A x \in Sess(T) : x \in Nat /\ x <= d /\ (x < d => x \in Sess(U) /\ U[x] = T[x])
         /\ d \in Nat
<1>1. d \in Nat /\ \A x \in Days : x \in Nat
  BY DEF DaysAndNone
<1>2. DOMAIN T = Days /\ DOMAIN U = Days
  BY DEF Reassembled
<1>3. \A x \in Sess(T) : x \in Days /\ x <= d /\ T[x] # None
  BY <1>2 DEF Sess, Reassembled
<1>4. \A x \in Sess(U) : x \in Days /\ U[x] # None
  BY <1>2 DEF Sess
<1>5. \A x \in Days : x # d => U[x] = T[x]
  BY DEF Reassembled
<1>6. \A x \in Days : (T[x] # None => x \in Sess(T)) /\ (U[x] # None => x \in Sess(U))
  BY <1>2 DEF Sess
<1>7. ASSUME NEW x \in Sess(U) PROVE x \in Nat /\ x <= d /\ (x < d => x \in Sess(T) /\ U[x] = T[x])
  <2>1. CASE x = d
    BY <1>1, <2>1
  <2>2. CASE x # d
    <3>1. x \in Days /\ U[x] = T[x] /\ x \in Sess(T)
      BY <1>4, <1>5, <1>6, <2>2
    <3> QED
      BY <1>1, <1>3, <3>1
  <2> QED
    BY <2>1, <2>2
<1>8. ASSUME NEW x \in Sess(T) PROVE x \in Nat /\ x <= d /\ (x < d => x \in Sess(U) /\ U[x] = T[x])
  <2>1. x \in Days /\ x <= d /\ T[x] # None /\ x \in Nat
    BY <1>1, <1>3
  <2>2. ASSUME x < d PROVE x \in Sess(U) /\ U[x] = T[x]
    <3>1. x # d
      BY <1>1, <2>2
    <3> QED
      BY <1>5, <1>6, <2>1, <3>1
  <2> QED
    BY <2>1, <2>2
<1> QED
  BY <1>1, <1>7, <1>8

LEMMA RunKept ==
  ASSUME DaysAndNone, NEW T, NEW U, NEW d \in Days, Reassembled(T, U, d),
         NEW e \in Sess(T), e < d, NEW p
  PROVE  Run(U, p, e) = Run(T, p, e)
<1>1. e \in Nat /\ d \in Nat
  BY Earlier
<1>2. \A x \in Sess(U) : x <= e => x \in Sess(T) /\ U[x] = T[x]
  BY <1>1, Earlier
<1>3. \A x \in Sess(T) : x <= e => x \in Sess(U) /\ U[x] = T[x]
  BY <1>1, Earlier
<1>4. \A f, g : g \in f..e => g <= e
  OBVIOUS
<1>5. ASSUME NEW f \in Run(U, p, e) PROVE f \in Run(T, p, e)
  BY <1>2, <1>3, <1>4, <1>5 DEF Run
<1>6. ASSUME NEW f \in Run(T, p, e) PROVE f \in Run(U, p, e)
  BY <1>2, <1>3, <1>4, <1>6 DEF Run
<1> QED
  BY <1>5, <1>6

LEMMA StandingKept ==
  ASSUME DaysAndNone, NEW T, NEW U, NEW d \in Days, Reassembled(T, U, d),
         NEW e \in Sess(T), e < d, NEW p, Stands(T, p, e)
  PROVE  Stands(U, p, e)
<1>1. e \in Nat /\ d \in Nat
  BY Earlier
<1>2. \A x \in Sess(U) : x <= e => x \in Sess(T) /\ U[x] = T[x]
  BY <1>1, Earlier
<1>3. \A x \in Sess(T) : x <= e => x \in Sess(U) /\ U[x] = T[x]
  BY <1>1, Earlier
<1>4. p.peakDate \in Sess(U) /\ U[p.peakDate] = T[p.peakDate]
  BY <1>3 DEF Stands
<1>5. \A x \in Sess(U) : x \in p.peakDate..e => U[x].net <= p.peakNetScore
  <2> SUFFICES ASSUME NEW x \in Sess(U), x \in p.peakDate..e PROVE U[x].net <= p.peakNetScore
    OBVIOUS
  <2>1. x <= e
    OBVIOUS
  <2> QED
    BY <1>2, <2>1 DEF Stands
<1> QED
  BY <1>4, <1>5, RunKept DEF Stands

(* A ceiling of the session before, with the new session counted.           *)
LEMMA RunGrows ==
  ASSUME DaysAndNone, NEW T, NEW U, NEW d \in Days, Reassembled(T, U, d), d \in Sess(U),
         NEW e \in Sess(T), e < d, \A x \in Sess(T) : x < d => x <= e,
         NEW p, Stands(T, p, e), U[d].net \in Int
  PROVE  /\ U[d].net >= Ledger!ThresholdForState(p) => Run(U, p, d) = {}
         /\ U[d].net < Ledger!ThresholdForState(p) => Run(U, p, d) = Run(T, p, e) \cup {d}
         /\ IsFiniteSet(Run(T, p, e)) /\ d \notin Run(T, p, e)
<1> DEFINE level == Ledger!ThresholdForState(p)
<1>1. e \in Nat /\ d \in Nat /\ level \in Int /\ p.peakDate \in Nat /\ p.peakDate <= e
  BY Earlier DEF Ledger!ThresholdForState, Stands
<1>2. ASSUME U[d].net >= level PROVE Run(U, p, d) = {}
  <2>1. \A f \in Sess(U) : f <= d => d \in f..d
    BY <1>1, Earlier
  <2>2. ~(U[d].net < level)
    BY <1>1, <1>2
  <2> QED
    BY <2>1, <2>2 DEF Run
<1>3. ASSUME U[d].net < level PROVE Run(U, p, d) = Run(T, p, e) \cup {d}
  <2>1. d \in Run(U, p, d)
    <3>1. \A g : g \in d..d => g = d
      BY <1>1
    <3> QED
      BY <1>1, <1>3, <3>1 DEF Run
  <2>2. ASSUME NEW f \in Run(U, p, d), f # d PROVE f \in Run(T, p, e)
    <3>1. f \in Sess(U) /\ f \in Nat /\ f < d /\ f > p.peakDate
      BY <1>1, <2>2, Earlier DEF Run
    <3>2. f \in Sess(T) /\ f <= e
      BY <3>1, Earlier
    <3>3. ASSUME NEW g \in Sess(T), g \in f..e PROVE T[g].net < level
      <4>1. g \in f..d /\ g < d
        BY <1>1, <3>1, <3>3
      <4>2. g \in Sess(U) /\ U[g] = T[g]
        BY <4>1, Earlier
      <4> QED
        BY <2>2, <4>1, <4>2 DEF Run
    <3> QED
      BY <3>1, <3>2, <3>3 DEF Run
  <2>3. ASSUME NEW f \in Run(T, p, e) PROVE f \in Run(U, p, d)
    <3>1. f \in Sess(T) /\ f \in Nat /\ f <= e /\ f > p.peakDate
      BY Earlier DEF Run
    <3>2. f \in Sess(U) /\ f <= d
      BY <1>1, <3>1, Earlier
    <3>3. ASSUME NEW g \in Sess(U), g \in f..d PROVE U[g].net < level
      <4>1. CASE g = d
        BY <1>3, <4>1
      <4>2. CASE g # d
        <5>1. g \in Nat /\ g < d /\ f <= g
          BY <1>1, <3>1, <3>3, <4>2
        <5>2. g \in Sess(T) /\ U[g] = T[g] /\ g <= e
          BY <5>1, Earlier
        <5>3. g \in f..e
          BY <1>1, <3>1, <5>1, <5>2
        <5> QED
          BY <5>2, <5>3 DEF Run
      <4> QED
        BY <4>1, <4>2
    <3> QED
      BY <3>1, <3>2, <3>3 DEF Run
  <2> QED
    BY <2>1, <2>2, <2>3
<1>4. IsFiniteSet(Run(T, p, e)) /\ d \notin Run(T, p, e)
  <2>1. \A f \in Run(T, p, e) : f \in Nat /\ f <= e
    BY Earlier DEF Run
  <2>2. Run(T, p, e) \in SUBSET (0..e)
    BY <1>1, <2>1
  <2>3. IsFiniteSet(0..e)
    BY <1>1, FS_Interval
  <2>4. d \notin Run(T, p, e)
    BY <1>1, <2>1
  <2> QED
    BY <2>2, <2>3, <2>4, FS_Subset
<1> QED
  BY <1>2, <1>3, <1>4
LEMMA LevelIsSeen ==
  ASSUME DaysAndNone, LedgerAssumptions, LedgerOK(ledger), NEW d \in Days,
         NEW e \in Before(d), \A y \in Before(d) : y <= e, Capped(ledger, e)
  PROVE  \E n \in Ledger!NetsOf(Ledger!Window(Ledger!History(d))) :
           n \in Int /\ n >= Ledger!ThresholdForState(ledger[e].peak)
<1> DEFINE p == ledger[e].peak
           level == Ledger!ThresholdForState(p)
           Q == {x \in Before(d) : x >= p.peakDate /\ ledger[x].net >= level}
           h == Ledger!History(d)
<1>1. DOMAIN ledger = Days /\ Stands(ledger, p, e) /\ e \in Sess(ledger) /\ e < d
  BY DEF LedgerOK, Before, Sess
<1>2. PICK k \in Nat : Days = 1..k
  BY DEF DaysAndNone
<1>3. Before(d) = {x \in Sess(ledger) : x < d} /\ Before(d) \in SUBSET (1..k) /\ d \in Nat
      /\ level \in Int
  BY <1>1, <1>2 DEF Before, Sess, Ledger!ThresholdForState
<1>4. p.peakDate \in Q
  <2>1. p.peakDate \in Sess(ledger) /\ p.peakDate <= e /\ ledger[p.peakDate].net = p.peakNetScore
        /\ p.peakNetScore >= level
    BY <1>1 DEF Stands, Ceiling
  <2>2. p.peakDate \in Nat /\ p.peakDate < d
    BY <1>1, <1>2, <1>3, <2>1 DEF Sess
  <2> QED
    BY <1>3, <2>1, <2>2
<1>5. PICK x \in Q : \A y \in Q : y <= x
  <2>1. Q \in SUBSET (1..k) /\ Q # {}
    BY <1>3, <1>4
  <2> HIDE DEF Q
  <2> QED
    BY <2>1, Greatest
<1>6. x \in Before(d) /\ x \in Nat /\ x >= p.peakDate /\ ledger[x].net >= level
      /\ p.peakDate \in Nat /\ x <= e /\ e \in Nat
  BY <1>3, <1>4, <1>5
<1>7. Since(x, d) = Run(ledger, p, e)
  <2>1. ASSUME NEW y \in Since(x, d) PROVE y \in Run(ledger, p, e)
    <3>1. y \in Sess(ledger) /\ y \in Nat /\ y <= e /\ y > p.peakDate /\ y > x
      BY <1>3, <1>6, <2>1 DEF Since
    <3>2. ASSUME NEW g \in Sess(ledger), g \in y..e PROVE ledger[g].net < level
      <4>1. g \in Before(d) /\ g > x /\ g >= p.peakDate /\ g \in Nat
        BY <1>1, <1>3, <1>6, <3>1, <3>2
      <4>2. g \notin Q
        BY <1>5, <1>6, <4>1
      <4>3. ledger[g].net \in Int /\ ~(ledger[g].net >= level)
        BY <4>1, <4>2, <3>2 DEF LedgerOK
      <4> HIDE DEF level
      <4> QED
        BY <1>3, <4>3
    <3> QED
      BY <3>1, <3>2 DEF Run
  <2>2. ASSUME NEW y \in Run(ledger, p, e) PROVE y \in Since(x, d)
    <3>1. y \in Sess(ledger) /\ y <= e /\ y \in Nat
      BY <1>1, <1>2 DEF Run, Sess
    <3>2. y \in Before(d)
      BY <1>1, <1>3, <1>6, <3>1
    <3>3. ~(y <= x)
      <4> SUFFICES ASSUME y <= x PROVE FALSE
        OBVIOUS
      <4>1. x \in y..e /\ x \in Sess(ledger)
        BY <1>3, <1>6, <3>1
      <4>2. ledger[x].net < level /\ ledger[x].net \in Int
        BY <2>2, <4>1 DEF Run, LedgerOK
      <4> HIDE DEF level
      <4> QED
        BY <1>3, <1>6, <4>2
    <3>4. y > x
      BY <1>6, <3>1, <3>3
    <3> QED
      BY <3>2, <3>4 DEF Since
  <2> QED
    BY <2>1, <2>2
<1> DEFINE i == Cardinality(Since(x, d)) + 1
<1>8. i <= DeactivationSessions /\ i \in Nat
  BY <1>1, <1>6, <1>7, BeforeIsFinite DEF Stands, LedgerAssumptions
<1>9. i <= HistoryDepth /\ i <= LookbackSessions
  BY <1>8 DEF LedgerAssumptions
<1>10. i \in 1..Len(h) /\ h[i] = ledger[x]
  BY <1>1, <1>6, <1>9, HistoryAt
<1>11. h \in Seq({h[j] : j \in 1..Len(h)})
  BY <1>1, HistoryAt
<1> HIDE DEF i, h
<1>12. h[i].net \in Ledger!NetsOf(Ledger!Window(h))
  BY <1>9, <1>10, <1>11, WindowSees
<1>13. ledger[x].net \in Int
  BY <1>3, <1>6 DEF LedgerOK
<1> QED
  BY <1>6, <1>10, <1>12, <1>13 DEF h

LEMMA FreshStands ==
  ASSUME DaysAndNone, LedgerAssumptions, NEW U, U = [x \in Days |-> U[x]], NEW d \in Sess(U),
         U[d].net \in Int, Begins(U[d].peak, [date |-> d, net |-> U[d].net])
  PROVE  Stands(U, U[d].peak, d)
<1> DEFINE p == U[d].peak
<1>1. d \in Nat /\ Ceiling(p) /\ p.peakDate = d /\ p.peakNetScore = U[d].net
      /\ p.sessionsBelowThreshold = 0
  BY DEF Begins, Sess, DaysAndNone
<1>2. Run(U, p, d) = {}
  <2>1. \A f \in Sess(U) : f \in Nat
    BY DEF Sess, DaysAndNone
  <2> QED
    BY <1>1, <2>1 DEF Run
<1>3. \A e \in Sess(U) : e \in p.peakDate..d => U[e].net <= p.peakNetScore
  <2>1. \A e : e \in p.peakDate..d => e = d
    BY <1>1
  <2> QED
    BY <1>1, <2>1
<1> HIDE DEF p
<1> QED
  BY <1>1, <1>2, <1>3, FS_EmptySet DEF Stands, LedgerAssumptions, p
LEMMA ContinuedStands ==
  ASSUME DaysAndNone, NEW T, NEW U, NEW d \in Days, Reassembled(T, U, d), d \in Sess(U),
         NEW e \in Sess(T), e < d, \A x \in Sess(T) : x < d => x <= e,
         NEW p, Stands(T, p, e), NEW below, below < DeactivationSessions,
         NEW q, Continues(q, p, below), below = Cardinality(Run(U, p, d)),
         U[d].net <= p.peakNetScore
  PROVE  Stands(U, q, d)
<1>1. /\ Ceiling(q) /\ q.peakDate = p.peakDate /\ q.peakNetScore = p.peakNetScore
      /\ q.entryReason = p.entryReason /\ q.sessionsBelowThreshold = below
  BY DEF Continues
<1>2. e \in Nat /\ d \in Nat /\ p.peakDate \in Sess(T) /\ p.peakDate <= e /\ p.peakDate \in Nat
  BY Earlier DEF Stands
<1>3. p.peakDate \in Sess(U) /\ U[p.peakDate] = T[p.peakDate] /\ p.peakDate <= d
  BY <1>2, Earlier
<1>4. Run(U, q, d) = Run(U, p, d)
  BY <1>1 DEF Run, Ledger!ThresholdForState
<1>5. ASSUME NEW x \in Sess(U), x \in p.peakDate..d PROVE U[x].net <= p.peakNetScore
  <2>1. CASE x = d
    BY <2>1
  <2>2. CASE x # d
    <3>1. x \in Nat /\ x < d /\ p.peakDate <= x
      BY <1>2, <1>5, <2>2
    <3>2. x \in Sess(T) /\ U[x] = T[x] /\ x <= e
      BY <3>1, Earlier
    <3>3. x \in p.peakDate..e
      BY <1>2, <3>1, <3>2
    <3> QED
      BY <3>2, <3>3 DEF Stands
  <2> QED
    BY <2>1, <2>2
<1> QED
  BY <1>1, <1>3, <1>4, <1>5 DEF Stands

LEMMA DayStands ==
  ASSUME DaysAndNone, LedgerAssumptions, LedgerOK(ledger),
         NEW d \in Days, NEW U, Reassembled(ledger, U, d), d \in Sess(U), U[d].net \in Int,
         LET h == Ledger!History(d) IN
           U[d].peak = Ledger!ComputePeakScoreState([date |-> d, net |-> U[d].net], h,
                                                    IF h = <<>> THEN None ELSE Head(h).peak)
  PROVE  /\ Capped(U, d) => Stands(U, U[d].peak, d)
         /\ \A e \in Before(d) : (\A y \in Before(d) : y <= e) /\ Capped(ledger, e) =>
              (~Capped(U, d) <=> Cardinality(Run(U, ledger[e].peak, d)) = DeactivationSessions)
<1> DEFINE h == Ledger!History(d)
           q == [date |-> d, net |-> U[d].net]
           prior == IF h = <<>> THEN None ELSE Head(h).peak
           new == U[d].peak
<1>1. q.net \in Int /\ q.net = U[d].net /\ q.date = d
  OBVIOUS
<1>2. DOMAIN ledger = Days /\ U = [x \in Days |-> U[x]]
  BY DEF Reassembled
<1>3. new = Ledger!ComputePeakScoreState(q, h, prior)
  OBVIOUS
<1> HIDE DEF new, prior, h, q
<1>4. ASSUME prior = None \/ prior = Ledger!Inactive
      PROVE  Capped(U, d) => Stands(U, new, d)
  <2>1. new = Ledger!Inactive \/ Begins(new, q)
    BY <1>1, <1>3, <1>4, PeakStarts
  <2> QED
    BY <1>2, <2>1, FreshStands DEF Capped, new, q
<1>5. CASE Before(d) = {}
  <2>1. prior = None
    BY <1>2, <1>5, HistoryAt DEF prior, h
  <2> QED
    BY <1>4, <1>5, <2>1 DEF new
<1>6. CASE Before(d) # {}
  <2>1. PICK e \in Before(d) : (\A y \in Before(d) : y <= e) /\ prior = ledger[e].peak
    BY <1>2, <1>6, HistoryHead DEF prior, h
  <2>2. e \in Sess(ledger) /\ e < d /\ \A x \in Sess(ledger) : x < d => x <= e
    BY <2>1 DEF Before, Sess
  <2>3. ASSUME NEW x \in Before(d), \A y \in Before(d) : y <= x PROVE x = e
    <3>1. x <= e /\ e <= x /\ x \in Nat /\ e \in Nat
      BY <1>2, <2>1, <2>3, BeforeIsFinite
    <3> QED
      BY <3>1
  <2>4. CASE ~Capped(ledger, e)
    <3>1. prior = Ledger!Inactive
      BY <2>1, <2>4 DEF Capped
    <3> QED
      BY <1>4, <2>3, <2>4, <3>1 DEF new
  <2>5. CASE Capped(ledger, e)
    <3> DEFINE level == Ledger!ThresholdForState(prior)
               below == prior.sessionsBelowThreshold + 1
               run == Run(U, prior, d)
    <3>1. Stands(ledger, prior, e)
      BY <2>1, <2>2, <2>5 DEF LedgerOK
    <3>2. /\ U[d].net >= level => run = {}
          /\ U[d].net < level => run = Run(ledger, prior, e) \cup {d}
          /\ IsFiniteSet(Run(ledger, prior, e)) /\ d \notin Run(ledger, prior, e)
      BY <2>2, <3>1, RunGrows
    <3>3. /\ Ceiling(prior) /\ prior.sessionsBelowThreshold \in Nat /\ below \in Nat
          /\ below = Cardinality(Run(ledger, prior, e)) + 1 /\ below <= DeactivationSessions
      BY <3>1, <3>2, FS_CardinalityType DEF Stands, LedgerAssumptions
    <3>4. /\ U[d].net >= level => Cardinality(run) = 0
          /\ U[d].net < level => Cardinality(run) = below
      <4>1. U[d].net >= level => Cardinality(run) = 0
        BY <3>2, FS_EmptySet
      <4>2. Cardinality(Run(ledger, prior, e) \cup {d}) = below
        BY <3>2, <3>3, FS_AddElement
      <4> HIDE DEF level, run, below
      <4> QED
        BY <3>2, <4>1, <4>2
    <3>5. level \in {9, 10} /\ level <= prior.peakNetScore /\ prior.peakNetScore \in Int
      BY <3>3 DEF Ceiling, Ledger!ThresholdForState
    <3>6. \E n \in Ledger!NetsOf(Ledger!Window(h)) : n \in Int /\ n >= level
      BY <2>1, <2>5, LevelIsSeen DEF h
    <3>7. \/ Begins(new, q) /\ q.net > prior.peakNetScore
          \/ Continues(new, prior, 0) /\ q.net >= level /\ q.net <= prior.peakNetScore
          \/ new = Ledger!Inactive /\ q.net < level /\ below >= DeactivationSessions
          \/ Continues(new, prior, below) /\ q.net < level /\ below < DeactivationSessions
      <4> HIDE DEF level
      <4>1. level = 10 => \E n \in Ledger!NetsOf(Ledger!Window(h)) : n \in Int /\ n >= 10
        BY <3>6
      <4> QED
        BY <1>1, <1>3, <3>3, <4>1, PeakGoesOn DEF level
    <3> SUFFICES /\ Capped(U, d) => Stands(U, new, d)
                 /\ ~Capped(U, d) <=> Cardinality(run) = DeactivationSessions
      BY <2>1, <2>3 DEF new
    <3>8. DeactivationSessions \in Nat \ {0}
      BY DEF LedgerAssumptions
    <3>9. \A p : Ceiling(p) => p # Ledger!Inactive
      <4>1. \A p : Ceiling(p) => p.status = "active"
        BY DEF Ceiling
      <4>2. Ledger!Inactive.status = "inactive"
        BY DEF Ledger!Inactive
      <4> QED
        BY <4>1, <4>2
    <3> HIDE DEF level, below, run
    <3>10. CASE Begins(new, q) /\ q.net > prior.peakNetScore
      <4>1. Stands(U, new, d)
        BY <1>2, <3>10, FreshStands DEF new, q
      <4>2. U[d].net >= level
        BY <1>1, <3>5, <3>10
      <4>3. Capped(U, d)
        BY <3>9, <3>10 DEF Begins, Capped, new
      <4> QED
        BY <3>4, <3>8, <4>1, <4>2, <4>3
    <3>11. CASE Continues(new, prior, 0) /\ q.net >= level /\ q.net <= prior.peakNetScore
      <4>1. Cardinality(run) = 0 /\ 0 < DeactivationSessions
        BY <1>1, <3>4, <3>8, <3>11
      <4>2. Stands(U, new, d)
        BY <1>1, <2>2, <3>1, <3>11, <4>1, ContinuedStands DEF run
      <4>3. Capped(U, d)
        BY <3>9, <3>11 DEF Continues, Capped, new
      <4> QED
        BY <3>8, <4>1, <4>2, <4>3
    <3>12. CASE new = Ledger!Inactive /\ q.net < level /\ below >= DeactivationSessions
      <4>1. Cardinality(run) = DeactivationSessions
        BY <1>1, <3>3, <3>4, <3>8, <3>12
      <4> QED
        BY <3>12, <4>1 DEF Capped, new
    <3>13. CASE Continues(new, prior, below) /\ q.net < level /\ below < DeactivationSessions
      <4>1. Cardinality(run) = below /\ U[d].net <= prior.peakNetScore
        BY <1>1, <3>4, <3>5, <3>13
      <4>2. Stands(U, new, d)
        BY <2>2, <3>1, <3>13, <4>1, ContinuedStands DEF run
      <4>3. Capped(U, d)
        BY <3>9, <3>13 DEF Continues, Capped, new
      <4> QED
        BY <3>3, <3>8, <3>13, <4>1, <4>2, <4>3
    <3> QED
      BY <3>7, <3>10, <3>11, <3>12, <3>13
  <2> QED
    BY <2>4, <2>5
<1> QED
  BY <1>5, <1>6
(* A day is assembled when no later one was, or again while none is.        *)
AssembleLatest ==
  \E d \in Days, b \in Breakdowns : \E raw, scores :
    /\ \A e \in Ledger!Sessions : e <= d
    /\ Ledger!AssembleScorecard(d, b, raw, scores)
LedgerSpec == Ledger!Init(Days) /\ [][AssembleLatest]_ledger

LEMMA LedgerStep ==
  ASSUME DaysAndNone, LedgerAssumptions, LedgerOK(ledger), [AssembleLatest]_ledger
  PROVE  LedgerOK(ledger')
<1>1. CASE UNCHANGED ledger
  BY <1>1
<1>2. CASE AssembleLatest
  <2>1. PICK d \in Days, b \in Breakdowns : \E raw, scores :
          (\A e \in Ledger!Sessions : e <= d) /\ Ledger!AssembleScorecard(d, b, raw, scores)
    BY <1>2 DEF AssembleLatest
  <2>2. PICK raw, scores :
          (\A e \in Ledger!Sessions : e <= d) /\ Ledger!AssembleScorecard(d, b, raw, scores)
    BY <2>1
  <2>3. PICK c : c = Ledger!Card(d, b, raw, scores)
    OBVIOUS
  <2>4. PICK U : U = ledger'
    OBVIOUS
  <2>5. U = [ledger EXCEPT ![d] = c]
    BY <2>2, <2>3, <2>4 DEF Ledger!AssembleScorecard
  <2>6. /\ c.net \in Int
        /\ LET h == Ledger!History(d) IN
             c.peak = Ledger!ComputePeakScoreState([date |-> d, net |-> c.net], h,
                                                   IF h = <<>> THEN None ELSE Head(h).peak)
    <3>1. Ledger!SumScoresByCodes(b, Ledger!DOMESTIC_INDICATORS) \in Int
          /\ Ledger!SumScoresByCodes(b, Ledger!EXTERNAL_INDICATORS) \in Int
      BY ScoresAddUp, FiniteCodes
    <3> QED
      BY <2>3, <3>1 DEF Ledger!Card
  <2>7. ledger = [x \in Days |-> ledger[x]]
    BY DEF LedgerOK
  <2>8. U = [x \in Days |-> U[x]] /\ U[d] = c /\ \A x \in Days : x # d => U[x] = ledger[x]
    BY <2>5, <2>7
  <2>9. Reassembled(ledger, U, d)
    BY <2>2, <2>7, <2>8 DEF Reassembled, Ledger!Sessions, Sess
  <2>10. ASSUME NEW x \in Sess(U)
         PROVE  U[x].net \in Int /\ (Capped(U, x) => Stands(U, U[x].peak, x))
    <3>1. CASE x = d
      BY <2>6, <2>8, <2>9, <2>10, <3>1, DayStands
    <3>2. CASE x # d
      <4>1. x \in Sess(ledger) /\ x < d /\ U[x] = ledger[x]
        BY <2>9, <2>10, <3>2, Earlier
      <4>2. ledger[x].net \in Int /\ (Capped(ledger, x) => Stands(ledger, ledger[x].peak, x))
        BY <4>1 DEF LedgerOK
      <4> QED
        BY <2>9, <4>1, <4>2, StandingKept DEF Capped
    <3> QED
      BY <3>1, <3>2
  <2>11. ASSUME NEW x \in Sess(U), NEW e \in Sess(U), Follows(U, e, x), Capped(U, e)
         PROVE  ~Capped(U, x) <=> Cardinality(Run(U, U[e].peak, x)) = DeactivationSessions
    <3>0. x \in Nat /\ e \in Nat /\ e < x /\ x <= d /\ d \in Nat
      BY <2>9, <2>11, Earlier DEF Follows
    <3>1. e \in Sess(ledger) /\ e < d /\ U[e] = ledger[e] /\ Capped(ledger, e)
      BY <2>9, <2>11, <3>0, Earlier DEF Capped
    <3>2. CASE x = d
      <4>1. e \in Before(d)
        BY <2>7, <3>1 DEF Before, Sess
      <4>2. ASSUME NEW y \in Before(d) PROVE y <= e
        <5>1. y \in Sess(ledger) /\ y < d
          BY <2>7, <4>2 DEF Before, Sess
        <5>2. y \in Sess(U) /\ y \in Nat
          BY <2>9, <5>1, Earlier
        <5>3. ~(e < y)
          BY <2>11, <3>2, <5>1, <5>2 DEF Follows
        <5> QED
          BY <3>0, <5>2, <5>3
      <4> QED
        BY <2>6, <2>8, <2>9, <2>11, <3>1, <3>2, <4>1, <4>2, DayStands
    <3>3. CASE x # d
      <4>1. x \in Sess(ledger) /\ x < d /\ U[x] = ledger[x]
        BY <2>9, <3>0, <3>3, Earlier
      <4>2. Follows(ledger, e, x)
        <5>1. \A f \in Sess(ledger) : f < x => f \in Sess(U)
          BY <2>9, <3>0, Earlier
        <5> QED
          BY <2>11, <5>1 DEF Follows
      <4>3. ~Capped(ledger, x) <=>
              Cardinality(Run(ledger, ledger[e].peak, x)) = DeactivationSessions
        BY <3>1, <4>1, <4>2 DEF LedgerOK, Lapses
      <4> QED
        BY <2>9, <3>1, <4>1, <4>3, RunKept DEF Capped
    <3> QED
      BY <3>2, <3>3
  <2> QED
    BY <2>4, <2>8, <2>10, <2>11 DEF LedgerOK, Lapses
<1> QED
  BY <1>1, <1>2

(* A peak score ceiling in force is the highest net since its own date, and *)
(* it lapses exactly on the session that completes DeactivationSessions in  *)
(* a row below the level it was entered at, whatever days are left out and  *)
(* however often the last one is assembled again.                           *)
THEOREM CeilingsHoldAlways ==
  ASSUME DaysAndNone, LedgerAssumptions
  PROVE  LedgerSpec => [](Ledger!PeakIsHighest /\ Ledger!LapsesOnFullRun)
<1>1. Ledger!Init(Days) => LedgerOK(ledger)
  <2> SUFFICES ASSUME Ledger!Init(Days) PROVE LedgerOK(ledger)
    OBVIOUS
  <2>1. ledger = [d \in Days |-> None]
    BY DEF Ledger!Init
  <2>2. Sess(ledger) = {}
    BY <2>1 DEF Sess
  <2> QED
    BY <2>1, <2>2 DEF LedgerOK, Lapses
<1>2. LedgerOK(ledger) /\ [AssembleLatest]_ledger => LedgerOK(ledger)'
  BY LedgerStep
<1>3. LedgerOK(ledger) => Ledger!PeakIsHighest /\ Ledger!LapsesOnFullRun
  <2> SUFFICES ASSUME LedgerOK(ledger) PROVE Ledger!PeakIsHighest /\ Ledger!LapsesOnFullRun
    OBVIOUS
  <2>1. Ledger!Sessions = Sess(ledger) /\ \A d : Ledger!IsActive(d) <=> Capped(ledger, d)
    BY DEF Ledger!Sessions, Sess, Ledger!IsActive, Capped
  <2>2. \A d \in Sess(ledger) : Capped(ledger, d) => Stands(ledger, ledger[d].peak, d)
    BY DEF LedgerOK
  <2>3. Ledger!PeakIsHighest
    BY <2>1, <2>2 DEF Ledger!PeakIsHighest, Stands
  <2>4. Lapses(ledger)
    BY DEF LedgerOK
  <2>5. Ledger!LapsesOnFullRun
    BY <2>1, <2>4, SameCardinality DEF Ledger!LapsesOnFullRun, Lapses, Follows, Run
  <2> QED
    BY <2>3, <2>5
<1> QED
  BY <1>1, <1>2, <1>3, PTL DEF LedgerSpec
-------------------------------------------------------------------------------
(* CompassInputs.  A run that no other overlaps reads the rows the curve    *)
(* depends on when nobody is left to rewrite them before the curve's own    *)
(* row is stored.                                                           *)
CONSTANTS Calendar, AvgObs, SmaObs, MoveObs, DeltaObs, CurveObs, ShockObs,
          Procs, Registry, DependsOn, Prints
VARIABLES print, inputRows, ingest, astray
Inputs == INSTANCE CompassInputs WITH rows <- inputRows, run <- ingest

Stack == "US_DATA_STACK"
Yield == "REAL_YIELD_SHOCK"
Curve == "YIELD_2S10S"

(* Behind the curve none of the three comes again.                          *)
CurveLast(s) ==
  \A i, j \in 1..Len(s) : s[i] = Curve /\ s[j] \in {Stack, Yield, Curve} => j <= i
Holds(s, c) == \E i \in 1..Len(s) : s[i] = c

(* The registry has an order, with the three in it; what is published does  *)
(* not look like what is read of the rows; None is no run.                  *)
RegistryIsOrdered ==
  /\ LET order == Inputs!OrderedCompassInputs(Registry, DependsOn)
     IN /\ order \in Seq(Inputs!Codes) /\ CurveLast(order)
        /\ {Stack, Yield, Curve} \subseteq Inputs!Codes /\ Holds(order, Curve)
  /\ \A x \in Prints : "inside" \notin DOMAIN x
  /\ \A l, g, a : [left |-> l, got |-> g, alone |-> a] # None

(* What is left of a run: with one of the three the curve is still to come. *)
LeftOK(s) ==
  /\ s \in Seq(Inputs!Codes) /\ CurveLast(s)
  /\ \A c \in {Stack, Yield} : Holds(s, c) => Holds(s, Curve)

ShockBand == IF inputRows[Yield] = None THEN None ELSE inputRows[Yield].colour
ReadsStill(r) == r.left # <<>> /\ Head(r.left) = Curve
                 /\ r.got.jobs = inputRows[Stack].jobs /\ r.got.shock = ShockBand
Agrees == inputRows[Curve] # None =>
            inputRows[Curve].jobs = inputRows[Stack].jobs /\ inputRows[Curve].shock = ShockBand

RunOK(p) ==
  LET r == ingest[p]
  IN /\ r = [left |-> r.left, got |-> r.got, alone |-> r.alone] /\ r.alone \in BOOLEAN
     /\ LeftOK(r.left)
     /\ r.alone => \A q \in Procs \ {p} : ingest[q] = None
     /\ ~r.alone => astray
     /\ r.alone /\ r.got # None /\ "inside" \in DOMAIN r.got => ReadsStill(r)

CurveInv ==
  /\ inputRows = [c \in Inputs!Codes |-> inputRows[c]]
  /\ ingest = [p \in Procs |-> ingest[p]]
  /\ print \in Prints
  /\ \A p \in Procs : ingest[p] # None => RunOK(p)
  /\ ~astray /\ (\A p \in Procs : ingest[p] # None => ~Holds(ingest[p].left, Curve)) => Agrees

LEMMA LeftGoesOn ==
  ASSUME NEW s, LeftOK(s), s # <<>>
  PROVE  /\ LeftOK(Tail(s)) /\ Head(s) \in Inputs!Codes
         /\ Holds(Tail(s), Curve) <=> (Holds(s, Curve) /\ Head(s) # Curve)
         /\ Head(s) \in {Stack, Yield} => Holds(Tail(s), Curve)
<1>1. /\ s \in Seq(Inputs!Codes) /\ Len(s) \in Nat /\ Len(s) >= 1 /\ Head(s) = s[1]
      /\ Tail(s) \in Seq(Inputs!Codes) /\ Len(Tail(s)) = Len(s) - 1
      /\ \A i \in 1..Len(Tail(s)) : Tail(s)[i] = s[i + 1] /\ i + 1 \in 1..Len(s)
      /\ Head(s) \in Inputs!Codes
  BY DEF LeftOK
<1>2. CurveLast(Tail(s))
  <2> SUFFICES ASSUME NEW i \in 1..Len(Tail(s)), NEW j \in 1..Len(Tail(s)),
                      Tail(s)[i] = Curve, Tail(s)[j] \in {Stack, Yield, Curve}
               PROVE  j <= i
    BY DEF CurveLast
  <2>1. s[i + 1] = Curve /\ s[j + 1] \in {Stack, Yield, Curve}
        /\ i + 1 \in 1..Len(s) /\ j + 1 \in 1..Len(s)
    BY <1>1
  <2>2. j + 1 <= i + 1
    BY <2>1 DEF LeftOK, CurveLast
  <2> QED
    BY <2>2
<1>3. \A c : Holds(Tail(s), c) => Holds(s, c)
  BY <1>1 DEF Holds
<1>4. \A c : Holds(s, c) /\ Head(s) # c => Holds(Tail(s), c)
  <2> SUFFICES ASSUME NEW c, NEW i \in 1..Len(s), s[i] = c, Head(s) # c PROVE Holds(Tail(s), c)
    BY DEF Holds
  <2>1. i # 1 /\ i - 1 \in 1..Len(Tail(s)) /\ (i - 1) + 1 = i
    BY <1>1
  <2>2. Tail(s)[i - 1] = c
    BY <1>1, <2>1
  <2> QED
    BY <2>1, <2>2 DEF Holds
<1>5. ASSUME Head(s) = Curve, NEW c \in {Stack, Yield, Curve} PROVE ~Holds(Tail(s), c)
  <2> SUFFICES ASSUME NEW i \in 1..Len(Tail(s)), Tail(s)[i] = c PROVE FALSE
    BY DEF Holds
  <2>1. i + 1 \in 1..Len(s) /\ s[i + 1] = c /\ s[1] = Curve /\ 1 \in 1..Len(s)
    BY <1>1, <1>5
  <2>2. i + 1 <= 1
    BY <1>5, <2>1 DEF LeftOK, CurveLast
  <2> QED
    BY <2>2
<1>6. Head(s) \in {Stack, Yield} => Holds(s, Curve) /\ Head(s) # Curve
  <2>1. Holds(s, Head(s))
    BY <1>1 DEF Holds
  <2> QED
    BY <2>1 DEF LeftOK, Stack, Yield, Curve
<1>7. \A c \in {Stack, Yield} : Holds(Tail(s), c) => Holds(Tail(s), Curve)
  BY <1>3, <1>4, <1>5 DEF LeftOK
<1> QED
  BY <1>1, <1>2, <1>3, <1>4, <1>5, <1>6, <1>7 DEF LeftOK

(* Two runs at once are alone no more.                                      *)
LEMMA RunsApart ==
  ASSUME CurveInv, NEW p \in Procs, NEW q \in Procs, p # q, ingest[p] # None, ingest[q] # None
  PROVE  ~ingest[p].alone /\ ~ingest[q].alone /\ astray
BY DEF CurveInv, RunOK

LEMMA RunsOfOthers ==
  ASSUME CurveInv, NEW p \in Procs, ingest[p] # None, NEW r, ingest' = [ingest EXCEPT ![p] = r],
         inputRows' = [c \in Inputs!Codes |-> inputRows'[c]], print' \in Prints,
         astray /\ ~ingest[p].alone => astray', r # None => RunOK(p)'
  PROVE  \A q \in Procs : ingest'[q] # None => RunOK(q)'
<1> SUFFICES ASSUME NEW q \in Procs, q # p, ingest'[q] # None PROVE RunOK(q)'
  BY DEF CurveInv
<1>1. ingest'[q] = ingest[q] /\ ingest[q] # None
  BY DEF CurveInv
<1>2. ~ingest[q].alone /\ astray'
  BY <1>1, RunsApart
<1> QED
  BY <1>1, <1>2 DEF CurveInv, RunOK

LEMMA CurveStart ==
  ASSUME RegistryIsOrdered, CurveInv, NEW p \in Procs, Inputs!Start(p) PROVE CurveInv'
<1> DEFINE order == Inputs!OrderedCompassInputs(Registry, DependsOn)
           others == {q \in Procs : ingest[q] # None}
           r == [left |-> order, got |-> None, alone |-> others = {}]
<1>1. /\ ingest[p] = None /\ astray' = (astray \/ others # {}) /\ UNCHANGED <<print, inputRows>>
      /\ ingest' = [q \in Procs |-> IF q = p THEN r
                                    ELSE IF q \in others THEN [ingest[q] EXCEPT !.alone = FALSE]
                                    ELSE None]
  BY DEF Inputs!Start
<1>2. LeftOK(order) /\ Holds(order, Curve)
  BY DEF RegistryIsOrdered, LeftOK
<1> HIDE DEF order
<1>3. r # None
  BY DEF RegistryIsOrdered
<1>4. ASSUME NEW q \in others
      PROVE  ingest'[q] = [left |-> ingest[q].left, got |-> ingest[q].got, alone |-> FALSE]
             /\ LeftOK(ingest[q].left)
  <2>1. q # p /\ RunOK(q)
    BY <1>1 DEF CurveInv
  <2>2. ingest'[q] = [ingest[q] EXCEPT !.alone = FALSE]
    BY <1>1, <1>4, <2>1
  <2> QED
    BY <2>1, <2>2 DEF RunOK
<1>5. \A q \in Procs : ingest'[q] # None => RunOK(q)'
  <2>1. CASE others = {}
    <3>1. \A q \in Procs \ {p} : ingest'[q] = None
      BY <1>1, <2>1
    <3>2. ingest'[p] = [left |-> order, got |-> None, alone |-> TRUE]
      BY <1>1, <2>1
    <3>3. RunOK(p)'
      BY <1>2, <3>1, <3>2 DEF RunOK
    <3> QED
      BY <3>1, <3>3
  <2>2. CASE others # {}
    <3>1. astray'
      BY <1>1, <2>2
    <3>2. ingest'[p] = [left |-> order, got |-> None, alone |-> FALSE]
      BY <1>1, <2>2
    <3>3. RunOK(p)'
      BY <1>2, <3>1, <3>2 DEF RunOK
    <3>4. ASSUME NEW q \in Procs, q # p, ingest'[q] # None PROVE RunOK(q)'
      <4>1. q \in others
        BY <1>1, <3>4
      <4>2. PICK l, g : ingest'[q] = [left |-> l, got |-> g, alone |-> FALSE] /\ LeftOK(l)
        BY <1>4, <4>1
      <4> QED
        BY <3>1, <4>2 DEF RunOK
    <3> QED
      BY <3>3, <3>4
  <2> QED
    BY <2>1, <2>2
<1>6. ingest'[p] = r
  BY <1>1
<1> HIDE DEF r, others
<1>7. ~(\A q \in Procs : ingest'[q] # None => ~Holds(ingest'[q].left, Curve))
  BY <1>2, <1>3, <1>6 DEF r
<1>8. ingest' = [q \in Procs |-> ingest'[q]]
  BY <1>1
<1> QED
  BY <1>1, <1>5, <1>7, <1>8 DEF CurveInv

LEMMA CurveFetches ==
  ASSUME RegistryIsOrdered, CurveInv, NEW p \in Procs,
         Inputs!Fetch(p) \/ Inputs!ReadDependencies(p)
  PROVE  CurveInv'
<1> DEFINE r == ingest[p]
<1>1. r # None /\ RunOK(p) /\ UNCHANGED <<print, inputRows, astray>>
  BY DEF Inputs!Fetch, Inputs!ReadDependencies, CurveInv
<1>2. PICK g : /\ ingest' = [ingest EXCEPT ![p] = [left |-> r.left, got |-> g, alone |-> r.alone]]
               /\ "inside" \in DOMAIN g => ReadsStill([r EXCEPT !.got = g])
  <2>1. CASE Inputs!Fetch(p)
    <3>1. ingest' = [ingest EXCEPT ![p] = [r EXCEPT !.got = print]]
      BY <2>1 DEF Inputs!Fetch
    <3>2. "inside" \notin DOMAIN print
      BY DEF CurveInv, RegistryIsOrdered
    <3>3. [r EXCEPT !.got = print] = [left |-> r.left, got |-> print, alone |-> r.alone]
      BY <1>1 DEF RunOK
    <3> QED
      BY <3>1, <3>2, <3>3
  <2>2. CASE Inputs!ReadDependencies(p)
    <3> DEFINE g == [jobs |-> inputRows[Stack].jobs, shock |-> ShockBand,
                     inside |-> r.got.inWindow]
    <3>1. /\ ingest' = [ingest EXCEPT ![p] = [r EXCEPT !.got = g]]
          /\ r.left # <<>> /\ Head(r.left) = Curve
      BY <2>2 DEF Inputs!ReadDependencies, ShockBand, Stack, Yield, Curve
    <3>2. [r EXCEPT !.got = g] = [left |-> r.left, got |-> g, alone |-> r.alone]
      BY <1>1 DEF RunOK
    <3>3. ReadsStill([r EXCEPT !.got = g])
      BY <3>1, <3>2 DEF ReadsStill
    <3> QED
      BY <3>1, <3>2, <3>3
  <2> QED
    BY <2>1, <2>2
<1> DEFINE n == [left |-> r.left, got |-> g, alone |-> r.alone]
<1>3. n = [r EXCEPT !.got = g]
  BY <1>1 DEF RunOK
<1>4. ingest'[p] = n /\ \A q \in Procs : q # p => ingest'[q] = ingest[q]
  BY <1>2 DEF CurveInv
<1>5. RunOK(p)'
  <2>1. "inside" \in DOMAIN g => ReadsStill(n)'
    BY <1>1, <1>2, <1>3 DEF ReadsStill, ShockBand
  <2> QED
    BY <1>1, <1>4, <2>1 DEF RunOK
<1>6. n # None
  BY DEF RegistryIsOrdered
<1>7. \A q \in Procs : ingest'[q] # None => RunOK(q)'
  BY <1>1, <1>2, <1>5, RunsOfOthers DEF CurveInv
<1>8. ~astray' /\ (\A q \in Procs : ingest'[q] # None => ~Holds(ingest'[q].left, Curve)) => Agrees'
  <2> SUFFICES ASSUME ~astray', \A q \in Procs : ingest'[q] # None => ~Holds(ingest'[q].left, Curve)
               PROVE  Agrees'
    OBVIOUS
  <2>1. ~astray /\ \A q \in Procs : ingest[q] # None => ~Holds(ingest[q].left, Curve)
    BY <1>1, <1>4, <1>6
  <2> QED
    BY <1>1, <2>1 DEF CurveInv, Agrees, ShockBand
<1> QED
  BY <1>1, <1>2, <1>7, <1>8 DEF CurveInv

(* An input is done with, stored or not.                                    *)
LEMMA NextInput ==
  ASSUME RegistryIsOrdered, CurveInv, NEW p \in Procs, ingest[p] # None, ingest[p].left # <<>>,
         ingest' = [ingest EXCEPT ![p].left = Tail(@), ![p].got = None],
         inputRows' = [c \in Inputs!Codes |-> inputRows'[c]], UNCHANGED print,
         astray /\ ~ingest[p].alone => astray', ~ingest[p].alone => astray',
         Head(ingest[p].left) # Curve => (astray => astray'),
         \A c \in Inputs!Codes : c # Head(ingest[p].left) => inputRows'[c] = inputRows[c],
         Head(ingest[p].left) = Curve => astray' \/ Agrees'
  PROVE  CurveInv'
<1> DEFINE r == ingest[p]
           n == [left |-> Tail(r.left), got |-> None, alone |-> r.alone]
           code == Head(r.left)
<1>1. RunOK(p)
  BY DEF CurveInv
<1>2. /\ LeftOK(n.left) /\ code \in Inputs!Codes
      /\ Holds(n.left, Curve) <=> (Holds(r.left, Curve) /\ code # Curve)
      /\ code \in {Stack, Yield} => Holds(n.left, Curve)
  BY <1>1, LeftGoesOn DEF RunOK
<1>3. ingest' = [ingest EXCEPT ![p] = n]
  <2>1. r = [left |-> r.left, got |-> r.got, alone |-> r.alone]
    BY <1>1 DEF RunOK
  <2>2. [r EXCEPT !.left = Tail(@), !.got = None] = n
    <3> DEFINE e == [r EXCEPT !.left = Tail(@), !.got = None]
    <3>1. PICK l, g, a : r = [left |-> l, got |-> g, alone |-> a]
      BY <2>1
    <3> HIDE DEF r
    <3>2. DOMAIN r = {"left", "got", "alone"} /\ r.left = l /\ r.alone = a
          /\ r = [f \in DOMAIN r |-> r[f]]
      BY <3>1
    <3>3. e = [f \in DOMAIN r |-> e[f]] /\ e.left = Tail(l) /\ e.got = None /\ e.alone = a
      BY <3>2
    <3> HIDE DEF e
    <3>4. e = [left |-> Tail(l), got |-> None, alone |-> a]
      BY <3>2, <3>3
    <3> QED
      BY <3>2, <3>4 DEF e
  <2>3. ingest' = [ingest EXCEPT ![p] = [r EXCEPT !.left = Tail(@), !.got = None]]
    BY DEF CurveInv
  <2> QED
    BY <2>2, <2>3
<1>4. n # None
  BY DEF RegistryIsOrdered
<1>5. ingest'[p] = n /\ \A q \in Procs : q # p => ingest'[q] = ingest[q]
  BY <1>3 DEF CurveInv
<1>6. RunOK(p)'
  <2>1. PICK l, a : /\ ingest'[p] = [left |-> l, got |-> None, alone |-> a]
                    /\ l = n.left /\ a = r.alone
    BY <1>5
  <2>2. LeftOK(l) /\ a \in BOOLEAN /\ (~a => astray')
    BY <1>1, <1>2, <2>1 DEF RunOK
  <2>3. a => \A q \in Procs \ {p} : ingest'[q] = None
    BY <1>1, <1>5, <2>1 DEF RunOK
  <2> QED
    BY ONLY <2>1, <2>2, <2>3 DEF RunOK
<1>7. \A q \in Procs : ingest'[q] # None => RunOK(q)'
  BY <1>3, <1>6, RunsOfOthers DEF CurveInv
<1>8. ASSUME ~astray', \A q \in Procs : ingest'[q] # None => ~Holds(ingest'[q].left, Curve)
      PROVE  Agrees'
  <2>1. CASE code = Curve
    BY <1>8, <2>1
  <2>2. CASE code # Curve
    <3>1. ~Holds(n.left, Curve)
      BY <1>4, <1>5, <1>8
    <3>2. ~Holds(r.left, Curve) /\ code \notin {Stack, Yield}
      BY <1>2, <2>2, <3>1
    <3>3. ~astray
      BY <1>8, <2>2
    <3>7. ASSUME NEW q \in Procs, ingest[q] # None PROVE ~Holds(ingest[q].left, Curve)
      <4>1. CASE q = p
        BY <3>2, <4>1
      <4>2. CASE q # p
        BY <1>5, <1>8, <3>7, <4>2
      <4> QED
        BY <4>1, <4>2
    <3>4. {Stack, Yield, Curve} \subseteq Inputs!Codes
      BY DEF RegistryIsOrdered
    <3>5. \A c \in {Stack, Yield, Curve} : inputRows'[c] = inputRows[c]
      BY <2>2, <3>2, <3>4
    <3>6. Agrees
      BY <3>3, <3>7 DEF CurveInv
    <3> QED
      BY <3>5, <3>6 DEF Agrees, ShockBand
  <2> QED
    BY <2>1, <2>2
<1> QED
  BY <1>3, <1>7, <1>8 DEF CurveInv

LEMMA CurveUpsert ==
  ASSUME RegistryIsOrdered, CurveInv, NEW p \in Procs, Inputs!Upsert(p) PROVE CurveInv'
<1> DEFINE r == ingest[p]
           code == Head(r.left)
           row == Inputs!RowOf(code, r.got)
<1>1. /\ r # None /\ r.left # <<>> /\ r.got # None /\ UNCHANGED print
      /\ (code = Curve) <=> ("inside" \in DOMAIN r.got)
      /\ inputRows' = [inputRows EXCEPT ![code] = row]
      /\ ingest' = [ingest EXCEPT ![p].left = Tail(@), ![p].got = None]
      /\ astray' = IF code = Curve THEN ~r.alone ELSE astray
  BY DEF Inputs!Upsert, Inputs!Upserted, Curve
<1>2. RunOK(p)
  BY <1>1 DEF CurveInv
<1>3. code \in Inputs!Codes
  BY <1>1, <1>2, LeftGoesOn DEF RunOK
<1> HIDE DEF row
<1>4. /\ inputRows' = [c \in Inputs!Codes |-> inputRows'[c]] /\ inputRows'[code] = row
      /\ \A c \in Inputs!Codes : c # code => inputRows'[c] = inputRows[c]
  BY <1>1, <1>3 DEF CurveInv
<1>5. ASSUME code = Curve, ~astray' PROVE Agrees'
  <2>1. r.alone /\ ReadsStill(r)
    BY <1>1, <1>2, <1>5 DEF RunOK
  <2>2. row.jobs = r.got.jobs /\ row.shock = r.got.shock
    BY <1>5 DEF row, Inputs!RowOf, Curve
  <2>3. inputRows'[Stack] = inputRows[Stack] /\ inputRows'[Yield] = inputRows[Yield]
    BY <1>4, <1>5 DEF RegistryIsOrdered, Stack, Yield, Curve
  <2>4. inputRows'[Curve] = row
    BY <1>4, <1>5
  <2> QED
    BY <2>1, <2>2, <2>3, <2>4 DEF Agrees, ShockBand, ReadsStill
<1>6. ~r.alone => astray'
  BY <1>1, <1>2 DEF RunOK
<1> QED
  BY <1>1, <1>4, <1>5, <1>6, NextInput

LEMMA CurveFails ==
  ASSUME RegistryIsOrdered, CurveInv, NEW p \in Procs, Inputs!Fail(p) PROVE CurveInv'
<1>1. /\ ingest[p] # None /\ ingest[p].left # <<>> /\ UNCHANGED <<print, inputRows>>
      /\ ingest' = [ingest EXCEPT ![p].left = Tail(@), ![p].got = None]
      /\ astray' = (astray \/ Head(ingest[p].left) = Curve)
  BY DEF Inputs!Fail, Curve
<1>2. RunOK(p)
  BY <1>1 DEF CurveInv
<1>3. ~ingest[p].alone => astray'
  BY <1>1, <1>2 DEF RunOK
<1>4. Head(ingest[p].left) # Curve => (astray => astray')
  BY <1>1
<1> QED
  BY <1>1, <1>3, <1>4, NextInput DEF CurveInv

LEMMA CurveEnds ==
  ASSUME CurveInv, NEW p \in Procs, Inputs!Complete(p) \/ Inputs!Crash(p) PROVE CurveInv'
<1>1. /\ ingest[p] # None /\ UNCHANGED <<print, inputRows>> /\ ingest' = [ingest EXCEPT ![p] = None]
      /\ astray => astray'
      /\ ~astray' => ~astray /\ ingest[p].left = <<>>
  BY DEF Inputs!Complete, Inputs!Crash
<1>2. \A q \in Procs : ingest'[q] # None => RunOK(q)'
  BY <1>1, RunsOfOthers DEF CurveInv
<1>3. ASSUME ~astray', \A q \in Procs : ingest'[q] # None => ~Holds(ingest'[q].left, Curve)
      PROVE  Agrees'
  <2>1. ~Holds(ingest[p].left, Curve)
    BY <1>1, <1>3 DEF Holds
  <2>2. \A q \in Procs : q # p => ingest'[q] = ingest[q]
    BY <1>1 DEF CurveInv
  <2>3. Agrees
    BY <1>1, <1>3, <2>1, <2>2 DEF CurveInv
  <2> QED
    BY <1>1, <2>3 DEF Agrees, ShockBand
<1> QED
  BY <1>1, <1>2, <1>3 DEF CurveInv

LEMMA CurveStep ==
  ASSUME RegistryIsOrdered, CurveInv, [Inputs!Next]_Inputs!vars PROVE CurveInv'
<1>1. CASE Inputs!Publish
  <2>1. print' \in Prints /\ UNCHANGED <<inputRows, ingest, astray>>
    BY <1>1 DEF Inputs!Publish
  <2> QED
    BY <2>1 DEF CurveInv, RunOK, ReadsStill, Agrees, ShockBand
<1>2. CASE UNCHANGED Inputs!vars
  BY <1>2 DEF Inputs!vars, CurveInv, RunOK, ReadsStill, Agrees, ShockBand
<1> QED
  BY <1>1, <1>2, CurveStart, CurveFetches, CurveUpsert, CurveFails, CurveEnds DEF Inputs!Next

(* Between runs the curve's row was scored with the bands its dependencies' *)
(* rows have, unless runs overlapped or the last one that rewrote them did  *)
(* not get the curve stored: for any prints that come out, any number of    *)
(* processes, and any failures and crashes among the inputs.                *)
THEOREM CurveFollowsItsInputsAlways ==
  ASSUME RegistryIsOrdered
  PROVE  Inputs!Init /\ [][Inputs!Next]_Inputs!vars => []Inputs!CurveFollowsItsInputs
<1>1. Inputs!Init => CurveInv
  <2> SUFFICES ASSUME Inputs!Init PROVE CurveInv
    OBVIOUS
  <2>1. inputRows[Curve] = None
    BY DEF Inputs!Init, RegistryIsOrdered
  <2> QED
    BY <2>1 DEF Inputs!Init, CurveInv, Agrees
<1>2. CurveInv /\ [Inputs!Next]_Inputs!vars => CurveInv'
  BY CurveStep
<1>3. CurveInv => Inputs!CurveFollowsItsInputs
  BY DEF CurveInv, Inputs!CurveFollowsItsInputs, Agrees, ShockBand, Stack, Yield, Curve
<1> QED
  BY <1>1, <1>2, <1>3, PTL
===============================================================================
