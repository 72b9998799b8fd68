----------------------------- MODULE SeriesIngests -----------------------------
(***************************************************************************)
(* The ingests of the NIFTY series, each the owner of its indicators.      *)
(* "fred" and "eodhd" fetch a range of dates and upsert every observation  *)
(* with the one before it as its previous value; "sma" stores FRED's       *)
(* two-year yield as its trailing average.  "yahoo" is Brent, the newest   *)
(* close only, with a check for a frozen feed; "crude" is Brent's spot     *)
(* price, dated in Indian time; "vix" is India VIX off the NSE, dated by   *)
(* the answer.                                                             *)
(*                                                                         *)
(* One indicator, its current rows.  A value is in tenths of the last      *)
(* decimal the column keeps; an average is kept as the sum it is taken of. *)
(***************************************************************************)
EXTENDS Integers, SequencesExt

CONSTANTS
  Kinds,            \* which ingest the indicator has
  Procs,            \* the cron and the admin's button
  LastDay, Values,  \* bounds: the days 1..LastDay, and what may be published for one
  Ranges,           \* explicit ranges <<from, to>> an admin may ask for
  Buffer,           \* REVISION_BUFFER_DAYS
  Lookback, Window, \* US_02Y_SMA_LOOKBACK_BUFFER_DAYS, US_02Y_SMA_WINDOW
  Threshold,        \* BRENT_STALENESS_CONSECUTIVE_THRESHOLD
  Gap,              \* FRED's "."
  None

VARIABLES
  kind,
  feed,      \* what is published of each day: a value, Gap, or None (yet)
  rows,      \* the current row of each day: [val, prev, flag], or None
  run,       \* each process: its range, what it fetched, what is left to store;
             \* ghost: whether it ran alone, with nothing published meanwhile
  settled    \* ghost: the days of the last run, if it was alone and without an
             \* error, and nothing has been published or started since

vars == <<kind, feed, rows, run, settled>>

Days      == 1..LastDay
Published == {d \in Days : feed[d] # None}
Observed  == {d \in Published : feed[d] # Gap}
HasRow    == {d \in Days : rows[d] # None}
Only(f, S) == [d \in S |-> f[d]]

Init ==
  /\ kind \in Kinds
  /\ \E v \in Values : feed = [d \in Days |-> IF d = 1 THEN v ELSE None]
  /\ rows = [d \in Days |-> None]
  /\ run = [p \in Procs |-> None]
  /\ settled = None

(* The next day, or a revision; a day without a value may have one later.   *)
Publish(d, v) ==
  /\ \/ d - 1 \in Published /\ d \notin Published
     \/ d \in Published /\ v # Gap /\ feed[d] # v
  /\ feed' = [feed EXCEPT ![d] = v]
  /\ run' = [p \in Procs |-> IF run[p] = None THEN None ELSE [run[p] EXCEPT !.alone = FALSE]]
  /\ settled' = None
  /\ UNCHANGED <<kind, rows>>
-------------------------------------------------------------------------------
(* Without a range: from some days before the newest row on, or the whole   *)
(* backfill.                                                                *)
ResolveDateRange(range) ==
  IF range # None THEN range
  ELSE <<IF HasRow = {} THEN 1 ELSE Max({1, Max(HasRow) - Buffer}), LastDay>>

FetchIndicator(p, range) ==
  LET others == {q \in Procs : run[q] # None}
      dates  == ResolveDateRange(range)
  IN /\ run[p] = None
     /\ run' = [q \in Procs |->
          IF q = p THEN [stage |-> "fetch", from |-> dates[1], to |-> dates[2], got |-> None,
                         points |-> <<>>, last |-> None, suspect |-> FALSE, errors |-> FALSE,
                         alone |-> others = {}]
          ELSE IF q \in others THEN [run[q] EXCEPT !.alone = FALSE] ELSE None]
     /\ settled' = None
     /\ UNCHANGED <<kind, feed, rows>>

(* What each source answers now: FRED the range, the gaps too, and for the  *)
(* average from further back; EODHD everything since, cut to the range here.*)
FredAnswers(r) == {Only(feed, Published \cap (r.from..r.to))}
SmaAnswers(r)  == {Only(feed, Published \cap ((r.from - Lookback)..r.to))}
EodhdAnswers(r) ==
  LET since == Only(feed, {d \in Observed : d >= r.from})
  IN {Only(since, {d \in DOMAIN since : d <= r.to})}

(* The newest close there is; the spot price of now, which is tomorrow in   *)
(* India late in the day; the newest VIX, of today if its date is unread.   *)
Newest == IF Observed = {} THEN {} ELSE {Max(Observed)}
YahooAnswers == {Only(feed, Newest) : d \in Newest}
Dated(days)  == {[e \in {day} |-> feed[d]] : d \in Newest, day \in days}
CrudeAnswers == Dated({d \in Days : d \in Newest \/ d - 1 \in Newest})
VixAnswers   == Dated(Newest \cup {Max(Published)})

Answers(r) ==
  CASE kind = "fred" -> FredAnswers(r) [] kind = "sma" -> SmaAnswers(r)
    [] kind = "eodhd" -> EodhdAnswers(r) [] kind = "yahoo" -> YahooAnswers
    [] kind = "crude" -> CrudeAnswers [] kind = "vix" -> VixAnswers

Fetch(p) ==
  /\ run[p] # None /\ run[p].stage = "fetch"
  /\ \E got \in Answers(run[p]) : run' = [run EXCEPT ![p].stage = "seed", ![p].got = got]
  /\ UNCHANGED <<kind, feed, rows, settled>>

(* A run that stores one row fails with it, whatever the step.              *)
Single == {"yahoo", "crude", "vix"}
RunFails(p) ==
  /\ run[p] # None /\ (run[p].stage = "fetch" \/ kind \in Single)
  /\ run' = [run EXCEPT ![p] = None]
  /\ UNCHANGED <<kind, feed, rows, settled>>

PriorValue(d) ==
  LET before == {e \in HasRow : e < d}
  IN IF before = {} THEN None ELSE rows[Max(before)].val

Seeded(p, points, last, suspect) ==
  /\ run' = [run EXCEPT ![p] = [@ EXCEPT !.stage = "store", !.got = DOMAIN @, !.points = points,
                                         !.last = last, !.suspect = suspect]]
  /\ UNCHANGED <<kind, feed, rows, settled>>

(* The observations with a value.  The chain of previous values starts from *)
(* the row before the first day fetched.                                    *)
Ascending(got) == SetToSortSeq({d \in DOMAIN got : got[d] # Gap}, <)
Points(got) == LET days == Ascending(got)
               IN [i \in DOMAIN days |-> [date |-> days[i], val |-> got[days[i]]]]
SeedChain(p) ==
  LET r == run[p]
  IN /\ r # None /\ r.stage = "seed" /\ kind \in {"fred", "eodhd"}
     /\ Seeded(p, Points(r.got),
               IF DOMAIN r.got = {} THEN None ELSE PriorValue(Min(DOMAIN r.got)), FALSE)

(* The averages that have a full window, from the range's first day on; the *)
(* chain starts from the last one before it, if there is one in reach.      *)
Average(got, days, i) == FoldLeft(LAMBDA a, d : a + got[d], 0, SubSeq(days, i - Window + 1, i))
Averages(got) ==
  LET days == Ascending(got)
  IN [i \in 1..(Len(days) - Window + 1) |->
        [date |-> days[i + Window - 1], val |-> Average(got, days, i + Window - 1)]]
SeedAverages(p) ==
  LET r == run[p]
      early == SelectSeq(Averages(r.got), LAMBDA o : o.date < r.from)
  IN /\ r # None /\ r.stage = "seed" /\ kind = "sma"
     /\ Seeded(p, SelectSeq(Averages(r.got), LAMBDA o : o.date >= r.from),
               IF early # <<>> THEN Last(early).val ELSE PriorValue(r.from), FALSE)

(* Frozen when the newest rows before the day all have the close, compared  *)
(* as it was fetched, with whatever precision.                              *)
DetectFrozenFeed(d, close) ==
  LET before == {e \in HasRow : e < d}
      recent == {e \in before : Cardinality({x \in before : x > e}) < Threshold}
  IN Cardinality(recent) = Threshold /\ \A e \in recent : rows[e].val = close
SeedYahoo(p) ==
  LET o == Head(Points(run[p].got))
  IN /\ run[p] # None /\ run[p].stage = "seed" /\ kind = "yahoo"
     /\ Seeded(p, <<o>>, PriorValue(o.date), DetectFrozenFeed(o.date, o.val))

SeedCrude(p) ==
  LET o == Head(Points(run[p].got))
  IN /\ run[p] # None /\ run[p].stage = "seed" /\ kind = "crude"
     /\ Seeded(p, <<o>>, PriorValue(o.date), FALSE)

SeedVix(p) == /\ run[p] # None /\ run[p].stage = "seed" /\ kind = "vix"
              /\ Seeded(p, Points(run[p].got), None, FALSE)
-------------------------------------------------------------------------------
(* The column rounds half up.                                               *)
Stored(v) == IF v = None THEN None ELSE ((v + 5) \div 10) * 10

(* A row that says the same already is left as it is, whatever the flag; a  *)
(* run that gives no previous value leaves the one there is.                *)
Upserted(row, val, prev, given, suspect) ==
  LET flag == IF suspect THEN "suspect" ELSE IF row = None THEN None ELSE "revised"
      kept == IF given THEN Stored(prev) ELSE IF row = None THEN None ELSE row.prev
  IN IF row # None /\ row.val = Stored(val) /\ row.prev = kept THEN row
     ELSE [val |-> Stored(val), prev |-> kept, flag |-> flag]

(* Variant: the chain goes on from where the run began.                     *)
NotChained(p) ==
  LET r == run[p]
      o == Head(r.points)
  IN /\ r # None /\ r.stage = "store" /\ r.points # <<>> /\ kind \notin Single
     /\ rows' = [rows EXCEPT ![o.date] = Upserted(@, o.val, r.last, TRUE, FALSE)]
     /\ run' = [run EXCEPT ![p].points = Tail(@)]
     /\ UNCHANGED <<kind, feed, settled>>

StorePoint(p) ==
  LET r == run[p]
      o == Head(r.points)
  IN /\ r # None /\ r.stage = "store" /\ r.points # <<>> /\ kind \notin Single
     /\ rows' = [rows EXCEPT ![o.date] = Upserted(@, o.val, r.last, TRUE, FALSE)]
     /\ run' = [run EXCEPT ![p].points = Tail(@), ![p].last = o.val]
     /\ UNCHANGED <<kind, feed, settled>>

(* An upsert that fails costs its row; the chain skips it.                  *)
StoreFails(p) ==
  /\ run[p] # None /\ run[p].stage = "store" /\ run[p].points # <<>> /\ kind \notin Single
  /\ run' = [run EXCEPT ![p].points = Tail(@), ![p].errors = TRUE]
  /\ UNCHANGED <<kind, feed, rows, settled>>

Ended(p) ==
  LET r == run[p]
  IN /\ run' = [run EXCEPT ![p] = None]
     /\ settled' = IF r.alone /\ ~r.errors THEN [from |-> r.from, days |-> r.got] ELSE None

StoreOne(p) ==
  LET r == run[p]
      o == Head(r.points)
  IN /\ r # None /\ r.stage = "store" /\ kind \in Single
     /\ rows' = [rows EXCEPT ![o.date] = Upserted(@, o.val, r.last, kind # "vix", r.suspect)]
     /\ Ended(p)
     /\ UNCHANGED <<kind, feed>>

Complete(p) ==
  /\ run[p] # None /\ run[p].stage = "store" /\ run[p].points = <<>>
  /\ Ended(p)
  /\ UNCHANGED <<kind, feed, rows>>

(* The process dies: its log row stays "running".                           *)
Die(p) ==
  /\ run[p] # None
  /\ run' = [run EXCEPT ![p] = None]
  /\ UNCHANGED <<kind, feed, rows, settled>>

Next ==
  \/ \E d \in Days, v \in Values \cup {Gap} : Publish(d, v)
  \/ \E p \in Procs : \/ \E range \in Ranges \cup {None} : FetchIndicator(p, range)
                      \/ Fetch(p) \/ RunFails(p) \/ SeedChain(p) \/ SeedAverages(p)
                      \/ SeedYahoo(p) \/ SeedCrude(p) \/ SeedVix(p)
                      \/ StorePoint(p) \/ StoreFails(p) \/ StoreOne(p) \/ Complete(p) \/ Die(p)
-------------------------------------------------------------------------------
(* Whatever failed, died or overlapped before, one clean run brings the     *)
(* days it fetched in line: each has the value that is published, and the   *)
(* value of the row before it as its previous one, so that fetching again   *)
(* would change nothing.                                                    *)
ChainIsWhole ==
  (settled # None /\ kind \in {"fred", "eodhd", "yahoo"}) =>
    \A d \in settled.days \cap Observed :
      /\ rows[d] # None
      /\ rows[d].val = Stored(feed[d])
      /\ rows[d].prev = PriorValue(d)

(* The same of the averages, where the days before the range fill a window; *)
(* else the first of them are not computed again, and the chain skips them. *)
(* The first one's previous value is the average of the observation before  *)
(* it, stored or not.                                                       *)
AveragesAreWhole ==
  (settled # None /\ kind = "sma") =>
    LET days == Ascending(Only(feed, settled.days))
        reach == Cardinality({d \in settled.days \cap Observed : d < settled.from})
    IN reach >= Window - 1 =>
         \A i \in (reach + 1)..Len(days) :
           /\ rows[days[i]] # None
           /\ rows[days[i]].val = Stored(Average(feed, days, i))
           /\ rows[days[i]].prev = IF i > Window THEN Stored(Average(feed, days, i - 1))
                                   ELSE PriorValue(settled.from)

(* A close that the column can hold is marked suspect exactly when the rows *)
(* before it all say the same, revised or not, whatever was marked before.  *)
FrozenIsSuspect ==
  (settled # None /\ kind = "yahoo") =>
    \A d \in settled.days : feed[d] = Stored(feed[d]) =>
      (rows[d].flag = "suspect" <=> DetectFrozenFeed(d, feed[d]))

FeedIsFollowed == ChainIsWhole /\ AveragesAreWhole /\ FrozenIsSuspect
===============================================================================
