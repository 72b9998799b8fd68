----------------------------- MODULE ScoringRules -----------------------------
(***************************************************************************)
(* The scoring handlers of the engine, one operator each.  A handler gets  *)
(* the indicator's current data points up to the scoring date and its      *)
(* rule, and returns a score, or insufficient data.                        *)
(*                                                                         *)
(* A row is [date, val, fc, prev, ord, vint, state, seller]: val, forecast *)
(* and previous are integers in the unit the rule's own numbers are in,    *)
(* ord the ordinal of the release variant (-1: none registered), vint the  *)
(* time of entry, state and seller the two source metadata fields that are *)
(* read.  Averages and ratios are kept as fractions, so that they meet a   *)
(* threshold exactly where the code's floating point means to.             *)
(***************************************************************************)
EXTENDS Integers, FiniteSets, SequencesExt

CONSTANT None

Insufficient == [kind |-> "insufficient_data", score |-> None, flags |-> <<>>, src |-> None]

(* Scored with or without the data point named in the metadata.            *)
Scored(score, flags, src) ==
  [kind |-> "scored", score |-> score, flags |-> flags, src |-> src]

LatestDate(rows) == Max({r.date : r \in rows})
OnLatestDate(rows) == {r \in rows : r.date = LatestDate(rows)}

-------------------------------------------------------------------------------
(* Which release of an indicator counts. *)

(* Variant: the entry time decides before the release does.                *)
LatestEntry(rows) ==
  CHOOSE r \in OnLatestDate(rows) : \A q \in OnLatestDate(rows) : q.vint <= r.vint

(* Date, then ordinal of the release, then entry time.                     *)
PickLatestRelease(rows) ==
  LET Beats(r, q) == r.ord > q.ord \/ (r.ord = q.ord /\ r.vint >= q.vint)
  IN CHOOSE r \in OnLatestDate(rows) : \A q \in OnLatestDate(rows) : Beats(r, q)

(* The most recent dates with at least one row, n of them at most.         *)
RecentDates(rows, n) ==
  {d \in {r.date : r \in rows} : Cardinality({e \in {r.date : r \in rows} : e > d}) < n}

(* The first n rows of the query, newest date first, latest entry first.   *)
Newer(r, q) == r.date > q.date \/ (r.date = q.date /\ r.vint > q.vint)
Taken(rows, n) == {r \in rows : Cardinality({q \in rows : Newer(q, r)}) < n}

(* Rows fetched per date wanted: 4 in the code.                            *)
CONSTANT Headroom

(* One release per date for the latest take dates.                         *)
ReleasesWindow(rows, take) ==
  LET raw == Taken(rows, take * Headroom)
  IN {PickLatestRelease({r \in raw : r.date = d}) : d \in RecentDates(raw, take)}

(* The read paths' copy of the resolver, one row at a time in any order.   *)
Collapse(seq) ==
  LET Better(r, q) == \/ r.date > q.date
                      \/ r.date = q.date /\ r.ord > q.ord
                      \/ r.date = q.date /\ r.ord = q.ord /\ r.vint > q.vint
  IN FoldLeft(LAMBDA best, r : IF best = None THEN r
                               ELSE IF Better(r, best) THEN r ELSE best, None, seq)

-------------------------------------------------------------------------------
(* Frozen feeds. *)

(* Variant: a run is counted from the date on, not through it.             *)
FrozenFromHere(s, minRun) ==
  {s[i].date : i \in {j \in DOMAIN s :
     j + minRun - 1 <= Len(s) /\ \A k \in j..(j + minRun - 1) : s[k].val = s[j].val}}

(* The dates inside a run of at least minRun equal values of the series.   *)
FrozenDates(s, minRun) ==
  {s[i].date : i \in {j \in DOMAIN s :
     \E a, b \in DOMAIN s :
       a <= j /\ j <= b /\ b - a + 1 >= minRun /\ \A k \in a..b : s[k].val = s[a].val}}

Desc(rows) ==
  [i \in 1..Cardinality(rows) |->
     CHOOSE r \in rows : Cardinality({q \in rows : Newer(q, r)}) = i - 1]

(* 40, the least number of rows scanned for frozen runs, and 3, the run    *)
(* length that is suspect.                                                 *)
CONSTANTS MinScan, MinRun

SkipDates(rows, lookback, crosschecked) ==
  IF crosschecked
    THEN FrozenDates(Desc(Taken(rows, Max({lookback * 3, MinScan}))), MinRun)
    ELSE {}

(* A frozen date of the indicator that no other of the group shares.       *)
Warnings(rows, others, lookback) ==
  {d \in SkipDates(rows, lookback, TRUE) :
     \A o \in others : d \notin SkipDates(o, lookback, TRUE)}

(* Variant: no more rows are fetched than without frozen ones.             *)
FetchNoMore(size, skip) == size
FetchSize(size, skip) ==
  IF skip = {} THEN size ELSE Max({size + Cardinality(skip), size * 3, MinScan})

(* The last size rows that are not frozen, or None.  One row per date.     *)
RollingWindow(rows, size, crosschecked) ==
  LET skip == SkipDates(rows, size, crosschecked)
      good == {r \in Taken(rows, FetchSize(size, skip)) : r.date \notin skip}
  IN IF Cardinality(good) < size THEN None ELSE Desc(Taken(good, size))

-------------------------------------------------------------------------------
(* Bands: [min, max, score, flag], None where open or without a flag. A     *)
(* quotient is <<num, den>> with a positive den.                            *)

Quotient(n, d) == IF d < 0 THEN <<-n, -d>> ELSE <<n, d>>
AtLeast(q, b)  == b = None \/ q[1] >= b * q[2]
Below(q, b)    == b = None \/ q[1] < b * q[2]

InBand(q, band) == AtLeast(q, band.min) /\ Below(q, band.max)

TierLookup(q, bands) ==
  LET hits == {i \in DOMAIN bands : InBand(q, bands[i])}
  IN IF hits = {} THEN None ELSE bands[Min(hits)]

FlagOf(band) == IF band.flag = None THEN <<>> ELSE <<band.flag>>
ScoredIn(q, bands) ==
  LET t == TierLookup(q, bands)
  IN IF t = None THEN Insufficient ELSE Scored(t.score, FlagOf(t), None)

Total(seq) == FoldLeft(LAMBDA a, r : a + r.val, 0, seq)

-------------------------------------------------------------------------------
(* Handlers of one reading.  dp is some current row of the latest date, or  *)
(* None: the query orders by date alone, and with several releases current  *)
(* on a date the database picks.                                            *)

Threshold(dp, rule) ==
  IF dp = None THEN Insufficient
  ELSE Scored(IF dp.val > rule.reference THEN rule.gt
              ELSE IF dp.val < rule.reference THEN rule.lt ELSE rule.eq, <<>>, dp)

BandWithFlag(dp, rule) ==
  IF dp = None THEN Insufficient ELSE ScoredIn(<<dp.val, 1>>, rule.bands)

ThresholdBands(dp, rule) ==
  IF dp # None THEN ScoredIn(<<dp.val, 1>>, rule.bands)
  ELSE IF rule.live /\ rule.default # None
    THEN Scored(rule.default, <<"HISTORICAL_DEFAULT_NO_DATA">>, None)
    ELSE Insufficient

CycleRegime(dp, rule) ==
  IF dp = None \/ dp.state \notin DOMAIN rule.states THEN Insufficient
  ELSE Scored(rule.states[dp.state],
              IF dp.state = "paused_after_hikes" THEN <<"P15-7_SATURATION">> ELSE <<>>, dp)

(* Tier edges that say which side they belong to.                           *)
InTier(v, t) ==
  /\ t.min = None \/ (IF t.xmin THEN v > t.min ELSE v >= t.min)
  /\ t.max = None \/ (IF t.xmax THEN v < t.max ELSE v <= t.max)

ManualRawComposite(dp, rule) ==
  LET hits == {i \in DOMAIN rule.tiers : InTier(dp.val, rule.tiers[i])}
  IN IF dp = None THEN Insufficient
     ELSE IF dp.val < rule.lo \/ dp.val > rule.hi \/ hits = {} THEN Insufficient
     ELSE Scored(rule.tiers[Min(hits)].score, <<>>, dp)

-------------------------------------------------------------------------------
(* Surprise handlers. *)

Baseline(dp) == IF dp.fc # None THEN dp.fc ELSE dp.prev
BaselineFlags(dp) == IF dp.fc # None THEN <<>> ELSE <<"USED_PREVIOUS_AS_BASELINE">>
Direction(surprise, tol) ==
  IF surprise > tol THEN "BEAT" ELSE IF surprise < -tol THEN "MISS" ELSE "MET"
SignOf == [BEAT |-> 1, MET |-> 0, MISS |-> -1]

Surprised(dp, tol, table) ==
  IF dp = None THEN Insufficient
  ELSE IF Baseline(dp) = None THEN Insufficient
  ELSE Scored(table[Direction(dp.val - Baseline(dp), tol)], BaselineFlags(dp), dp)

LatestRelease(rows) == IF rows = {} THEN None ELSE PickLatestRelease(rows)

Normal(rows, tol)   == Surprised(LatestRelease(rows), tol, SignOf)
Inverted(rows, tol) ==
  Surprised(LatestRelease(rows), tol, [d \in DOMAIN SignOf |-> -SignOf[d]])

(* stances are [from, to, stance], to None while in force.                  *)
StancesOn(stances, day) ==
  {s \in stances : s.from <= day /\ (s.to = None \/ s.to >= day)}
StanceMatrix ==
  [CUTTING |-> SignOf, NEUTRAL |-> SignOf, HIKING |-> [BEAT |-> 1, MET |-> 1, MISS |-> 0]]

CpiRateCycle(dp, stances, day, tol) ==
  LET active == StancesOn(stances, day)
  IN IF active = {} THEN Insufficient
     ELSE Surprised(dp, tol,
            StanceMatrix[(CHOOSE s \in active : \A t \in active : t.from <= s.from).stance])

RateDecision(rows, tol) ==
  LET dp == LatestRelease(rows)
  IN IF dp = None THEN Insufficient
     ELSE IF dp.fc = None THEN Insufficient
     ELSE Scored(SignOf[Direction(dp.val - dp.fc, tol)], <<>>, dp)

-------------------------------------------------------------------------------
(* Handlers of a window. *)

RollingTiered(rows, rule) ==
  LET points == Desc(Taken(rows, rule.lookback))
  IN IF Len(points) < rule.lookback THEN Insufficient
     ELSE ScoredIn(<<Total(points), Len(points)>>, rule.bands)

SellerMarks(total) == IF total < 0 THEN <<"DII_NET_SELLER_REGIME">> ELSE <<>>

RollingRatioExcluding(rows, rule) ==
  LET points == Desc(Taken(rows, rule.lookback))
      valid  == SelectSeq(points, LAMBDA r : r.seller)
      scored == ScoredIn(<<Total(valid), Len(valid)>>, rule.bands)
      marks  == SellerMarks(Total(valid))
                \o (IF Len(valid) < Len(points) THEN <<"PARTIAL_WINDOW">> ELSE <<>>)
  IN IF Len(points) < rule.lookback THEN Insufficient
     ELSE IF valid = <<>> THEN Scored(rule.fallback.score, <<rule.fallback.flag>>, None)
     ELSE IF scored = Insufficient THEN scored
     ELSE [scored EXCEPT !.flags = marks]

(* Percentage change over the window, in hundredths; also rolling_pct_tiered. *)
RollingPct(rows, rule, crosschecked) ==
  LET w == RollingWindow(rows, rule.lookback + 1, crosschecked)
  IN IF w = None THEN Insufficient
     ELSE IF Last(w).val = 0 THEN Insufficient
     ELSE ScoredIn(Quotient((Head(w).val - Last(w).val) * 10000, Last(w).val), rule.bands)

(* The change of the stored average over five trading days.                 *)
Us02ySma(rows, rule) ==
  LET w == Desc(ReleasesWindow(rows, rule.lookback + 1))
      delta == Head(w).val - Last(w).val
  IN IF Len(w) < rule.lookback + 1 THEN Insufficient
     ELSE Scored(SignOf[Direction(delta, rule.flat)], <<>>, Head(w))

(* Variant: a reading above its past average counts as easing.              *)
TrendUpIsGood(drift, step) == IF drift >= step THEN 1 ELSE IF drift <= -step THEN -1 ELSE 0
Trend(drift, step) == IF drift <= -step THEN 1 ELSE IF drift >= step THEN -1 ELSE 0

Clamp(v, lo, hi) == Max({lo, Min({hi, v})})

TwoComponentCpi(rows, rule) ==
  LET points == Desc(Taken(rows, rule.lookback + 1))
      level  == IF Head(points).val <= rule.wellBelow THEN 1
                ELSE IF Head(points).val <= rule.upper THEN 0 ELSE -1
      full   == Len(points) = rule.lookback + 1
      drift  == Head(points).val * rule.lookback - Total(Tail(points))
      trend  == Trend(drift, rule.step * rule.lookback)
  IN IF points = <<>> THEN Insufficient
     ELSE IF full THEN Scored(Clamp(level + trend, rule.lo, rule.hi), <<>>, Head(points))
     ELSE Scored(Clamp(level, rule.lo, rule.hi), <<"TRAJECTORY_NULL">>, Head(points))

(* dp is ranked among the latest entry of every date up to its own.         *)
PercentileRank(rows, dp, rule) ==
  LET upTo   == {r \in rows : r.date <= dp.date}
      byDate == {LatestEntry({r \in upTo : r.date = d}) : d \in {r.date : r \in upTo}}
      below  == Cardinality({r \in byDate : r.val < dp.val})
      p      == <<below * 100, Cardinality(byDate) - 1>>
      scored == ScoredIn(p, rule.bands)
  IN IF dp = None
       THEN IF rule.default = None THEN Insufficient
            ELSE Scored(rule.default, <<"HISTORICAL_DEFAULT_NO_DATA">>, None)
     ELSE IF Cardinality(byDate) < rule.minObs THEN Scored(0, <<"INSUFFICIENT_HISTORY">>, None)
     ELSE IF scored = Insufficient THEN scored
     ELSE [scored EXCEPT !.flags = IF Below(p, rule.watch) THEN <<rule.watchFlag>> ELSE <<>>]

(* COT: net positioning, weekly change, and the score of an asset.          *)
Label(v, lo, hi) == IF v > hi THEN 1 ELSE IF v < lo THEN -1 ELSE 0
CotTwoComponent(reports, day) ==
  LET known == {c \in reports : c.report <= day /\ c.release <= day}
      cot   == CHOOSE c \in known : \A d \in known : d.report <= c.report
  IN IF known = {} THEN Insufficient
     ELSE IF cot.longPct = None \/ cot.change = None THEN Insufficient
     ELSE Scored(Label(cot.longPct, 450, 550) + Label(cot.change, -5, 5), <<>>, None)

-------------------------------------------------------------------------------
(* Slope over sigma. *)

(* The newest date first, one row a date, without the suspect dates; depth  *)
(* is how many dates the slope and its history need.                        *)
SlopeSeries(rows, depth, slack, crosschecked) ==
  LET skip == SkipDates(rows, depth, crosschecked)
      raw  == {r \in Taken(rows, depth + Cardinality(skip) + slack) : r.date \notin skip}
      days == {LatestEntry({r \in raw : r.date = d}) : d \in {r.date : r \in raw}}
  IN Desc(Taken(days, depth))

(* Ordinary least squares slope of a window, oldest value first, over its   *)
(* mean: a tenth of a percent per ten observations, truncated.              *)
OlsSlope(vals) ==
  LET n   == Len(vals)
      num == FoldLeft(LAMBDA a, i : a + (2 * i - n - 1) * vals[i], 0, [i \in 1..n |-> i])
      den == FoldLeft(LAMBDA a, i : a + (2 * i - n - 1) * (2 * i - n - 1), 0, [i \in 1..n |-> i])
      sum == FoldLeft(LAMBDA a, v : a + v, 0, vals)
      q   == Quotient(num * 20000 * n, den * sum)
  IN IF q[1] >= 0 THEN q[1] \div q[2] ELSE -((-q[1]) \div q[2])

Square(x) == x * x
Signed(x) == IF x < 0 THEN -(x * x) ELSE x * x

RollingSlopeSigma(rows, rule, crosschecked) ==
  LET w     == rule.window
      s     == Reverse(SlopeSeries(rows, rule.sigmaMax + w - 1, 20, crosschecked))
      slope == [e \in 1..(Len(s) - w + 1) |-> OlsSlope([i \in 1..w |-> s[e + i - 1].val])]
      n     == Len(slope)
      sum   == FoldLeft(LAMBDA a, m : a + m, 0, slope)
      dev   == FoldLeft(LAMBDA a, m : a + Square(n * m - sum), 0, slope)
      (* measure / sigma against a tenth, both sides squared                 *)
      ratio == <<100 * Signed(slope[n]) * n * n * (n - 1), dev>>
      bands == [i \in DOMAIN rule.bands |->
                  [rule.bands[i] EXCEPT !.min = IF @ = None THEN None ELSE Signed(@),
                                        !.max = IF @ = None THEN None ELSE Signed(@)]]
  IN IF Len(s) < w THEN Insufficient
     ELSE IF n < rule.sigmaMin \/ dev = 0 THEN Insufficient
     ELSE ScoredIn(ratio, bands)
-------------------------------------------------------------------------------
(* The NIFTY rules in force, version 2, in hundredths of their unit.        *)

B(min, max, score) == [min |-> min, max |-> max, score |-> score, flag |-> None]
Above50 == [type |-> "threshold", reference |-> 5000, gt |-> 1, eq |-> 0, lt |-> -1]
Tier(min, xmin, max, score) == [min |-> min, xmin |-> xmin, max |-> max, xmax |-> FALSE, score |-> score]
PctRule(bands) == [type |-> "rolling_pct", lookback |-> 10, bands |-> bands]

ScoringRulesV2 ==
  [PMI_MFG |-> Above50,
   PMI_SVC |-> Above50,
   CPI |-> [type |-> "two_component_cpi", upper |-> 600, wellBelow |-> 400, lookback |-> 3,
            step |-> 20, lo |-> -2, hi |-> 2],
   RBI_RATE |-> [type |-> "cycle_regime",
                 states |-> [cutting |-> 1, paused_after_hikes |-> 1, hold_neutral |-> 0,
                             hiking |-> -1, hawkish_hold |-> 0]],
   IIP |-> [Above50 EXCEPT !.reference = 0],
   FII_FLOW |-> [type |-> "rolling_tiered", lookback |-> 10,
                 bands |-> <<B(400000, None, 2), B(150000, 400000, 1), B(-150000, 150000, 0),
                             B(-400000, -150000, -1), B(None, -400000, -2)>>],
   DII_ABSORPTION |-> [type |-> "rolling_ratio_excluding", lookback |-> 5,
                       bands |-> <<B(75, None, 1), B(0, 75, 0), B(None, 0, -2)>>,
                       fallback |-> [score |-> 0, flag |-> "FII_NET_BUYERS_REGIME"]],
   VIX |-> [type |-> "band_with_flag",
            bands |-> <<B(None, 1200, 1), B(1200, 1500, 0), B(1500, 2000, -1),
                        [B(2000, None, -1) EXCEPT !.flag = "CONTRARIAN_WATCH"]>>],
   USD_WEAKNESS |-> [type |-> "manual_raw_composite", lo |-> -1400, hi |-> 1400,
                     tiers |-> <<Tier(None, FALSE, -700, 2), Tier(-700, TRUE, -400, 1),
                                 Tier(-400, TRUE, 300, 0), Tier(300, TRUE, 600, -1),
                                 Tier(600, TRUE, None, -2)>>],
   DXY |-> PctRule(<<B(None, -50, 1), B(-50, 50, 0), B(50, None, -1)>>),
   BRENT |-> PctRule(<<B(None, -200, 1), B(-200, 200, 0), B(200, None, -1)>>),
   USDINR |-> PctRule(<<B(None, -70, 2), B(-70, -30, 1), B(-30, 30, 0), B(30, 70, -1),
                        B(70, None, -2)>>),
   FII_LS_RATIO |-> [type |-> "threshold_bands", live |-> TRUE, default |-> 0,
                     bands |-> <<B(5000, None, 1), B(2860, 5000, 0), B(None, 2860, -1)>>]]

(* Rule versions are [version, from, to]; the active one of a day is the    *)
(* highest of those in force.                                               *)
ActiveRule(rules, day) ==
  LET on == {r \in rules : r.from <= day /\ (r.to = None \/ r.to >= day)}
  IN IF on = {} THEN None ELSE CHOOSE r \in on : \A q \in on : q.version <= r.version

(* scoreIndicator: the handler of the rule's type.  rows are the current    *)
(* rows up to the date, and an indicator here has one release a date.       *)
ScoreIndicator(rule, rows) ==
  LET dp == LatestRelease(rows)
  IN CASE rule.type = "threshold"            -> Threshold(dp, rule)
       [] rule.type = "two_component_cpi"    -> TwoComponentCpi(rows, rule)
       [] rule.type = "cycle_regime"         -> CycleRegime(dp, rule)
       [] rule.type = "rolling_tiered"       -> RollingTiered(rows, rule)
       [] rule.type = "rolling_ratio_excluding" -> RollingRatioExcluding(rows, rule)
       [] rule.type = "band_with_flag"       -> BandWithFlag(dp, rule)
       [] rule.type = "manual_raw_composite" -> ManualRawComposite(dp, rule)
       [] rule.type = "rolling_pct"          -> RollingPct(rows, rule, TRUE)
       [] rule.type = "threshold_bands"      -> ThresholdBands(dp, rule)
===============================================================================
