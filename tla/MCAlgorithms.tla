----------------------------- MODULE MCAlgorithms -----------------------------
(***************************************************************************)
(* The pure algorithms over bounded inputs: each action picks one input    *)
(* for one algorithm, and the properties compare the algorithm with what   *)
(* it is for.                                                              *)
(***************************************************************************)
EXTENDS ScoringRules

VARIABLE task

Init == task = [alg |-> "none"]
First == task.alg = "none"

(* Releases of three dates, ordinals of three variants, entered in order,   *)
(* final before flash, or oldest date last.                                 *)
EntryTime(order, d, o) ==
  CASE order = "inOrder" -> 10 * d + o [] order = "finalFirst" -> 10 * d - o
    [] order = "backfilled" -> 50 - 10 * d + o
Release(d, o, order) ==
  [date |-> d, val |-> o, fc |-> None, prev |-> None, ord |-> o,
   vint |-> EntryTime(order, d, o), state |-> None, seller |-> TRUE]

PickReleases ==
  /\ First
  /\ \E keys \in SUBSET ((1..3) \X (-1..1)) \ {{}}, take \in 1..3,
        order \in {"inOrder", "finalFirst", "backfilled"} :
       task' = [alg |-> "releases", take |-> take,
                rows |-> {Release(k[1], k[2], order) : k \in keys}]

(* The latest take dates, the most final release of each: however the rows  *)
(* were entered, the fetch with its headroom misses none.                   *)
WindowHasLatestReleases ==
  task.alg = "releases" =>
    ReleasesWindow(task.rows, task.take) =
      {CHOOSE r \in {q \in task.rows : q.date = d} :
         \A q \in task.rows : q.date = d => q.ord <= r.ord :
       d \in RecentDates(task.rows, task.take)}

(* The scoring handlers and the read paths resolve the latest release of an *)
(* indicator each with code of its own; whatever the order of the rows,     *)
(* both take the same one.                                                  *)
ReadersAgree ==
  task.alg = "releases" =>
    \A seq \in {Desc(task.rows), Reverse(Desc(task.rows))} :
      Collapse(seq) = PickLatestRelease(task.rows)
-------------------------------------------------------------------------------
(* One row a date, oldest value first.                                      *)
Series(vals) ==
  {[date |-> i, val |-> vals[i], fc |-> None, prev |-> None, ord |-> -1, vint |-> i,
    state |-> "hold_neutral", seller |-> TRUE] : i \in DOMAIN vals}

PickSeries ==
  /\ First
  /\ \E n \in 3..8, size \in 2..3 : \E vals \in [1..n -> 1..2] :
       task' = [alg |-> "series", size |-> size, vals |-> vals]

(* A date of a feed that repeats itself three times or more.                *)
Stuck(vals, i) ==
  \E j \in DOMAIN vals : /\ j <= i /\ i <= j + 2 /\ j + 2 <= Len(vals)
                         /\ vals[j] = vals[j + 1] /\ vals[j] = vals[j + 2]

(* A window over a feed that may freeze is the newest dates on which it     *)
(* lived, neither short of them while the history holds enough, nor with    *)
(* one of a frozen run among them, wherever the run begins and ends.        *)
WindowIsNewestLive ==
  task.alg = "series" =>
    LET live == {i \in DOMAIN task.vals : ~Stuck(task.vals, i)}
        w == RollingWindow(Series(task.vals), task.size, TRUE)
    IN IF Cardinality(live) < task.size THEN w = None
       ELSE /\ w # None
            /\ Len(w) = task.size
            /\ {w[i].date : i \in DOMAIN w} =
                 {d \in live : Cardinality({e \in live : e > d}) < task.size}
-------------------------------------------------------------------------------
Codes  == DOMAIN ScoringRulesV2
Banded == {c \in Codes : "bands" \in DOMAIN ScoringRulesV2[c]}
Edges(bands) ==
  UNION {{v - 1, v, v + 1} : v \in ({bands[i].min : i \in DOMAIN bands}
                                    \cup {bands[i].max : i \in DOMAIN bands}) \ {None}}

PickReading ==
  /\ First
  /\ \E c \in Banded : \E v \in Edges(ScoringRulesV2[c].bands) :
       task' = [alg |-> "reading", code |-> c, val |-> v]

(* The bands of every rule in force cover every reading exactly once, on    *)
(* and next to each edge: none is left unscored, and none depends on the    *)
(* order in which the bands are written.                                    *)
BandsCoverOnce ==
  task.alg = "reading" =>
    LET bands == ScoringRulesV2[task.code].bands
    IN Cardinality({i \in DOMAIN bands : InBand(<<task.val, 1>>, bands[i])}) = 1

(* The direction of an indicator: TRUE where a higher reading is good for   *)
(* the NIFTY.                                                               *)
HigherIsBetter == Codes \ {"CPI", "VIX", "USD_WEAKNESS", "DXY", "BRENT", "USDINR", "RBI_RATE"}

(* Past readings that move by one and back, then today's.                   *)
History(base, today) ==
  Series([i \in 1..11 |-> IF i = 11 THEN today ELSE base + (i % 2)])
Readings(c) ==
  CASE c \in {"PMI_MFG", "PMI_SVC"} -> {4999, 5000, 5001}
    [] c = "IIP" -> {-1, 0, 1}
    [] c = "CPI" -> {370, 390, 399, 400, 401, 421, 580, 599, 600, 601, 640}
    [] c = "FII_FLOW" -> {-400001, -150001, -1000, 150000, 400000, 4000000, -4000000}
    [] c = "DII_ABSORPTION" -> {-300, -10, 0, 10, 74, 75, 76, 300}
    [] c = "VIX" -> {1100, 1199, 1200, 1499, 1500, 2000}
    [] c = "USD_WEAKNESS" -> {100 * k : k \in -14..14}
    [] c \in {"DXY", "BRENT", "USDINR"} -> {9800, 9900, 9950, 9971, 10000, 10029, 10051, 10200, 10201}
    [] c = "FII_LS_RATIO" -> {0, 2859, 2860, 5000, 10000}

PickToday ==
  /\ First
  /\ \E c \in Codes \ {"RBI_RATE"} : \E base, low, high \in Readings(c) :
       /\ low < high
       /\ task' = [alg |-> "today", code |-> c, base |-> base, low |-> low, high |-> high]

Today(v) == ScoreIndicator(ScoringRulesV2[task.code], History(task.base, v))

(* Against the same past, a worse reading never scores better than a better *)
(* one, whatever levels, averages and trends the rule puts together, and    *)
(* both are scored.                                                         *)
WorseNeverScoresBetter ==
  task.alg = "today" =>
    LET lo == Today(task.low)
        hi == Today(task.high)
    IN /\ lo.kind = "scored" /\ hi.kind = "scored"
       /\ IF task.code \in HigherIsBetter THEN lo.score <= hi.score ELSE lo.score >= hi.score

(* The seed's comment on DII absorption: a negative rolling average means   *)
(* DII was selling as well, scored -2 and flagged by the handler.  The tier *)
(* is in the rule and the flag in the code; they never disagree, on partial *)
(* windows either.                                                          *)
PickAbsorption ==
  /\ First
  /\ \E vals \in [1..5 -> {-80, 0, 40}], bought \in SUBSET (1..5) :
       task' = [alg |-> "absorption",
                rows |-> {[r EXCEPT !.seller = r.date \notin bought] : r \in Series(vals)}]
SellersAreFlagged ==
  task.alg = "absorption" =>
    LET s == ScoreIndicator(ScoringRulesV2.DII_ABSORPTION, task.rows)
    IN s.score = -2 <=> "DII_NET_SELLER_REGIME" \in ToSet(s.flags)
-------------------------------------------------------------------------------
N == INSTANCE NiftyScorecard WITH
  LookbackSessions <- 120, HistoryDepth <- 130, DeactivationSessions <- 5, cards <- <<>>

(* The scores a rule can give.                                              *)
ScoresOf(c) ==
  LET r == ScoringRulesV2[c]
  IN CASE "bands" \in DOMAIN r -> {r.bands[i].score : i \in DOMAIN r.bands}
       [] "tiers" \in DOMAIN r -> {r.tiers[i].score : i \in DOMAIN r.tiers}
       [] "states" \in DOMAIN r -> {r.states[s] : s \in DOMAIN r.states}
       [] "reference" \in DOMAIN r -> {r.gt, r.eq, r.lt}
       [] OTHER -> r.lo..r.hi
InNet == N!DOMESTIC_INDICATORS \cup N!EXTERNAL_INDICATORS
Worst == [c \in InNet |-> Min(ScoresOf(c))]
Best  == [c \in InNet |-> Max(ScoresOf(c))]

PickNet ==
  /\ First
  /\ \E net \in N!SumOf(Worst, InNet)..N!SumOf(Best, InNet) :
       task' = [alg |-> "net", net |-> net]

(* No combination of scores is without a band, so that no trading day fails *)
(* to be assembled for want of one.                                         *)
EveryNetHasBand == task.alg = "net" => N!FindBand(task.net) # None

(* The USD bridge stores its composite with the NIFTY score it stands for,  *)
(* the engine scores the composite again with its rule, and the USD lab     *)
(* shows the tier it is in; the three agree on every composite.             *)
PickComposite == First /\ \E raw \in -14..14 : task' = [alg |-> "composite", raw |-> raw]
CompositeScoresAgree ==
  task.alg = "composite" =>
    LET dp == [date |-> 1, val |-> 100 * task.raw, fc |-> None, prev |-> None, ord |-> -1,
               vint |-> 1, state |-> None, seller |-> TRUE]
        stored == N!BucketToNiftyScore(task.raw)
    IN /\ ScoreIndicator(ScoringRulesV2.USD_WEAKNESS, {dp}).score = stored
       /\ {t.niftyScore : t \in N!CurrentTiers(task.raw)} = {stored}

(* Scores of the fourteen releases, by how many growth and labor ones are   *)
(* up or down.                                                              *)
Demand == <<"US_GDP_QOQ", "US_ISM_MFG", "US_ISM_SVC", "US_RETAIL_MOM", "US_NFP", "US_UNEMP",
            "US_JOBLESS_CLAIMS", "US_ADP", "US_JOLTS">>
Ranked(c) == CHOOSE i \in 1..9 : Demand[i] = c
Scores(inflation, up, down, rest) ==
  [c \in N!SUB_INDICATORS |->
     IF c \in DOMAIN inflation THEN inflation[c]
     ELSE IF c \notin Range(Demand) THEN rest
     ELSE IF Ranked(c) <= up THEN 1 ELSE IF Ranked(c) > 9 - down THEN -1 ELSE 0]
PickComposition ==
  /\ First
  /\ \E inflation \in [N!LabInflation -> {-1, 0, 1}], up, down \in 0..9, rest \in {-1, 0, 1} :
       /\ up + down <= 9
       /\ task' = [alg |-> "composition", scores |-> Scores(inflation, up, down, rest)]

(* The flag of a strong dollar is the mirror image of that of a weak one:   *)
(* turning the sign of every release turns the side and nothing else.       *)
Mirror(f) == IF f = None THEN None
             ELSE [f EXCEPT !.side = IF @ = "weak" THEN "strong" ELSE "weak"]
StoredFlag(scores) == N!ComputeCompositionFlag(N!RunInd9Bridge(scores).rawComposite, scores)
FlagsMirror ==
  task.alg = "composition" =>
    StoredFlag([c \in DOMAIN task.scores |-> -task.scores[c]]) = Mirror(StoredFlag(task.scores))

(* "Inflation negative count >= 2" is INFLATION_LED: the reference for the  *)
(* flag counts the inflation releases of the USD scorecard.                 *)
TwoInflationScoresLead ==
  task.alg = "composition" =>
    LET flag == StoredFlag(task.scores)
        led  == {c \in N!LabInflation : task.scores[c] < 0}
    IN (flag # None /\ flag.side = "weak" /\ Cardinality(led) >= 2) => flag.kind = "INFLATION"
-------------------------------------------------------------------------------
E == INSTANCE EdgeScores WITH
  Days <- {}, Gates <- {}, gates <- <<>>, cards <- <<>>, pairs <- <<>>

GateInputs ==
  [final : {"Risk-On", "Caution", "Risk-Off"}, standard : {"Risk-On", "Caution", "Risk-Off"},
   shockA : BOOLEAN, shockB : BOOLEAN, enabled : BOOLEAN, hawkish : {None, TRUE, FALSE},
   fed : {"FREE", "CONSTRAINED"}]
PickGate == First /\ \E in \in GateInputs : task' = [alg |-> "gate", in |-> in]

(* The classifier writes down which overrides its gates permit, and the     *)
(* scorecards work out the same from its columns: the two never disagree.   *)
AuditMatchesAssembly ==
  task.alg = "gate" =>
    LET row   == E!GateColumns(task.in)
        asset == E!AssetGate(row)
    IN row.overridesActive =
         {o \in 1..5 : CASE o \in {1, 4} -> asset.path [] o = 2 -> asset.o2
                          [] o = 3 -> asset.o35 [] o = 5 -> E!PairGate(row).o5}

(* Scores of the US releases under risk-off: the jobs and the inflation     *)
(* releases free, the rest alike.                                           *)
UsScores(up, down, inflation, rest) ==
  [c \in E!US_CODES |->
     IF c \in up THEN 1 ELSE IF c \in down THEN -1
     ELSE IF c \in E!US_JOBS_CODES THEN 0
     ELSE IF c \in E!GOLD_INFLATION_FLIP_CODES THEN inflation[c] ELSE rest]
RiskOffGate(fed) ==
  E!GateColumns([final |-> "Risk-Off", standard |-> "Risk-Off", shockA |-> FALSE, shockB |-> FALSE,
                 enabled |-> FALSE, hawkish |-> FALSE, fed |-> fed])
PickUsCard ==
  /\ First
  /\ \E up, down \in SUBSET E!US_JOBS_CODES, rest \in {None, 1},
        inflation \in [E!GOLD_INFLATION_FLIP_CODES -> {None, -1, 0, 1}] :
       /\ up \cap down = {}
       /\ task' = [alg |-> "us", down |-> down, raw |-> UsScores(up, down, inflation, rest)]

(* Overrides 1 and 4 answer bad news from the labour market, not good news  *)
(* that counts against the asset: on a risk-off day each job release that   *)
(* missed, and no other, counts one up for an index and nothing for the     *)
(* dollar.                                                                  *)
BadNewsIsAMiss ==
  task.alg = "us" =>
    LET missed == Cardinality(task.down)
        Shift(asset) == E!Fundamentals(asset, task.raw, RiskOffGate("FREE"))
                        - E!BaseFundamentals(asset, task.raw)
    IN Shift("USD") = missed /\ \A i \in E!Indices : Shift(i) = 2 * missed

(* Gold is the dollar turned around; with the Fed constrained under         *)
(* risk-off, inflation alone counts for gold as it does for the dollar.     *)
GoldTurnsWithInflation ==
  task.alg = "us" =>
    LET inflation == E!Sum([c \in E!US_CODES |-> IF task.raw[c] = None THEN 0 ELSE task.raw[c]],
                      E!GOLD_INFLATION_FLIP_CODES)
        dollar == E!BaseFundamentals("USD", task.raw)
    IN /\ E!BaseFundamentals("XAUUSD", task.raw) = -dollar
       /\ E!Fundamentals("XAUUSD", task.raw, RiskOffGate("FREE")) = -dollar
       /\ E!Fundamentals("XAUUSD", task.raw, RiskOffGate("CONSTRAINED")) = 2 * inflation - dollar

(* A release of the two currencies of a row: one beats the forecast by v,   *)
(* the other by w, and each is scored by the rule of its indicator.         *)
EdgeRule(code, v) ==
  LET row == [date |-> 1, val |-> v, fc |-> 0, prev |-> 0, ord |-> -1, vint |-> 1,
              state |-> None, seller |-> TRUE]
  IN CASE E!RuleForIndicator(code) = "inverted" -> Inverted({row}, 0).score
       [] E!RuleForIndicator(code) = "rate_decision" -> RateDecision({row}, 0).score
       [] E!RuleForIndicator(code) = "normal" -> Normal({row}, 0).score
PickRow ==
  /\ First
  /\ \E name \in DOMAIN E!PairTemplate, base, quote \in E!Currencies, v, w \in {None, -1, 0, 1} :
       /\ base # quote
       /\ task' = [alg |-> "row", name |-> name, base |-> base, quote |-> quote, v |-> v, w |-> w]

TheRow == E!PairTemplate[task.name]
RowOf(base, quote, v, w) ==
  LET ind == TheRow.indicators
      Of(code) == IF base \in DOMAIN ind /\ code = ind[base] THEN v ELSE w
  IN E!EvaluatePairRow(TheRow, base, quote,
       [code \in {ind[c] : c \in DOMAIN ind} |->
          IF Of(code) = None THEN None ELSE EdgeRule(code, Of(code))])

(* The same surprise on both sides of a row cancels, whichever currencies   *)
(* they are and whatever their indicators are called: a row never sets a    *)
(* release for which more is better against one for which less is.          *)
RowsCompareAlike ==
  (/\ task.alg = "row"
   /\ {task.base, task.quote} \subseteq DOMAIN TheRow.indicators
   /\ task.v = task.w) =>
      RowOf(task.base, task.quote, task.v, task.w).score = 0

(* A pair turned around scores the opposite on every row, and has the same  *)
(* rows.                                                                    *)
TurnedPairIsOpposite ==
  task.alg = "row" =>
    LET there == RowOf(task.base, task.quote, task.v, task.w)
        back  == RowOf(task.quote, task.base, task.w, task.v)
    IN there.included = back.included /\ there.score = -back.score

PickTotal == First /\ \E total \in -40..40 : task' = [alg |-> "total", total |-> total]
(* The label the code gives a total is that of the seeded thresholds, which *)
(* leave no total without one.                                              *)
LabelsAgree ==
  task.alg = "total" =>
    {E!RATING_THRESHOLDS[i].label : i \in
       {j \in DOMAIN E!RATING_THRESHOLDS : task.total \in
          E!RATING_THRESHOLDS[j].min..E!RATING_THRESHOLDS[j].max}} = {E!MapScoreToLabel(task.total)}
-------------------------------------------------------------------------------
J == INSTANCE TradeRules WITH Grace <- 1

(* Ideas entered at 4 with a stop four away, none away or on the wrong      *)
(* side; fills of the plain ones, and the others with a plain fill.  It is  *)
(* minute 2.                                                                *)
JournalPlans ==
  [direction : {"Buy", "Sell"}, entry : {4}, sl : {0, 4, 8}, firstTp : {None, 2, 4, 6},
   mainTp : {1, 4, 5, 12}, opened : {1, 3, 4}]
Plain(plan) == /\ plan.firstTp = None
               /\ plan.mainTp = IF plan.direction = "Buy" THEN 5 ELSE 1
JournalFills ==
  [risk : {100}, entry : {4, 8}, isClosed : BOOLEAN, partial : {None, 6}, pct : {None, 0, 50},
   exit : {None, 3, 4, 6, 8}, closed : {None, 1, 3, 4}, type : {"TP", "SL", "BE"},
   pnl : {None, -1, 0, 1}, mfe : {None, 5}, mae : {None, 5}]
PlainFill(risk) ==
  [risk |-> risk, entry |-> 4, isClosed |-> FALSE, partial |-> None, pct |-> None, exit |-> None,
   closed |-> None, type |-> "TP", pnl |-> None, mfe |-> None, mae |-> None]
PickTrade ==
  /\ First
  /\ \/ \E plan \in JournalPlans, risk \in {0, 1, 1000, 1001} :
          task' = [alg |-> "trade", plan |-> plan, in |-> PlainFill(risk)]
     \/ \E plan \in {p \in JournalPlans : Plain(p) /\ p.sl # 4}, in \in JournalFills :
          /\ (in.mfe # None) => (in.pct = None)
          /\ (in.mae # None) => (in.pct = None)
          /\ task' = [alg |-> "trade", plan |-> plan, in |-> in]

(* The check of a new trade at the door, that of a fill added to one and    *)
(* that of every read are written three times over different records.  What *)
(* either create lets in is never flagged by the read after it, but for an  *)
(* idea entered in the grace minute and closed without a date; and what a   *)
(* read finds sound, entered by hand with its dates, is let in.             *)
CreateAgreesWithRead ==
  task.alg = "trade" =>
    LET created == J!CreateTradeSchema(task.plan, {task.in}, 2) = {}
        added   == J!CheckPlan(task.plan, 2) \cup J!AddExecutionProblems(task.plan, task.in, 2) = {}
        sound   == J!CheckTradeIntegrity(task.plan, {J!StoredFill(task.in, 2)}, 2) = {}
    IN /\ created => (sound \/ (task.in.closed = None /\ task.plan.opened > 2))
       /\ added => sound
       /\ (/\ sound /\ task.in.isClosed /\ task.in.exit # None /\ task.in.closed # None) =>
            (created /\ added)

(* A sell is a buy seen from below: with every price reflected about the    *)
(* entry, each rule finds the same problems and the fill is worth the same. *)
Reflected(price) == IF price = None THEN None ELSE 8 - price
SidesMirror ==
  task.alg = "trade" =>
    LET plan == [task.plan EXCEPT !.direction = IF @ = "Buy" THEN "Sell" ELSE "Buy",
                   !.sl = Reflected(@), !.firstTp = Reflected(@), !.mainTp = Reflected(@)]
        in   == [task.in EXCEPT !.entry = Reflected(@), !.exit = Reflected(@),
                   !.partial = Reflected(@), !.mfe = Reflected(@), !.mae = Reflected(@)]
    IN /\ J!CreateTradeSchema(plan, {in}, 2) = J!CreateTradeSchema(task.plan, {task.in}, 2)
       /\ J!ComputeTradeMetrics(plan.direction, "pair", plan.sl, in) =
            J!ComputeTradeMetrics(task.plan.direction, "pair", task.plan.sl, task.in)
       /\ J!ComputeExpectedRr(plan) = J!ComputeExpectedRr(task.plan)

(* The R a sound fill is stored with never contradicts the money it made or *)
(* the way it was closed, whatever the instrument; a fill at the entry that *)
(* reaches the target makes the R the plan expected, and one that is        *)
(* stopped out loses one.                                                   *)
StoredR(fill, instrument) ==
  J!ComputeTradeMetrics(task.plan.direction, instrument, task.plan.sl, fill).blendedRr
RSpeaksForOutcome ==
  task.alg = "trade" =>
    LET fill == J!StoredFill(task.in, 2)
        At(exit) == [fill EXCEPT !.entry = 4, !.exit = exit, !.partial = None]
    IN \A i \in {"points", "jpyPair", "pair"} :
         /\ J!CheckTradeIntegrity(task.plan, {fill}, 2) = {} =>
              LET r == StoredR(fill, i)
              IN /\ (fill.pnl > 0) => (r >= 0)
                 /\ (fill.pnl < 0) => (r <= 0)
                 /\ (fill.exit # None /\ fill.entry # task.plan.sl) =>
                      CASE fill.type = "TP" -> r > 0 [] fill.type = "SL" -> r < 0
                        [] fill.type = "BE" -> r \in -25..25
         /\ J!CheckStopSide(task.plan.direction, 4, task.plan.sl) = {} =>
              /\ StoredR(At(task.plan.mainTp), i) = J!ComputeExpectedRr(task.plan)
              /\ StoredR(At(task.plan.sl), i) = -100

PickSession ==
  First /\ \E s \in {"Asian", "London", "London-NY Overlap", "New York"} :
             task' = [alg |-> "session", name |-> s]
(* Each session is one stretch of the day: none is empty, and no gap of one *)
(* falls to another (the hours before London once fell to New York).        *)
SessionIsOneStretch ==
  task.alg = "session" =>
    Cardinality({m \in 0..1439 : /\ J!SessionFromDate(m) # task.name
                                 /\ J!SessionFromDate((m + 1) % 1440) = task.name}) = 1
-------------------------------------------------------------------------------
(* The Compass inputs over short lookbacks; day 3 the market is closed.     *)
I == INSTANCE ReplayInputs WITH
  Calendar <- {1, 2, 4, 5, 6, 7, 8, 9, 10}, AvgObs <- 2, SmaObs <- 3, MoveObs <- 1, DeltaObs <- 2,
  CurveObs <- 2, ShockObs <- 2, Procs <- {}, Registry <- <<>>, DependsOn <- <<>>, Prints <- {},
  print <- None, rows <- <<>>, run <- <<>>, astray <- FALSE
Small == [I!ConfigV3 EXCEPT !.stale = [market |-> 1, fred |-> 2],
                            !.curve = [inversion |-> 3, uninversion |-> 2, window |-> 3, floor |-> -5]]
FeedValues == [vix |-> {100, 300}, dxy |-> {1000, 1100}, hy |-> {400, 480}, shock |-> {100, 160},
               term |-> {100, 250}, curve |-> {-10, 0}]
PickFeed ==
  /\ First
  /\ \E kind \in DOMAIN FeedValues, dates \in SUBSET (1..6), asOf \in {3, 4, 5},
        skip \in {1, 5}, back \in BOOLEAN :
       \E feed \in [dates -> FeedValues[kind]] :
         task' = [alg |-> "feed", kind |-> kind, feed |-> feed, asOf |-> asOf, skip |-> skip,
                  back |-> back]

(* VIX3M skips a date of its own.                                           *)
Far(feed) == [d \in DOMAIN feed \ {task.skip} |-> 200]
Ingested(feed, back) ==
  CASE task.kind = "vix" -> I!IngestVixInput(feed, task.asOf, Small, back)
    [] task.kind = "dxy" -> I!IngestDxyTrendInput(feed, task.asOf, Small, back)
    [] task.kind = "hy" -> I!IngestHyOasInput(feed, task.asOf, Small, back)
    [] task.kind = "shock" -> I!IngestRealYieldShockInput(feed, task.asOf, Small, back)
    [] task.kind = "term" ->
         I!IngestVixTermStructureInput(feed, Far(feed), task.asOf, Small, back)
    [] task.kind = "curve" ->
         I!IngestYieldCurveInput(feed, task.asOf, Small, back, "YELLOW", None)
OpenDays == {1, 2, 4, 5, 6}
FreshBy(feed, limit) ==
  \E d \in DOMAIN feed \cap (OpenDays \cup {task.asOf}) :
    /\ d <= task.asOf
    /\ Cardinality({e \in OpenDays : d < e /\ e < task.asOf}) + (IF d < task.asOf THEN 1 ELSE 0) <= limit

(* A colour other than the flagged YELLOW is never of a series that has     *)
(* been silent for longer than its limit of trading days, and never owes    *)
(* anything to a later day, backtest or live: later observations change     *)
(* nothing in it.  The curve's colour is of its level, whatever its age.    *)
ColourIsFreshAndBlind ==
  (task.alg = "feed" /\ task.kind # "curve") =>
    LET row == Ingested(task.feed, task.back)
        past == [d \in {e \in DOMAIN task.feed : e <= task.asOf} |-> task.feed[d]]
        limit == IF task.kind \in {"hy", "shock"} THEN 2 ELSE 1
    IN (row # None /\ row.measured) =>
         /\ FreshBy(task.feed, limit)
         /\ task.kind = "term" => FreshBy(Far(task.feed), limit)
         /\ Ingested(past, task.back) = row

(* "What this file contributes is only the plumbing each input service      *)
(* performs around those calls, reproduced step for step": the replay of a  *)
(* day has the row a backfill stores for it, and YELLOW where it stores     *)
(* none.  Of the real yield it has the band, from one observation more on.  *)
Replayed(feed) ==
  CASE task.kind = "vix" -> I!DeriveVix(task.asOf, feed, Small)
    [] task.kind = "dxy" -> I!DeriveDxy(task.asOf, feed, Small)
    [] task.kind = "hy" -> I!DeriveHyOas(task.asOf, feed, Small, "none")
    [] task.kind = "term" -> I!DeriveVixTs(task.asOf, feed, Far(feed), Small)
    [] task.kind = "curve" -> I!DeriveCurve(task.asOf, feed, Small, "YELLOW", None)
ReplayIsLive ==
  (task.alg = "feed" /\ task.back) =>
    LET live == Ingested(task.feed, TRUE)
        band == I!DeriveRealYield(task.asOf, task.feed, Small)
    IN IF task.kind = "shock"
       THEN /\ (band # None) => (live.measured /\ live.colour = band)
            /\ live.measured => band # None \/ Cardinality({d \in DOMAIN task.feed : d <= task.asOf}) <= 3
       ELSE Replayed(task.feed) = IF live = None THEN I!Flagged(None) ELSE live

(* What the curve's row says, and what the other five inputs do.            *)
PickVote ==
  /\ First
  /\ \E others \in [DOMAIN I!ConfigV2.weights \ {"YIELD_2S10S"} -> I!Colours], level \in {-1, 0},
        delta \in {None, -6, -5}, inside \in BOOLEAN, jobs \in I!Colours \ {"RED"},
        change \in {None, 29, 59, 60} :
       task' = [alg |-> "vote", others |-> others, level |-> level, delta |-> delta,
                inside |-> inside, jobs |-> jobs, change |-> change]
Candidate(cfg) ==
  I!DetermineCandidateRegime(
    [i \in DOMAIN cfg.weights |->
       IF i \in DOMAIN task.others THEN task.others[i]
       ELSE I!Evaluate2s10s(task.level, task.delta, task.inside, task.jobs, cfg,
                            I!EvaluateRealYieldShock(task.change, I!ConfigV3))],
    cfg)

(* The real-shock gate of config v3 "moves weight from green to yellow and  *)
(* can never add red, so it removes false Risk-On days rather than creating *)
(* Risk-Off days": with the other inputs as they are, v3 differs from v2    *)
(* only by a Risk-On that becomes Caution.                                  *)
GateOnlyRemovesRiskOn ==
  task.alg = "vote" =>
    \/ Candidate(I!ConfigV3) = Candidate(I!ConfigV2)
    \/ Candidate(I!ConfigV3) = "Caution" /\ Candidate(I!ConfigV2) = "Risk-On"

(* A curve above and below zero; missing days have no observation (yet).    *)
PickCurve ==
  /\ First
  /\ \E n \in 1..9 : \E vals \in [1..n -> {-1, 0}], missing \in {{}, {n - 1}, {n}} :
       task' = [alg |-> "curve", vals |-> vals, missing |-> missing]
CurveObservations(n) ==
  SelectSeq([d \in 1..n |-> [date |-> d, value |-> task.vals[d]]], LAMBDA o : o.date \notin task.missing)
Episode(n) == I!ScanForMostRecentEpisode(CurveObservations(n), 3, 2)

(* An un-inversion once found stays where it is until the curve has been    *)
(* inverted again, long enough and all of it afterwards: no observation     *)
(* moves the red window of an episode that is over.                         *)
EpisodesOnlyAdvance ==
  task.alg = "curve" =>
    LET n == Len(task.vals)
        before == Episode(n - 1)
        after  == Episode(n)
    IN \/ after = before
       \/ /\ after # None /\ before # None /\ before.to = None
          /\ after.from = before.from /\ after.to > before.from
       \/ /\ after # None /\ after.to = None
          /\ before # None => (before.to # None /\ before.to < after.from)
          /\ \A d \in after.from..n : d \in task.missing \/ task.vals[d] < 0

RedOn(n) ==
  /\ Episode(n) # None
  /\ I!IsWithinRedWindow(CurveObservations(n), Episode(n).to, n, 3)
(* With every day published, the red window is the three trading days from  *)
(* the un-inversion on.                                                     *)
PublishedWindowIsFixed ==
  (task.alg = "curve" /\ task.missing = {}) =>
    LET n == Len(task.vals)
        e == Episode(n)
    IN RedOn(n) <=> (e # None /\ e.to # None /\ n - e.to < 3)

(* "Its RED WINDOW is a fixed number of trading days starting from the day  *)
(* the curve un-inverts": also on a day, within it, that FRED has published *)
(* nothing for yet.                                                         *)
RedWindowIsFixed ==
  (task.alg = "curve" /\ task.missing \subseteq {Len(task.vals)}) =>
    LET n == Len(task.vals)
        e == Episode(n)
    IN RedOn(n) <=> (e # None /\ e.to # None /\ n - e.to < 3)

(* Three inputs in any order, depending on each other or on an unknown one. *)
Listings == {q \in [1..3 -> {"a", "b", "c"}] : \A i, j \in 1..3 : q[i] = q[j] => i = j}
PickRegistry ==
  /\ First
  /\ \E order \in Listings :
     \E deps \in [{"a", "b", "c"} -> SUBSET {"a", "b", "c", "x"}] :
       task' = [alg |-> "registry", order |-> order, deps |-> [c \in DOMAIN deps |-> SetToSeq(deps[c])]]

(* An order is found exactly when there is one; it has each input once and  *)
(* each after all it depends on, whatever order they are listed in.         *)
Respects(order) ==
  \A i \in 1..3 : ToSet(task.deps[order[i]]) \subseteq {order[j] : j \in 1..(i - 1)}
DependenciesComeFirst ==
  task.alg = "registry" =>
    LET got == I!OrderedCompassInputs(task.order, task.deps)
        orders == {q \in Listings : Respects(q)}
    IN IF orders = {} THEN got = None ELSE got \in orders

(* Two quarters of growth, three months of payrolls, unemployment after     *)
(* nine months of four percent, and inflation.                              *)
Notches == [gdp |-> <<-10, 0, 20>>, nfp |-> <<-80, 60, 150>>, unrate |-> <<46, 40>>]
CoordOf == <<"gdp", "gdp", "nfp", "nfp", "nfp", "unrate", "unrate", "unrate">>
PickReleasesOfUs ==
  /\ First
  /\ \E at \in [1..8 -> 1..3], cpi \in {<<1010, 1020, 1030>>, <<1030, 1020, 1010>>, <<1010, 1010, 1010>>} :
       /\ \A i \in 6..8 : at[i] <= 2
       /\ task' = [alg |-> "stack", at |-> at, cpi |-> cpi]
StackOf(at) ==
  LET v == [i \in 1..8 |-> Notches[CoordOf[i]][at[i]]]
  IN I!IngestUsDataStackInput([i \in 1..12 |-> 1000] \o task.cpi,
       <<1000, 1000 + v[1], 1000 + v[1] + v[2]>>,
       <<1000, 1000 + v[3], 1000 + v[3] + v[4], 1000 + v[3] + v[4] + v[5]>>,
       [i \in 1..9 |-> 40] \o <<v[6], v[7], v[8]>>, I!ConfigV3)

(* Weaker growth, fewer jobs or higher unemployment in any one of the       *)
(* months and quarters the stack looks at never turns it greener.           *)
WorseReleaseNeverGreener ==
  task.alg = "stack" =>
    \A i \in 1..8 : task.at[i] > 1 =>
      LET better == StackOf(task.at)
          worse  == StackOf([task.at EXCEPT ![i] = @ - 1])
      IN /\ I!Adverse[worse.colour] >= I!Adverse[better.colour]
         /\ I!Adverse[worse.jobs] >= I!Adverse[better.jobs]

(* The level floor "can only demote GREEN to YELLOW and therefore can never *)
(* add a Risk-Off day", wherever it is set; without either rule the replay  *)
(* has the colour of the live stack.                                        *)
ReplayedStack(floor) ==
  LET v == [i \in 1..8 |-> Notches[CoordOf[i]][task.at[i]]]
  IN I!DeriveDataStack([i \in 1..12 |-> 1000] \o task.cpi,
       <<1000, 1000 + v[1], 1000 + v[1] + v[2]>>,
       <<1000, 1000 + v[3], 1000 + v[3] + v[4], 1000 + v[3] + v[4] + v[5]>>,
       [i \in 1..9 |-> 40] \o <<v[6], v[7], v[8]>>, I!ConfigV3, floor, None)
FloorNeverAddsRed ==
  task.alg = "stack" =>
    LET live == StackOf(task.at)
    IN /\ ReplayedStack(None) = live
       /\ \A floor \in {5, 20, 40} :
            /\ I!Adverse[ReplayedStack(floor).colour] >= I!Adverse[live.colour]
            /\ ReplayedStack(floor).colour = "RED" => live.colour = "RED"

C == INSTANCE UsMarketCalendar
PickYear == First /\ \E y \in 1998..2060 : task' = [alg |-> "year", year |-> y]
(* The computus finds the Easter of the epacts: the first Sunday after the  *)
(* full moon that falls on 21 March or next after it.                       *)
FullMoon(y) ==
  LET golden  == (y % 19) + 1
      century == (y \div 100) + 1
      epact   == (11 * golden + 20 + ((8 * century + 5) \div 25 - 5)
                  - ((3 * century) \div 4 - 12)) % 30
      fixed   == IF (epact = 25 /\ golden > 11) \/ epact = 24 THEN epact + 1 ELSE epact
  IN C!Utc(y, 3, IF 44 - fixed < 21 THEN 74 - fixed ELSE 44 - fixed)
EasterFollowsFullMoon ==
  task.alg = "year" =>
    C!EasterSunday(task.year) =
      CHOOSE d \in (FullMoon(task.year) + 1)..(FullMoon(task.year) + 7) : C!DayOfWeek(d) = 0

(* Each holiday of a year, on a weekend or not, closes one weekday of its   *)
(* own, and nothing else but the listed closures does.                      *)
EachHolidayClosesOneDay ==
  task.alg = "year" =>
    LET y == task.year
        closed == {d \in C!Utc(y - 1, 12, 31)..C!Utc(y, 12, 30) :
                     /\ C!DayOfWeek(d) \in 1..5 /\ d \notin C!UnscheduledClosures
                     /\ ~C!IsUsMarketTradingDay(d)}
    IN Cardinality(closed) = IF y >= 2022 THEN 10 ELSE 9
-------------------------------------------------------------------------------
(* The runs check the properties above by subject.                          *)

(* Whatever code resolves releases, in whatever order they were entered and *)
(* wherever the feed froze, the newest live ones are the window.            *)
WindowsAreNewest == WindowHasLatestReleases /\ ReadersAgree /\ WindowIsNewestLive

(* Every reading, net and composite has one score, wherever it is worked out. *)
EveryReadingHasOneScore == BandsCoverOnce /\ EveryNetHasBand /\ CompositeScoresAgree

(* Scores and flags go with the readings: worse is never better, and the    *)
(* opposite readings have the opposite flag.                                *)
ScoresFollowReadings == WorseNeverScoresBetter /\ SellersAreFlagged /\ FlagsMirror

(* The overrides that the classifier permits and the scorecards apply are   *)
(* the same, and answer the news they are for and no other.                 *)
OverridesAnswerNews == AuditMatchesAssembly /\ BadNewsIsAMiss /\ GoldTurnsWithInflation

(* A pair compares like with like, from either side, under one label.       *)
PairsCompareFairly == RowsCompareAlike /\ TurnedPairIsOpposite /\ LabelsAgree

(* The metrics of a fill are those of its mirror image, and never           *)
(* contradict how it was closed.                                            *)
MetricsSpeakTrue == SidesMirror /\ RSpeaksForOutcome

(* No day or minute falls between the rules of the calendars.               *)
CalendarsAreWhole == SessionIsOneStretch /\ EasterFollowsFullMoon /\ EachHolidayClosesOneDay

(* Neither the gate of config v3 nor a worse release ever turns the regime  *)
(* or the stack the wrong way.                                              *)
BandsLeanSafe == GateOnlyRemovesRiskOn /\ WorseReleaseNeverGreener

(* The replay and the live services, two copies of the same steps, agree.   *)
ReplayFollowsLive == ReplayIsLive /\ FloorNeverAddsRed

(* Neither an episode of inversion that is over nor its red window moves.   *)
CurveHistoryIsFixed == EpisodesOnlyAdvance /\ PublishedWindowIsFixed
-------------------------------------------------------------------------------
Next == \/ PickReleases \/ PickSeries \/ PickReading \/ PickToday \/ PickAbsorption
        \/ PickNet \/ PickComposite \/ PickComposition
        \/ PickGate \/ PickUsCard \/ PickRow \/ PickTotal \/ PickTrade \/ PickSession
        \/ PickFeed \/ PickVote \/ PickCurve \/ PickRegistry \/ PickReleasesOfUs \/ PickYear
Spec == Init /\ [][Next]_task
===============================================================================
