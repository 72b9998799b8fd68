---------------------------- MODULE NiftyScorecard ----------------------------
(***************************************************************************)
(* The NIFTY scorecard of a trading day: the Ind 9 bridge that turns       *)
(* fourteen US releases into one indicator, the net score and its band,    *)
(* and the sub-tools that look back over earlier scorecards: velocity from *)
(* an anchor, the peak score ceiling, and the composition flag.            *)
(***************************************************************************)
EXTENDS Integers, FiniteSets, SequencesExt

CONSTANTS
  None,
  LookbackSessions,      \* 120: sessions searched for anchors and highs
  HistoryDepth,          \* 130: earlier scorecards read
  DeactivationSessions   \* 5: consecutive sessions below that end a peak

SumOf(f, S) == FoldFunctionOnSet(+, 0, f, S)
-------------------------------------------------------------------------------
(* The Ind 9 bridge. *)

AbsoluteThreshold == {"US_ISM_MFG", "US_ISM_SVC"}
VsForecast        == {"US_GDP_QOQ", "US_RETAIL_MOM", "US_CB_CONSCONF", "US_NFP", "US_ADP"}
DirectionVsPrior  == {"US_CPI_YOY", "US_PPI_MOM", "US_PCE_YOY", "US_JOLTS"}
InvertedVsPrior   == {"US_UNEMP", "US_JOBLESS_CLAIMS"}
SmaDirection      == {"US_02Y_SMA"}
SUB_INDICATORS ==
  UNION {AbsoluteThreshold, VsForecast, DirectionVsPrior, InvertedVsPrior, SmaDirection}

Sign(a, b) == IF b = None THEN None ELSE IF a > b THEN 1 ELSE IF a < b THEN -1 ELSE 0
Flipped(s) == IF s = None THEN None ELSE -s
Or(a, b)   == IF a # None THEN a ELSE b

(* The score of one release, dp = [val, fc, prev].  smaPrior is the average *)
(* at least five calendar days older than dp, read from the data points.    *)
SubScore(code, dp, smaPrior) ==
  CASE dp = None                  -> None
    [] code \in AbsoluteThreshold -> Sign(dp.val, 50)
    [] code \in VsForecast        -> Sign(dp.val, Or(dp.fc, dp.prev))
    [] code \in DirectionVsPrior  -> Sign(dp.val, dp.prev)
    [] code \in InvertedVsPrior   -> Flipped(Sign(dp.val, dp.prev))
    [] code \in SmaDirection      -> Sign(dp.val, smaPrior)

(* rows are the current data points of a code up to today, [date, val, fc,  *)
(* prev]; several of a date come in an order the query leaves open.         *)
LatestOf(rows) ==
  IF rows = {} THEN None ELSE CHOOSE r \in rows : \A q \in rows : q.date <= r.date
SmaPrior(rows) ==
  LET old == LatestOf({r \in rows : r.date <= LatestOf(rows).date - 5})
  IN IF rows = {} \/ old = None THEN None ELSE old.val

MinParseable == 12

(* What the bridge writes, or None where it suppresses the day.             *)
RunInd9Bridge(scores) ==
  LET parseable == {c \in SUB_INDICATORS : scores[c] # None}
  IN IF Cardinality(parseable) < MinParseable THEN None
     ELSE [rawComposite |-> SumOf(scores, parseable), subIndicators |-> scores]

(* Variant: the neutral tier keeps both its edges.                          *)
BucketWideNeutral(raw) ==
  IF raw <= -7 THEN 2 ELSE IF raw <= -5 THEN 1 ELSE IF raw <= 4 THEN 0
  ELSE IF raw <= 6 THEN -1 ELSE -2
BucketToNiftyScore(raw) ==
  IF raw <= -7 THEN 2 ELSE IF raw <= -4 THEN 1 ELSE IF raw <= 3 THEN 0
  ELSE IF raw <= 6 THEN -1 ELSE -2

(* The USD lab scores a stored release again from what the bridge kept of   *)
(* it; for the average the stored prior is the data point's previous value. *)
ScoreRelease(code, dp) ==
  IF code \in SmaDirection THEN Sign(dp.val, dp.prev) ELSE SubScore(code, dp, None)

(* The lab's tiers, [min, max, niftyScore].                                 *)
Tiers ==
  {[min |-> None, max |-> -7, niftyScore |-> 2], [min |-> -6, max |-> -4, niftyScore |-> 1],
   [min |-> -3, max |-> 3, niftyScore |-> 0], [min |-> 4, max |-> 6, niftyScore |-> -1],
   [min |-> 7, max |-> None, niftyScore |-> -2]}
CurrentTiers(raw) ==
  {t \in Tiers : (t.min = None \/ raw >= t.min) /\ (t.max = None \/ raw <= t.max)}

VBottom(raw) ==
  IF raw = None THEN None
  ELSE IF raw <= 0 THEN "REAL_V_BOTTOM"
  ELSE IF raw >= 5 THEN "COUNTER_TREND_BOUNCE" ELSE "AMBIGUOUS"
-------------------------------------------------------------------------------
(* The composition flag, from the scores of the EdgeFinder USD scorecard.   *)

INFLATION_CLUSTER_CODES == {"US_CPI_YOY", "US_PPI_YOY", "US_PCE_YOY"}
GROWTH_CLUSTER_CODES    == {"US_GDP_QOQ", "US_ISM_MFG", "US_ISM_SVC", "US_RETAIL_MOM"}
LABOR_CLUSTER_CODES     == {"US_NFP", "US_UNEMP", "US_JOBLESS_CLAIMS", "US_ADP", "US_JOLTS"}

(* Codes of a cluster whose score has the sign; a code without an entry in  *)
(* the breakdown counts as neither.                                         *)
CountSign(cluster, scores, sign) ==
  Cardinality({c \in cluster \cap DOMAIN scores : scores[c] # None /\ scores[c] * sign > 0})

Side(raw) == IF raw <= -4 THEN "weak" ELSE IF raw >= 4 THEN "strong" ELSE None

ClusterFlag(inflation, demand) ==
  IF demand >= 6 /\ inflation <= 1 THEN "DEMAND" ELSE IF inflation >= 2 THEN "INFLATION" ELSE "MIXED"

(* [side, kind]: INFLATION_LED, DEMAND_DESTRUCTION and MIXED on the weak    *)
(* side, INFLATION_HOT, DEMAND_REACCEL and MIXED on the strong one.         *)
ComputeCompositionFlag(raw, scores) ==
  LET sign == IF Side(raw) = "weak" THEN -1 ELSE 1
      demand == CountSign(GROWTH_CLUSTER_CODES, scores, sign)
                + CountSign(LABOR_CLUSTER_CODES, scores, sign)
  IN IF raw = None THEN None
     ELSE IF Side(raw) = None \/ DOMAIN scores = {} THEN None
     ELSE [side |-> Side(raw),
           kind |-> ClusterFlag(CountSign(INFLATION_CLUSTER_CODES, scores, sign), demand)]

(* The lab's own composition, over the codes of its own list.               *)
LabInflation == {"US_CPI_YOY", "US_PPI_MOM", "US_PCE_YOY"}
ComputeComposition(raw, scores) ==
  LET sign == IF Side(raw) = "weak" THEN -1 ELSE 1
      inflation == CountSign(LabInflation, scores, sign)
      demand == CountSign(GROWTH_CLUSTER_CODES \cup LABOR_CLUSTER_CODES, scores, sign)
  IN IF raw = None THEN None
     ELSE IF Side(raw) = None THEN None
     ELSE [side |-> Side(raw),
           kind |-> IF inflation >= 2 THEN "INFLATION"
                    ELSE IF demand >= 6 THEN "DEMAND" ELSE "MIXED"]
-------------------------------------------------------------------------------
(* Net score and band. *)

DOMESTIC_INDICATORS == {"PMI_MFG", "PMI_SVC", "CPI", "RBI_RATE", "IIP", "DII_ABSORPTION"}
EXTERNAL_INDICATORS == {"FII_FLOW", "VIX", "USD_WEAKNESS", "DXY", "BRENT", "USDINR"}
IND_13_CODE == "FII_LS_RATIO"

(* breakdown maps a code to its score, None for insufficient data.          *)
MissingIn(breakdown, codes) ==
  {c \in codes : c \notin DOMAIN breakdown \/ (c \in DOMAIN breakdown /\ breakdown[c] = None)}
SumScoresByCodes(breakdown, codes) == SumOf(breakdown, codes \ MissingIn(breakdown, codes))

RatingRange(min, max, label) == [min |-> min, max |-> max, label |-> label]
SCORECARD_RATING_V2 ==
  <<RatingRange(10, 17, "Strong Bullish"), RatingRange(7, 9, "Bullish"),
    RatingRange(4, 6, "Neutral"), RatingRange(3, 3, "Caution"), RatingRange(0, 2, "Bearish"),
    RatingRange(-17, -1, "Strong Bearish")>>
FindBand(net) ==
  LET Holds(r) == r.min <= net /\ net <= r.max
      hits == SelectSeq(SCORECARD_RATING_V2, Holds)
  IN IF hits = <<>> THEN None ELSE Head(hits).label
-------------------------------------------------------------------------------
(* Sub-tools over history: the earlier current scorecards of trading days,  *)
(* [date, net, peak], newest first.                                         *)

Window(history) == SubSeq(history, 1, Min({LookbackSessions, Len(history)}))
NetsOf(seq) == {seq[i].net : i \in DOMAIN seq}
FirstWhere(seq, Test(_)) ==
  LET hits == SelectSeq(seq, Test) IN IF hits = <<>> THEN None ELSE Head(hits)

HighAnchor(history) ==
  LET w == Window(history)
      ten == FirstWhere(w, LAMBDA r : r.net >= 10)
  IN IF ten # None \/ w = <<>> THEN ten
     ELSE IF Max(NetsOf(w)) = 9 THEN FirstWhere(w, LAMBDA r : r.net = 9) ELSE None
LowAnchor(history) == FirstWhere(Window(history), LAMBDA r : r.net <= 0)
DefaultStart(history) ==
  LET high == HighAnchor(history)
      low  == LowAnchor(history)
  IN IF high # None /\ low # None
       THEN IF high.date >= low.date THEN high ELSE low
       ELSE Or(high, low)

(* Change of the net per trading day since the anchor, <<num, den>>.  Dates *)
(* count trading days, whether or not one was assembled.                    *)
ComputeVelocity(start, current) ==
  IF start = None THEN None
  ELSE IF current.date <= start.date THEN None
  ELSE <<current.net - start.net, current.date - start.date>>

ClassifyVelocity(v) ==
  LET AtMost(hundredths)  == 100 * v[1] <= hundredths * v[2]
      Under(hundredths)   == 100 * v[1] < hundredths * v[2]
  IN CASE AtMost(-100) -> "Emergency Deterioration" [] AtMost(-50) -> "Warning"
       [] AtMost(-30) -> "Alert" [] AtMost(-10) -> "Mild Deterioration"
       [] Under(10) -> "Flat" [] Under(30) -> "Slow Repair" [] Under(75) -> "Fast Repair"
       [] OTHER -> "Ceiling Recovery"

Inactive == [status |-> "inactive"]

(* "plus_10", "plus_9_120d_high", or None.                                  *)
QualifiesForEntry(net, history) ==
  CASE net >= 10 -> "plus_10"
    [] net = 9 /\ \A n \in NetsOf(Window(history)) : n <= 9 -> "plus_9_120d_high"
    [] OTHER -> None
ThresholdForState(state) == IF state.entryReason = "plus_10" THEN 10 ELSE 9

NewPeak(current, reason) ==
  [status |-> "active", peakDate |-> current.date, peakNetScore |-> current.net,
   entryReason |-> reason, sessionsSincePeak |-> 0, sessionsBelowThreshold |-> 0]

(* Decay counts the scorecards read, not the trading days.                  *)
Aged(prior, current, history, below) ==
  [prior EXCEPT !.sessionsSincePeak =
                  1 + Len(SelectSeq(history, LAMBDA r : r.date > prior.peakDate)),
                !.sessionsBelowThreshold = below]
ClassifyDecay(drop, sessions) ==
  IF sessions = 0 \/ 5 * drop > -sessions THEN "PASSIVE"
  ELSE IF 2 * drop > -sessions THEN "ACTIVE" ELSE "SHARP"

(* Variant: a session back above the threshold does not start the count of  *)
(* sessions below it again.                                                 *)
ComputePeakScoreStateNoReset(current, history, prior) ==
  LET reason == QualifiesForEntry(current.net, history)
      below  == prior.sessionsBelowThreshold
                + (IF current.net < ThresholdForState(prior) THEN 1 ELSE 0)
  IN IF prior = None \/ prior = Inactive
       THEN IF reason = None THEN Inactive ELSE NewPeak(current, reason)
     ELSE IF reason # None /\ current.net > prior.peakNetScore THEN NewPeak(current, reason)
     ELSE IF below >= DeactivationSessions THEN Inactive
     ELSE Aged(prior, current, history, below)

ComputePeakScoreState(current, history, prior) ==
  LET reason == QualifiesForEntry(current.net, history)
      below  == prior.sessionsBelowThreshold + 1
  IN IF prior = None \/ prior = Inactive
       THEN IF reason = None THEN Inactive ELSE NewPeak(current, reason)
     ELSE IF reason # None /\ current.net > prior.peakNetScore THEN NewPeak(current, reason)
     ELSE IF reason # None \/ current.net >= ThresholdForState(prior)
       THEN Aged(prior, current, history, 0)
     ELSE IF below >= DeactivationSessions THEN Inactive
     ELSE Aged(prior, current, history, below)
-------------------------------------------------------------------------------
(* cards[day] is the current scorecard of a trading day, None before it is  *)
(* assembled.                                                               *)
VARIABLE cards

Init(Days) == cards = [d \in Days |-> None]

History(day) ==
  LET before == {d \in DOMAIN cards : d < day /\ cards[d] # None}
  IN [i \in 1..Min({HistoryDepth, Cardinality(before)}) |->
        cards[CHOOSE d \in before : Cardinality({e \in before : e > d}) = i - 1]]

Card(day, breakdown, raw, usdScores) ==
  LET domestic == SumScoresByCodes(breakdown, DOMESTIC_INDICATORS)
      external == SumScoresByCodes(breakdown, EXTERNAL_INDICATORS)
      current  == [date |-> day, net |-> domestic + external]
      history  == History(day)
  IN [date |-> day, net |-> domestic + external, external |-> external,
      band |-> FindBand(domestic + external),
      conflictFlag |-> external <= -3,
      missing |-> MissingIn(breakdown, DOMESTIC_INDICATORS \cup EXTERNAL_INDICATORS
                                       \cup {IND_13_CODE}),
      velocity |-> ComputeVelocity(DefaultStart(history), current),
      peak |-> ComputePeakScoreState(current, history,
                                     IF history = <<>> THEN None ELSE Head(history).peak),
      composition |-> ComputeCompositionFlag(raw, usdScores)]

(* assembleScorecard; without a band it fails before anything is written.   *)
AssembleScorecard(day, breakdown, raw, usdScores) ==
  LET card == Card(day, breakdown, raw, usdScores)
  IN /\ card.band # None
     /\ cards' = [cards EXCEPT ![day] = card]
-------------------------------------------------------------------------------
(* The sessions on record, oldest first.                                    *)
Sessions == {d \in DOMAIN cards : cards[d] # None}
IsActive(d) == cards[d].peak # Inactive

(* A peak in force is the highest net since its own date: no session after  *)
(* it ever stood higher, and its date is a session with that net.           *)
PeakIsHighest ==
  \A d \in Sessions : IsActive(d) =>
    LET p == cards[d].peak
    IN /\ p.peakDate \in Sessions
       /\ cards[p.peakDate].net = p.peakNetScore
       /\ \A e \in Sessions : e \in p.peakDate..d => cards[e].net <= p.peakNetScore

(* A ceiling lapses exactly when DeactivationSessions sessions in a row     *)
(* closed below the level it was entered at: one session back above starts  *)
(* the count again, and assembling the last day a second time adds nothing. *)
LapsesOnFullRun ==
  \A d, e \in Sessions :
    (e < d /\ IsActive(e) /\ ~\E f \in Sessions : e < f /\ f < d) =>
      LET level == ThresholdForState(cards[e].peak)
          run   == {f \in Sessions : f <= d /\ f > cards[e].peak.peakDate
                      /\ \A g \in Sessions : g \in f..d => cards[g].net < level}
      IN ~IsActive(d) <=> Cardinality(run) = DeactivationSessions
===============================================================================
