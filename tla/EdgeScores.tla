------------------------------ MODULE EdgeScores ------------------------------
(***************************************************************************)
(* The EdgeFinder scorecards: what an asset's indicators add up to, what   *)
(* the Compass overrides make of it, how a pair compares its two           *)
(* currencies row by row, and the chain of jobs from the classification of *)
(* a day through the yen's scorecard to the score of a yen pair.           *)
(***************************************************************************)
EXTENDS ReferenceData, FiniteSetsExt, Functions

CONSTANT None

Sum(f, S) == FoldFunctionOnSet(+, 0, f, S)
-------------------------------------------------------------------------------
(* The override gates of a classification. *)

RiskOff == "Risk-Off"

(* in is [final, standard, shockA, shockB, enabled, hawkish, fed]; hawkish  *)
(* is None where the two-year yield is missing or stale.                    *)
IsRegimePathRiskOff(in) == in.final = RiskOff /\ (in.shockA \/ in.standard = RiskOff)

SuppressedByGate(in) ==
  /\ in.enabled
  /\ IsRegimePathRiskOff(in)
  /\ in.hawkish = TRUE
  /\ ~in.shockB
RateGateActive(in) ==
  \/ IsRegimePathRiskOff(in) /\ (in.enabled => in.hawkish # TRUE)
  \/ in.shockB
SuppressedByConstraint(in) == IsRegimePathRiskOff(in) /\ in.fed = "FREE"
FedConstraintActive(in) == IsRegimePathRiskOff(in) /\ in.fed = "CONSTRAINED"

(* The overrides the classifier records as permitted on its day.            *)
OverridesActive(in) ==
  IF IsRegimePathRiskOff(in)
    THEN {1, 4} \cup (IF FedConstraintActive(in) THEN {2} ELSE {})
                \cup (IF RateGateActive(in) THEN {3, 5} ELSE {})
    ELSE IF in.shockB /\ RateGateActive(in) THEN {3, 5} ELSE {}

(* The columns a scorecard reads back: the gate of the latest classified    *)
(* day.                                                                     *)
GateColumns(in) ==
  [final |-> in.final, standard |-> in.standard, shockA |-> in.shockA, shockB |-> in.shockB,
   o2Suppressed |-> SuppressedByConstraint(in), o3Suppressed |-> SuppressedByGate(in),
   o5Suppressed |-> SuppressedByGate(in), overridesActive |-> OverridesActive(in)]

NoGate == [path |-> FALSE, o2 |-> FALSE, o35 |-> FALSE, shockB |-> FALSE]
(* Variant: shock B does not open overrides 3 and 5 for an asset.           *)
AssetGatePathOnly(row) ==
  LET path == IsRegimePathRiskOff(row)
  IN IF row = None THEN NoGate
     ELSE [path |-> path, o2 |-> path /\ ~row.o2Suppressed, o35 |-> path /\ ~row.o3Suppressed,
           shockB |-> row.shockB]
AssetGate(row) ==
  LET path == IsRegimePathRiskOff(row)
  IN IF row = None THEN NoGate
     ELSE [path |-> path, o2 |-> path /\ ~row.o2Suppressed,
           o35 |-> (path /\ ~row.o3Suppressed) \/ row.shockB, shockB |-> row.shockB]
PairGate(row) ==
  LET path == IsRegimePathRiskOff(row)
  IN IF row = None THEN [path |-> FALSE, o5 |-> FALSE, shockB |-> FALSE]
     ELSE [path |-> path, o5 |-> (path /\ ~row.o5Suppressed) \/ row.shockB, shockB |-> row.shockB]
-------------------------------------------------------------------------------
(* An asset's scorecard. *)

(* Scores the rules gave, None for insufficient data, or where scoring an   *)
(* indicator threw.  An asset without a map row is an error.                *)
Composed(asset, raw) ==
  [c \in {d \in DOMAIN AssetIndicatorMap[asset] : raw[d] # None} |->
     raw[c] * AssetIndicatorMap[asset][c]]

GOLD_INFLATION_FLIP_CODES == {"US_CPI_YOY", "US_PPI_MOM", "US_PCE_YOY"}
US_JOBS_CODES == {"US_NFP", "US_UNEMP", "US_JOBLESS_CLAIMS", "US_ADP", "US_JOLTS"}

BadJobs(scores) == {c \in US_JOBS_CODES \cap DOMAIN scores : scores[c] = -1}

(* The adjustment of each override that fires; they read composed scores.   *)
(* Variant: the inflation scores are taken away once.                       *)
GoldHedgeOnce(scores) ==
  LET flipped == {c \in GOLD_INFLATION_FLIP_CODES \cap DOMAIN scores : scores[c] # 0}
  IN -Sum(scores, flipped)
GoldHedge(scores) ==
  LET flipped == {c \in GOLD_INFLATION_FLIP_CODES \cap DOMAIN scores : scores[c] # 0}
  IN -2 * Sum(scores, flipped)
JpySafeHaven(gate) == IF gate.o35 THEN 1 ELSE 0
CompassAdjustment(asset, gate, scores) ==
  (IF asset = "XAUUSD" /\ gate.o2 THEN GoldHedge(scores) ELSE 0)
  + (IF asset = "JPY" THEN JpySafeHaven(gate) ELSE 0)
  + (IF asset = "USD" /\ gate.path THEN Cardinality(BadJobs(scores)) ELSE 0)
  + (IF asset \in Indices /\ gate.path THEN 2 * Cardinality(BadJobs(scores)) ELSE 0)

BaseFundamentals(asset, raw) ==
  LET scores == Composed(asset, raw) IN Sum(scores, DOMAIN scores)
Fundamentals(asset, raw, row) ==
  BaseFundamentals(asset, raw) + CompassAdjustment(asset, AssetGate(row), Composed(asset, raw))

MapScoreToLabel(score) ==
  IF score >= 4 THEN "Very Support" ELSE IF score = 3 THEN "Support"
  ELSE IF score <= -4 THEN "Very Weak" ELSE IF score = -3 THEN "Weak" ELSE "Neutral"
-------------------------------------------------------------------------------
(* A pair's rows. *)

(* A row of one currency needs it on either side, a row of several needs    *)
(* both sides.  Variant: the one currency has to be the base.               *)
RequirementBaseOnly(row, base, quote) ==
  IF Cardinality(DOMAIN row.indicators) = 1 THEN base \in DOMAIN row.indicators
  ELSE {base, quote} \subseteq DOMAIN row.indicators
RequirementSatisfied(row, base, quote) ==
  IF Cardinality(DOMAIN row.indicators) = 1
    THEN {base, quote} \cap DOMAIN row.indicators # {}
    ELSE {base, quote} \subseteq DOMAIN row.indicators

SideScore(row, currency, raw) ==
  IF currency \notin DOMAIN row.indicators THEN 0
  ELSE IF raw[row.indicators[currency]] = None THEN 0 ELSE raw[row.indicators[currency]]

ClampToPairRange(n) == IF n > 2 THEN 2 ELSE IF n < -2 THEN -2 ELSE n

SOFT_EXCLUDE_TREATMENTS == {"USD_ONLY"}
EvaluatePairRow(row, base, quote, raw) ==
  IF RequirementSatisfied(row, base, quote)
    THEN [included |-> TRUE,
          score |-> ClampToPairRange(SideScore(row, base, raw) - SideScore(row, quote, raw))]
    ELSE [included |-> row.treatment \in SOFT_EXCLUDE_TREATMENTS, score |-> 0]

BasePairScore(base, quote, raw) ==
  LET result == [r \in DOMAIN PairTemplate |-> EvaluatePairRow(PairTemplate[r], base, quote, raw)]
  IN Sum([r \in DOMAIN result |-> result[r].score], {r \in DOMAIN result : result[r].included})

(* Weekly change of the net position, 1 bullish to -1 bearish, or None.     *)
PairCotScore(baseLabel, quoteLabel) ==
  IF None \in {baseLabel, quoteLabel} THEN 0 ELSE baseLabel - quoteLabel

PairOverrides(pair, gate, boost) ==
  IF ~gate.path /\ ~gate.shockB THEN [o3 |-> 0, o5 |-> 0]
  ELSE [o3 |-> IF pair.quote = "JPY" /\ boost > 0 THEN -boost ELSE 0,
        o5 |-> IF pair.isCarryPair /\ gate.o5 THEN -1 ELSE 0]
-------------------------------------------------------------------------------
(* The chain: the classifier, the yen's scorecard, a yen pair that carries. *)
(* Each job runs for a day, or for an earlier one again, and reads what the *)
(* one before it left; nothing waits for anything.                          *)

CONSTANTS Days, Gates   \* days 1..n; what a classification may come to
VARIABLES gates, cards, pairs

chainVars == <<gates, cards, pairs>>

ChainInit ==
  /\ gates = [d \in Days |-> None]
  /\ cards = [d \in Days |-> None]
  /\ pairs = [d \in Days |-> None]

(* The latest entry on or before the day.                                   *)
AsOf(table, day) ==
  LET known == {d \in Days : d <= day /\ table[d] # None}
  IN IF known = {} THEN None ELSE table[Max(known)]
RegimeGateAsOf(day) == AsOf(gates, day)

Classify(day) ==
  /\ \E in \in Gates : gates' = [gates EXCEPT ![day] = GateColumns(in)]
  /\ UNCHANGED <<cards, pairs>>

(* A scorecard with the gate it was assembled under.                        *)
AssembleJpyScorecard(day) ==
  LET row == RegimeGateAsOf(day)
  IN /\ cards' = [cards EXCEPT ![day] = [gate |-> row, o3 |-> JpySafeHaven(AssetGate(row))]]
     /\ UNCHANGED <<gates, pairs>>

FetchJpySafeHavenBoost(day) == IF AsOf(cards, day) = None THEN 0 ELSE AsOf(cards, day).o3

AssemblePairScore(day) ==
  LET row  == RegimeGateAsOf(day)
      over == PairOverrides(Pair("EUR", "JPY", TRUE), PairGate(row), FetchJpySafeHavenBoost(day))
  IN /\ pairs' = [pairs EXCEPT ![day] =
                    [gate |-> row, card |-> AsOf(cards, day), o3 |-> over.o3, o5 |-> over.o5]]
     /\ UNCHANGED <<gates, cards>>

ChainNext ==
  \E d \in Days : Classify(d) \/ AssembleJpyScorecard(d) \/ AssemblePairScore(d)

(* Two overrides say the same of a yen carry pair, one by way of the yen's  *)
(* own scorecard: they come together, on every day whose pair score was     *)
(* computed from a scorecard of the same gate, whatever ran before.         *)
CarryPairsAgree ==
  \A d \in Days :
    LET p == pairs[d]
    IN p # None /\ p.card # None => (p.card.gate = p.gate => p.o3 = p.o5)
===============================================================================
