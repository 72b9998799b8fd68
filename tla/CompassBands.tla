------------------------------ MODULE CompassBands ------------------------------
(***************************************************************************)
(* The pure part of the Compass inputs: series cleaned against the trading *)
(* calendar, the calculations over them, the colour bands, the inversion   *)
(* episodes of the curve, the weights and the candidate regime.  Levels    *)
(* are whole numbers: VIX and weights in tenths, spreads, yields and the   *)
(* curve in basis points, unemployment in tenths of a percent, payrolls in *)
(* thousands; an average is kept as the sum it is taken of.                *)
(***************************************************************************)
EXTENDS Integers, Sequences, SequencesExt

CONSTANTS
  Calendar,               \* the trading days there are
  AvgObs, SmaObs, MoveObs, DeltaObs, CurveObs, ShockObs,   \* lookbacks, in observations
  None

Colours   == {"GREEN", "YELLOW", "RED"}
Adverse   == [c \in Colours |-> CASE c = "GREEN" -> 0 [] c = "YELLOW" -> 1 [] c = "RED" -> 2]
Abs(n)    == IF n < 0 THEN -n ELSE n
Newest(S) == CHOOSE d \in S : \A e \in S : e <= d
Oldest(S) == CHOOSE d \in S : \A e \in S : d <= e
Total(s)  == FoldLeft(LAMBDA a, v : a + v, 0, s)
LastOf(s, n) == SubSeq(s, Len(s) - n + 1, Len(s))
Back(s, n)   == s[Len(s) - n]

(* compass_config, the versions of 2026.                                    *)
ConfigV2 ==
  [weights |-> [VIX_5D_AVG |-> 10, VIX_TERM_STRUCTURE |-> 15, HY_OAS |-> 15, YIELD_2S10S |-> 10,
                DXY_TREND |-> 10, US_DATA_STACK |-> 20],
   vix |-> [green |-> 180, red |-> 250],
   hyOas |-> [deltaRed |-> 75, deltaYellow |-> 40, levelRed |-> 550, levelYellow |-> 450],
   curve |-> [inversion |-> 10, uninversion |-> 5, window |-> 60, floor |-> -5],
   dxy |-> [moveRed |-> 3, devGreen |-> 2, moveGreen |-> 2],
   term |-> [red |-> 10, yellow |-> 9],
   gdpGreen |-> 15, jobs |-> [green |-> 100, red |-> 50], majority |-> 2,
   stale |-> [market |-> 3, fred |-> 5],
   regime |-> [riskOff |-> 35, riskOn |-> 50, ceiling |-> 10],
   yields |-> None]
ConfigV1 ==
  [ConfigV2 EXCEPT !.weights.VIX_TERM_STRUCTURE = 10, !.weights.YIELD_2S10S = 15,
                   !.hyOas = [deltaRed |-> 99900, deltaYellow |-> 99900, levelRed |-> 700,
                              levelYellow |-> 450],
                   !.regime.riskOff = 40]
ConfigV3 == [ConfigV2 EXCEPT !.yields = [red |-> 60, yellow |-> 30, gate |-> TRUE]]
-------------------------------------------------------------------------------
(* A series is a function from its dates to its values.                     *)

GenerateTradingDays(start, end) == {d \in Calendar : start <= d /\ d <= end}

(* Variant: one stale day more.                                             *)
OneMoreDay(raw, calendar, asOf, limit) ==
  LET days == {d \in calendar : d <= asOf} \cup {asOf}
      seen == days \cap DOMAIN raw
      At(d) == raw[Newest({e \in seen : e <= d})]
      filled == SetToSortSeq({d \in days : \E e \in seen : e <= d}, <)
  IN [series |-> [i \in DOMAIN filled |-> At(filled[i])],
      stale  |-> seen # {} /\ Cardinality({d \in days : d > Newest(seen)}) > limit + 1]

(* The trading days up to asOf, that day too, from the first with a value   *)
(* on, each with its own or the last one before it; stale when more than    *)
(* limit of them have passed since.                                         *)
BuildCleanSeries(raw, calendar, asOf, limit) ==
  LET days == {d \in calendar : d <= asOf} \cup {asOf}
      seen == days \cap DOMAIN raw
      At(d) == raw[Newest({e \in seen : e <= d})]
      filled == SetToSortSeq({d \in days : \E e \in seen : e <= d}, <)
  IN [series |-> [i \in DOMAIN filled |-> At(filled[i])],
      stale  |-> seen # {} /\ Cardinality({d \in days : d > Newest(seen)}) > limit]

ObsChange(series, n) == IF Len(series) < n + 1 THEN None ELSE series[Len(series)] - Back(series, n)

(* Growth over n periods, as a fraction, wherever there is a base other     *)
(* than zero.                                                               *)
Growth(levels, n) ==
  LET based == SelectSeq([i \in DOMAIN levels |-> i], LAMBDA i : i > n /\ levels[i - n] # 0)
  IN [j \in DOMAIN based |-> [by |-> levels[based[j]] - levels[based[j] - n],
                              of |-> levels[based[j] - n]]]
Below(f, g) == f.by * g.of < g.by * f.of

DetectTrajectory(values) ==
  LET steps == 2..Len(values)
  IN CASE Len(values) < 2 -> "mixed"
       [] \A i \in steps : Below(values[i - 1], values[i]) -> "rising"
       [] \A i \in steps : Below(values[i], values[i - 1]) -> "falling"
       [] OTHER -> "mixed"

(* The mean of three months against the low of twelve, half a point above.  *)
SahmTriggered(rates) ==
  /\ Len(rates) >= 12
  /\ Total(LastOf(rates, 3)) - 3 * Oldest(ToSet(LastOf(rates, 12))) >= 15

RecentNfpChanges(levels) ==
  IF Len(levels) < 4 THEN <<>> ELSE [i \in 1..3 |-> Back(levels, 3 - i) - Back(levels, 4 - i)]
-------------------------------------------------------------------------------
(* The bands. *)

EvaluateVix(sum, cfg) ==
  IF sum < AvgObs * cfg.vix.green THEN "GREEN"
  ELSE IF sum > AvgObs * cfg.vix.red THEN "RED" ELSE "YELLOW"

EvaluateHyOas(level, delta, cfg) ==
  LET Above(d, l) == (delta # None /\ delta > d) \/ level > l
  IN IF Above(cfg.hyOas.deltaRed, cfg.hyOas.levelRed) THEN "RED"
     ELSE IF Above(cfg.hyOas.deltaYellow, cfg.hyOas.levelYellow) THEN "YELLOW" ELSE "GREEN"

CurveGreenBlockedByRealShock(cfg, shock) == cfg.yields # None /\ cfg.yields.gate /\ shock = "RED"

(* Variant: the blocked clause falls to RED.                                *)
BlockedIsRed(level, delta, inWindow, jobs, cfg, shock) ==
  IF inWindow /\ jobs # "GREEN" THEN "RED"
  ELSE IF level >= 0 /\ delta # None /\ delta >= cfg.curve.floor
    THEN IF CurveGreenBlockedByRealShock(cfg, shock) THEN "RED" ELSE "GREEN"
  ELSE "YELLOW"

Evaluate2s10s(level, delta, inWindow, jobs, cfg, shock) ==
  IF inWindow /\ jobs # "GREEN" THEN "RED"
  ELSE IF /\ level >= 0 /\ delta # None /\ delta >= cfg.curve.floor
          /\ ~CurveGreenBlockedByRealShock(cfg, shock) THEN "GREEN"
  ELSE "YELLOW"

EvaluateRealYieldShock(change, cfg) ==
  IF change = None \/ cfg.yields = None THEN None
  ELSE IF change >= cfg.yields.red THEN "RED"
  ELSE IF change >= cfg.yields.yellow THEN "YELLOW" ELSE "GREEN"

(* Today's close, the sum of the last SmaObs and the close MoveObs back;    *)
(* the thresholds are percents, of a move either way.                       *)
EvaluateDxyTrend(today, sum, back, cfg) ==
  LET Moved(pct) == 100 * Abs(today - back) > pct * back
      Away(pct)  == 100 * Abs(SmaObs * today - sum) > pct * sum
  IN IF Moved(cfg.dxy.moveRed) THEN "RED"
     ELSE IF ~Away(cfg.dxy.devGreen) /\ ~Moved(cfg.dxy.moveGreen) THEN "GREEN" ELSE "YELLOW"

EvaluateVixTermStructure(vix, vix3m, cfg) ==
  IF 10 * vix > cfg.term.red * vix3m THEN "RED"
  ELSE IF 10 * vix >= cfg.term.yellow * vix3m THEN "YELLOW" ELSE "GREEN"

EvaluateCpiTrajectory(trajectory) ==
  CASE trajectory = "rising" -> "RED" [] trajectory = "falling" -> "GREEN"
    [] OTHER -> "YELLOW"

EvaluateGdpLevel(qoq, cfg) ==
  IF Len(qoq) < 2 THEN "YELLOW"
  ELSE LET last2 == ToSet(LastOf(qoq, 2))
       IN IF \A v \in last2 : 1000 * v.by > cfg.gdpGreen * v.of THEN "GREEN"
          ELSE IF \E v \in last2 : v.by < 0 THEN "RED" ELSE "YELLOW"

EvaluateJobs(sahm, changes, cfg) ==
  IF sahm THEN "RED"
  ELSE IF changes = <<>> THEN "YELLOW"
  ELSE IF Total(changes) > Len(changes) * cfg.jobs.green THEN "GREEN"
  ELSE IF Total(changes) < Len(changes) * cfg.jobs.red THEN "RED" ELSE "YELLOW"

AggregateUsDataStack(cpi, gdp, jobs, cfg) ==
  LET Votes(c) == Len(SelectSeq(<<cpi, gdp, jobs>>, LAMBDA b : b = c))
  IN IF Votes("RED") >= cfg.majority THEN "RED"
     ELSE IF Votes("GREEN") >= cfg.majority THEN "GREEN" ELSE "YELLOW"
-------------------------------------------------------------------------------
(* The curve's inversion episodes, over its observations in order.          *)

NoRun == [n |-> 0, from |-> None]
Longer(run, d) == IF run.n = 0 THEN [n |-> 1, from |-> d] ELSE [run EXCEPT !.n = @ + 1]
NoEpisode == [recent |-> None, start |-> None, below |-> NoRun, above |-> NoRun]

(* Variant: the run below zero is kept when the episode ends.               *)
RunKept(s, o, inversion, uninversion) ==
  LET below == Longer(s.below, o.date)
      above == Longer(s.above, o.date)
  IN CASE s.start = None /\ o.value >= 0 -> [s EXCEPT !.below = NoRun]
       [] s.start = None /\ o.value < 0 ->
            IF below.n < inversion THEN [s EXCEPT !.below = below]
            ELSE [s EXCEPT !.below = below, !.above = NoRun, !.start = below.from]
       [] s.start # None /\ o.value < 0 -> [s EXCEPT !.above = NoRun]
       [] s.start # None /\ o.value >= 0 ->
            IF above.n < uninversion THEN [s EXCEPT !.above = above]
            ELSE [s EXCEPT !.recent = [from |-> s.start, to |-> above.from],
                           !.start = None, !.above = NoRun]

ScanObservation(s, o, inversion, uninversion) ==
  LET below == Longer(s.below, o.date)
      above == Longer(s.above, o.date)
  IN CASE s.start = None /\ o.value >= 0 -> [s EXCEPT !.below = NoRun]
       [] s.start = None /\ o.value < 0 ->
            IF below.n < inversion THEN [s EXCEPT !.below = below]
            ELSE [s EXCEPT !.below = below, !.above = NoRun, !.start = below.from]
       [] s.start # None /\ o.value < 0 -> [s EXCEPT !.above = NoRun]
       [] s.start # None /\ o.value >= 0 ->
            IF above.n < uninversion THEN [s EXCEPT !.above = above]
            ELSE [NoEpisode EXCEPT !.recent = [from |-> s.start, to |-> above.from]]

ScanForMostRecentEpisode(obs, inversion, uninversion) ==
  LET end == FoldLeft(LAMBDA s, o : ScanObservation(s, o, inversion, uninversion), NoEpisode, obs)
  IN IF end.start = None THEN end.recent ELSE [from |-> end.start, to |-> None]

(* Both days have to be among the observations, and they are counted by     *)
(* their places in them.                                                    *)
IsWithinRedWindow(obs, unInversion, asOf, window) ==
  \E i, j \in DOMAIN obs : /\ obs[i].date = unInversion /\ obs[j].date = asOf
                           /\ i <= j /\ j - i + 1 <= window
-------------------------------------------------------------------------------
(* The vote. *)

SumVoteWeights(bands, cfg) ==
  [c \in Colours |-> FoldFunctionOnSet(LAMBDA a, b : a + b, 0, cfg.weights,
                                       {i \in DOMAIN bands : bands[i] = c})]

DetermineCandidateRegime(bands, cfg) ==
  LET votes == SumVoteWeights(bands, cfg)
  IN IF votes["RED"] >= cfg.regime.riskOff THEN "Risk-Off"
     ELSE IF votes["GREEN"] >= cfg.regime.riskOn /\ votes["RED"] <= cfg.regime.ceiling THEN "Risk-On"
     ELSE "Caution"
===============================================================================
