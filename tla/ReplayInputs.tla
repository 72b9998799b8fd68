------------------------------ MODULE ReplayInputs ------------------------------
(***************************************************************************)
(* The inputs of a day as the historical replay derives them: the plumbing *)
(* of every input service written a second time, around the same bands.    *)
(* A source has observations only, no gaps; where the live service stores  *)
(* no row the replay goes on with YELLOW.                                  *)
(***************************************************************************)
EXTENDS CompassInputs

Slice(src, t) == Only(src, {d \in DOMAIN src : d <= t})
Clean(raw, t, limit) == BuildCleanSeries(raw, GenerateTradingDays(Oldest(DOMAIN raw), t), t, limit)

DeriveVix(t, src, cfg) ==
  LET raw   == Slice(src, t)
      clean == Clean(raw, t, cfg.stale.market)
      sum   == Total(LastOf(clean.series, AvgObs))
  IN IF raw = <<>> THEN Flagged(None)
     ELSE IF Len(clean.series) < AvgObs \/ clean.stale THEN Flagged(Latest(raw))
     ELSE Measured(Last(clean.series), sum, EvaluateVix(sum, cfg))

(* Both series have to reach the day, and to be alive.                      *)
DeriveVixTs(t, vix, vix3m, cfg) ==
  LET near  == Slice(vix, t)
      far   == Slice(vix3m, t)
      start == Oldest(DOMAIN near \cup DOMAIN far)
      Side(raw) == BuildCleanSeries(raw, GenerateTradingDays(start, t), t, cfg.stale.market)
      a == Side(near)
      b == Side(far)
  IN IF near = <<>> \/ far = <<>> THEN Flagged(None)
     ELSE IF a.series = <<>> \/ b.series = <<>> \/ a.stale \/ b.stale THEN Flagged(None)
     ELSE IF Last(b.series) = 0 THEN Flagged(None)
     ELSE Measured(Last(a.series), Last(b.series),
                   EvaluateVixTermStructure(Last(a.series), Last(b.series), cfg))

DeriveDxy(t, src, cfg) ==
  LET raw   == Slice(src, t)
      clean == Clean(raw, t, cfg.stale.market)
      sum   == Total(LastOf(clean.series, SmaObs))
  IN IF raw = <<>> THEN Flagged(None)
     ELSE IF Len(clean.series) < SmaObs \/ clean.stale THEN Flagged(Latest(raw))
     ELSE Measured(Last(clean.series), sum,
            EvaluateDxyTrend(Last(clean.series), sum, Back(clean.series, MoveObs), cfg))

(* Variant: the limit of the market series.                                 *)
MarketLimit(t, src, cfg, mode) ==
  LET raw   == Slice(src, t)
      clean == Clean(raw, t, cfg.stale.market)
      delta == ObsChange(clean.series, DeltaObs)
  IN IF mode = "unavailable" THEN Flagged(None)
     ELSE IF mode = "force_red" THEN [Flagged(None) EXCEPT !.colour = "RED"]
     ELSE IF raw = <<>> THEN Flagged(None)
     ELSE IF Len(clean.series) < DeltaObs + 1 \/ clean.stale THEN Flagged(Latest(raw))
     ELSE Measured(Last(clean.series), delta, EvaluateHyOas(Last(clean.series), delta, cfg))

DeriveHyOas(t, src, cfg, mode) ==
  LET raw   == Slice(src, t)
      clean == Clean(raw, t, cfg.stale.fred)
      delta == ObsChange(clean.series, DeltaObs)
  IN IF mode = "unavailable" THEN Flagged(None)
     ELSE IF mode = "force_red" THEN [Flagged(None) EXCEPT !.colour = "RED"]
     ELSE IF raw = <<>> THEN Flagged(None)
     ELSE IF Len(clean.series) < DeltaObs + 1 \/ clean.stale THEN Flagged(Latest(raw))
     ELSE Measured(Last(clean.series), delta, EvaluateHyOas(Last(clean.series), delta, cfg))

(* The real yield's band asks for one observation more than the live one.   *)
DeriveRealYield(t, src, cfg) ==
  LET raw    == Slice(src, t)
      clean  == Clean(raw, t, cfg.stale.fred)
      change == ObsChange(clean.series, ShockObs)
  IN IF Cardinality(DOMAIN raw) <= ShockObs + 1 \/ change = None \/ clean.stale THEN None
     ELSE EvaluateRealYieldShock(change, cfg)

(* Without an observation the curve is YELLOW.                              *)
DeriveCurve(t, src, cfg, jobs, shock) ==
  LET raw   == Slice(src, t)
      clean == Clean(raw, t, cfg.stale.fred)
      delta == IF Len(clean.series) < CurveObs + 1 \/ clean.stale THEN None
               ELSE ObsChange(clean.series, CurveObs)
  IN IF raw = <<>> THEN Flagged(None)
     ELSE Measured(Latest(raw), delta,
            Evaluate2s10s(Latest(raw), delta, CurveWindow(raw, t, cfg).inside, jobs, cfg, shock))

(* Two rules under study: inflation above a floor is never GREEN, above a   *)
(* level always RED.                                                        *)
DeriveDataStack(cpi, gdp, payems, unrate, cfg, cpiFloor, cpiRed) ==
  LET yoy  == Growth(cpi, 12)
      jobs == EvaluateJobs(SahmTriggered(unrate), RecentNfpChanges(payems), cfg)
      base == IF Len(yoy) < 3 THEN "YELLOW"
              ELSE EvaluateCpiTrajectory(DetectTrajectory(LastOf(yoy, 3)))
      Hot(level) == level # None /\ yoy # <<>> /\ 1000 * Last(yoy).by >= level * Last(yoy).of
      band == CASE Hot(cpiRed) -> "RED"
                [] Hot(cpiFloor) /\ base = "GREEN" -> "YELLOW"
                [] OTHER -> base
  IN [colour |-> AggregateUsDataStack(band, EvaluateGdpLevel(Growth(gdp, 1), cfg), jobs, cfg),
      jobs |-> jobs]
===============================================================================
