----------------------------- MODULE CompassInputs -----------------------------
(***************************************************************************)
(* What each Compass input stores for a day, from the series it fetches,   *)
(* and the runs that store them one after the other: each input fetches,   *)
(* the curve then reads the rows of the inputs it depends on, and the row  *)
(* is upserted.  Runs may overlap (the guard is the cron's only), an input *)
(* may fail, which costs no other, and the process may die.                *)
(***************************************************************************)
EXTENDS CompassBands

CONSTANTS
  Procs,                  \* the cron and the admin's button
  Registry, DependsOn,    \* COMPASS_INPUTS: the codes, and what each depends on
  Prints                  \* what FRED may publish: [cpi, jobs, shock : Colours, inWindow : BOOLEAN]

VARIABLES
  print,    \* what is published now
  rows,     \* compass_inputs of the day: by code, or None
  run,      \* each process: what is left to ingest and what was fetched, or None
  astray    \* ghost: runs overlapped, or one did not get the curve stored
vars == <<print, rows, run, astray>>
-------------------------------------------------------------------------------
(* The inputs. A row is measured or flagged; an input that throws is None.  *)
(* A feed is a function from dates to values, None where FRED says ".".     *)

Only(f, S) == [d \in S |-> f[d]]
Windowed(feed, asOf, isValidation) ==
  IF isValidation THEN Only(feed, {d \in DOMAIN feed : d <= asOf}) ELSE feed
Usable(feed) == Only(feed, {d \in DOMAIN feed : feed[d] # None})
Cleaned(raw, feeds, asOf, limit) ==
  BuildCleanSeries(raw, GenerateTradingDays(Oldest(feeds), asOf), asOf, limit)

Flagged(raw) == [raw |-> raw, derived |-> None, colour |-> "YELLOW", measured |-> FALSE]
Measured(raw, derived, colour) ==
  [raw |-> raw, derived |-> derived, colour |-> colour, measured |-> TRUE]
Latest(raw) == raw[Newest(DOMAIN raw)]

IngestVixInput(feed, asOf, cfg, isValidation) ==
  LET raw    == Windowed(feed, asOf, isValidation)
      clean  == Cleaned(raw, DOMAIN raw, asOf, cfg.stale.market)
      sum    == Total(LastOf(clean.series, AvgObs))
  IN IF raw = <<>> THEN None
     ELSE IF Len(clean.series) < AvgObs \/ clean.stale THEN Flagged(Latest(raw))
     ELSE Measured(Last(clean.series), sum, EvaluateVix(sum, cfg))

IngestDxyTrendInput(feed, asOf, cfg, isValidation) ==
  LET raw    == Windowed(feed, asOf, isValidation)
      clean  == Cleaned(raw, DOMAIN raw, asOf, cfg.stale.market)
      today  == Last(clean.series)
      sum    == Total(LastOf(clean.series, SmaObs))
  IN IF raw = <<>> THEN None
     ELSE IF Len(clean.series) < SmaObs \/ clean.stale THEN Flagged(Latest(raw))
     ELSE Measured(today, sum, EvaluateDxyTrend(today, sum, Back(clean.series, MoveObs), cfg))

IngestHyOasInput(feed, asOf, cfg, isValidation) ==
  LET window == Windowed(feed, asOf, isValidation)
      raw    == Usable(window)
      clean  == Cleaned(raw, DOMAIN window, asOf, cfg.stale.fred)
      today  == Last(clean.series)
      delta  == ObsChange(clean.series, DeltaObs)
  IN IF raw = <<>> THEN None
     ELSE IF Len(clean.series) < DeltaObs + 1 \/ clean.stale THEN Flagged(Latest(raw))
     ELSE Measured(today, delta, EvaluateHyOas(today, delta, cfg))

(* No observations at all are expected before 2003; the band is the row's   *)
(* colour where it is measured under a config that has the thresholds.      *)
IngestRealYieldShockInput(feed, asOf, cfg, isValidation) ==
  LET window == Windowed(feed, asOf, isValidation)
      raw    == Usable(window)
      clean  == Cleaned(raw, DOMAIN window, asOf, cfg.stale.fred)
      change == ObsChange(clean.series, ShockObs)
      band   == EvaluateRealYieldShock(change, cfg)
  IN IF raw = <<>> THEN Flagged(None)
     ELSE IF Len(clean.series) < ShockObs + 1 \/ clean.stale THEN Flagged(Latest(raw))
     ELSE Measured(Last(clean.series), change, IF band = None THEN "YELLOW" ELSE band)

IngestVixTermStructureInput(vix, vix3m, asOf, cfg, isValidation) ==
  LET near   == Windowed(vix, asOf, isValidation)
      far    == Windowed(vix3m, asOf, isValidation)
      Clean(raw) == Cleaned(raw, DOMAIN near \cup DOMAIN far, asOf, cfg.stale.market)
      known  == \A raw \in {near, far} : Clean(raw).series # <<>> /\ ~Clean(raw).stale
      today  == Last(Clean(near).series)
      later  == Last(Clean(far).series)
  IN IF near = <<>> \/ far = <<>> THEN Flagged(None)
     ELSE IF ~known \/ later = 0 THEN Flagged(None)
     ELSE Measured(today, later, EvaluateVixTermStructure(today, later, cfg))

(* The latest prints, whatever they are of: this input knows no staleness.  *)
IngestUsDataStackInput(cpi, gdp, payems, unrate, cfg) ==
  LET yoy  == Growth(cpi, 12)
      jobs == EvaluateJobs(SahmTriggered(unrate), RecentNfpChanges(payems), cfg)
      cpiBand == IF Len(yoy) < 3 THEN "YELLOW"
                 ELSE EvaluateCpiTrajectory(DetectTrajectory(LastOf(yoy, 3)))
  IN [colour |-> AggregateUsDataStack(cpiBand, EvaluateGdpLevel(Growth(gdp, 1), cfg), jobs, cfg),
      jobs |-> jobs]

(* The change comes of the cleaned series, the level, the episode and its   *)
(* window of the observations as they are.                                  *)
CurveWindow(feed, asOf, cfg) ==
  LET days    == SetToSortSeq(DOMAIN Usable(feed), <)
      obs     == [i \in DOMAIN days |-> [date |-> days[i], value |-> feed[days[i]]]]
      episode == ScanForMostRecentEpisode(obs, cfg.curve.inversion, cfg.curve.uninversion)
  IN [episode |-> episode,
      inside |-> /\ episode # None
                 /\ IsWithinRedWindow(obs, episode.to, asOf, cfg.curve.window)]
IngestYieldCurveInput(feed, asOf, cfg, isValidation, jobs, shock) ==
  LET window == Windowed(feed, asOf, isValidation)
      raw    == Usable(window)
      clean  == Cleaned(raw, DOMAIN window, asOf, cfg.stale.fred)
      delta  == IF clean.stale THEN None ELSE ObsChange(clean.series, CurveObs)
  IN IF raw = <<>> \/ jobs = None THEN None
     ELSE Measured(Latest(raw), delta,
            Evaluate2s10s(Latest(raw), delta, CurveWindow(window, asOf, cfg).inside, jobs, cfg, shock))
-------------------------------------------------------------------------------
(* The order of the inputs. *)

(* Depth first; None once a dependency is unknown or depends on itself.     *)
Visit(deps) ==
  LET codesOf == DOMAIN deps \cup UNION {ToSet(deps[c]) : c \in DOMAIN deps}
      visit[codes \in Seq(codesOf), visiting \in SUBSET codesOf,
            ordered \in {None} \cup Seq(codesOf)] ==
        IF ordered = None \/ codes = <<>> THEN ordered
        ELSE LET c == Head(codes)
                 below == visit[deps[c], visiting \cup {c}, ordered]
             IN visit[Tail(codes), visiting,
                  IF c \notin DOMAIN deps THEN None
                  ELSE IF c \in ToSet(ordered) THEN ordered
                  ELSE IF c \in visiting \/ below = None THEN None
                  ELSE Append(below, c)]
  IN visit

(* Variant: the list as it is written.                                      *)
AsListed(inputs, deps) == inputs

OrderedCompassInputs(inputs, deps) == Visit(deps)[inputs, {}, <<>>]
-------------------------------------------------------------------------------
(* The runs. *)

Codes == ToSet(Registry)

Init ==
  /\ print \in Prints
  /\ rows = [c \in Codes |-> None]
  /\ run = [p \in Procs |-> None]
  /\ astray = FALSE

(* New prints and revisions come out at any time.                           *)
Publish == print' \in Prints \ {print} /\ UNCHANGED <<rows, run, astray>>

Start(p) ==
  LET others == {q \in Procs : run[q] # None}
  IN /\ run[p] = None
     /\ run' = [q \in Procs |->
                  IF q = p THEN [left |-> OrderedCompassInputs(Registry, DependsOn), got |-> None,
                                 alone |-> others = {}]
                  ELSE IF q \in others THEN [run[q] EXCEPT !.alone = FALSE] ELSE None]
     /\ astray' = (astray \/ others # {})
     /\ UNCHANGED <<print, rows>>

Fetch(p) ==
  /\ run[p] # None /\ run[p].got = None /\ run[p].left # <<>>
  /\ run' = [run EXCEPT ![p].got = print]
  /\ UNCHANGED <<print, rows, astray>>

(* Without a jobs band for the day the curve throws; without a real-yield   *)
(* band it goes on.                                                         *)
ReadDependencies(p) ==
  LET stack == rows["US_DATA_STACK"]
      shock == rows["REAL_YIELD_SHOCK"]
  IN /\ run[p] # None /\ run[p].left # <<>>
     /\ Head(run[p].left) = "YIELD_2S10S"
     /\ run[p].got # None /\ "inWindow" \in DOMAIN run[p].got
     /\ stack # None
     /\ run' = [run EXCEPT ![p].got =
                  [jobs |-> stack.jobs, shock |-> IF shock = None THEN None ELSE shock.colour,
                   inside |-> run[p].got.inWindow]]
     /\ UNCHANGED <<print, rows, astray>>

RowOf(code, got) ==
  CASE code = "US_DATA_STACK" ->
         [colour |-> AggregateUsDataStack(got.cpi, "YELLOW", got.jobs, ConfigV3), jobs |-> got.jobs]
    [] code = "REAL_YIELD_SHOCK" -> [colour |-> got.shock]
    [] code = "YIELD_2S10S" ->
         [colour |-> Evaluate2s10s(0, 0, got.inside, got.jobs, ConfigV3, got.shock),
          jobs |-> got.jobs, shock |-> got.shock]

(* Nothing is written when the row says the same already, sub-checks too.   *)
Upserted(existing, row) == IF existing = row THEN existing ELSE row

Upsert(p) ==
  LET code == Head(run[p].left)
  IN /\ run[p] # None /\ run[p].left # <<>> /\ run[p].got # None
     /\ (code = "YIELD_2S10S") <=> ("inside" \in DOMAIN run[p].got)
     /\ rows' = [rows EXCEPT ![code] = Upserted(@, RowOf(code, run[p].got))]
     /\ run' = [run EXCEPT ![p].left = Tail(@), ![p].got = None]
     /\ astray' = IF code = "YIELD_2S10S" THEN ~run[p].alone ELSE astray
     /\ UNCHANGED print

(* An input fails: the next one is tried.                                   *)
Fail(p) ==
  /\ run[p] # None /\ run[p].left # <<>>
  /\ run' = [run EXCEPT ![p].left = Tail(@), ![p].got = None]
  /\ astray' = (astray \/ Head(run[p].left) = "YIELD_2S10S")
  /\ UNCHANGED <<print, rows>>

Complete(p) ==
  /\ run[p] # None /\ run[p].left = <<>>
  /\ run' = [run EXCEPT ![p] = None]
  /\ UNCHANGED <<print, rows, astray>>

Crash(p) ==
  /\ run[p] # None
  /\ run' = [run EXCEPT ![p] = None]
  /\ astray' = TRUE
  /\ UNCHANGED <<print, rows>>

Next ==
  \/ Publish
  \/ \E p \in Procs : \/ Start(p) \/ Fetch(p) \/ ReadDependencies(p) \/ Upsert(p)
                      \/ Fail(p) \/ Complete(p) \/ Crash(p)
-------------------------------------------------------------------------------
(* "The curve must never score against a stale or absent jobs sub-check":   *)
(* between runs, the bands the curve's row was scored with are those of the *)
(* rows it depends on, unless runs overlapped or the last one that rewrote  *)
(* them did not get the curve stored.                                       *)
CurveFollowsItsInputs ==
  LET curve == rows["YIELD_2S10S"]
  IN (/\ \A p \in Procs : run[p] = None
      /\ ~astray /\ curve # None) =>
       /\ curve.jobs = rows["US_DATA_STACK"].jobs
       /\ curve.shock = IF rows["REAL_YIELD_SHOCK"] = None THEN None
                        ELSE rows["REAL_YIELD_SHOCK"].colour
===============================================================================
