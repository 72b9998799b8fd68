-------------------------------- MODULE JobRuns --------------------------------
(***************************************************************************)
(* Scheduled jobs, their fetch log and the guard against running twice.    *)
(* A job is run by the cron of any instance of the server and by the admin *)
(* trigger, which answers at once and does not wait.  The guard is a read  *)
(* of the log; the log row that it looks for is written afterwards, and    *)
(* completed at the end if the process lives to do it.                     *)
(*                                                                         *)
(* Time is in ticks of five minutes, the unit of the guards' lookbacks.    *)
(***************************************************************************)
EXTENDS Integers, FiniteSets, SequencesExt

CONSTANTS
  Procs,     \* server instances and admin requests
  MaxNow,    \* bound on the clock
  MaxRows,   \* bound on log rows
  None

VARIABLES
  now,
  trading,   \* today is an NSE trading day, where the job asks
  job,       \* the job of this behaviour
  log,       \* data_fetch_log: [id, start, status, results]
  run        \* run[p]: the run p is in, if any

vars == <<now, trading, job, log, run>>

(* What a job does: its lookback, what it works through, the status that    *)
(* is logged of the results, what becomes of the row when something throws  *)
(* outside an item, and what it does once its row is complete.              *)
Job(name, lookback, items, rollup, thrown, then) ==
  [name |-> name, lookback |-> lookback, items |-> items, rollup |-> rollup,
   thrown |-> thrown, then |-> then]

runEodhdFetchAll    == Job("eodhd_fetch", 1, 2, "byIndicator", "failed", None)
runFredFetchAll     == Job("fred_daily_fetch", 1, 2, "byIndicator", "failed", None)
runYahooBrentFetch  == Job("yahoo_brent_fetch", 1, 1, "asReported", "failed", None)
runCrudeBrentFetch  == Job("crude_price_fetch", 1, 1, "successOrFailed", "failed", None)
runNseVixScrape     == Job("scrape_nse_vix", 1, 1, "asReported", "failed", None)
runNseFiiDiiScrape  == Job("scrape_nse_fii_dii", 1, 1, "asReported", "failed", None)
runNseParticipantOiScrape == Job("scrape_nse_participant_oi", 1, 1, "asReported", "failed", None)
runForexFactoryFetch == Job("forex_factory_weekly_fetch", 1, 1, "asReported", "failed", None)
runCftcCotFetch     == Job("cftc_cot_weekly_fetch", 1, 1, "asReported", "failed", None)
runNiftyInd9BridgeCron == Job("nifty_ind9_bridge", 1, 1, "asReported", "failed", None)
runScorecardAssemblyCron == Job("assemble_scorecard", 1, 1, "asReported", "failed", None)
runAllCompassInputs == Job("compass_inputs_daily_fetch", 2, 2, "byItem", "left", None)
runCompassClassifierJob ==
  Job("compass_classifier_daily_run", 2, 1, "asReported", "failed", "modules")
runScorecardOrchestrator == Job("edgefinder_scorecard_assembly", 3, 2, "anySuccess", "left", None)
runPairScoreOrchestrator == Job("edgefinder_pair_score_assembly", 3, 2, "anySuccess", "left", None)

(* The jobs of the admin trigger, all but one of them also on a cron.       *)
JOB_HANDLERS ==
  {runEodhdFetchAll, runFredFetchAll, runYahooBrentFetch, runNseVixScrape,
   runNseFiiDiiScrape, runNseParticipantOiScrape, runScorecardAssemblyCron,
   runForexFactoryFetch, runCftcCotFetch, runAllCompassInputs,
   runCompassClassifierJob, runScorecardOrchestrator, runPairScoreOrchestrator,
   runNiftyInd9BridgeCron}
Jobs == JOB_HANDLERS \cup {runCrudeBrentFetch}

Count(results, r) == Cardinality({i \in DOMAIN results : results[i] = r})

Rollup(rollup, results) ==
  LET failed    == Count(results, "failed")
      partial   == Count(results, "partial")
      succeeded == Count(results, "success")
  IN CASE rollup = "byIndicator" ->
            IF failed > 0 /\ succeeded = 0 THEN "failed"
            ELSE IF failed > 0 \/ partial > 0 THEN "partial" ELSE "success"
       [] rollup = "byItem" ->
            IF failed = 0 THEN "success" ELSE IF succeeded = 0 THEN "failed" ELSE "partial"
       [] rollup = "anySuccess" ->
            IF failed > 0 /\ succeeded = 0 THEN "failed" ELSE "success"
       [] rollup = "successOrFailed" ->
            IF succeeded = 1 THEN "success" ELSE "failed"
       [] rollup = "asReported" -> results[1]

(* An item of an orchestrator, or a whole fetch, reports one of these.      *)
ItemResults(j) ==
  IF j.rollup \in {"byItem", "anySuccess"} \/ j.name = "assemble_scorecard"
    THEN {"success", "failed"} ELSE {"success", "partial", "failed"}

Idle == [stage |-> "idle"]

Init ==
  /\ now = 0
  /\ job \in Jobs
  /\ trading \in (IF job.name = "assemble_scorecard" THEN BOOLEAN ELSE {TRUE})
  /\ log = {}
  /\ run = [p \in Procs |-> Idle]

Tick ==
  /\ now < MaxNow
  /\ now' = now + 1
  /\ UNCHANGED <<trading, job, log, run>>

(* Variant: of the last run only, whatever became of the ones before.       *)
RunningLast(j) ==
  {r \in log : r.status = "running" /\ r.start >= now - j.lookback
               /\ \A q \in log : q.id <= r.id}
(* isJobRunning: the running rows that started within the lookback.         *)
Running(j) == {r \in log : r.status = "running" /\ r.start >= now - j.lookback}

(* The guard, and for the NIFTY scorecard the trading day after it: a run   *)
(* that may not start is skipped, with no row.                              *)
Guard(p) ==
  /\ run[p] = Idle
  /\ Running(job) = {}
  /\ job.name = "assemble_scorecard" => trading
  /\ run' = [run EXCEPT ![p] = [stage |-> "cleared", at |-> now, saw |-> {r.id : r \in log}]]
  /\ UNCHANGED <<now, trading, job, log>>

Start(p) ==
  /\ run[p].stage = "cleared"
  /\ Cardinality(log) < MaxRows
  /\ log' = log \cup {[id |-> Cardinality(log) + 1, start |-> now, status |-> "running",
                       results |-> {}]}
  /\ run' = [run EXCEPT ![p] = [stage |-> "work", id |-> Cardinality(log) + 1,
                                at |-> @.at, saw |-> @.saw]]
  /\ UNCHANGED <<now, trading, job>>

(* The manual route for the NIFTY scorecard: the same guard, name and log,  *)
(* the trading day first and an answer instead of a silent skip.            *)
AssembleRoute(p) == job.name = "assemble_scorecard" /\ Guard(p)

Completed(id, status, results) ==
  {IF r.id = id THEN [r EXCEPT !.status = status, !.results = results] ELSE r : r \in log}

(* The items one after the other: what throws inside one is a failure of    *)
(* that item alone, and the next is taken.  Then the row.                   *)
Complete(p) ==
  /\ run[p].stage = "work"
  /\ \E results \in [1..job.items -> ItemResults(job)] :
       LET status == Rollup(job.rollup, results)
       IN /\ log' = Completed(run[p].id, status, ToSet(results))
          /\ run' = [run EXCEPT ![p] = IF job.then = "modules" /\ status = "success"
                                         THEN [stage |-> "modules"] ELSE Idle]
  /\ UNCHANGED <<now, trading, job>>

(* Something outside the items throws: caught, and logged as failed; or, in *)
(* the orchestrators, where the list of assets or pairs is read and where   *)
(* the row is completed, not caught: the row stays as it is.                *)
Throw(p) ==
  /\ run[p].stage = "work"
  /\ log' = IF job.thrown = "failed" THEN Completed(run[p].id, "failed", {}) ELSE log
  /\ run' = [run EXCEPT ![p] = Idle]
  /\ UNCHANGED <<now, trading, job>>

(* The database is away when the row is to be completed, or the process     *)
(* dies, or a shutdown is forced ten seconds after the signal.              *)
Crash(p) ==
  /\ run[p] # Idle
  /\ run' = [run EXCEPT ![p] = Idle]
  /\ UNCHANGED <<now, trading, job, log>>

(* The classifier's module readings, after its row and under no guard; a    *)
(* failure here is logged and leaves the classification as it is.           *)
Modules(p) ==
  /\ run[p].stage = "modules"
  /\ run' = [run EXCEPT ![p] = Idle]
  /\ UNCHANGED <<now, trading, job, log>>

Next ==
  \/ Tick
  \/ \E p \in Procs : \/ Guard(p) \/ AssembleRoute(p) \/ Start(p)
                      \/ Complete(p) \/ Throw(p) \/ Crash(p) \/ Modules(p)

Spec == Init /\ [][Next]_vars
-------------------------------------------------------------------------------
RowOf(p) == CHOOSE r \in log : r.id = run[p].id
Working  == {p \in Procs : run[p].stage = "work"}

(* Two runs of a job overlap only if neither could have seen the other's    *)
(* row in time (the guard is read before the row is written), or the first  *)
(* had already been running for longer than the lookback: not after a       *)
(* crash, nor behind a run that finished in between.                        *)
OverlapIsExplained ==
  \A p, q \in Working :
    p # q /\ run[p].id < run[q].id =>
      \/ run[p].id \notin run[q].saw
      \/ RowOf(p).start < run[q].at - job.lookback

(* The log does not call a run failed that stored a complete item, nor a    *)
(* success one in which something failed, except that the orchestrators of  *)
(* scorecards and pairs call a run with one good asset a success.           *)
LogIsTrue ==
  \A r \in log :
    /\ r.status = "failed" => "success" \notin r.results
    /\ r.status = "success" =>
         "success" \in r.results /\ (job.rollup # "anySuccess" => "failed" \notin r.results)

(* Both together.                                                           *)
RunsAreAccounted == OverlapIsExplained /\ LogIsTrue
===============================================================================
