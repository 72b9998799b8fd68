------------------------------ MODULE MCServices ------------------------------
(***************************************************************************)
(* Services that share no state, side by side: a behaviour is one of one   *)
(* instance of one of them, the part.  The services take turns in the      *)
(* slots x1 to x12; slots a service has no use for stay None.              *)
(***************************************************************************)
EXTENDS Integers, Sequences, FiniteSets, TLC

CONSTANTS None, w1, w2, cpi, vote, f1, a1, a2, lone, gap

(* The two writers may change places; only invariants are checked.          *)
AnyWriter == Permutations({w1, w2})

VARIABLES part, x1, x2, x3, x4, x5, x6, x7, x8, x9, x10, x11, x12

(* The slots from the n-th on are not in use.                                *)
Free8 == x8 = None /\ x9 = None /\ x10 = None /\ x11 = None /\ x12 = None
Free7 == x7 = None /\ Free8
Free6 == x6 = None /\ Free7
Free5 == x5 = None /\ Free6
Free4 == x4 = None /\ Free5
Free3 == x3 = None /\ Free4
Free2 == x2 = None /\ x3 = None /\ x4 = None /\ x5 = None /\ Free6
From8 == <<x8, x9, x10, x11, x12>>
From7 == <<x7, From8>>
From6 == <<x6, From7>>
From5 == <<x5, From6>>
From4 == <<x4, From5>>
From3 == <<x3, From4>>
From2 == <<x2, x3, x4, x5, From6>>
-------------------------------------------------------------------------------
(* A row of a vintage table: one column, one JSON column.                   *)
Pay == {[num |-> n, json |-> <<"a", "b">>, text |-> 1] : n \in 1..2}
ByKey(json) == <<"b", "a">>

Upsert == INSTANCE VintageUpsert WITH
  Writers <- {w1, w2}, Payloads <- Pay, Sorted <- ByKey, MaxRows <- 3,
  rows <- x1, calls <- x2, stale <- x3, last <- x4, result <- x5

(* Ten minutes, two processes.                                              *)
Runs == INSTANCE JobRuns WITH
  Procs <- {w1, w2}, MaxNow <- 2, MaxRows <- 3,
  now <- x1, trading <- x2, job <- x3, log <- x4, run <- x5

(* A handler that names its data point and one that does not; with two      *)
(* flags of its own a score is too wide to carry for long.                  *)
Answers == {[score |-> 1, flags |-> <<>>, named |-> TRUE],
            [score |-> 0, flags |-> <<"MARK">>, named |-> FALSE]}
Scores == INSTANCE ScoreStore WITH
  Days <- 1..2, Writers <- {w1, w2}, Versions <- {1, 2}, FlagWidth <- 50, MaxNews <- 1,
  Width <- [MARK |-> 24, CARRY_FORWARD |-> 13],
  answer <- x1, linked <- x2, version <- x3, scores <- x4, call <- x5, news <- x6,
  produced <- x7

(* Days are four ticks long, Indian time is one tick ahead.                 *)
Mapping == [t \in {cpi, vote} |->
  IF t = cpi THEN [variant |-> None, primary |-> TRUE, alertOnly |-> FALSE] ELSE None]
Feed == INSTANCE ReleaseDesk WITH
  Day <- 4, Ist <- 1, Window <- 1, Titles <- {cpi}, Resolve <- Mapping, Registered <- {},
  Times <- {3, 4}, Fetchers <- {f1}, Admins <- {lone}, Clock <- {9}, Seeds <- {{}},
  MaxBorn <- 0, Crashes <- FALSE,
  now <- x1, feed <- x2, events <- x3, points <- x4, deferrals <- x5, born <- x6,
  fetch <- x7, desk <- x8, ingested <- x9, captured <- x10, entered <- x11, broken <- x12

(* Two occurrences too far apart to be one, both due.                       *)
Week == INSTANCE ReleaseDesk WITH
  Day <- 4, Ist <- 1, Window <- 1, Titles <- {cpi}, Resolve <- Mapping, Registered <- {},
  Times <- {3, 6}, Fetchers <- {f1}, Admins <- {}, Clock <- {9}, Seeds <- {{}},
  MaxBorn <- 0, Crashes <- TRUE,
  now <- x1, feed <- x2, events <- x3, points <- x4, deferrals <- x5, born <- x6,
  fetch <- x7, desk <- x8, ingested <- x9, captured <- x10, entered <- x11, broken <- x12

(* Two releases on the calendar, two admins at work.                        *)
Scheduled == {[id |-> n, title |-> cpi, at |-> 4 * n, filled |-> TRUE, actual |-> FALSE] :
                n \in 0..1}
Desk == INSTANCE ReleaseDesk WITH
  Day <- 4, Ist <- 1, Window <- 1, Titles <- {cpi}, Resolve <- Mapping, Registered <- {},
  Times <- {}, Fetchers <- {}, Admins <- {a1, a2}, Clock <- {0, 5, 9}, Seeds <- {Scheduled},
  MaxBorn <- 2, Crashes <- TRUE,
  now <- x1, feed <- x2, events <- x3, points <- x4, deferrals <- x5, born <- x6,
  fetch <- x7, desk <- x8, ingested <- x9, captured <- x10, entered <- x11, broken <- x12

(* The shock layer with days classified late.                               *)
ShockInput(s, f) == [complete |-> TRUE, cand |-> "Caution", seen |-> s, fires |-> f]
Shocks == {ShockInput({"A"}, {"A"}), ShockInput({"A", "B"}, {}), ShockInput({"A", "B"}, {"B"}),
           [ShockInput({"A"}, {}) EXCEPT !.complete = FALSE]}
Shock == INSTANCE Compass WITH
  MaxDay <- 4, DaysToHigherSeverity <- 3, DaysToLowerSeverity <- 5, Expiry <- 2, LookBack <- 3,
  Inputs <- Shocks, MaxRevisions <- 0, Backfill <- TRUE,
  today <- x1, input <- x2, revisions <- x3, cls <- x4, shock <- x5, run <- x6

(* Votes and shocks, each day classified on its day.                        *)
Daily == INSTANCE CompassReplay WITH
  MaxDay <- 4, DaysToHigherSeverity <- 2, DaysToLowerSeverity <- 3, Expiry <- 2, LookBack <- 3,
  Inputs <- {ShockInput({"A"}, {}), ShockInput({"A"}, {"A"}), ShockInput({"B"}, {"B"}),
             [ShockInput({"A", "B"}, {}) EXCEPT !.cand = "Risk-On"]},
  MaxRevisions <- 0, Backfill <- FALSE,
  today <- x1, input <- x2, revisions <- x3, cls <- x4, shock <- x5, run <- x6

(* Scorecards of 8 to 11 points, by what the best possible one lacks; days  *)
(* may be left out, and the last one assembled again.                       *)
Best == [PMI_MFG |-> 1, PMI_SVC |-> 1, CPI |-> 2, RBI_RATE |-> 1, IIP |-> 1,
         DII_ABSORPTION |-> 1, FII_FLOW |-> 2, VIX |-> 1, USD_WEAKNESS |-> 2, DXY |-> 1,
         BRENT |-> 1, USDINR |-> 2, FII_LS_RATIO |-> 0]
Lacking == {{"FII_FLOW", "USD_WEAKNESS", "VIX"}, {"FII_FLOW", "USD_WEAKNESS", "USDINR"},
            {"FII_FLOW", "USD_WEAKNESS", "USDINR", "VIX"},
            {"FII_FLOW", "USD_WEAKNESS", "USDINR", "VIX", "DXY"}}
Ledger == INSTANCE NiftyScorecard WITH
  LookbackSessions <- 3, HistoryDepth <- 4, DeactivationSessions <- 2, cards <- x1
AssembleNext ==
  \E d \in 1..5, out \in Lacking :
    /\ \A e \in Ledger!Sessions : e <= d
    /\ \E e \in Ledger!Sessions \cup {0} : d <= e + 2
    /\ Ledger!AssembleScorecard(d, [c \in DOMAIN Best |-> IF c \in out THEN None ELSE Best[c]],
                                None, <<>>)

(* One admin declaring stances in any order of dates, and two at once.      *)
Stance(admins, puts, stances, constraints) == INSTANCE CycleStances WITH
  Days <- 1..3, Admins <- admins, MaxPuts <- puts, Stances <- stances,
  Constraints <- constraints, rows <- x1, put <- x2, declared <- x3, overlap <- x4, behind <- x5
BothStances == {"HIKING", "CUTTING"}
Fed == {"FREE", "CONSTRAINED"}

(* Risk-off by the votes while rates are hawkish, by shock A while they are *)
(* not known, and a caution day with shock B.                               *)
Gate(final, standard, a, b, hawkish) ==
  [final |-> final, standard |-> standard, shockA |-> a, shockB |-> b, enabled |-> TRUE,
   hawkish |-> hawkish, fed |-> "FREE"]
Chain == INSTANCE EdgeScores WITH
  Days <- 1..2, gates <- x1, cards <- x2, pairs <- x3,
  Gates <- {Gate("Risk-Off", "Risk-Off", FALSE, FALSE, TRUE),
            Gate("Risk-Off", "Caution", TRUE, FALSE, None),
            Gate("Caution", "Caution", FALSE, TRUE, TRUE)}

(* A trade edited in two windows: the stop or the entry is moved, the fill  *)
(* is closed, reopened and corrected.                                       *)
Plan == [direction |-> "Buy", entry |-> 3, sl |-> 1, firstTp |-> None, mainTp |-> 5, opened |-> 1]
OpenFill == [risk |-> 100, entry |-> 3, isClosed |-> FALSE, partial |-> None, pct |-> None,
             exit |-> None, closed |-> None, type |-> "TP", pnl |-> None, mfe |-> None,
             mae |-> None]
Closing == {[isClosed |-> TRUE], [isClosed |-> TRUE, exit |-> 5, pnl |-> 2],
            [isClosed |-> FALSE], [exit |-> None], [partial |-> 4, pct |-> 50, mfe |-> 5]}
Journal == INSTANCE TradeJournal WITH
  Grace <- 1, Windows <- {w1, w2}, Now <- 2, Plans <- {Plan}, Fills <- {OpenFill},
  PlanPatches <- {[entry |-> 2], [sl |-> 2], [entry |-> 3, sl |-> 4], [direction |-> "Sell"]},
  FillPatches <- Closing,
  plan <- x1, fill <- x2, edit <- x3, raced <- x4

(* The US data stack, the real yield and the curve, in the red window.      *)
FredPrint(jobs, shock) == [cpi |-> "RED", jobs |-> jobs, shock |-> shock, inWindow |-> TRUE]
Inputs == INSTANCE CompassInputs WITH
  Calendar <- {}, AvgObs <- 5, SmaObs <- 50, MoveObs <- 5, DeltaObs <- 10, CurveObs <- 30,
  ShockObs <- 60, Procs <- {w1, w2},
  Registry <- <<"US_DATA_STACK", "REAL_YIELD_SHOCK", "YIELD_2S10S">>,
  DependsOn <- [c \in {"US_DATA_STACK", "REAL_YIELD_SHOCK", "YIELD_2S10S"} |->
                  IF c = "YIELD_2S10S" THEN <<"US_DATA_STACK", "REAL_YIELD_SHOCK">> ELSE <<>>],
  Prints <- {FredPrint("YELLOW", "GREEN"), FredPrint("RED", "GREEN"), FredPrint("GREEN", "RED")},
  print <- x1, rows <- x2, run <- x3, astray <- x4

(* Three days of a series with a backfill of its first two; two processes   *)
(* over two days; averages of two days and the other ingests without a      *)
(* revision buffer; and four days of Brent.                                 *)
Series(kinds, procs, days, values, ranges, buffer) == INSTANCE SeriesIngests WITH
  Kinds <- kinds, Procs <- procs, LastDay <- days, Values <- values, Ranges <- ranges,
  Buffer <- buffer, Lookback <- 2, Window <- 2, Threshold <- 2, Gap <- gap,
  kind <- x1, feed <- x2, rows <- x3, run <- x4, settled <- x5

Nse == INSTANCE NseSession WITH Calls <- {w1, w2}, session <- x1, call <- x2
-------------------------------------------------------------------------------
Init ==
  \/ part = "upsert" /\ Upsert!Init /\ Free6
  \/ part = "runs" /\ Runs!Init /\ Free6
  \/ part = "scores" /\ Scores!Init /\ Free8
  \/ part = "feed" /\ Feed!Init
  \/ part = "week" /\ Week!Init
  \/ part = "desk" /\ Desk!Init
  \/ part = "shock" /\ Shock!Init /\ Free7
  \/ part = "daily" /\ Daily!Init /\ Free7
  \/ part = "ledger" /\ Ledger!Init(1..5) /\ Free2
  \/ part = "stance" /\ Stance({lone}, 3, BothStances, Fed)!Init /\ Free6
  \/ part = "stances" /\ Stance({a1, a2}, 2, {"HIKING"}, {})!Init /\ Free6
  \/ part = "chain" /\ Chain!ChainInit /\ Free4
  \/ part = "journal" /\ Journal!Init /\ Free5
  \/ part = "inputs" /\ Inputs!Init /\ Free5
  \/ part = "series" /\ Series({"fred"}, {lone}, 3, {10, 21}, {<<1, 2>>}, 1)!Init /\ Free6
  \/ part = "pair" /\ Series({"eodhd"}, {w1, w2}, 2, {10, 20}, {}, 1)!Init /\ Free6
  \/ part = "average" /\ Series({"sma"}, {lone}, 3, {10, 21}, {}, 0)!Init /\ Free6
  \/ part = "newest" /\ Series({"crude", "vix"}, {lone}, 2, {10, 21}, {}, 0)!Init /\ Free6
  \/ part = "brent" /\ Series({"yahoo"}, {lone}, 4, {10, 21}, {}, 1)!Init /\ Free6
  \/ part = "nse" /\ Nse!Init /\ Free3

UpsertStep == part = "upsert" /\ Upsert!Next /\ UNCHANGED <<part, From6>>
RunsStep   == part = "runs" /\ Runs!Next /\ UNCHANGED <<part, From6>>
ScoresStep == part = "scores" /\ Scores!Next /\ UNCHANGED <<part, From8>>
FeedStep   == part = "feed" /\ Feed!Next /\ UNCHANGED part
WeekStep   == part = "week" /\ Week!Next /\ UNCHANGED part
DeskStep   == part = "desk" /\ Desk!Next /\ UNCHANGED part
ShockStep  == part = "shock" /\ Shock!Next /\ UNCHANGED <<part, From7>>
DailyStep  == part = "daily" /\ Daily!Next /\ UNCHANGED <<part, From7>>
LedgerStep == part = "ledger" /\ AssembleNext /\ UNCHANGED <<part, From2>>
StanceStep ==
  /\ \/ part = "stance" /\ Stance({lone}, 3, BothStances, Fed)!Next
     \/ part = "stances" /\ Stance({a1, a2}, 2, {"HIKING"}, {})!Next
  /\ UNCHANGED <<part, From6>>
ChainStep == part = "chain" /\ Chain!ChainNext /\ UNCHANGED <<part, From4>>
JournalStep == part = "journal" /\ Journal!Next /\ UNCHANGED <<part, From5>>
InputsStep == part = "inputs" /\ Inputs!Next /\ UNCHANGED <<part, From5>>
SeriesStep ==
  /\ \/ part = "series" /\ Series({"fred"}, {lone}, 3, {10, 21}, {<<1, 2>>}, 1)!Next
     \/ part = "pair" /\ Series({"eodhd"}, {w1, w2}, 2, {10, 20}, {}, 1)!Next
     \/ part = "average" /\ Series({"sma"}, {lone}, 3, {10, 21}, {}, 0)!Next
     \/ part = "newest" /\ Series({"crude", "vix"}, {lone}, 2, {10, 21}, {}, 0)!Next
     \/ part = "brent" /\ Series({"yahoo"}, {lone}, 4, {10, 21}, {}, 1)!Next
  /\ UNCHANGED <<part, From6>>
NseStep == part = "nse" /\ Nse!Next /\ UNCHANGED <<part, From3>>

Next == \/ UpsertStep \/ RunsStep \/ ScoresStep \/ FeedStep \/ WeekStep \/ DeskStep
        \/ ShockStep \/ LedgerStep \/ StanceStep \/ ChainStep \/ JournalStep \/ InputsStep
        \/ SeriesStep \/ NseStep \/ DailyStep

vars == <<part, x1, x2, x3, x4, x5, x6, x7, From8>>
Spec == Init /\ [][Next]_vars
-------------------------------------------------------------------------------
(* VintageUpsert: an extra current row is the mark of overlapping writers,  *)
(* and a key never loses its current row, nor the last payload.             *)
VintagesHold ==
  part = "upsert" => Upsert!VintagesHold

(* JobRuns: two runs of a job overlap only through the guard's two gaps,    *)
(* and the status of a run agrees with what became of its items.            *)
RunsAreAccounted == part = "runs" => Runs!RunsAreAccounted

(* ScoreStore: no score travels back in time, CARRY_FORWARD tells a carried *)
(* score from a computed one, and a date has one score per rule version.    *)
ScoresAreKept == part = "scores" => Scores!ScoresAreKept

(* ReleaseDesk: what was ingested is not asked for again; a successful      *)
(* run's occurrences are on the calendar; only a deferral newer than the    *)
(* last entry hides a release.                                              *)
DeskAsksRightly ==
  /\ part = "feed" => Feed!IngestedIsNotOverdue
  /\ part = "week" => Week!CapturedIsKept
  /\ part = "desk" => Desk!SnoozedSinceEntry

(* NiftyScorecard: a peak is the highest net since its date, and a ceiling  *)
(* lapses on a full run of sessions below it.                               *)
CeilingsHold == part = "ledger" => Ledger!PeakIsHighest /\ Ledger!LapsesOnFullRun

(* CycleStances: the stance of a day is the one declared last for it, the   *)
(* Fed constraint survives PUTs that do not mention it, and a second open   *)
(* row takes two PUTs at once, or a late seed.                              *)
StancesAreKept ==
  /\ part = "stance" =>
       /\ Stance({lone}, 3, BothStances, Fed)!StanceIsLastDeclared
       /\ Stance({lone}, 3, BothStances, Fed)!FedIsLastDeclared
  /\ part = "stances" => Stance({a1, a2}, 2, {"HIKING"}, {})!SecondOpenIsExplained

(* What is stored of a computation agrees with what is stored of its        *)
(* inputs.  EdgeScores: on one gate the two yen overrides come together.    *)
(* CompassInputs: the curve's row agrees with the rows it was scored with.  *)
(* CompassReplay: the classifications are those of the historical replay.   *)
(* Compass: a trigger is on only because it fired within its window, also   *)
(* where days are classified late.                                          *)
DerivedRowsAgree ==
  /\ part = "shock" => Shock!ShockHasCause
  /\ part = "chain" => Chain!CarryPairsAgree
  /\ part = "inputs" => Inputs!CurveFollowsItsInputs
  /\ part = "daily" => Daily!ReplayAgrees

(* TradeJournal: a stop at the entry is stored by edits that overlap only;  *)
(* a closed fill has its exit, an open one nothing of it.                   *)
JournalIsCoherent == part = "journal" => Journal!JournalIsCoherent

(* SeriesIngests: a clean run leaves the days it fetched as the feed has    *)
(* them, each after the one before it, and a frozen feed marked.            *)
(* NseSession: one fault never costs a call that has its session to itself. *)
FeedsAreFollowed ==
  /\ part = "series" => Series({"fred"}, {lone}, 3, {10, 21}, {<<1, 2>>}, 1)!FeedIsFollowed
  /\ part = "pair" => Series({"eodhd"}, {w1, w2}, 2, {10, 20}, {}, 1)!FeedIsFollowed
  /\ part = "average" => Series({"sma"}, {lone}, 3, {10, 21}, {}, 0)!FeedIsFollowed
  /\ part = "newest" => Series({"crude", "vix"}, {lone}, 2, {10, 21}, {}, 0)!FeedIsFollowed
  /\ part = "brent" => Series({"yahoo"}, {lone}, 4, {10, 21}, {}, 1)!FeedIsFollowed
  /\ part = "nse" => Nse!OneFaultIsSurvived
===============================================================================
