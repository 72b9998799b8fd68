# Lucid Backend: specifications, model checking and proofs

Lucid Backend is an Express/TypeScript service over PostgreSQL (Prisma). Cron
jobs and admins feed it economic and market data; from the data it scores
indicators, assembles a daily NIFTY scorecard and a daily EdgeFinder macro
scorecard, classifies the macro regime (Compass), and it keeps a trading
journal for its users. This directory holds TLA+ modules translated from the
code under `src/src` (and from the rules, reference data and configuration its
seeds install), TLC configurations that check them on small instances, and
TLAPS proofs of what matters most for every instance.

Almost all of the difficulty lies in four things the code has in common:

* rows are *vintages*: a correction never overwrites, it demotes the current
  row and creates another, and everything downstream reads "the" current row;
* a service reads first, decides, and writes in a later transaction (or in a
  transaction whose first read takes no lock), under Read Committed;
* jobs retry, are re-run by hand, overlap, and die between two writes;
* what a day computes depends on what an earlier day left behind.

A fifth is peculiar to this code base: the same rule is written down several
times (a handler and a read path, the classifier's audit columns and the
scorecard's gates, the live services and the historical replay), and the
copies have to agree.

## Parts of the system

| Part | State | Operations | Interacts with |
|---|---|---|---|
| Data point store (`data-points.repository.ts`) | `data_points` | `upsert` (one retry), `editInPlace`, queries | every ingest writes it, every score reads it |
| FII/DII batch (`nse-fii-dii.service.ts`) | `data_points`, `data_fetch_log` | `persistFiiDii`: three keys in one transaction, one retry | NSE site, NIFTY scorecard |
| Series ingests (`fred-`, `eodhd-`, `yahoo-brent-`, `crude-price-indicator.service.ts`, `nse-vix.service.ts`) | `data_points` | fetch a range or the newest value, upsert each observation after the one before it | HTTP clients, store |
| NSE client (`nse.client.ts`) | one cookie session per process | get with two retries, renewing the session | scrapes of VIX and flows |
| Manual override, entry, edit (`manual-input`, `manual-data-entry`, `manual-data-edit`) | `data_points`, deferrals | override, ingest one release, edit one row | admins, overdue panel |
| Forex Factory ingest, calendar events | `calendar_events` | fetch a week, collapse duplicates, upsert an event within a window, ingest its actual | data points, overdue panel |
| Overdue panel and deferrals | `calendar_event_deferrals` | find, defer, clear | calendar events, manual entry |
| Score engine and writer (`engine.ts`, `score-writer.service.ts`), handlers | `scores` | score an indicator for a date, carry a score forward | data points, scorecards |
| NIFTY scorecard, Ind 9 bridge, sub-tools | `nifty_scorecards` | assemble a day; velocity, peak ceiling, composition flag | scores, EdgeFinder data |
| EdgeFinder scorecards and pair scores | `edgefinder_scorecards`, `edgefinder_pair_scores` | compute an asset, a pair | data points, Compass |
| Central bank stances (`cycle-stances.routes.ts`, PUT) | `currency_cycle_stance` | close the open row and open another | Compass gates |
| COT ingest | `cot_data` | weekly upsert | pair scores |
| Compass inputs (orchestrator, bands, curve state machine, staleness) | `compass_inputs` | one upsert per input and day, in the order of the registry | FRED, EODHD, CBOE |
| Compass classifier (`compass-classifier.service.ts`, `-logic.ts`) | `compass_classifications` | classify a day; backfill a range | inputs, shock layer, pair scores |
| Compass shock layer (`compass-shock-layer.ts`) | `compass_shock_state` (one row) | advance each trigger by a day | classifier |
| Compass replay (`validation/replay/`) | none | derive every input, classify every day in memory | configuration, series |
| Trading hub (`trades.service.ts`, `accounts.service.ts`) | `trades`, `executions`, `trading_accounts` | create, update, delete an idea; add, edit, remove, promote a fill; delete an account | users; Oracle and regime snapshots |
| Trade validation and metrics (`trade-validation.ts`, `trade-metrics.ts`) | none | check a plan and a fill; pips, R, session | trading hub |
| Fetch log and job guard (`job-guard.ts`, `data-fetch-log.repository.ts`), cron registry | `data_fetch_log` | start, complete, "already running?"; run each job | every job |
| US market calendar | none | is it a trading day | Compass |
| API, auth, migrations, scripts | none of their own | request plumbing, I/O, one-off runs | all services |

What makes each part correct:

* **Store:** at most one current row for an (indicator, date, variant); a
  stored release never disappears; a revision is a revision; what a job
  reports is what it wrote; the retry hides races and nobody waits forever.
* **Ingests:** after a clean run the stored series is the feed, each value
  after the one before it; a frozen feed is marked; one lost request does not
  cost a call.
* **Calendar and overdue:** one release is one event; an unentered release is
  due or overdue until it is entered or deferred, and asked for again only
  then.
* **Scores and scorecards:** one score per date and rule version; a carried
  score is as old as it says; the newest release is scored whatever the order
  of entry; a net score always has a band; a peak is a peak.
* **EdgeFinder:** an override answers the news it is for; a pair compares like
  with like, and turned around scores the opposite; what is stored of a pair
  agrees with the scorecards it was made of.
* **Compass:** the regime moves exactly after a streak of the required length;
  two stored columns carry the whole state of the machine; a shock lasts its
  window and no longer; a colour is of fresh data and never of the future; the
  replay is what the live services would have done.
* **Trading hub:** each idea has fills, exactly one of them primary; fills
  point at live ideas and accounts; stored pips and R belong to the stored
  stop and price; what one path accepts no other rejects.
* **Fetch log:** two runs of a job overlap only where the guard cannot see it;
  what the log says of a run is what happened; a crash does not stop the job
  for good.

## Modules

| Module | Models |
|---|---|
| `VintageRows` | rows, payloads, `Matches`, rounding to the column |
| `DataPoints` | the three write transactions, statement by statement, their retry and faults, and `editInPlace` |
| `VintageTable` | what a caller may rely on: compare-and-supersede in one step; implemented by `DataPoints` (`WritesAreAtomic`) |
| `VintageUpsert` | the same write in the five tables that have no unique index to fall back on |
| `SeriesIngests` | six ingests of the NIFTY series: range, answer, chain of previous values, average, frozen feed |
| `NseSession` | the shared session, two retries, interleaved calls |
| `ReleaseDesk` | Forex Factory fetch, calendar, entry, edits, deferrals, overdue panel |
| `JobRuns` | fifteen jobs, guard, log row, work, completion, crash |
| `ScoringRules` | release resolution and the scoring handlers with the rules in force |
| `ScoreStore` | handler, carry-forward, data point lookup and write of one indicator |
| `NiftyScorecard` | bridge, net, bands, quality gate, velocity, peak ceiling, composition flag |
| `ReferenceData` | EdgeFinder indicators, their rules, assets, pair template |
| `EdgeScores` | override gates, scorecards, pair rows, labels; the chain classification, yen scorecard, yen pair |
| `CycleStances` | the PUT of a stance |
| `CompassBands` | cleaning, staleness, bands, inversion episodes, weights, configuration V1 to V3 |
| `CompassInputs` | each input from series to row; runs over the registry |
| `Compass` | days, inputs, runs, the classification table, the shock cache |
| `PersistenceMachine` | the asymmetric persistence rule with its pending label; implemented by `Compass` (`MachineIsAsSpecified`) |
| `ReplayInputs`, `CompassReplay` | the replay's derivation of inputs, and its pass over the days |
| `UsMarketCalendar` | holidays by rule, closures, trading days |
| `TradingHub` | eight requests on ideas, fills and accounts, statement by statement |
| `TradingHubMix` | three kinds of traffic on it: overlapping requests that keep every fill, overlapping requests that also remove fills and accounts, requests one at a time |
| `TradeRules` | validation on every path, the check of a stored trade, metrics |
| `TradeJournal` | edits of one trade from several windows |
| `DataPointsProofs`, `TradingHubProofs`, `CompassProofs`, `VintageUpsertProofs`, `ScoreStoreProofs`, `JobRunsProofs`, `ReleaseDeskProofs` | theorems of the module they are named after |
| `ServiceProofs` | theorems of `CycleStances`, `NseSession`, `TradeJournal`, `EdgeScores`, `NiftyScorecard` and `CompassInputs` |
| `MCDataPoints`, `MCTradingHub`, `MCTradingHubMix`, `MCCompass`, `MCScoreStore` | values and seeds for TLC |
| `MCServices` | the services that share no state, as parts of one run |
| `MCAlgorithms` | the pure algorithms over bounded inputs, one pick each |

### Data point store

`rows` is the committed table, `pend[c]` and `held[c]` what the open
transaction of call `c` has created and demoted. `FindSkip`, `FindStale` and
`FindNone` are the `findFirst` and the comparison after it, `Demote` the
`update`, `Create` and `CreateRefused` the `create` and its P2002, `Commit` the
end of the `$transaction` callback, `Fault` a lost connection or timeout. A
batch goes round that loop once per key. The engine underneath is external and
modelled from what the code relies on: an `update` waits for a row another
open transaction has updated (`Locked`), a unique check waits for a
transaction that could decide it (`KeyBusy`) and then refuses or not
(`IndexRefuses`). Values are kept in tenths of the column's precision, so that
rounding to the column (`Rounded`) is a real conversion: 20 and 24 are stored
alike. The edit path is two statements with no transaction around them, as in
the code: `EditLoad` is the read with its is-current check, `EditWrite` the
later update by id.

### Vintage tables without an index

`VintageUpsert` is one key of `nifty_scorecards`, `edgefinder_scorecards`,
`edgefinder_pair_scores`, `cot_data` or `compass_classifications`: `Find` reads
the current row, `Skip` is the comparison that ends the call, `Commit` demotes
by id and inserts. How each table compares is kept: every column with JSON as
text (which `jsonb` gives back with its keys reordered), numbers only, or JSON
entry by entry. `stale` counts the commits that were based on a row no longer
current.

### Ingests

`SeriesIngests` follows one run from `FetchIndicator` (the range with its
revision buffer) through `Fetch` (what the client keeps of the answer) and
`Seed...` (the chain of previous values, seeded from the store) to one
`StorePoint` per observation, each of which may fail alone, and `Complete`.
The kinds differ in their answers and their seeding. `settled` remembers the
days the last run stored, if it was alone and nothing failed, so that a
property can speak of what a clean run leaves behind.

`NseSession` has one session for all calls. `Get` finds it or makes one,
`Lost` is a request that timed out or was reset, `Rejected` a 401/403,
`Refused` any other answer, `Renew` the dropping and making of a session
before the next attempt, and `Expire` the clock. A call marks another as
`robbed` when it drops the session that one is using.

### Release desk

Time is an integer with a day of several ticks and Indian time ahead of UTC,
since the code compares instants with UTC dates and Indian dates in turn.
`StartFetch` reads the feed and collapses it, `FindEvent`/`StoreEvent` are the
look-up within the merge window and the write, row by row, with one retry,
`ScoreEvent` the ingest of an actual, `FinishFetch` the status of the run.
`EnterValue` and `ClearDeferrals` are two statements, as are `DeferStanding` and
`WriteStanding`. The panel (`ReleaseState`, `Overdue`, `Badge`) is derived.

### Jobs

`Guard` reads the log, `Start` inserts the running row, `Complete` and `Throw`
write the status that the results of the items give (`Rollup` differs by job),
`Crash` loses the process and leaves the row. `JOB_HANDLERS` lists each job
with its lookback, its items, its roll-up and what an exception becomes. The
guard of a row's age is the only recovery there is.

### Scores

`ScoringRules` has an operator per handler over a set of rows, with averages
and ratios as fractions. `ReleasesWindow`, `Collapse`, `PickLatestRelease` and
`RollingWindow` are the resolvers. `ScoreStore` treats the answer of a handler
as data: what matters there is the order of `RunHandler`, `CarryForward`
(which reads the prior), `Lookup` and `Write`, by two writers, and the width of
the flag column. `NiftyScorecard` keeps `cards` for the sub-tools that look
back; `AssembleScorecard` is the one operation on it.

### EdgeFinder

`EdgeScores` has the gates a classification stores (`GateColumns`), what the
scorecards make of them (`AssetGate`, `PairGate`), `Fundamentals` with all
overrides, `EvaluatePairRow` over the seeded template, and a small state
machine (`ChainInit`, `ChainNext`) of three jobs: the day's classification
with its gate, the yen scorecard that reads it, the pair that reads both.
`CycleStances` is the PUT that feeds the gate.

### Compass

`input`, `cls` and `shock` are the three tables, `run` the run between its
write of the cache and its write of the classification. A day's inputs are
abstracted in `Compass` to what a run makes of them: whether the six voting
inputs are there, the candidate regime, which trigger series have a value that
day and which triggers fire. `Classify` is the run up to the cache write,
`Persist` the classification upsert, `Fail` an error or crash in between. The
candidate is free there: the persistence machine is checked against every
sequence of votes, reachable from real weights or not.

What the votes come from is in `CompassBands` (level arithmetic in integers:
VIX in tenths, spreads in basis points) and `CompassInputs`, which has an
`Ingest...` operator per input and a state machine of two processes that work
through the registry while what FRED publishes changes. `ReplayInputs` and
`CompassReplay` are the second implementation of both.

### Trading hub

`trades`, `execs`, `accts` are the committed tables; `view[r]` is what request
`r` loaded before its transaction; `upd`, `gone`, `put`, `cutA`, `cutT` are the
writes of its open transaction. The first action of each request (`CreateTrade`
... `DeleteAccount`) is everything the service does up to `$transaction`: the
ownership checks, the load and every decision taken from it. Then come the
statements one by one (`Clear`/`Clearing`, `Insert`, `WriteOne`, `Remove`,
`Promote`, `PutTrade`, `Rewrite`, `DropAccount`, `Sweep`, `Cut`) and `Commit`.
`updateMany` is two steps because Read Committed picks its rows first and
locks them after. `TimedOut` stands for the interactive-transaction limit, a
deadlock victim and a lost connection alike: the transaction rolls back.

`TradeRules` gives problems as (field, severity) and `BlocksWrite` by path, so
that the schema of a new trade, the check of an added fill and the check of a
read can be compared. `TradeJournal` uses it for edits that are validated
against the row they read and written, column by column, over what is stored
by then.

## Runs

| Run | Instance | What it shows |
|---|---|---|
| `dp_writers` | 3 single-key calls, 1 indicator, 2 slots, 1 fault | one current row per key, no release lost, and the interleaving implements `VintageTable` |
| `dp_store` | 2 calls out of two-key batches and upserts, 1 edit that moves rows, 1 fault, weak fairness | the inductive invariant behind one current row; P2002 reaches a caller only past two other winners (so never here); revisions change a stored column; reported counts match the table; every call returns |
| `dp_batch_rerun` | violation | re-running a batch with the same response writes a new, identical vintage |
| `th_concurrent` | 3 requests on one idea with two fills, two accounts, new ideas, removals and account deletion included, as concurrent traffic of two kinds and as requests one at a time | exactly one primary fill while concurrent requests add, edit, promote, re-plan or delete; never two, and never a fill without idea or account, also where they remove fills and delete accounts; one at a time, requests of every kind keep the book whole |
| `th_delete_account` | violation | deleting an account can leave an idea without a primary fill |
| `cp_runs` | 4 trading days, every vote, gaps, shocks, failures, one correction, lengths 2 and 3 | a regime moves exactly when its streak is long enough; every row follows from the row current before it; until a correction, a stored shock fired within its window; the table implements `PersistenceMachine` |
| `cp_expiry` | violation | a shock is over the day after it fired |
| `services` | twenty parts, see below | one property per service, on interleavings, failures and crashes |
| `algorithms` | twenty picks, see below | each pure algorithm against what it is for, over every input of a bounded set |
| `composition_flag` | violation | an inflation-led weak dollar is called mixed |
| `score_carry` | violation | a carried score is not carried indefinitely |
| `curve_window` | violation | the red window is off on a day without a print |

`services` is thirteen services that share no state, in twenty settings. A
behaviour chooses its `part` at the start and runs that service alone; the
slots `x1` to `x12` hold whichever variables it has. One run over all of them
keeps each service's bounds beside its neighbours', and TLC explores exactly
the union of the single state spaces.

| Part | Instance | Property |
|---|---|---|
| `upsert` | 2 writers, 3 rows, 2 payloads | `VintagesHold`: every current row beyond the first is the mark of one stale commit; no key loses its row, nor the last payload |
| `runs` | 2 processes, 15 jobs, 3 instants, 3 log rows | `RunsAreAccounted`: runs overlap only between guard and log row, or past the lookback; the log is true of its run |
| `scores` | 2 dates, 2 writers, 2 rule versions, 1 change of data | `ScoresAreKept`: no score travels back in time, a flag tells carried from computed, one score per date and version |
| `feed`, `week`, `desk` | a feed that changes under a fetch and an admin; two occurrences, with failures; two admins over two releases, with failures | `DeskAsksRightly`: what was ingested is not asked for again; a successful fetch is on the calendar; only a deferral newer than the last entry hides a release |
| `ledger` | 5 sessions with gaps, best cards of 8 to 11 points | `CeilingsHold`: a peak is the highest net since its date, a ceiling lapses on a full run below |
| `stance`, `stances` | one admin, 3 PUTs in any order of dates; two at once | `StancesAreKept`: a day's stance is the one declared last for it; a second open row is explained |
| `chain`, `inputs`, `daily`, `shock` | classification, yen card, yen pair over 2 days; 2 processes over 3 inputs; 4 days against the replay; 4 days classified in any order, both triggers, missing values | `DerivedRowsAgree`: what is stored of a computation agrees with what is stored of its inputs, and a trigger is on only if it fired within its window |
| `journal` | 2 windows on one trade | `JournalIsCoherent`: a stop at the entry takes overlapping edits; a closed fill has its exit, an open one nothing of it |
| `series`, `pair`, `average`, `newest`, `brent`, `nse` | 2 to 4 days, 1 or 2 processes; 2 calls of one session | `FeedsAreFollowed`: a clean run leaves the feed, in a chain, with a frozen feed marked; one fault costs no call that has its session to itself |

`algorithms` picks one input for one algorithm and stops; its properties
compare the algorithm with a second, independent statement of what it is for:

* `WindowsAreNewest`: the release windows against a set comprehension, for all
  orders of entry and all places a feed may freeze; the two resolvers agree.
* `EveryReadingHasOneScore`: the bands in force partition the readings, every
  reachable net has a band, and the three places that score the USD composite
  agree.
* `ScoresFollowReadings`: every rule is monotone in today's reading; the flag
  of DII selling and its tier come together; opposite scores have opposite
  composition flags.
* `OverridesAnswerNews`: the overrides the classifier records are those the
  scorecards apply; 1 and 4 answer missed job releases only; gold turns on
  inflation only when the Fed is constrained.
* `PairsCompareFairly`: equal surprises cancel on each seeded row, a pair
  turned around scores the opposite, seeded and coded labels agree.
* `CreateAgreesWithRead`, `MetricsSpeakTrue`: the three validations of a trade
  against each other; buys against mirrored sells; R against money and exit.
* `CalendarsAreWhole`: sessions tile the day; Easter against the epacts; each
  holiday of 1998 to 2060 closes one weekday.
* `ColourIsFreshAndBlind`, `BandsLeanSafe`, `CurveHistoryIsFixed`,
  `DependenciesComeFirst`, `ReplayFollowsLive`: no colour of stale data or of
  the future; version 3 and a worse release err on the safe side only; an
  episode that is over does not move; the registry's order; the replay of a
  day is its backfill.

### Bounds

Three concurrent calls or requests are one more than any retry or decision in
the code looks at: a race needs one party to read, one to write in between,
and a third to be the one a retry meets. Two slots show that calls on different
keys do not disturb each other and two-key batches are enough for a circular
wait. In the hub, four fill ids are two that exist and two that requests add.
`OneShot` gives each request slot one use: where requests overlap, the number
under way at once is what matters, and where they do not, the theorem
`BookStaysWhole` speaks of sequences of any length. Overlapping requests write
one price (`UsualPrices`), since no property of theirs depends on it; one at a
time, edits choose among two. Requests are treated as symmetric; that run checks
invariants only.

Four trading days are a bootstrap, the longer streak (3) and no more; with a
correction they let a row be re-run before, in and after a streak. The deployed
lengths 3 and 5 are those of the `shock` part, and any lengths of the proofs.
The shock expiry of two days leaves a day on which a shock must be over.

The services are bounded so that each one's hazard happens: three log rows are
two runs and a restart; days of four ticks with Indian time one ahead give
each of the four relations between an instant, its UTC and its Indian date;
five sessions with a lookback of three, a history of four and a deactivation of
two stand in order for 120, 130 and 5; two births are a deferral on either side
of an entry; a flag text of 24 characters makes a score too
wide for its column on the second carry; three days and a buffer of one let a
revision fall inside and outside the buffer. `MaxFaults`, `MaxRevisions`,
`MaxDay`, `MaxId`, `MaxRows`, `MaxNow`, `MaxNews`, `MaxPuts`, `MaxBorn` and
`Clock` cap what would be unbounded. With these bounds behaviours end, which is
why `services` and `algorithms` do not check for deadlock. The two writers of
`services` are interchangeable, and the run checks invariants only; a part that
has one process or admin has `lone`.

The algorithms take every reading next to an edge of the seeded bands, every
combination of the few scores a release can have, and lookbacks of two or
three in place of 30 or 50; the constants of the code appear in `ConfigV1` to
`ConfigV3`, `ScoringRulesV2` and `ReferenceData`.

### Fairness

Only `DataPoints!FairSpec` assumes any: weak fairness of a call's steps and of
an edit's second step. A started call is an awaited promise, the database
serves each statement once the locks it waits for are released, and no step
that is continuously possible is put off forever. Starting a call, an edit or
a fault is never forced. The other modules are checked for safety only: a job
that died is freed by its lookback, but nothing obliges the next cron to be
the one that finishes.

## Proofs

Everything below is proved for all values of the constants, subject to the
`ASSUME`s of the modules, which TLC evaluates in every run of theirs, and the
hypotheses named with a theorem. Each proof is an inductive invariant, one step
per action.

* `DataPointsProofs!TypeCorrect`, `KeysAreOwned`, `OneCurrentPerKey`. The
  property itself is not inductive: a commit may add a current row. `StoreInv`
  adds why it may: an open transaction that has created a row under a key has
  itself demoted the committed current row there, if there is one, no other
  open transaction has created one, and no row is demoted by two. The unique
  check (`KeyBusy`, `IndexRefuses`) establishes the first two for `Create`, the
  row lock (`Locked`) the third for `Demote`.
* `DataPointsProofs!ReleasesStayVisible` (without edits, from seeds where every
  key with a row has a current one). `KeepInv`: a transaction that holds a
  demotion is the one about to create under the same key.
* `DataPointsProofs!OnlyTwoWinnersRefuse`: as long as no edit has moved a row,
  an upsert or batch ends in the unique violation only if two other calls have
  committed beside it. `BehindInv`: what a call has created stands under keys it
  is done with. `ConflictInv`: what a call has read of its key still holds
  (`Fresh`), or somebody has won since, and in a second attempt somebody else
  than before.
* `DataPointsProofs!ResultsAreRows`: the counts a call reports are those of the
  rows it has left, and none when it throws, through retries, faults and edits.
  `OwnIds`: ids stay unique while calls that have not committed hold some;
  `CountInv`: what is counted so far is what is pending so far.
* `DataPointsProofs!RevisionsSaySomethingNew` (no override, and batch values
  that the column keeps as computed, `PlansReadBack`; the finding
  `dp_batch_rerun` is what happens without the latter): what supersedes a row
  that was not edited differs from it in a stored column. `ChangeInv`: a row that
  a transaction holds demoted differs from the one it creates for it.
* `DataPointsProofs!WritesTakeEffectAtOnce` (also, every payload has one item):
  `DataPoints` implements `VintageTable`. A call's step maps to the atomic write
  at its commit, to a skip at its read, to a failure when it ends without
  either, to a stutter otherwise. `AtomInv` says what makes the commit atomic:
  the row a call has read is still there or somebody has superseded it, and
  once the call has passed the unique check (`AtomCreate`, from `KeepInv`) that
  row is the current one, and its lock keeps it so.
* `TradingHubProofs!TypeCorrect`, `NeverTwoPrimaries`. Same argument for the
  partial index on primary fills, `PrimaryInv`: an open transaction that has
  made a fill primary holds every other primary fill of that idea, nobody else
  has made one primary there, and no fill is locked by two. `PrimaryWrite` is
  the heart: a statement that writes a primary fill either writes one that was
  primary already, and then its row lock excludes all others, or has passed
  the unique check. What makes the check speak about the right idea is
  `BookInv`: a fill never changes its idea, in whichever version one looks at
  it; ids and ideas given to a request are known to no other; all others are
  in use.
* `TradingHubProofs!FillsHaveParents`. `RefInv` adds that what a transaction
  has put or rewritten has its idea and account, committed or of its own, that
  a transaction which cuts an idea or an account takes all its fills along,
  and that only deletions cut; the foreign key's wait keeps others from
  inserting in between.
* `TradingHubProofs!ExactlyOneWhileKept` (traffic of the kind `keeping`, which
  asks neither to remove a fill nor to delete an account, and every idea of a
  seed has a primary fill). `NeverTwoPrimaries` gives at most one; `WholeInv`
  gives one. `Stands`: when a transaction has rewritten a primary fill and is
  not between clearing and promoting, it has also written a primary fill of
  that idea. `OfItsIdea` and `Selected` say why the gap closes: what it clears
  belongs to the idea it promotes in, also if another request commits between
  the selection and the update. Removal and account deletion are left out
  because they break it (findings).
* `TradingHubProofs!BookStaysWhole` (traffic of the kind `alone`, and seeds that
  are `Whole`, as TLC's are: `BookIsWhole` of an initial state). All eight
  requests, aborts and time-outs included. `AloneInv` says of the one request
  under way, by the statement it has reached, that what it loaded is still what
  is stored (`Loaded`), what it has written so far (`Promoting`, `Removing`,
  `Replanning`, `Deleting`), and that what it is about to commit is whole again
  (`Committing`). Every clause of `Loaded` is what a second request can falsify,
  which is where the overlapping requests listed below go wrong.
* `CompassProofs!TypeCorrect`, `ImplementsMachine`,
  `RowsFollowFromTheirPriors`, `RegimeNeedsAStreak` (without backfill; the last
  if one of the two lengths exceeds 1). The invariant says that no day after
  today is classified, that the classified days, and all but the latest, have
  a greatest element when they have any, that a run under way is today's and
  holds what the machine gives for the row before today, and that a row with a
  count has a candidate that differs from its active regime. The last part is
  what makes the pending label recoverable from two columns. `StreaksCounted`
  ties the stored count to the rows it counts.
* `CompassProofs!ShocksHaveTheirCause` (no hypothesis; the property speaks of
  the time before the first correction): a stored trigger whose series has a
  value that day fired within its window, in whatever order days are ingested
  and classified. `CauseInv` says it of the cache (`ShocksCaused`), of the run
  that has read it (`RunCaused`) and of the stored rows (`RowsCaused`) together,
  since a run writes the first, waits, and writes the last.
* `CompassProofs!ReplayReproducesLive` (without backfill; `ReplayAgrees` speaks
  of the time before the first correction and of tables without a gap): the
  stored classifications are the rows of the historical replay, for any number
  of days. `ReplayInv` compares the two in the middle of a day as well: the shock
  cache is what the replay has for the day before (`Fresh`) or, once a run has
  written it, for today (`Advanced`), and a repeated run leaves an advanced cache
  alone (`AdvanceTwice`). What is ingested today does not move the replay of
  earlier days (`ReplayIsLocal`). The recursion itself is shown to have a value
  (`ReplayExists`) and to unfold (`ReplayUnfolds`), by the least-number principle.
* `VintageUpsertProofs!ExtraRowsAreExplained` (the value for "no row" is not a
  row). Every call holds a row that is in the table or has been demoted since,
  so a commit that is not stale removes as many current rows as it adds.
* `ScoreStoreProofs!StoredScoresHold` (no handler sets the flag of a carried
  score). A prior is older than the date it is carried to and keeps its origin.
* `JobRunsProofs!GuardsAndLogHold` (no hypothesis). A run past its guard knows
  every running row it saw to be older than its lookback; a working one has a
  running row of its own that only it completes.
* `ReleaseDeskProofs!DeskHolds` (`Window <= Ist < Day`, as in the code; instants
  within some horizon; seeds with unique ids; every mapped title has a variant
  of the indicator): `IngestedIsNotOverdue` and `SnoozedSinceEntry`, for any
  feed, number of fetches at once and number of admins. `DeskInv` says that a
  row a fetch has looked up is still on the calendar under its id and title
  (`OnFile`), that what was ingested has its point (`IngestedOK`), and that
  every deferral, not only the one the panel picks, is newer than its variant's
  last entry, or that entry is being cleared or failed (`Snoozing`). A one-off
  deferral stays with the variant of its event because an event never changes
  its title. The cluster starts of the collapse exist for every finite set of
  instants (`StartsExist`, by the least-number principle), so that it keeps
  rows of the feed and nothing else.
* `ServiceProofs!DeclarationsHold` (days are counted from 1): the three
  properties of `CycleStances`, for any number of days, admins and PUTs. As long
  as PUTs do not overlap, one row is open beside an untouched seed and a PUT
  under way has read the latest open one (`OpenRows`, `StillOpen`); as long as
  none reaches behind a closed period either, no live row starts after the open
  one, a live row's end is met by another row (`NoGap`), and the last live row
  up to a day has the stance that was last declared for it (`Heard`). A row is
  live unless it was closed before it starts; such rows never show through.
* `ServiceProofs!JournalStaysCoherent` (a stored plan is sound and a fill
  says whether it is closed). Merging column-wise keeps an exit with its fill,
  since an edit that closes or reopens writes all columns of the exit.
* `ServiceProofs!OneFaultIsNotEnough` (the value for "no session" is not a
  session). Each later request of a call was paid for by a fault of its own or
  by another call that dropped the session.
* `ServiceProofs!CarryPairsAgreeAlways` (days are counted from 1): a scorecard
  keeps the gate it was assembled under beside the boost that gate gives, and a
  pair score the gate and the scorecard it was computed from (`ChainInv`); on one
  gate the two overrides are the same condition (`SameGateSameOverride`).
* `ServiceProofs!CeilingsHoldAlways` (scores are whole numbers; the ceiling's
  sessions are no more than those read and searched, 5 of 120 and 130 in the
  code; a day is assembled when no later one was). The count a ceiling carries is
  the number of sessions below its level since the last one at it
  (`Stands`). The day's rule counts a session as below its level only
  if it does not qualify for an entry, and a nine qualifies when the window has
  no ten: under a ceiling that began at ten it never does, because the last
  session at the level is near enough to be in the window (`LevelIsSeen`, where
  the two depths are needed). The net score is a whole number because the fold
  over the indicators is (`SumIsInt`, by the least-number principle over the
  sizes of its subsets).
* `ServiceProofs!CurveFollowsItsInputsAlways` (the registry's order has the
  curve behind the two inputs it reads, as `COMPASS_INPUTS` declares it and
  `DependenciesComeFirst` checks that such an order is found): for any prints,
  processes, failures and crashes. What is left of a run has the curve still to
  come as long as one of the two is (`LeftOK`), and what a run that is alone has
  read of their rows is still what they say when the curve is stored
  (`ReadsStill`, `RunOK`); a run another overlapped is alone no more
  (`RunsApart`).

Only model-checked: liveness (`EveryCallReturns`); `CapturedIsKept` of the
release desk, which bounds how far the feed moves a release; and what `services`
and `algorithms` check of the parts that have no proof module (the series
ingests, the algorithms). Liveness under
fairness is out of the prover's reach, and so is what recursively defined values
(averages, scans in the algorithms) are for every input.

## Where the code and its documentation part

The six violation runs are listed as findings in `PROJECT.json`. In short: the
FII/DII batch compares before it rounds; deleting an account promotes nothing;
a shock's expiry is looked up in a future the classifier does not have; the
composition flag counts a release that was renamed; every carry lengthens a
flag column of fifty characters; the red window wants a print for its own day.

The models also exhibit the following, which have no run of their own:

* three upserts of one key in flight: the single retry can lose twice and the
  unique violation reaches the job (`NoConflictEscapes` with three `Calls`);
* an edit checked against a current row is applied after an upsert superseded
  it, or an upsert demotes a row an edit has moved to another variant;
* two overlapping writers of a table without index leave two current rows for
  good, since a later write demotes one of them (`VintagesHold` counts them);
* two concurrent removals on a two-fill idea leave it empty (`NoEmptyTrade`
  with two `Requests`), and a plan change interleaved with an edit of a fill
  leaves metrics of neither (`MetricsFresh` with two `Requests`);
* overlapping edits of a plan store a stop at the entry (`JournalIsCoherent`
  without its history variable);
* backfilling an earlier day leaves later rows as they were
  (`FlipsOnlyOnStreak` and `DerivedFromCurrentPrior` with `Backfill = TRUE`),
  and running a day again after a correction keeps the shock of its first run
  (`ShockHasCause` with `MaxRevisions = 1`);
* a PUT of a stance dated behind a closed period, or two at once, leave a
  second open row (`SecondOpenIsExplained` says when);
* an idea entered within the grace minute and closed without a date passes the
  create and is flagged by the next read (`CreateAgreesWithRead`);
* two runs over the Compass inputs at once leave a curve scored with bands that
  are no longer stored (`CurveFollowsItsInputs` without `astray`).

## Not modelled

`PROJECT.json` lists every part with its status. Not modelled, and why:

* **plumbing:** HTTP transport and parsing of third-party pages, routes and
  middleware around the services, authentication, serialisation, read-only
  queries: no state or decision of their own;
* **one-off code:** recovery, migration and import scripts, run by hand once
  (the rules, reference data and configuration that the seeds write are the
  constants of the modules);
* **single-row resources:** planned trades, models, pairs, cash flows, module
  readings, and the Oracle and regime snapshots copied into a trade: no
  decision depends on another row;
* **descriptive columns:** scorecard metadata, journal text and tags;
* **handlers no seeded rule uses**, participant open interest, and the EODHD
  commodity tail: the same upsert over other numbers;
* **cron times:** jobs of different names may run in any order here, which
  allows more than their schedule does.

Inside the modelled parts, left out: a "." that replaces a stored value (the
ingest skips it, and the value stays), what an ingest leaves stale in rows
after the range it was asked for, and the abort signal of the NSE client. The
runs check one Forex Factory fetch at a time (two are beyond TLC's reach together
with a changing feed; the guard of their job is in `JobRuns`); for two of its
properties `DeskHolds` covers any number. Validation rows
(`isValidation`) live in their own key space and behave alike.

## What is left

1. `CapturedIsKept` for two fetches of the release calendar at once, over a feed
   that stands still.
2. `RunsAreAccounted` with the schedule: which jobs of a day read what which
   others wrote.
