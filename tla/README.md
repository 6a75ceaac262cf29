# quantdesk in TLA+

quantdesk is a research desk for one person: it captures option chains and computes
dealer-gamma levels (gex), searches and forward-tests strategies (research), keeps a
point-in-time store of economic data (terminal), records what a MetaTrader 5 broker quotes, and
places real orders for a few strategies (broker). This project states what the parts that keep
state across failures promise, model-checks those promises with TLC on small instances, and
proves the most important of them with TLAPS for every instance.

Paths below are relative to `src/`; `app/` is `backend/app/`.

## 1. Inventory

| Component | State | Operations | Hard behaviour | Correct when |
|---|---|---|---|---|
| **Executor** `app/modules/broker/executor.py`, `strategies.py`, `tables.py`, `app/workers/executor.py` | `broker.order_intents` (the journal of legs), `strategy_state` (pause), `executor_heartbeat`; in memory only the tick's locals | every 20 s `tick`: `schedule`, `_decide`, `_decide_h4`, `_open`, `_close`, `_modify`, `_check_kill`, `heartbeat`; `reconcile` at boot | every handler awaits the bridge several times: crashes, failed commits, lost answers, stop-outs and a person's SQL fall between | one position per strategy; every position has a way out; no order for a halted strategy; the journal's stop never better than the broker's |
| **Bridge** `app/modules/broker/client.py`, `docker/mt5/bridge/server.py` | the MT5 account; requests waiting for the server's lock | `positions`, `order_market`, `close_position`, `modify_sl`, quotes | a request whose client timed out is still carried out | an answer goes to the client that asked, an effect happens at most once per request |
| **Broker ingest** `app/modules/broker/ingest.py`, `servertime.py`, `app/workers/broker_ingest.py` | `broker.bars`, `tick_files`, `clock_checks`, `symbol_specs`; the gate's last readings in memory | `run_minute` (clock gate, bars forward, bars backward), `run_hour` (specs, ticks, basis) | a terminal that answers "empty" while it loads; restarts; DST | no gap in the stored bars that a later run will not read; nothing converted with a wrong clock |
| **Watchdogs** `app/modules/broker/watch.py`, `app/workers/capture_watch.py`, `app/modules/gex/jobs/outage.py` | alert latches in memory; reads heartbeat, journal, snapshots | `run_check`, `run_executor_check` | restarts lose the latches; day changes in an outage | every outage in a window is alerted |
| **Gex capture** `app/modules/gex/jobs/capture.py`, `catchup.py`, `scheduler.py`, `storage/*`, `app/workers/gex_capture.py` | `gex.snapshots`, Parquet files, the scheduler's jobs | EOD, extended and intraday jobs, catch-up at start and at 20:00, manual capture in the API process | check-then-insert by several jobs of two processes; a vendor whose timestamp moves while its data does not | every trading day has its EOD row, its file is never replaced |
| **Gex levels** `app/modules/gex/gex/store.py`, `backfill.py`, `engine.py`, `greeks.py` | `gex_levels`, `gex_by_strike`, `gex_by_expiry` | `compute_and_store`, `backfill` | concurrent replacement of the same rows; failure after the capture | levels are those of the stored file |
| **Retention** `app/modules/gex/jobs/retention.py` | strike rows | `prune_intraday_strike_detail` | reads ids, deletes in chunks while captures promote rows | an EOD row keeps its strikes |
| **Events and stream** `app/modules/gex/events.py`, `api/stream.py`, `frontend/src/modules/gex/api/useLiveLevels.ts` | subscribers and bounded queues, in memory of one process | subscribe, publish, one SSE connection per tab | slow clients, dropped events, two processes | a tab ends up with the newest levels |
| **Level events** `app/modules/gex/jobs/level_events.py`, `scan/level_events.py` | `level_events`, `level_event_scores` | record and alert, score after the close | commit before the message; rows read again on every pass | an event is stored once, alerted at most once per family and gap, scored once |
| **Bars, flows, decisions** `app/modules/gex/jobs/{bars,flows,intraday_bars,decisions,rescore}.py`, `scan/outcomes.py` | `daily_bars`, `etf_shares_outstanding`, `decisions` | nightly append, record, evaluate, rescore | bars revised after a decision was scored | a decision is written once and scored on bars after it |
| **Providers** `app/modules/gex/providers/*`, `flows_fetch.py` | none | a request with its retries, a chain, a bar series, a family's funds | every client takes the same answer differently; a root of a chain that fails | a chain is whole or none; a bar under way is not a day |
| **Intraday history** `app/workers/gex_backfill.py`, `gex/intraday_history.py` | snapshots of past sessions | one-off backfill | resumption | a second run adds nothing |
| **Research search** `app/modules/research/{search,registry,nightly,backtest,validation}.py`, `app/workers/research_search.py` | `trials`, run events | nightly search cycle | restart in the middle of a cycle | a trial is counted once |
| **Paper watchlist** `app/modules/research/paper.py`, `api/paper.py` | `paper_candidates`, `paper_scores` | promote under a budget, forward scores | two cycles at once; one slot per hypothesis | forward evidence uses bars after the promotion only |
| **Signals** `app/modules/research/jobs/signals.py`, `storage/signal_events.py` | `signal_events` | insert when unseen, send a digest | commit before the digest | an event is stored once, its `late` flag never changes |
| **Terminal** `app/modules/terminal/*`, `app/workers/terminal_ingest.py` | observations and calendar releases, each with its `as_of`; `ingest_batches` | ingest, derive, calendar, brief, board | revisions; a night that ends between two rows; a calendar that moves and drops events | a reader at time t sees what was known at t |
| **API, MCP, core, frontend, deployment** `app/main.py`, `app/mcp/*`, `app/core/*`, `frontend/`, `compose*.yaml`, `docker/`, `scripts/`, `backend/alembic/` | settings, engine, containers | routes, read-only queries, notification, migration | restart policies | — |

How they interact: processes share nothing but the database and the data directory. Broker
ingest writes the bars the executor's decisions and the level events read; the executor writes
the heartbeat and the journal `capture_watch` reads; the gex-capture worker writes the
snapshots and levels the API serves, the research signals and the terminal read; notifications
leave through `app/core/notify.py`. Calls cross a process boundary only to the bridge (one JSON
line per request over TCP), to vendors, and to Telegram.

`PROJECT.json` lists every component with its sources and every hazard at its line.

## 2. The modules

| Module | Models | Extends / uses |
|---|---|---|
| `Bridge` | the terminal's account behind `docker/mt5/bridge/server.py` and the client that may hang up (`client.py`) | |
| `Executor` | `executor.py` with its worker: the journal, the tick, fixed and daily strategies, the kill rule, restarts, a person's SQL | `Bridge` |
| `ExecutorH4` | the same executor with 4h strategies: decisions per bin, trailing stops, stop-outs learnt from the broker | `Executor` |
| `TradeDesk` | what the account's owner is promised: one position per strategy, none bought while halted | |
| `ExecutorDesk` | the refinement of `TradeDesk` by `ExecutorH4` and the invariant it needs | `ExecutorH4`, `TradeDesk` |
| `ClockGate` | `ingest.py` and `servertime.py`: which verdict on the broker's clock lets a job write | |
| `BarWalk` | `run_minute`: one symbol's minute bars, forward from the newest and back to the start of history | |
| `TickFiles` | `run_hour`: the contract specs and one tick file per closed hour, with the start's run beside the scheduler's | |
| `ExecutorWatch` | `broker/watch.py`, `capture_watch.py`: the watchdog of the heartbeat and of expired legs | |
| `Calendar` | `gex/jobs/calendar.py`: closures, sessions and the session a capture belongs to | |
| `CaptureWatch` | `gex/jobs/outage.py`, `capture_watch.py`: the watchdog of the captures | `Calendar` |
| `Stream` | `LevelsBroker`, its bounded queues, the SSE route and the tab's hook | |
| `Capture` | the capture of one underlying by the jobs of two processes, with the index, the levels, the prune and the repair | `Stream` |
| `TellOnce` | what a message promises: stored before it is told, told at most once, never unstored | |
| `LevelRules` | `scan/level_events.py`: the detectors of crosses, bounces and breaks, and the swings of a path | |
| `LevelEvents` | `jobs/level_events.py`: recording, alerting and scoring | `TellOnce` |
| `Outcomes` | `scan/outcomes.py`: how a recorded trade is filled and scored | |
| `Decisions` | `jobs/decisions.py`, `rescore.py`: the recorded opportunities of two processes beside the bars job | |
| `Fetching` | `gex/providers/*`: one request with its retries and what its end means, client by client | |
| `DailyBars` | `jobs/bars.py`, `bars_backfill.py` and the bar providers: one symbol's daily bars | `Fetching` |
| `Chains` | `cboe.py`, `marketdata.py`, `thetadata.py`: how answers become a chain or none | `Fetching` |
| `FlowRows` | `jobs/flows.py`, `flows_fetch.py`, `etf_flows.py`: shares outstanding, family after family | `Fetching` |
| `Signals` | `research/signals.py`, `jobs/signals.py`: both families of signals over a growing history | `TellOnce` |
| `Watchlist` | `research/search.py`, `registry.py`, `paper.py`: search cycles, trials, promotion, forward scores | |
| `Releases` | `terminal/releases.py`, `fomc.py`: the economic calendar's vintages | |
| `Vintages` | `terminal/cli.py`, `store/*`, `derive.py`: the point-in-time store and what is derived from it | |
| `MCExecutor`, `MCJobs`, `MCRules` | values for TLC | the modules they check |
| `ExecutorProofs`, `ExecutorCoverProofs`, `ExecutorJournalProofs`, `CaptureProofs`, `IngestProofs`, `JobsProofs`, `FeedsProofs`, `RulesProofs` | theorems | the modules they are about |

An operator whose comment begins with "Mutant" or "A plausible bug" is not part of a specification:
it is the wrong form of its neighbour that `PROJECT.json` uses to show that a property can fail.

### 2.1 Executor: state and actions beside the code

| Model | Code |
|---|---|
| `journal` (by strategy, session and leg) | `broker.order_intents`, whose unique key is the same |
| `paused`, `beat` | `broker.strategy_state`, `broker.executor_heartbeat` |
| `config` | the settings object a start reads: `EXECUTOR_ENABLED`, `EXECUTOR_STRATEGIES`, the volume and its cap |
| `pc`, `now`, `due`, `cur`, `todo` | the tick's position and its locals |
| `inbox`, `positions` (`Bridge`) | requests that wait for the server's lock; the account |
| `bars` | the M1 bars ingest has stored, which `_decide` waits for |
| `told`, `old` | history only: tickets a person was told of, closes that a person's resume left behind |

A handler is cut where it awaits the bridge, because there the clock moves, the process dies,
the broker's stop fires or a person writes SQL. The reads in front of one request
(`positions`, `account`, `tick`) are one step with it, since the server serves one request at a
time. `_open` is thus `OpenExpires`, `OpenPaused`, `OpenTooLarge`, `OpenDry`, `OpenUnreadable`,
`OpenTaken`, `OpenSend` and then `OpenFilled` or `OpenRejected`; `_close` and `_modify` are cut
likewise. A raised tick (`TickRaises`) drops what the session had not committed; a crash drops
the tick as well. A request whose client stopped waiting (`HangUp`) stays in `inbox` and is
carried out later: the server reads no cancellation. `ScheduleDies` cuts `schedule` between two
of its commits.

A strategy's signal is a free choice: the model is right for every price history. The kill
rules are represented by the losing streak, the one every strategy counts; drawdown and rolling
windows are arithmetic over the same list of closed trades.

### 2.2 Capture: state and actions beside the code

| Model | Code |
|---|---|
| `book`, `eod`, `levels`, `strikes` | `gex.snapshots` (`captured_at`, `content_hash`, `is_eod`) and which rows have `gex_levels`, `gex_by_strike` |
| `vendor` | the delayed chain the vendor serves: its timestamp and its content |
| `worker`, `due` | the gex-capture process, and its APScheduler jobs that have fired |
| `job` | where each capture is between its awaits and the chain it carries |
| `doomed` | the ids `prune_intraday_strike_detail` has read |
| `queue`, `view` (`Stream`) | the tabs' queues, and what each tab shows |
| `vouched` | history only: books that an EOD capture or a no-op catch-up said are kept |

`capture_snapshot` is `Fetch`, then `_persist_sync` as `Duplicate` (with the promotion) or
`Fresh` followed by `Insert` or `LostRace`, then `ComputeLevels` or `LevelsFail`, then
`Publish`. `BeginCapture`, `CatchUpTooEarly`, `CatchUpNoop`, `CatchUpFires` and `ManualCapture`
are the callers. `Boot` fires the start's catch-up, `WorkerDies` forgets the memory job store,
`Sleep` and `Wake` are a host that sleeps with the process: what fell due runs once on waking,
except an intraday slot or a prune, whose grace is short.

A day has three phases (session, evening from 16:20, late from 20:00), and a vendor timestamp
carries its phase. The Parquet file of a row is written before it and read only through it; a
crash between the two leaves a file nobody reads, so files have no variable.

Assumed of the surroundings: the book stops moving at 16:20 and moves again with the next
session (`catchup.py:58-62` relies on the same); one vendor timestamp has one content; a job
ends within the phase it began in, except from the session into the evening; a tab loads its
page and subscribes in one step. `EventSource` reconnecting without a refetch is left out: `events.py:12-17`
names it as accepted. `INTRADAY_STRIKE_RETENTION_DAYS` is longer than any time between two
books; with a shorter one a manual EOD capture on a weekend could promote a row that the
prune has already read. That is the hypothesis of `EodKeepsStrikesHolds`.

### 2.3 Broker ingest and the watchdogs

| Model | Code |
|---|---|
| `check`, `gate` (`ClockGate`) | the newest row of `broker.clock_checks`; `ClockGate`'s fields, forgotten at a restart |
| `jobs` | which of `run_minute` and the two `run_hour` is past its question to the gate |
| `measured`, `late` | history: the last measurement, its row written or not; what was written after a measurement that disagreed |
| `loaded`, `bars`, `walk`, `deepened` (`BarWalk`) | the pages the terminal has downloaded; `broker.bars`; where `run_minute` is between two requests, with its locals; `_deepened_on` |
| `fetched`, `files`, `specs`, `runs` (`TickFiles`) | the hours the terminal has; `tick_files`; `symbol_specs`; the hours each run of `run_hour` still has to ask for |
| `denied`, `unready` | history: what was asked for before the terminal had downloaded it |
| `alerted`, `seen` (`ExecutorWatch`), `lastAlert`, `lastNote` (`CaptureWatch`) | the latches in memory; a restart clears them |
| `beat`, `sent`, `expired`; `captured`, `silent` | what the watched process does, freely: the heartbeat and the legs; the sessions with and without snapshots |

Time is cut where the ingest awaits the terminal: one request is one step, and the clock, a
download, a failed request or a restart comes between any two. The minute job asks the gate right
after it has measured; the hour job asks it with what the minute job left behind. A terminal
answers a range it has not downloaded with nothing, so the hole this leaves is in the model and
the property says that there is no other. The watchdogs' passes may fail; the properties ask
nothing of a slot whose pass could not read.

### 2.4 Level events, decisions and signals

| Model | Code |
|---|---|
| `rows`, `scores` (`LevelEvents`) | `gex.level_events` with `alerted`; `gex.level_event_scores`, each with the bars and the path it was computed from |
| `minutes` | the CFDs that have their M1 bars from the entry to the close; a symbol without a CFD never has |
| `alertsDue`, `alertsTold` | the alerts committed and not yet sent; history: those sent |
| `snapshot`, `decisions`, `recording` (`Decisions`) | the newest snapshot; `gex.decisions`; where each of the two processes is in `record_decisions_job` |
| `tellings`, `untold`, `shared` | history: how often a row was told; the rows whose run failed to read them or died; the rows another run could still read back |
| `days`, `spec` (`Outcomes`) | the daily bars after a decision; the trade that is scored |
| `history`, `stored`, `digest`, `sentRows` (`Signals`) | the bars so far; `research.signal_events`; what the digest under way tells; history: what was told |
| `bars`, `points` (`LevelRules`) | the session bar by bar with its captures; the path after an entry |

`LevelRules`, `Outcomes` and `Signals` apply the rules of the code to a history that grows, so
that a property can compare what was found before with what is found after. `LevelEvents` and
`Decisions` take what the rules find as any set, since a late bar, a later capture or a changed
setting changes it. The commit and the message that follows it are two steps.

The rules that pick what to alert are stated as a predicate (`Selects`) on the set chosen, rather
than as the loop of the code, which makes the same choice symbol by symbol; `IsNextRun` says
what the messages of one run are, in the order of `SYMBOLS`. Both are then usable in a proof.

### 2.5 Feeds

`Fetching` is one client's loop of attempts: `EndOf` says which answers are asked again, `Reads`
what the last one means. `DailyBars` is one symbol under any of the three bar providers, with the
nightly job and the backfill; `Chains` a chain in the making, root by root; `FlowRows` the nightly
run over the families, in which a family that fails leaves the others alone and a failure of the
database ends the run. `shown`, `pages` and the answers are the vendors', free.

### 2.6 Research search and terminal

| Model | Code |
|---|---|
| `files` (`Watchlist`) | the newest bar of each cached file, 0 for an empty one; the data sources rewrite it at any time |
| `trials`, `watchlist`, `scores` | committed `research_trials`, `paper_candidates`, `paper_scores` |
| `cycles` | the worker's cycle and one run by hand: what each has read, written and not committed; the files it has loaded and what it measured and has not yet stamped |
| `vintages`, `attempts`, `refreshes` (`Releases`) | `terminal.releases`, the starts in `ingest_batches`, the refreshes under way |
| `published`, `observations`, `derived`, `night` (`Vintages`) | what the sources have published of each date and when; `terminal.observations` of fetched and of derived series; the run under way |

A cycle sees what is committed and what it wrote; an insert of a key another has inserted and not
committed waits for it. The loader commits row by row, so a conflict, a crash and a night that
ends halfway leave a prefix in the order of the rows. Values are version numbers: a derived value
is the function from the inputs it was computed of, so that a value computed of other inputs is
another value.

## 3. The runs

| Run | Question | Instance | Shows |
|---|---|---|---|
| `ExecutorFixed` | can faults double, strand or oversize a position? | one fixed strategy, 2 sessions, 2 volumes, 3 settings, 2 faults of 6 kinds | `OnePosition`, `FixedIsCovered`, `CloseEndsFlat`, `OrderIsUnderCap` |
| `ExecutorDaily` | can a position be left that nobody is told about? | one daily strategy, 3 sessions, 2 faults | `OrphanIsTold` |
| `ExecutorLive` | does everything end? | one fixed strategy, an unordered lock, 1 fault, fairness | `FixedPositionEnds`, `DueLegSettles` |
| `ExecutorH4` | does trailing stay safe, and is the executor a trade desk? | one 4h strategy, 3 bins, 3 stop levels, 3 settings, 1 fault | `OneExitPerPosition`, `JournalledStopIsSafe`, `StopOnlyRises`, `DeskInv`, `ImplementsDesk` |
| `Capture` | is every close kept, and no event early? | one trading day, 2 timestamps a phase, one tab with a queue of 1, 1 fault, backfills | `CloseIsKept`, `EventHasLevels` |
| `CapturePrune` | can the prune take an EOD row's strikes? | two trading days, a sleeping host, manual EOD captures, backfills, 1 fault | `EodKeepsStrikes` |
| `Jobs` | does each job keep its promise through its own faults? | eight jobs that share nothing, one per behaviour | `BarsNeedAgreement`, `HistoryIsWhole`, `TickHourIsWhole`, `MissesAreTold`, `WatchdogSpeaks`, `AlertsKeepApart`, `EventsToldOnce`, `ScoresWaitForPath`, `CommitmentsStand`, `InsertedAreTold`, `VintagesHold` |
| `Rules` | does what was found, stored or shown stand when more arrives? | the calendar's seven years, and eight rules and feeds on short histories, one per behaviour | `TableFollowsRules`, `CaptureBelongsToLastOpen`, `NoTransitionLost`, `TellsOnce`, `FindingsAreFinal`, `TrackRecordHolds`, `BarsAreWhole`, `ChainIsAsServed`, `FlowsAreKept`, `WatchlistHolds`, `CalendarHolds` |
| `FindJournal` | `executor.py:26-28`: every leg is written with what happened | | violated: a lost answer leaves a position whose row says `rejected` |
| `FindDisasterStop` | the strategies' kill rules count every loss | | violated: a disaster stop's round trip has no result |
| `FindPartialBar` | `jobs/level_events.py:273`: events are of closed bars | | violated: a bar that was open at the last poll counts as closed once its time is over |
| `FindStream` | `useLiveLevels.ts:2-3`: a tab is woken whenever new levels are stored | no fault at all | violated: the worker publishes to its own process's broker |

Each failing run keeps one property and the faults it needs; each property of a passing run has
a mutant in `PROJECT.json`, a plausible bug that TLC finds with it. `TypeOK` of a run is the
conjunction of its modules' type invariants.

The modules of `Jobs` and of `Rules` share no state, so their product says nothing that they do
not say alone. `MCJobs` and `MCRules` let the initial state pick one and hold the others still;
each keeps its own `Spec`, which the theorems are about.

What the runs of the jobs show in words:

* `BarsNeedAgreement`: no bar is converted while the last measurement is a disagreement, though
  verdicts are recorded only when they change and the gate forgets its last one at a restart. The
  exception is a disagreement whose row could not be written: it is forgotten
  (`DisagreementStopsBars` below).
* `HistoryIsWhole`: the stored bars have no hole and no early end but where the terminal was asked
  before it had downloaded; `TickHourIsWhole` the same of tick hours, none recorded before it
  closed.
* `MissesAreTold`: a leg that no tick acts on in its time, before a watchdog that can read, is told
  on a day of its window and that is the last word, if it is over by the day after its session
  (`IsFollowed`): a session's entry and close are, a 4h decision is unless its bar comes later. An
  expired row is told by the next pass within the lookback.
  `WatchdogSpeaks`: a silent session is told the next day and no other is named; with the note
  switched on, silence never lasts longer than its interval.
* `EventsToldOnce`, `TellsOnce`: refinements of `TellOnce`. A crash between the commit and the
  message loses the message, never repeats it: that is what the code chose, and `TellOnce` allows it.
* `AlertsKeepApart`, `ScoresWaitForPath`, `FindingsAreFinal`, `TrackRecordHolds`: the alerts keep
  their gap over runs and crashes; a score waits for the minutes of its path unless its symbol has no CFD,
  and says what was missing; an event, a swing or a resolved
  trade does not change when bars are added; a result lies within what the trade saw.
* `CommitmentsStand`, `InsertedAreTold`: a recorded decision keeps what it says, with the rescore
  and overlapping runs as the only exceptions for its score, and there is one row per snapshot, filter
  and key; a row worth a message is told by its run unless the run's read failed or it died
  (`untold`), and twice only if another run was under way with a lower watermark (`shared`).
* `TableFollowsRules`, `CaptureBelongsToLastOpen`: the table of closures is what the exchange's
  rules give for each of its years, and a capture carries the session it was of.
* `BarsAreWhole`, `ChainIsAsServed`, `FlowsAreKept`: a day offered is stored and a session under way
  is not a day; a chain is all that was served, after no failed request, so that it lacks a root only if that
  was answered with no contract; a family that fails costs the others nothing.
* `WatchlistHolds`, `CalendarHolds`, `VintagesHold`: the watchlist is bounded and its evidence
  forward only and never taken back, with two cycles at once and files rewritten under them; the calendar shows what the newest refresh was shown, with no hindsight; a vintage
  has one value for ever, and a derived value is what its inputs were worth as of its own `as_of`.

Stated in the modules and refuted by TLC, without a run of their own; each is in `PROJECT.json`
among the hazards:

| Property | Why it fails |
|---|---|
| `Executor!KillStopsOrders` | a crash between the commit of a close and the kill rule's check; the next close trips it |
| `Executor!KillIsOnFreshSample` | `closed_trades` has no cutoff at a person's resume |
| `ClockGate!DisagreementStopsBars` | the verdict is kept after the commit: a disagreement whose row fails to commit is forgotten, and the next poll that measures nothing, or the next process, goes by the older agreement (`ingest.py:139-147` against `9-11`) |
| `ClockGate!DisagreementStopsTicks` | the hour job asks the gate once, with what the minute job left, and goes on when a measurement disagrees |
| `ExecutorWatch!EveryLegIsWatched` | the decision on Friday's last 4h bin waits up to 72 hours for a bar (`strategies.py:250`), and two days later nobody looks at its session (`watch.py:70-78` against `10-13`) |
| `ExecutorWatch!BackIsTold` | a restart forgets that an outage was told, so its end is not |
| `ExecutorH4!OneExitPerPosition` without `StaleClose` | two failures leave a close leg pending over a new decision; it takes the new position, whose stop-out is then journalled for the same ticket |
| `LevelEvents!OneAlertPerWindow` | of two families only one blocks the other |
| `LevelEvents!ScoreHasSession` | a session whose last bars are late is scored without them after the wait |
| `Decisions!OneADay` | the key is of the snapshot (`db.py:619`), and a run by hand after a later capture of the day records the opportunity again |
| `Decisions!ToldExactlyOnce` | the API's process writes the table too, a failed read is not repeated, and a run may die before its message (`decisions_repository.py:256`, `decisions.py:12`) |
| `Chains!EveryRootIsIn` | a root answered with no data, or with nothing that can be read, is no error (`thetadata.py:353-356`): the chain is of the other root alone |
| `Watchlist!TrajectoryGrows` | files are read early in a run (`paper.py:269`), stamped at its end (`291`) and rewritten in between, and nothing is measured of what is not configured any more: a later score may measure fewer bars (with `LastSearchDay = 4`) |
| `Signals!OneTradeAtATime` | the simulation's start moves with the window |

### Bounds, and why they are enough

`MaxTime`, `MaxClock`, `MaxHour`, `LastHour`, `MaxDay`, `LastSession`, `LastInstant` and their like
end the clock; `MaxFaults`, `MaxRestarts`, `MaxOutages`, `Max...Crashes` the faults;
`StampsPerPhase`, `MaxEvents`, `MaxRows`, `MaxPublished`, `MaxHistory` the data;
`BarTimes` are the instants a decision looks for bars at. Deadlock is not checked in the runs that
say so: their clock stops.

* Two sessions let a position of the first meet the second's open, three let a daily
  strategy open, miss its close and decide again. `schedule` looks at two days only.
* Two faults let a failure hit the recovery from another (a lost answer, then a crash).
* One strategy suffices for safety: strategies share only the lock and the tick's order, and the
  theorems hold for any number of them.
* Two volumes separate the old row from the new cap; three stop levels are the initial stop, one
  rise and a tighter one.
* One trading day holds every race for a close: the intraday slot across 16:20, the 16:20 job,
  the boot's catch-up, the net and a person. The second day of `CapturePrune` lets rows of the
  first get old. A queue of one is full after one event: dropping happens at once.
* The walk back has a chunk smaller than a page, a closed market and two empty chunks before it
  stops, so that a closed market and an unloaded page both look like the start of history.
* The watchdog's days have six slots, with an exit on the next day, so that a window spans
  midnight, and the decision of a bin whose bar comes only after a closed market, so that a leg
  outlives the two days looked at (`NoBars`, `DecideWindow`); three days let an alert of one be followed by a recovery and another outage. The capture
  watch runs over two weeks around Thanksgiving 2025, with its closed Thursday and two weekends; the calendar itself is
  checked on every day of its table.
* Level events have two symbols of two families of which one blocks the other, and a gap of two
  bars; three bars and the wait after the close. The rules see four bars, two levels and one
  recapture, the swings five points of three units.
* Two processes record one opportunity over two days with two snapshots, two rows and one
  proposal a run: an insert race, a second row of one day by the second snapshot, a changed
  proposal, and the bars of the day before rewritten under a score. Two symbols of the level
  events: one with a CFD and one without.
* Three trials, two of one hypothesis, two cycles and one place: both may promote at once. One
  file under all three, rewritten at any time between two reads. It is one that is replaced
  (`Merged = {}`): it may shrink as well as grow, and so does all that a merged one does. Two
  series with vintages, the archive of one begun on the second day, and one without, after a code
  that gives nothing; three published values, three days and two outages. The derivation has one
  input and a window, as every windowed one of `derive.py` has (`COT_PERCENTILES`); the join of
  several inputs is in the model and not in this run.

### Fairness

`FairSpec` assumes weak fairness of the process as a whole (the worker's loop sleeps 20 s and
ticks again, `workers/executor.py:80-89`, and compose restarts it when it exits), of the
terminal serving what waits for its lock, and of the clock. It does not assume that a request
succeeds or that a person acts; faults are bounded, so in the end a tick runs through. Which
waiting request the lock serves is free (`Fifo = FALSE`), since `threading.Lock` gives no order.
`Capture` makes no liveness claim: whether a close is captured depends on a vendor that may
fail until it no longer has it. The watchdogs' promises have a deadline (the next pass, the next
day) and are invariants.

## 4. The proofs

Assumptions are the named `ASSUME`s of the modules; `ClosuresAreShort` (a trading day among any six
days of the calendar) is one about the table itself, which TLC evaluates. What a theorem needs beyond
them is a hypothesis of its statement:

| Hypothesis | Meaning | Why |
|---|---|---|
| `Fifo` | the bridge's lock serves in order | else two orders can be in flight after a time-out, and neither `OnePosition` nor the refinement holds |
| `EveryStrategyIsListed` | no start finds a strategy taken off the settings | its rows are skipped then, with a position behind them |
| `FixedSchedule` | an open's window ends before its close is due, and before the second midnight | what the strategies' times give |
| `DailyWindow` | a daily decision's window ends before the next one's begins | ten minutes and a day in `strategies.py` (`DailyStrategy`, l. 154); a 4h decision's 72 hours are not bound by it |
| `[]BarsBeginEarly` | after a gap in the bars the first one does not come in the last moments of a 4h bin | `act_within`, ten minutes, runs from the first bar after the bin, so a feed that comes back just before the next bin's end would let the older decision be made after the newer; the market itself reopens at 18:00, an hour into a bin |
| `ReportsAreMade` | no commit fails and the bridge answers at a start | a report that is not made is not told |
| `KeepOutlastsClosures` | rows keep their strikes for longer than the exchange is closed | see 2.2 |
| `EodIsOfTheEvening` | no EOD capture by hand and no sleeping host | an EOD capture is then of the evening |
| `ClosuresEnd` | the market is not closed for as long as the empty chunks the walk back gives up after | a longer closure is taken for the start of history, as the code says |
| `FirstDay <= LastDay` | the calendar has a day | |
| `OneEventAMoment` | a source of the calendar lists a title once at a time | an event's identity is its title, its day and, when the day lists it twice, its time (`releases.py`), so two such would be one row with two consensus values |

Every one holds in the runs of the property it is for (`OrphanIsTold` runs without the two kinds of
failure `ReportsAreMade` excludes).

**Executor** (`ExecutorProofs`, `ExecutorCoverProofs`, `ExecutorJournalProofs`)

* **Types** (`TypesHold`, `TypesHoldH4`): every action preserves `TypeOK`; the 4h module
  reuses the lemmas of the base.
* **One position** (`OnePositionHolds`, `OnePositionHoldsH4`, `DeskInvIsKept`): `OnePosition` is not
  inductive, since a request still in `inbox` may fill later. `DeskInv` adds what makes it so: at
  most one request is at the bridge, because the executor reads through the same lock before it
  sends; an order is there only while its strategy is flat; only a step that waits finds a waiting
  request, and an answer means that nothing is at the bridge; a kill rule is looked at only then,
  and neither a strategy that is opening nor one whose order is at the bridge is killed.
* **Refinement** (`DeskIsImplemented`, `DeskIsImplementedH4`): under `Book` (the tickets of a
  strategy) and `Halted` (paused by its kill rule) each step of the executor is a step of
  `TradeDesk` or a stutter. A filled order is `Buy` because `DeskInv` says that the strategy is flat
  and not halted then.
* **The cap** (`OrderIsUnderCapHolds`): `CapInv`, the row that is being opened is under the
  cap of the process that runs, and so is an order someone waits on; a restart with a smaller cap
  finds no one waiting.
* **A close ends flat** (`CloseEndsFlatHolds`, `CloseEndsFlatHoldsH4`): `TicketInv` says that a ticket
  names one position and that an order at the bridge has a ticket of its own; `ClosingInv` that a
  close works on the one position of its strategy and that its answer means that the position is gone.
  Then a row is settled (`SettlesFlat`) only when its strategy is flat and nothing is on its way.
* **The cover** (`FixedIsCoveredHolds`, `FixedIsCoveredHoldsH4`): `RowsInv` ties the rows of a fixed
  strategy to their schedule, `ReachedInv` says that every open the tick has read and may still send
  has a pending close beside it: a part of a schedule that died is completed by the next tick
  (`TickRows`), and while the open is fresh the close is not due (`FreshOpen`). `HeldInv` carries this
  over to the order and the position: by `SettlesFlat` the close stays pending as long as one of them
  is there.
* **The stop** (`StopOnlyRisesHolds`): the bridge compares with the stop it finds, so no order of the
  requests matters (`AccountInv`).
* **The journal's stop and the one exit** (`JournalledStopIsSafeHolds`, `OneExitPerPositionHolds`):
  both rest on an order of the rows. Two decisions of a strategy never fall into one moment
  (`Ripe`), so the rows they write are due in the order of their sessions (`RowsInOrder`), and no stop
  the journal has sent since the open is above the broker's (`StopInv`). `ExitInv` says that one decision
  writes one leg, and that of two exits of a ticket one is a stop-out and the other an older close.
* **The orphan** (`OrphanIsToldHolds`, `OrphanIsToldDaily`): `OrphanInv` follows a position of a
  strategy that decides from its order on: the tick that sent it still waits for the answer, or a row of
  the journal comes back to it, or it has been named to a person; no step takes the row away
  (`StaysCovered`). A fixed strategy's position is covered.

**Capture** (`CaptureProofs`)

* **Types and events** (`CaptureTypesHold`, `EventsHaveLevels`): `CaptureInv` follows a capture
  through its steps. What it carries has a timestamp within the clock's phase, its row exists from
  the insert on, and its levels are stored before it may publish; levels are never taken
  away, so an event once queued stays true.
* **The prune** (`EodKeepsStrikesHolds`): `KeepInv`, what the prune has read or taken is older than
  any chain a capture can still be carrying (`RecentIsNotStale`), so that no promotion can reach it.
* **The close** (`CloseIsKeptHolds`): `CloseInv`, a timestamp has one book; today's EOD rows and
  EOD captures are of the evening's book; what was vouched for is kept.

**The other modules**

* `IngestProofs`: `BarsNeedAgreementHolds`, since the newest row is always the last verdict
  (`RowIsLastVerdict`), the last measurement is that verdict unless its row could not be written
  (`RowIsLastMeasurement`), and a minute job that was let in writes under it (`MinuteAgrees`);
  `TickHourIsWholeHolds`, since what a run still has to ask for is over (`TodoIsOver`);
  `HistoryIsWholeHolds`: `WalkInv` says of each place of the walk which hours between the bars it has
  seen and what is left for it to ask for; `MissesAreToldHolds`: a heartbeat that is old at one pass
  of the window has been told there, and one that is young at all of them leaves no leg untried; a leg
  that is over by the next day is looked at all the while.
* `JobsProofs`: `LevelEventsToldOnce` (the refinement of `TellOnce`), `AlertsKeepApartHolds`,
  `ScoresWaitForPathHolds`; `CaptureBelongsToLastOpenHolds` and `WatchdogSpeaksHolds`, from what a
  previous trading day is (`PreviousIsLast`); `InsertedAreToldHolds` and `CommitmentsStandHolds` with
  `DecisionsInv`: what was told of a row and the runs that may still tell it (`CanTell`: it has read
  the row, or its watermark is below it) are two together, and a run that was alone finds the rows it
  has yet to score open (`RunKnows`); `VintagesHoldHolds` with `VintagesInv`: a key
  has one value, and what the night was offered is stored; a value that was known by a day is read the
  same as of any later one before it is revised, so a derived row can be computed again
  (`DerivedStands`); `JobsAreTheirOwn`: a behaviour of the run
  is, job by job, one of the job's own specification, and with it `JobsTypesHold`, the run's `TypeOK`;
  `TableFollowsRulesHolds`: the first of each month and the weekdays of the year give every closure
  from 2021 to 2027 (`DatesAre`, `NthIs`), year by year.
* `FeedsProofs`: `FlowsAreKeptHolds`; `BarsAreWholeHolds`, with an honest vendor as a part of the
  invariant (`VendorIsHonest`: what it shows of a day fits the time); `ChainIsAsServedHolds`;
  `CalendarHoldsHolds` with `ReleasesInv`: each refresh is of a moment of its own, and what another
  left half written is replaced by the plan of the newest.
* `RulesProofs`: `SignalsTellOnce`; `NoTransitionLostHolds`, where a latch is what the last bar that
  set it says; `WatchlistHoldsHolds`, whose evidence needs to know whose uncommitted row a candidate
  is (`PlacesAreOwned`) and that a score is measured forward (`ScoresAreForward`), and whose bound
  counts a promise of each cycle, its candidates and what is left of its budget, beside what is
  committed; `TrackRecordHoldsHolds`: the trigger bar and the bar that ends a trade are the first of
  their kind, so that they stand when a bar is added (`TriggerStands`); `FindingsAreFinalHolds`: the
  level known at a bar never changes (a later capture counts from a later bar), a touch depends on the
  touches before it (`TouchedAgree`), and the leg after a prefix of a path is the same on every
  longer one (`LegsAgree`), well turned at each point (`SwingsInv`).

What a rule computes along a history is written without `RECURSIVE`, as the set of touches that
agrees with itself or as the function on the prefixes of a path, so that its values on a longer
history can be compared with those on a shorter one by the least place where they would differ
(`LeastOf`); no induction theorem with an operator for a parameter is needed.

Two slips of the type invariants were found in proving them and mended in the modules: the days
before the table are negative numbers (`captured` in `CaptureWatch`), and a clock that never moves
leaves `LevelEvents` without the time its rows are given (`MaxTime > 0`).

Only model-checked: the two liveness properties, `FixedPositionEnds` and `DueLegSettles`, which rest
on fairness and on what is enabled. Each other property of a passing run is stated by a theorem.

## 5. What is left

1. The kill rules beyond the streak, once the journal of the model carries profits.
2. The intraday bars of the charts and the backfill of past sessions (`intraday_bars.py`,
   `gex_backfill.py`), which follow the pattern of `DailyBars`.
3. The edges and the brief of the terminal.

## 6. Not modelled

* Prices, option numerics, reports and scan analytics (`gex/engine.py`, `greeks.py`, `report.py`,
  `scan/decisions.py`, `regime.py`, `rotation.py`), the backtests and the statistics of the
  research gates: floating point, no state and no interleaving. They are the largest files of
  the repository, which is why the share of its lines that a definition stands for stays small.
* The formats the vendors' payloads come in, the release calendar of the CFTC, symbol and chart
  routes: parsing and reading.
* The read routes, the user interface, the MCP connector (read-only queries), the settings, the
  notification transport, containers and migrations. A message is taken as sent; the restart
  policy is in the fairness of `Boot`.
* `capture_extended_job` is the EOD job of other symbols, without a catch-up. The bridge's
  read-only operations (symbols, rates, ticks) enter only as answers that come or do not.
* Two refreshes of the release calendar whose rows interleave: the model plans and inserts one
  refresh after the other, since the plan is made from what is stored at that moment.

Every component is listed in `PROJECT.json` with its status and the reason.
