# A TLA+ model of Chambers

Chambers (`src/chambers`) trades four strategies, the *sleeves* S0–S3, on one Alpaca paper account, from one
Python process with one scheduler thread, a SQLite store beside it, and a dashboard and a command line that write
to the same store. This directory holds TLA+ modules of the parts of it where order, failure and restart
matter, the TLC configurations that check them on small instances, and proofs, checked by TLAPS, of what holds
of them for every value of their constants. `PROJECT.json` lists the runs, the mutants each property refutes,
the source lines every definition stands for, the hazards, the findings and the theorems.

## 1. The system

| Component (source) | State | Operations | Interacts with | What is hard | What makes it correct |
|---|---|---|---|---|---|
| Scheduler (`scheduler.py`) | backoffs, reconcile's 60 s cache, flatten request | tick, wait, run the action, startup, flatten_all | asks every runner's `plan`, reads controls | one thread: whatever one runner does delays the others; a plan that raises; a clock read once a tick | nobody's time is slept past, skipped or starved |
| SleeveBase and S0 (`engine.py`) | positions, last mark, what is done today, params | plan, run_cycle, execute / settle, enter, close, flatten, safety net, adopt | broker, store, portfolio, twin | orders that fill in parts, late, after a cancel, or unknown; a restart anywhere | memory, store and broker agree; a flatten leaves nothing and takes nothing of others |
| Session and 24x7 sleeves (`sleeve.py`, `strategies.py`, `bars.py`) | the same, stop prices, cooldown, bar history | decision marks, entries and exits on bars, preopen, sweep | the same | restarts around a mark; a mark run late | a mark runs once; entries respect cooldown and one position per symbol |
| Reconcile (`reconcile.py`) | none | decide, reconcile_sleeves | broker, store, sleeves | one net quantity at the broker for several sleeves' trades | what is adopted, closed and flattened explains the broker's quantity |
| Broker wrapper (`broker.py`) | none | submit, status, cancel, positions, close_all, account | Alpaca | retries, timeouts, terminal or not | never waits for ever, says what is unknown |
| Store (`store.py`) | all rows | one commit a statement or a few | all | a process that stops between two commits | the rows alone are enough to start again |
| Risk (`risk.py`) | cached equity; risk_days row | equity, check_daily_loss, allow_entry, sizing | every sleeve's gate | stale equity, failed lookups, an order in flight, restarts | caps hold across sleeves; a halt holds for the session |
| Sweeps (`sweep.py`, `sleeve_replay.py`) | params, params_history | grid replay, one_step, write | `--sweep`, dashboard | two commits, three writers | one sweep a date, one grid step a night |
| Twin (`twin.py`) | seeds, draws, simulated positions | on_cycle, rebuild | sleeves | restart must not change the draws | the same trades however the day was restarted |
| P100 (`p100.py`) | daily ledger of a $100 account | replay a day's signals, T+1 settlement | NightlyJobs | rerun of a day, a missed day | cash is never spent unsettled or twice |
| Lab (`lab.py`) | suggestions and their state | evaluate, propose, accept, reject | dashboard, params | two writers of params | only an accepted suggestion changes params, once |
| Jobs (`jobs.py`, `messages.py`) | mark of the day, messages sent | brief, nightly chain, EOD summary | scheduler, all of the above | one step of several fails; restart in the chain | each step once a day, later steps despite a failure |
| Fill reconciliation (`recon.py`) | recon rows | compare equity with the books | broker, store | windows and rollover | every fill in exactly one window |
| Notifier, watchdog (`notify.py`, `watchdog.py`) | last alerts, heartbeat | send, suppress, alert on silence | all | failed sends and the rate limit | an alert is not lost for good |
| Dashboard (`dashboard/`) | none | save params, flatten, pause, read | store | writes beside the engine | never half a form |
| Clock (`clock.py`), data (`data.py`, `history.py`, `econ.py`) | caches | sessions, bars, quotes, events | all | half days, missing bars | — |
| Gates, replay, strategy code, command line (`gate*.py`, `replay.py`, `strategy.py`, `main.py`, `runtime.py`) | none | reports, pure functions, wiring | | floating point | — |

The process has one working thread: the sleeves do not interleave with each other inside a cycle. What
interleaves with them is the broker (fills, cancels, failures), the clock, other processes on the store (the
dashboard, `--sweep`), and `kill`; launchd starts the process again (`KeepAlive`). Everything in memory is lost
then, and a restart has the store and the broker to go by. Most of the properties are therefore about agreement
between memory, store and broker, or between one day's steps before and after a restart.

## 2. Modules

| Module | Models | Notes |
|---|---|---|
| `Reconcile` | `decide()` | operators only; used by `Books` |
| `Books` | `SleeveBase.execute … flatten`, `reconcile_sleeves`, `flatten_all`, startup, preopen | composes sleeves, store and broker |
| `Scheduler` | `Scheduler.tick`, `Engine.plan`, `BarSleeve.plan`, `MorningBrief.plan`, startup | what an action does is only that it takes time |
| `Sweep` | `run_sweep`, `run_bar_sweep`, `one_step`, `--sweep`, the dashboard's form | a replay's result is any verdict |
| `Risk` | `Portfolio`, `risk_qty`, `position_qty`, `entry_gate`, `risk_tick` | an order settles in one step; `Books` has the rest |
| `SleeveRules` | what a sleeve promises of a session | abstract; no process, no restart, no store |
| `Cycle` | `run_cycle` of S0 and of a bar sleeve, `adopt`, the rebuilt cooldowns, the twin, `replay`, `replay_bars` | implements `SleeveRules` with `bar <- Now`, `held <- rows` |
| `P100` | `simulate`, `start_state`, `run_p100`, `tune_p100` | money in whole units |
| `Lab` | `run_lab`, the suggestions, the dashboard's decision | grading is any verdict |
| `Nightly` | `NightlyJobs`, the steps of `build_jobs`, `run_recon`, S2's rollover | EXTENDS `Lab`: the chain's last step launches one |
| `Alerts` | `Notifier.alert`, `send`, `run_watchdog`, the restart's alert | two processes and the store between them |
| `MC…` | constants for TLC | |
| `BooksProofs` (with `Reconcile`), `SchedulerProofs`, `SweepProofs`, `RiskProofs`, `CycleProofs`, `P100Proofs`, `NightlyProofs` (with `Lab`), `AlertsProofs` | theorems | section 6 |

**Books.** `net` and `stray` are the broker: the net quantity and the orders nobody waits for. `trades` and
`nextId` are the store's open rows. `positions`, `job`, `queue`, `todo`, `stage`, `flattened`, `ready`, `late` and
`cache` are memory: `job` is the order `execute()` waits for, `queue` the sleeves a flatten has still to do (the
first of the runners, S0, is last and adds the safety net), `stage` where that one is. One action stands for the
code between two points where something else may happen: a submitted order, a poll, a commit that a kill can fall
behind (`split_trade` and `close_trade` are two actions). Everything exceptional is a `Fault`: a refused order or
second leg, a poll that raises, an order not terminal after its cancel, its outcome unknown, a killed order, a
failing `positions()` or `cancel_all()`, an order slower than the process, a restart. Two sequences of the code are
one step each: `ReconcilePass` (`reconcile.py:71-98` commits each missing trade, then sends the orphan orders one by
one) and `SafetyNet` (`engine.py:519-546` sends per symbol and closes the trades one by one): no kill and no fill
falls between their commits and orders. Prices, P&L, excursions and crypto's fractions are left out: no property here
tells them apart.

**Scheduler.** A tick reads the clock once (`at`), serves a flatten request, asks each runner (`Ask`), and keeps
the earliest answer (`best`), which it waits for or runs. A plan may itself do the preopen, flatten or sweep; every
plan and every action takes any time up to `Busy`. Memory is lost by `Crash` and rebuilt by `Startup` from
`rows`, `sweepRows`, `sent` and `request`.

**Sweep.** `params` and the sweep rows of today are the store, written in two steps by the engine and by hand;
`loaded` is what the engine holds. The form is read, then saved.

**Risk.** `memory` is the cached equity and whether it is young; `row` is today's `risk_days`. Whether `account()`
answers is open at every lookup. `Check` is `check_daily_loss()` with both its lookups; `Gate` is
`allow_entry()`; `order` is the entry between its gate and its record (`seen` is the equity the gate compared with);
`last` is history, the equity seen and the quantity of the entry last sent. The halt's commit and its alert are two steps. A partial exit is
one step here; the kill between its two commits is in `Books`. `Opens` makes the cache old: no sleeve's cycle
falls in the last seconds before the open.

**Cycle.** What a strategy says of a bar is a *reading*: for each symbol the entry it asks for, the sides whose
exit rule holds, the stops the bar is beyond, and the twin's draw. `tape` is the readings so far. `pos`, `exitBar`,
`lastMark` and `tw` are memory; `rows`, `left`, `exitRow`, `cycled`, `log`, `trows` and `tlog` are the store. The
cycle is `StartCycle`, then symbol by symbol the exits (`ExitCloses`, and for a bar sleeve the second write
`SetExitBar`) and the entries (`Enters`), then `TwinCycle` and `WriteCycle`; a `Kill` may fall between them at the
places in `KillAt`. `Startup` is `adopt`, `_rebuild_cooldowns` or the stored exit bars, and the twin's `restore`.
`Replay` folds the replay's own steps over the same tape, so that `AsReplayed` compares two programs: exits, entries
and twin, and S0's symbols as `replay()` takes them, by name (`Sorted`: `bars_for_day`, `store.py:854`, `860`), where
the live cycle takes the universe's order (`Order`); a bar sleeve's replay takes the sleeve's. `full` is history: S0
turned a symbol away that asked to enter. A restart of S0 may run the newest minute if it was not begun, since its
:05 may be still to come (`Resumed`), or pass it by. `kind` is S0 (slots, cooldown from the closed trades, no catching up) or a bar sleeve (one position a
side, cooldown of its own, the last mark resumed).

**P100.** `rows` is the ledger by date: start, end, the money settled and still due by its day, and what the row
opened with. A run begins from the newest row before its date (`RowsBefore`), merges the entries and exits of the
day's signals in time order, buys from settled cash only, and settles proceeds on the next weekday. Tuning takes
the sleeves one by one, each with a check, the parameters and the history row as three steps. Runs by hand for
today's date and the nightly run are the same actions.

**Lab and Nightly.** A lab is a process with `pc`, its run and the candidate it is at; a suggestion supersedes the
older open ones of its candidate in one commit. The dashboard's answer is read (`Answer`), then written
(`Decide`), and the UPDATE looks again. In `Nightly` a day is three instants: session, `sweep_at`, evening.
`done` is memory, the rest the store. Each step runs at most once a night in a process, fails or not; what it
leaves behind is what the next process goes by. A `done()` that raises leaves its step pending (`Due`), and a
reconciliation may raise after the broker answered and leave no row (`Reconciles`). `rolled` keeps S2's sweep apart by store and memory, because a
failed sweep is remembered only there. The chain, the sleeves and the rollover share the thread, so each is a step.

**Alerts.** `proc` is where each process is in `alert()` and what it has still to tell; the rate limit's read, the
send and the row are three steps. `told` is what Telegram delivered. A disabled or dry-run notifier behaves like
one whose sends succeed.

## 3. Runs

| Run | Asks | Bounds and why they are enough |
|---|---|---|
| `books` | TypeOK, PositionsBacked, Conserved, NoOrderFlips, ReconcileExplains, FlattenEnds, with every kind of fault | two sleeves on one symbol, entries of 1–2 shares (so there are partial fills, split orders, netting to 0 and across it), two rows, any one fault; symbols do not interact but in the order a flatten takes them |
| `carry` | OneOpenTrade, NothingForgotten, OthersSpared | a flattening sleeve and a carrying one on a shared symbol, two of restart, slow order, refused order |
| `day` | TypeOK, NeverOversleeps, NoMinuteLost, CyclesStart | a minute is 3 units; a session of 4 minutes with three sleeves and the brief; work up to 2 units. Each mark coincides with, precedes or follows a minute's :05, and work may cross the lateness limit |
| `live` | RecordedOnce, SweepAfterFlatten, RequestServed, FlattensDaily | a shorter session, day after day, one kill, one raise, one request a behaviour, messages unreachable (the harder case) |
| `sweep` | TypeOK, SweptOnce, SweepsFromLatest, Settles | S3's grid shape (3 × 3 with a constraint), forms on and off the grid and at its ends, two opposite verdicts or none, one each of kill, failure, save |
| `risk` | TypeOK, SideCapped, FillsWithinEquity, SizedToRisk, HaltHolds | three sleeves of different sizing, two positions a side, three trades (so both caps bind), two equities of which one trips the halt, fills one unit off, so that the bound of `FillsWithinEquity` is attained |
| `cycle` | TypeOK, AsReplayed, FollowsRules | both kinds, two symbols that live and replay take in opposite orders, five bars of which four allow entries: with a cooldown of 2 and a time exit after 2 a symbol can be left, wait its cooldown and be taken again, and a position can age across a restart; one slot, two faults anywhere |
| `p100` | TypeOK, CashKept, LedgerChains, OneStepADate | five dates, three with a session, one no weekday, so that proceeds settle over a weekend and a date without a row lies between; three runs of any of them, killed while trading or tuning; a long, a short bought as its inverse fund, losses and gains |
| `night` | TypeOK, WindowsExact, ChainEnds | one day with history, P100, reconciliation and lab as steps, each of which may fail; two trades closed anywhere, S2's rollovers, one kill |
| `lab` | OnePending, DecisionsStand | two labs at once, two candidates of which one has enough trades or too few, two answers from the form |
| `alerts` | OncePerLimit, NeverSilent | two sleeves with different cycles, six minutes, a limit of 3 (so a message can repeat once), two kills, refused sends |
| `offset` | FlattenedClean, which the code violates | section 5 |

`Known`, in `Conserved` and `NoOrderFlips`, restricts them to behaviours in which no order's outcome became
unknown: then the code cannot know what the broker holds, and reconcile is what repairs it
(`ReconcileExplains`). `SweepsFromLatest` is about nights in which nobody else wrote since the last load; with a
save in between, the last writer wins. `SweptOnce` leaves out a sweep by hand that found no row and goes on
(section 5). `FillsWithinEquity` is about what was filled: prices of the fills, parts already closed given back, and
the order in flight stay within the equity *seen* by the last entry's gate plus that entry's slippage. The equity
seen may be old, since nothing in the code bounds its age while `account()` fails, and with none seen since the start
the code lets the entry pass (`risk.py:148`): then nothing is claimed. `AsReplayed` speaks of the behaviours in which
every mark was run, every fetch answered and every order filled, kills and restarts among them, and of S0's own
trades only as long as no symbol was turned away for want of a slot (section 5). `FollowsRules` holds of all. `WindowsExact` leaves out
nothing but time: trades close at instants of the same clock the windows are cut by.

## 4. Fairness

`Books!FairSpec`: the thread goes on while it executes an order or a flatten — every wait in `settle()` has a
time limit, so polling ends — and `Startup` follows a stop (launchd). Orders left at the broker end. Nothing
makes sleeves enter or exit. `Scheduler!FairSpec`: the loop goes on, days follow each other, and a stopped process is
started; that is strong fairness because a kill may come again, and kills are bounded. `Sweep!FairSpec`: evenings
and days come, the engine and a sweep begun by hand take their next step, a save begun ends; nobody has to start
a sweep by hand or to save. `Nightly!Fairness`: the scheduler's loop goes on asking the chain, which is first in
turn once it answers "now", and the service is started again; weak fairness is enough, because a kill is bounded
and nothing else takes the chain's turn away for good. Nobody has to sweep, to close a trade or to end the day.
Bounds on faults, kills and requests make "nothing goes wrong any more" eventually true, which is what the
liveness properties need and state.

## 5. Findings and limits

| Run, property | What happens |
|---|---|
| `offset`, FlattenedClean | an exit did not fill, another sleeve's trade nets the broker's position to 0, the safety net sees nothing: the trade stays open after the flatten |

The properties that hold name what they leave out. These are the limits of what the code keeps; each was met
while modelling. Where the repository says otherwise of itself, it is quoted:

- *S0's replay takes the symbols by name, the live cycle as the universe lists them* (`replay.py:78`, `184` over
  `store.py:854`, `860`; `engine.py:792`). When more symbols fire on a bar than there are slots left, the two enter
  different ones, although `replay.py:145` says "Mirrors Engine.run_cycle" and DECISIONS.md:44 "The replay loop mirrors
  `Engine.run_cycle`". `config.yaml` has 20 symbols and 20 slots, so that it takes a lower `max_open_positions` (which
  `tests/test_replay.py` gives the replay). `AsReplayed` therefore asks for `ReplayMirrors` only while not `full`;
  `ReplayMirrors` by itself, as an invariant of the `cycle` run, is violated: both symbols ask for the one slot, live
  enters `b`, the replay `a`.
- *A failed reconcile is reused.* Its empty result is cached for 60 s (`scheduler.py:81`, `reconcile.py:57-59`), so a
  preopen within that minute adopts nothing and a sleeve may trade a symbol in which it has an open trade.
  `NothingForgotten` speaks of passes the broker answered.
- *A brief that cannot be sent answers "now" on every tick* (`jobs.py:127`) until the open is `LATE_BRIEF` past, and
  S0's first cycles, always a little in the future, do not come meanwhile. `CyclesStart` is checked with messages
  reachable; `live` has them unreachable.
- *The cycles row is written last*, so a kill in a cycle repeats its decision mark (`sleeve.py:285`, `422`);
  DECISIONS.md:205 says "Restarts never re-run a decision mark" and then, of marks with a `cycles` row. `RecordedOnce`
  is what does hold: a mark with a row does not repeat.
- *params and params_history are two commits* (`sweep.py:140-142`); a restart or `--sweep` between them steps twice,
  and P100's tuning likewise, there also when the history row raises. `SweptOnce` and `OneStepADate` leave out that instant (P100's
  `KillAt`, the places of a kill and of that exception, lacks `"history"`).
- *The open's equity may be older than the open*: when the first lookup after it fails, the cached one is recorded
  (`risk.py:84`) and the loss limit is measured from it all session.
- *A bar sleeve's exit is two commits*, `close_trade` and `set_exit_bar`: a kill between them loses the cooldown,
  which DECISIONS.md:204 stores "so a restart keeps it". `FollowsRules` leaves out that place, `"exitbar"`; the mark
  run again after a kill within the twin's trades or before the cycles row would draw and exit the twin a second time
  on its own entry bar (DECISIONS.md:215, 217), so `"write"` is left out too (`"twin"` is the instant before its
  step).
- *An alert is sent before its row is written*: killed between, or with Telegram's answer lost, it is told twice
  within the limit. `OncePerLimit` leaves out `"record"` and `"unclear"`; two watchdogs at once are not modelled.
- *A launched lab has no row until it starts*: a restart in between launches a second one. Both runs are harmless to
  the suggestions (`lab` has two at once).
- *The history step is repeated by a restart*: jobs.py:13-14 says of each step that it has a durable check, so that "a
  restart in the evening neither repeats nor skips work", but this one has none (`runtime.py:123`). Fetching the bars
  again is harmless; in `Nightly` it is done again.
- *A chain step that failed is tried again that night only by a new process*: the chain always ends (`ChainEnds`)
  because a failure counts as done.
- *P100*: a run by hand early in the evening makes the nightly one skip the date, and a kill after the ledger row
  loses that night's tuning.

## 6. Proofs

| Theorem | For every | Argument |
|---|---|---|
| `BooksProofs!DecisionSound` | finite set of trades, broker quantity | sums over what is adopted: with several trades, or none, adopted and orphan add up to the broker's quantity; one alone is judged by its sign; agreeing books stay |
| `TypeCorrect`, `BooksBacked` | set of sleeves, symbols, sizes, faults | the invariant `BackedInv` |
| `FlattenSpares` | the same | an action property, from `BackedInv` |
| `SplitNeverFlips` | quantity held and wanted | arithmetic of `FirstLeg` |
| `BooksConserved` | the same, any number of trades, shares and orders | `SharesInv`, with sums of trades |
| `NoOrderEverFlips` | the same | `SharesInv`: a working order is a first leg cut at zero or a rest from zero on |
| `ReconcileAddsUp` | the same | an action property: the sum over what is adopted and the orphan order it leaves |
| `OneTradeEach`, `NothingIsForgotten` | the same, where `RestartAlone` | `HeldInv` |
| `SchedulerProofs!TypeCorrect`, `NeverRunTwice` | runners, marks, session times, lengths of work, kills, raises | `MarksInv` |
| `SweptFlat` | the same | an action property, from `MarksInv`: a sweep is planned only after the flatten |
| `WakesInTime` | the same | `AskedHeeded`: the earliest answer so far heeds every runner asked so far |
| `LosesNoMinute` | the same, kills and requests, where nothing raises and work keeps up (`KeepsUp`) | `TimelyInv`: how late each step of the loop can be against S0's next mark |
| `StartsCycles` | kills and a flatten request, where nothing raises, messages get through and the morning's work fits before the open (`MorningFits`) | `MorningInv`: what is done of that work bounds the clock, and then only S0's mark is near |
| `SweepProofs!SweptOnceAlone` | grid, verdicts, forms, number of kills | inductive with what the engine's step says of the row |
| `StepNear` | grid (of any length and spacing), value off the grid, best combination | `NearestIndex` of a grid value is its index |
| `OneStepFits` | the same, and any order of the parameters | the fold of `KeyByKey` by induction over the places walked |
| `SweepTypeCorrect`, `EngineStepsFromLatest` | grid, verdicts, forms, number of kills | `SweepInv`: what the engine holds is the row, unless someone wrote it since (`InMemory`, `AsLoaded`) |
| `RiskProofs!TypeCorrect` | sleeves, prices, limits | the order keeps a free identifier for its trade: a pigeonhole argument |
| `RiskSized`, `SentWithinRisk` | capital, stop, price, percentages | `y * (x \div y) <= x` |
| `SideAlwaysCapped` | sleeves, limit | the order in flight counts; recording it moves it from one count to the other |
| `FilledWithinEquity` | sleeves, equities, prices, slippage | `FillInv`, with sums of trades: recording the order adds at most its slippage to what the gate admitted, a whole or partial exit only takes away |
| `HaltKept` | sleeves, kills | the check that lets an entry pass leaves the row not halted |
| `AlertedOnce` | sleeves, kills | `AlertInv`: an alert sent or due belongs to a recorded halt |
| `CycleProofs!CycleFollowsRules` | symbols and their order, readings, bars, limits, kills but `"exitbar"` | the refinement `Cycle` → `SleeveRules`, with `CycleInv` |
| `CycleTypeCorrect` | the same, with kills anywhere | `TypeInv`: `CycleInv`, and what lies in the past does |
| `CycleReplayed` | the same, any second order of the symbols, kills but `"exitbar"` and `"write"` | `ReplayInv`: how far the store has come from the replay of the bar before; entering in another order makes the same entries while nobody is turned away |
| `P100Proofs!TunedOnceADate` | sleeves, dates, runs, kills and exceptions but at `"history"` | `TuningInv`: before its history row a sleeve's step is the run's own |
| `RowsAlwaysChain` | capital, signals, dates, kills | `LedgerInv`: no row is ahead of today, and a run begins from what the row before left |
| `P100TypeCorrect` | the same | `ExitsAhead`: what is open has its exit still to come, so a run that is over holds nothing |
| `CashConserved`, `LedgerAlwaysChains` | the same | `CashInv`, with sums over what is due and what is open |
| `NightlyProofs!LabTypeCorrect` | labs, candidates, trade counts | `LabInv` |
| `NewestPending`, `DecisionsFinal` | the same | a suggestion supersedes what is open; the UPDATE looks at the row again |
| `NightTypeCorrect` | chain of steps, days, kills, labs | `NightInv`, of which `LabInv` is a part |
| `TradesCountedOnce` | the same | `Chained`: the good windows so far tile the time from the first to the last |
| `NewestPendingAtNight`, `DecisionsFinalAtNight` | the same | a step of the night is a step of the labs or leaves them alone |
| `AlertsProofs!SilenceIsTold` | sleeves, marks, limits, outcomes, kills | `AlertsInv`: alert rows are in time order and a row sent was delivered |
| `RateLimitHolds` | the same, but for the two exclusions | `LimitInv`: a process about to send has seen that the newest delivery is a limit away |

**Positions and rows.** `PositionsBacked` alone is not inductive. An exit booked as partial changes the row, then the
position, so the step after needs to know that the other half of the split is the newest row (`SplitHeld`), that the
exit being executed is for a whole position (`ExitHeld`), that row ids are unique (`RowsUnique`), that a flatten's
list holds only positions of its sleeve that no running exit is for (`TodoHeld`), and that a stopped process
executes nothing (`DownIdle`).

**Shares.** `Conserved` compares the broker's net quantity with a sum over the open trades, and what breaks such a sum
is an order that is cut or booked wrongly. `SharesInv` adds what an order is at every moment: an entry is for a sleeve
without a position (`EnterEmpty`), the leg being watched is the first, cut at zero, or the rest, sent when the books
say zero (`LegsCut`), its fills stay within it, and while every outcome is known each open trade is its sleeve's
position or half of a split being recorded (`EachHeld`, `SplitRows`). `HeldInv` goes on from there to restarts.
`RestartAlone` (a restart comes with no other fault than a refused or slow order) is a real boundary: with a restart
and any one of the other faults, the second leg refused, a poll that raises, an order unsettled, lost or killed,
failing `positions()` or `cancel_all()`, TLC finds both `OneOpenTrade` and `NothingForgotten` violated, and without
restarts the theorems allow all of them. The reason the restart works is `TwinsDiffer`: two rows of one sleeve and
symbol are left behind only when the broker holds something else than their sum, so that reconcile does not adopt them
together.

**Exposure.** The gate compares with the open trades at their fill prices, so an entry that filled above its signal is
seen by the next gate at what it cost: slippage does not add up over entries. `FillInv` says so: the order in flight
is the last sent and fits at its signal's price; when none is in flight, the trades are above the equity that entry was
gated on by at most its own slippage, and exits, whole or in part, only lower the sum. A gate that turns an entry away
keeps `last`; a kill loses the order and leaves the trades.

**Time.** `RecordedOnce` needs that the cycle a tick chose is of a mark after the sleeve's last (`MarkUnrun`), and,
across a restart, that the row a cycle writes is a time at or after its mark (`MarkRunning`, `MarksPast`), since the
row is all that `startup()` goes by (`MarksKept`).

`NoMinuteLost` is about lengths of time. A minute that was begun leaves the next to be caught up, if the loop asks S0
within `LATE_CYCLE_S` of its mark. `TimelyInv` bounds that: before S0's next mark no other answer outdoes S0's own, so
that what another runner begins, it begins before that mark (`S0Leads`, `OnTime`), and ends late by at most its own
length and that of the flatten requests served after it (`LateBy`); in the next tick the mark is due and S0, first in
the list, answers "now". Plans themselves take no time then: every sleeve was preopened before S0's first cycle
(`Opened`). `KeepsUp` asks for as much room as that needs, `(1 + MaxRequests) * Busy <= Late`, and for a late cycle to
fall within its minute, as the code's 50 of 55 seconds do. It is the boundary: with `Busy` or `MaxRequests` one above
it TLC finds `NoMinuteLost` violated on the `day` run. A `plan()` that raises takes S0 out of the loop for
`PLAN_RETRY_S`, a whole minute, so nothing may raise. Kills may come anywhere: the claim starts anew with the second
minute of each process.

`CyclesStart` is about the one minute S0 cannot catch up, the first: `_last_cycle_minute` is still `None`. The work of
the morning is counted: the start, one preopen per sleeve, the brief, a flatten request (`Jobs`). Until all is done
the clock is at most `Jobs * Busy` past the later of the preopen and the brief, because the wait ends at
whichever is missing (`FirstCycleAhead`). When it is done, nothing that takes time is due before S0's second mark:
S0, asked first, answers the open and then its mark, and whoever outdoes that has nothing to run (`Led`). A request
may be found on the very tick of the first mark and take it; the second then is S0's, since the request was the only
one. `MorningFits` asks for just that room, met as an equality in the `day` run: work that runs into the open, two
requests, or a brief just before the open and one request, and TLC finds `CyclesStart` violated. In the code the brief
(8:45) and the preopen are well before the open, and the earliest mark of a session sleeve is 9:45:05.

**The cycle.** Its refinement maps the store's open rows to the symbols held, the store's newest closes to the last
exits, and the length of the tape to the bar. A step of the cycle that closes a trade must be a `Leave`, and for that
the position closed must be older than the bar. So `CycleInv` says that a position has counted no more bars than
there were since its entry (`PositionsAged`: the time exit cannot fire on the entry's own bar), that a position
entered on the newest bar is on the side that bar asked for, whose exit rule does not hold on it (`RowsYoung`, by
`ExitAssumption`), that memory and store agree while the process runs (`Remembered`), and that the cooldowns known
in memory and in the store are the last exits (`ExitsKnown`), unless a kill can fall between a bar sleeve's two
writes: that is the place the theorem excludes. `Slots` and the pair filter carry over because memory and rows hold
the same symbols.

`AsReplayed` compares the day with two folds, over the tape and over the symbols, only when a mark is done; the
invariant has to say what holds in the middle of one, and when one is begun again. `ReplayInv` reads the store as a
state of the replay (`View`: a row with its bars counted to now, the cooldowns, the closed trades). A mark that is
done leaves it equal to `Replay` (`Done`); that is `LiveInv`, while S0 turned nobody away, and `TwinInv` says the same
of the twin, slots or not. Within a mark the store has come from the replay of the bars before
(`Base`) as far as the exits of some set of symbols, or all of them and the entries up to some place (`ExitsDone`,
`EntriesDone`): the set and the place are at least what the loop has passed, and further after a restart, when the
process walks again over what an earlier run of the mark has done. So the theorem rests on lemmas about the replay's
own folds: the exits of a bar commute and may be repeated (`ExitsTwice`, `ExitWalk`), a symbol whose turn to enter
passed without firing does not fire later on the bar, because what is held only grows (`HeldFiresLess`,
`EntrySettles`), the entries of a bar taken in two orders are the same when after one of them nobody is left asking
for a slot (`SameEntries`, `EnteringMakes`: the replay takes S0's symbols by name, and `ServedInv` says that none of
those the loop has passed asks any more), a trade opened on a bar does not leave on it (`OpenedStays`, by `ExitAssumption`), and what the twin
drew on the bars before does not matter (`TwinSame`): a restart forgets it. Memory is the store's view of each symbol,
at this bar or, before its exit is looked at, at the one before (`InMemory`). Killed between the two writes of an exit
the cooldown is lost, and killed after the twin's step the twin takes it again: the two places the theorem excludes
(section 5).

**Sums and folds.** The provers have no induction over data that takes an operator. `SumFunctionOnSet` and `FoldLeft`
are defined by `CHOOSE` of a recursive function, and what they compute is proved with sets in the place of operators:
the set of the subsets on which the claim fails has, if not empty, a minimal element for strict inclusion
(`SubsetInduction`, from the library's well-foundedness of that order), which shows that the function the `CHOOSE`
asks for exists (`Adds`, `Walks`) and then what it is worth, for the replay's exits and entries too. `ReplayTo`, a
recursive function on the bars, is handled likewise by the least bar at which it would fail to exist (`Follows`). From
there come the lemmas the invariants use: a sum with an element added, removed or changed, the sum of a union, and for
`KeyByKey` that each parameter is where it was or one step on, whatever the order.

The proofs assume what the modules name: `RunnersAssumption` (S0 is an intraday sleeve) and, in `Scheduler`, that no
runner is registered twice, that the times of a session are naturals (`SessionAssumption`) and that work and sleeps
take some time (`BoundsAssumption`); `SymbolsAssumption`, `FaultsAssumption` and the bounds in `Books`;
`GridAssumption` (increasing, non-empty grids), `VerdictAssumption` in `Sweep`; `SleevesAssumption` (S0 is an equity
sleeve, no sleeve is both kinds) and `MoneyAssumption` (naturals, positive prices, a stop of 0 for none) in `Risk`;
`ExitAssumption` and the shapes of `Order`, `Sorted` and `Readings` in `Cycle`; the shapes of signals and dates in `P100`, with
a weekday within three days of every date (`WeekendAssumption`); a chain that names each step once
(`NightlyAssumption`); a positive rate limit and a restart's key that is no sleeve's name in `Alerts`. No set of
sleeves, symbols or prices has to be finite.

Only model-checked: liveness under fairness (`FlattenEnds`, `RequestServed`, `FlattensDaily`, `Settles`,
`ChainEnds`), which is out of the prover's reach, as is anything about `ENABLED`. Every invariant and action property of
the passing runs is a theorem.

## 7. Not modelled, and why

Numerical signals, indicators and scores (floating point over bars: no finite instance says anything; they are
readings, verdicts and signals here), market data and calendar fetching (I/O with caches), the acceptance reports
and the read-only views of the dashboard, message texts and layout, schema migrations. Reconcile's 1% tolerance for
crypto and its fractional quantities. The 24x7 plan of S2 (its rollover is in `Nightly`). In `Cycle`: sizes, the
risk gate and pauses; a symbol that prints no bar; S0's undercounted bars after missed cycles; an entry filled so far
off that the close of its own bar is beyond its stop (`StopHit`). In `Books`: kills and fills inside a reconcile's or
a safety net's sequence of commits and orders. In `P100`: fees, prices and shadow shorts,
which touch no cash; two runs at once. In `Nightly`: `--once` run in another process beside the engine, and more
than one lab at a time (`Lab` has that).

## 8. Plan

What moves money came first, then what decides, then what reports.

1. *Done*: `Reconcile`, `Books`, `Scheduler`, `Sweep`, `Risk`, and their proofs.
2. *Done*: `SleeveRules` and `Cycle` with the twin and the replay; the refinement checked and proved.
3. *Done*: `P100`, `Lab`, `Nightly`, with proofs of the ledger's chain, the tuning and the suggestions.
4. *Done*: `Alerts`, with proofs of both its properties.
5. *Left*: the 24x7 sleeve's plan in `Scheduler`, and a second S0 day across midnight.
6. *Done*: proofs of every safety property of the passing runs, `AsReplayed` the last.
