# TLA+ verification of m7-terminal

This directory holds TLA+ models of the m7-terminal trading engine, the TLC
configurations that check them on small instances, and proofs that TLAPS checks
for every instance. Paths below are relative to the repository root.

m7-terminal is a portfolio report, a trading engine and a dashboard over one
Toss Securities account. The engine is a batch job (`trade.py --live`, started by
Cloud Run at 23:35 KST, retried once, killed after 30 minutes); a second job
(`trade.py --reconcile`) settles what the first one sent; a dashboard on a laptop
shows the state and operates the kill switch. They share a Firestore database and
the broker, and nothing else: every guarantee is made of idempotent ids, the order
of writes, and rows that a later process reads. That is what the models are about.

## 1. The system

| Component (source) | State | Operations | Talks to |
|---|---|---|---|
| Trade job (`trade.py`) | exit code, a local list of approved intents | `run`, `main`, `_hold_after_crash` | everything below |
| Context builder (`src/execution/context.py`, `src/strategy/base.py`) | an immutable snapshot of the world | `build_context`, `session_date_of` | account, market, store, switch |
| Strategies (`src/strategy/`) | none: pure functions of the context, with a cadence read back from `recent_signals` | `evaluate` | context |
| Risk gate (`src/execution/risk.py`) | `BatchCommitment`, for one batch | `evaluate_batch` | context |
| Order executor (`src/execution/executor.py`, `ids.py`) | `_seq`; rows of `orders` | `submit` | store, trading API |
| Toss client (`src/toss/client.py`, `_filelock.py`) | token in memory and in a file | `request`, `_access_token` | broker |
| Reconciler (`src/execution/reconciler.py`) | the pass's anomalies; `orders`, `fills`, `conditional_orders` | `run`, `_arm_bracket` | store, trading API |
| Kill switch and hold (`risk.py`, `incident.py`) | a file per machine, a Firestore document | `engage`, `release`, `hold_trading` | store, audit |
| Store (`src/store/repo.py`) | the Firestore collections | create, update, query | - |
| Audit log (`src/audit.py`) | fingerprint of the settings, audit entries | `record_config_changes`, called by both jobs once they have loaded their settings | store |
| AI universe review (`src/universe_review.py`, `main.py`) | vetoes with an expiry | review, renew, expire | store, gate |
| Dashboard (`src/dashboard/`) | TTL caches, each with a lock | views, renaming, PAUSE/RESUME, lifting a veto; a thread per request | store, switch, API |
| Rate limiter (`src/toss/ratelimit.py`) | a token bucket per API group | `acquire`, `observe` | every API call |
| Bar cache and loader (`src/data/`, `entrypoint.sh`, `scripts/sync_bar_cache.py`) | cached daily bars per symbol, on the task's disk and as a copy in GCS | download, `load`, merge, refresh, upload | Yahoo, GCS |
| Backtest (`src/backtest/`) | simulated cash, lots, pending orders, tax ledger | a loop per day | gate, strategies |
| Report (`main.py`, `pipeline.py`, `portfolio.py`, `sources/`, `news.py`, `analyst.py`, `notion.py`) | none that outlives a run | a linear read and write-out | APIs |

What is hard to get right, and hard to test:

* **Unanswered requests.** A POST that times out may have placed the order, may
  place it later, or never. The engine re-sends it under the same id, asks about
  it later, and must neither lose it nor place it twice.
* **Runs that repeat, overlap and die.** Cloud Run retries a failed run, possibly
  after KST midnight; a person may start one by hand; a task is killed at its
  timeout between any two writes.
* **Snapshots.** The gate judges a batch against one reading of the world; the
  reconciler writes rows from a list it read at the start of the pass.
* **A switch in two places.** A file and a document, written one after the other
  from machines that do not see each other's disk.
* **Best-effort records.** Settings changes, reviews and lifts are logged one
  document at a time, by jobs that swallow a refused write and go on, beside
  others doing the same.
* **A cache that may be lost.** The bars a run decides from are on a disk that ends
  with it. A copy is fetched and put back, best effort, around every job.
* **Shared caches.** A page, a chart and a rename meet in caches whose loads take
  seconds, fail, nest, and wait for one request budget.
* **Partial fills.** The order, the fill rows, the row's quantity and the exit
  bracket advance at different times.

`PROJECT.json` lists each of these hazards at its line, with the properties that
watch it.

What makes each component correct:

* executor: no more orders go out under a key than the batch asks for, however often
  the session is run, and a signal with a key of its own is acted on once at most;
every order the broker holds has a row; a row's status is true; trouble stops the run
and the engine.
* gate: the limits, the cash, the shares and the weight cap hold for the batch.
* reconciler: fills are neither lost nor invented; a settled row is true of the
  broker and stays settled; a bracket never sells more than was bought.
* kill switch: a stop that was reported done reaches every later run.
* token cache: the cache never keeps an older token than it should, a token that
  would do is never ended by issuing another, and no lock is left behind, since
  nothing on POSIX would end the wait for it.
* backtest: the books balance; no cash is spent and no share sold twice; tax and
  deposits come once.
* strategies: a week is bought for once and a sale is not repeated, whatever runs
  fail, whatever bars are late and whether or not the bar cache is lost, as long as no
  fetch falls short after the loss; a run's buys leave the reserve and keep every
  weight; a bucket does not outgrow its slots.
* audit: what a run trades under is what the log began with but for what an entry
  tells; a change is logged once.
* review: it keeps to its powers whatever the model answers, and the log tells what
  the next run is held back from.
* rate limiter: threads that share a budget keep to it between them.
* dashboard caches: a change that was answered shows; what is old says so; every
  request is answered.

## 2. Modules

| Module | Models | Depends on |
|---|---|---|
| `OrderBook` | the shared state: `orders`, the broker, requests on the way, the switch as one bit, the calendar | - |
| `Executor` | any number of invocations of `trade.py` | `OrderBook`, `ActAsAsked` |
| `ActAsAsked` | what the executor promises: claim a signal, then place it at most once, signals of one key counted together | - |
| `Reconciler` | any number of `--reconcile` passes | `OrderBook` |
| `RiskGate` | one batch through the gate | - |
| `KillSwitch` | the file, the document, the dashboard and the runs in their containers | - |
| `TokenCache` | tokens in memory and in the cache file, for the threads of several processes | - |
| `Amounts` | sums and bounds of amounts | - |
| `Backtest` | a backtest, session by session, against a simulated account | `RiskGate`, `Amounts` |
| `Cadence` | when the strategies act: nightly runs, the bar cache and its copy, the log of decisions, settlement | - |
| `Buckets` | what the bucket strategy sells and buys, run after run | `Amounts` |
| `Oversight` | settings fingerprint and audit log, universe review, vetoes, lifts | - |
| `Dashboard` | the dashboard's caches and the token bucket under them | - |
| `ExecutorProofs`, `ReconcilerProofs`, `TokenCacheProofs`, `OversightProofs`, `DashboardProofs`, `CadenceProofs` | theorems and their proofs (section 4) | the module they name |
| `RiskProofs` | theorems of the gate and of the switch, which are both `risk.py` | `RiskGate`, `KillSwitch` |
| `MoneyProofs` | theorems of the bucket strategy and of the backtest, with the theory of sums they share | `Buckets`, `Backtest` |
| `MC*` | constant values for TLC | the module they name |

Operators whose comment begins "Mutated form of" are not part of any
specification. Each is the code with one plausible bug; substituting it for the
operator it names must make TLC report the property that `PROJECT.json` pairs it
with, which shows that the property depends on the code being as it is.

### OrderBook and Executor

`orders` and `broker` map a client order id to a row and to an order. An id is
`<<session date, strategy-and-symbol, seq>>` (`ids.make_client_order_id`); that
the text form is injective is assumed, not modelled. A body is what the signal
decided (its session and position in the batch) and a price. Reading the store
and writing it are separate steps, so two runs can both find an id free.

What a batch asks for is counted per key, as the ids do: a batch may name a strategy
and symbol twice, and the shipped one does when a trend exit (`momentum_dca.py:386`)
and a rotation exit (`bucket_dca.py:568`) of one holding come in one run. `Claims` are
a key's rows, `Placements` the orders the broker holds under it, and `ActsAsAsked` says
that every step is one of `ActAsAsked`.

`clock` counts half-days: the session date moves on every second tick and the
wall-clock date half a step earlier, which is the 23:35 run whose retry falls
after midnight.

Each run goes through

    idle -> ready -> save -> send -> finish -> ready ... -> done
                                        \-> hold -> done | lost

`BuildContext` is everything before the loop: which signals the gate approves
depends on the account and the market, so it picks any subset within the daily
count that is left, and none when the switch is on. `Lookup` and `Save` are the two
halves of `submit`. `Attempt` has one disjunct per way an HTTP attempt ends, with
the retry counter, the single forced refresh and the single reclamp of
`TossClient.request` and `_handle_error`; an accepted order may come without an
`orderId` (`Accepted`), and its row then has none. `Finish` is `_finish` together with the
caller's reaction to the record. `Raise` and `Crash` are an exception and a kill;
either may leave the request on the way. `"lost"` is a run whose hold could not
write the switch.

A request the engine stops waiting for goes into `late`, from where it may arrive
at any later time or never. The broker answers the same body under a known id
with the order it has, and another body with a conflict. This is Toss's documented
idempotency and is external to the code.

### Reconciler

A pass takes its snapshot in `Start`, then for each row asks (`Fetch`, `Missing`,
`Unreadable`), appends the fill (`SaveFill`), writes the row (`Update`), and either
stamps an anomaly (`Stamp`) or registers the bracket (`Arm`, `Place` or
`PlaceFails`, `Mark`, `Note`): one action per write, because a pass may be killed
between any two. The shape of the broker's answer is not confirmed anywhere in the
repository, so in `AnswersFor` any field may go unread, the word for a cancelled order
may be one that hints at a complete one too, and what remains of it may be read as
nothing. `Place` may succeed without
the answer arriving. The environment fills, cancels or rejects orders at any time.

The initial states are those `trade.py` leaves: a submitted row the broker holds,
with the broker's id or without, or an unknown one whose order is held, still on its
way, or lost.

### RiskGate

Every rule of `RiskGate.evaluate` is an operator that says what an approval
requires; `Approves` is their conjunction, because the code returns an intent only
when no rule rejects (which rule is named first affects the message only).
`Plus` is `BatchCommitment.plus`, `Evaluate` one turn of `evaluate_batch`. Prices
and quantities are integers in the smallest unit; percentages are multiplied out,
so there is no rounding, as there is none in the code's `Decimal` comparisons. A
symbol's currency stands for its country.

### KillSwitch

`file` per machine, `doc`, and a position for each click and each run in the
sequence *look, write the file, write the document, read back and report*. A run
that ends takes its container's file with it. `owed` is history: it is set when a
stop is reported done and cleared when a person asks to release. So are `raced`
(two processes were at the switch at once) and `failed` (a write was not taken, or
the dashboard was killed on its way). `Executor` and `Reconciler` use the switch
as one bit; this module is about what that bit is made of. A file that a person
makes or removes by hand on the laptop, and a disk that refuses the file, are not
steps of the model; the second is `"lost"` in `Executor` and `Reconciler`.

### TokenCache

Tokens are numbers in the order Toss issued them; `valid` is the one it takes from
each credential, `file` and `memory` are what a process believes. A thread goes

    idle -> want -> (memory) -> send -> idle, or want again for a retry
                \-> locked -> (file) -> send
                         \-> issue -> write -> send, or want after a forced refresh

with `tlock` taken at *locked* and `flock` from *issue* on: looking into the file
and leaving its lock is one action (`FromFile`), because nothing else can happen
to the file meanwhile. A forced refresh issues without looking, discards what it
got, and the loop then asks `_access_token` again, as `request` does. An issuance
may be answered, refused, or unanswered (with or without a token issued), a write
may fail, a process may be killed anywhere. `Expire` is `expires_at` passing on
this side, `Lapse` the lifetime itself, which comes later because of the margin.
A request that meets a passing failure (no answer, 429, 5xx) goes round the loop of
`request` and asks `_access_token` again (`Unanswered`), so that a retry may be sent
with a later token, or wait for a lock; `Flaky` bounds the threads that meet one.
`LockTimesOut` is the `TimeoutError` of `FileLock`, which only Windows' lock can come
to: `flock` waits without end. It may happen and is never owed.
`unseen` and the field `bad` are history.

### Backtest

A session is one pass of the loop of `BacktestEngine.run`, in the code's order: an
action for each numbered part, and one for each signal judged. The gate is `RiskGate`
itself, instantiated on the same `ctx`, `committed` and `batch`, with one currency.
Prices, cash and cost bases are whole numbers; a lot keeps its cost (average price
times quantity), so that a sale in part rounds where the code divides; slippage and
commissions are percentages, and `amount` buys as many whole shares as it covers.
`BooksBalance` is exact in spite of the rounding, because both sides are rounded by
the same steps. `Executed` takes the queue in turn and `Stopped` the positions in any
order, which makes no difference, since a stop touches its own lot only. A calendar
has months of `MonthDays` days and years of `YearMonths` months; the first session is
in month 0, with the seed. `waited` (an order has had to wait for a bar), `over` (the
cost of shares sold beyond a lot), `fees`, `taxes`, `funds` and `due` are history. To
be extended together with `Buckets`, the module calls its symbols `Universe`, the
monthly amount `Monthly`, the gate's cap `WeightCap` and its specification
`BacktestSpec`. A limit order cannot be touched and lapse on the same bar, and a
stop-loss sells at the stop even when the bar opened below it: both are as in the
code. A strategy is any choice of `Signals` that sells no more than is held.

### Cadence

Days are numbers and a Monday is a multiple of 7. `night` is the KST date of a
run, `late` its retry past midnight; in New York it is the morning of that day, so
the last closed session is never later than the day before. A run goes

    idle -> ready -> loaded -> sending -> ended -> done

by `Download` (`entrypoint.sh` fetches the copy of the bar cache, or fails to and the
run starts without one), `Load` (`HistoryLoader.refresh`: the gaps of each symbol, of
which a fetch may return less than asked for), then `StandDown` or `Decide`
(`evaluate`, the gate, and `save_decision` for every signal, before anything is sent),
then one `Send` per approved order, and `Upload`, which puts the bars back, or does
not: the call may fail, and another job that had an older copy out may put that one
back over it. `stored` is the copy, `bars` what is on the run's own disk. `Crash` may
come in between: the log stays as it is, with orders nobody sent, and the bars of the
run are gone. `damage` is history, of a loss of bars and of a short fetch of the
benchmark after it. A history that cannot be loaded at all makes a run without
decisions, which is a night on which no run acts.

Both are sets of dates. `log` is what `recent_signals` would return: its
newest `Window` entries, of which a later run can tell an accepted exit and a
dislocation buy from anything else. `orders` is what the broker got, under an id of
session and symbol. Prices are not modelled: `Reading` is every way in which they
can decide (the benchmark's trend, a dip, the leveraged name's rank and its own
trend). The symbols stand for the benchmark, the leveraged name a strategy sells,
and the one it buys; `Others` have bars and no other part. A sale settles after
`Lag` sessions and until then its shares look held.

### Buckets

One `Evaluate` is one call of `evaluate` that acts (`Cadence` says when), one `Settle`
everything until the next: some orders are refused, the others fill, cash arrives, a
position may double. The operators between them are the methods of `bucket_dca.py`:
`Ranked`, `Picked`, `Displace` and `Selected` give the slots away, `Keep` and
`Rotated` take names out, `Share`, `Target`, `Cap` and `Budget` size the buys, in
either `weight_mode`. Money is in whole units, rounded down where the code rounds down
to cents; shares of equity are whole parts of `Whole`, a number of parts that every
slot of every bucket divides, so that no slot loses a fraction. The gate's own limits,
and exits held back because one is in flight, are left to `RiskGate` and `Cadence`.

`EvaluateRaises` is the code's `TypeError`: with `incumbent_margin` set, more safe
names than safe slots and one of them held, `_displace` compares scores that are
`None`, and the run places nothing.

### Oversight

Three kinds of process meet in the store: runs of the report job (`main.py`), runs of
the trade job (`trade.py`), and requests of the dashboard to lift a veto. Each has a
position:

    report   idle -> compare -> log -> recorded | missed -> hold -> gone
    trade    idle -> compare -> log -> recorded | missed -> gone
    lift     idle -> delete -> note -> noted | gone

`Load` is `load_config`; `Compare`, `LogChange` and `SavePrint` are
`record_config_changes`, one action per document written, because its `except`
swallows a failure anywhere and the run goes on (*missed*). `Ask` is
`UniverseReviewer.review`: `CleanVetoes` and `CleanIdeas` are what it keeps of a reply,
by a recursion over its rows (`Cleaned`) that does what the loops of `_clean_vetoes`
and `_clean_candidates` do. `Hold` writes one veto and `Enter` the entries behind them.
`Consult` is what the trade job reads of the list. `Look`, `Delete` and `Note` are
`clear_veto`. `Refused` is a store that does not take a call, `Crash` a kill
anywhere; a person edits the settings and days pass in between.

Two of the four audited categories of settings stand for all. Settings are a mapping of
targets: of a symbol one audited field, or that it is not in the universe, and of a
limit its value. An entry has a change for each target of its category that moved
(`Change`), which says as much as the code's does: of a symbol that joins or leaves
only that it does (`audit.py:207`). The entry of a first run counts the symbols and
names the strategies and tells no value (`baseline_entry`); `began` is history, the
settings such an entry was written for. The log keeps, by target, its changes in order,
and by symbol only the newest entry about a veto.
`crossed` (two actors have been at the same records at once) and `failures` are
history.

### Dashboard

A thread of the web server serves one request at a time:

    page     idle -> want -> (acquire -> send)+ -> names -> keep -> want ...
    chart    idle -> want -> history -> want ... -> draw
    rename   idle -> rename -> invalidate

`want` is the wait for a cache's lock; `Enter` takes it, and serves what is fresh at
once. `Keep`, `Fail` and `Raise` are the three ways out of `_Cached.get`: a value, a
`TossError` that leaves the stale value with its error, and any other exception,
which every `with` lets pass and which the request fails with. A chart asks for the
table's cache while it holds its own. Three caches are told apart by their time to
live; their values by the state of the names in the store.

The bucket is the one of MARKET_INFO, which the table (exchange rate) and the
market status (two calendars) share. Tokens are counted in units, `Whole` of which
make one, so that a limit may be less than one token per tick; `Wait` rounds a
sleep up to whole ticks. `idle` is 0 or 1: a bucket that has not been looked at for
one tick is full, whatever more passes. `spent` is history: what has been taken and
not yet earned back. So are `loaded`, `renamed` and `early`.

## 3. What TLC checks

Bounds are the constants in each `.cfg`; every one is a bound on the size of the
instance, none on the code's own loops. `CHECK_DEADLOCK FALSE` is set where every
job ends; `Dashboard`, whose clock does not stop, is checked for deadlock, though it
is `EveryPageEnds` that tells a thread stuck for good.

| Run | Instance | Properties |
|---|---|---|
| `Executor` | 2 runs one after the other, 3 signals of which 2 share a key, limit 2, 1 retry, fairness | `RecordedBeforeSent`, `HeldOrdersAreLive`, `DailyLimit`, `ActsAsAsked` (refinement of `ActAsAsked`), `TroubleEngagesSwitch`, `EveryRunEnds` |
| `ExecutorOverlap` | 2 overlapping runs, 1 signal, 2 prices, past midnight | `SubmittedIsHeld`, `ActsAsAsked` |
| `Reconciler` | one order, by amount or by quantity, with a bracket, 2 passes that may overlap and die | `FillsAddUp`, `SettledIsTrue`, `BracketWithinFill`, `RowsOnlyAdvance` |
| `ReconcilerLive` | one order, one pass repeated for ever, fairness | `FilledIsRecorded`, `AnomalyHoldsTrading` |
| `RiskGate` | 9 kinds of signal, batches of 4, every world strict and lenient | `DailyLimitsHold`, `FundsCoverTheBatch`, `WeightHolds`, `CommitmentIsExact` |
| `KillSwitch` | 3 clicks, 2 runs, Firestore failing or not | `AuditTellsTheState`, `StopReachesEveryRun` |
| `TokenCache` | a dashboard of 2 threads, one of which meets passing failures, and a trade run, 1 request each, 1 retry, fairness | `CacheIsCurrent`, `RefreshIsUsed`, `EveryRequestEnds` |
| `Backtest` | 4 sessions, 2 symbols, 5 market days, batches of 2, months of 3 days | `BooksBalance`, `NothingSpentTwice`, `YearsAndMonthsOnce` |
| `Cadence` | Monday to Thursday, with a Monday holiday or not, each night's run and retry, 1 kill, 1 failed fetch, download or upload, a window of 5 decisions | `OneBuyDayPerWeek`, `SaleNotRepeated`, `DislocationsAreSpaced` |
| `Buckets` | 6 symbols, 3 buckets, 4 settings, 3 portfolios, 60 readings, 2 runs | `BuysKeepTheirLimits`, `NoRoundTrip`, `RosterWithinSlots` |
| `Oversight` | 2 report runs, a trade run, a lift, 2 settings of 7 targets, 2 edits, 2 days, 1 refused write or kill | `NothingUnlogged`, `ChangesAreAChain`, `ReviewKeepsToItsPowers`, `RunsHonourTheLog` |
| `Dashboard` | 2 threads, 3 requests of which 1 may rename, limits of half a token and of one, fairness | `BudgetKept`, `RenameShows`, `StaleIsFlagged`, `EveryPageEnds` |

`TypeOK` says in each module what its variables range over. No run lists it; the
proofs use it where they need it.

Why these sizes suffice: two runs are a run and its retry, or a run and a manual
one; a third adds no new kind of step, as they meet only through the rows. Three
signals give an order before and after the one that goes wrong, and two that share a
key, of which a run may approve either, or both. The overlapping runs have one signal:
what they race for is one id. One retry shows
"not the last attempt" and "the last". Two shares are the least that fill in
part, and two passes are a crash and its repair, or two that overlap. Rows are settled
one by one and share nothing, so a pass has one to settle (`MaxOpen`). A batch of
four reaches every limit in the worlds chosen, and one world exists for each
reading that may be missing. At the switch three clicks are a stop, a release and
one more. Two threads share a memory and a process lock, the third has only the
file in common with them; tokens past `MaxExpired` do not expire, which leaves
enough for an expiry and what is issued after it. Four sessions queue an order,
make it wait, fill it and look at the result, across two month ends and a year
end; `MaxBatch` leaves room for two orders that want the same cash or shares.
Four nights see the last session of one week and the first three of the next, the
anchor and its make-up day among them, and a cooldown begin and end; the log's
window is shorter than what they write into it. One kill and one failure are what it
takes to lose the cache and then fall short. Decisions of other strategies, which only
push entries out of the window, are in the theorems and not in this run
(`MaxNoise = 0`). Two `Buckets` runs are one that
leaves a roster and one that meets it; the three portfolios are one to fill, one
that is full and one that has outgrown its slots. In `Oversight`, two report runs
record one change twice or renew each other's vetoes, two edits make a change and take
it back, so that a chain has two links, and every pair of actors can
meet; a veto of one day is there on one day and gone on the next. The replies
repeat a symbol, name an unknown and an excluded one, and are longer than the
ceilings. In `Dashboard` three requests are two that cross and one that asks
after them; two ticks age a table, and one token is as little as makes two threads
sleep for it.

**Where a property holds only under a condition, the condition is named.** Each
such property is false without it, and it is what the code relies on.

* `DailyLimit` and `HeldOrdersAreLive`: for runs that do not overlap
  (`Overlap = FALSE` in the run), and `RowsOnlyAdvance` for passes that were alone
  (`alone`), since usage and rows are read once.
* `FillsAddUp`: no fill is ever lost; none is counted twice by passes not killed at
  that row (`intact`). A crash between `save_fill` and `update_order` repeats a
  fill.
* `AuditTellsTheState`, `StopReachesEveryRun`: one process at a
  time at the switch, and no write lost (`Undisturbed`).
* `OneBuyDayPerWeek`: no fetch of the benchmark falls short after bars have been lost
  (`damage`). Bars that are lost alone come back with a full fetch, and a fetch that
  falls short alone takes no bar away. Both together buy a week twice.
* `ActsAsAsked`: it counts per key. Which of two signals that share one has been acted
  on it does not say, and the code does not know.
* `NothingSpentTwice`: no order has had to wait for a bar (`waited`).
* `SaleNotRepeated`: sales settle within the cooldown (`Lag`, `ExitCooldown`) and the
  log's window keeps an exit until its sale has settled (`Window`). Nothing in the
  code sees to either: an exit pushed out of the last 50 decisions is sent again, and
  T+2 across a weekend outlasts the three calendar days of `exit_cooldown_days`.
  `CadenceProofs!RulesSellOnce` is for every calendar and window that meet these
  conditions, as it writes them out (section 4); the run's window of five decisions
  is shorter than the theorem asks for, and is enough for the decisions of its nights.
* `NoRoundTrip`, `RosterWithinSlots`: under the settings they name.
* `CacheIsCurrent`: but for a token that nobody has been able to write (`unseen`).
* `ChangesAreAChain`, `RunsHonourTheLog`: no two actors at the same records at once
  (`crossed`) and no failure (`failures`). `NothingUnlogged` needs neither: where the
  write of an entry is refused the fingerprint is not written. Both take as known what
  the log began with, which no entry tells.
* `ReviewKeepsToItsPowers`: for ceilings of at least one.
* `RenameShows`: no rename answered in the first `TtlPortfolio` of the machine's
  uptime (`early`), and a table without an error.
* `EveryPageEnds`: no limit of less than one token per tick stands for good.

**Fairness.** `Executor!FairSpec` asks of each run that it takes its next step:
a process that is scheduled runs on, and every HTTP attempt is answered or times
out (`requests` is given a timeout). `Raise` and `Crash` are never owed, so
liveness does not rest on them. `Reconciler!FairSpec` asks the same of a pass, and
that a finished pass is started again where `Repeats` is set (the scheduler).
`ReadableSpec` adds strong fairness of reading a row's answer in full: without it
the broker may be unreadable for good and nothing settles. `TokenCache!FairSpec`
asks of each thread that it takes a step it can take; a lock is given to any of
those who wait, and since requests are finitely many nobody waits for ever. It does not
ask that a wait for the file's lock is given up (`LockTimesOut` is no part of `Step`),
so a lock that is left behind would show.
`Dashboard!FairSpec` asks the same of each thread, and that time passes. None of
them asks that the network delivers, that orders fill, or that a person acts.

### Disagreements of the source with itself

Sentences of the repository's comments that the code contradicts. The models contain
the behaviour; the properties above are stated so as not to deny it.

* `executor.py:215` says "failed means no order exists"; after a lost answer, a 403 or
  the last 429 of the same call writes `failed` over a live order.
* `momentum_dca.py:405` and `bucket_dca.py:627` look for a sale in flight because "the
  same full-quantity sell" would be proposed again each day; each looks for its own
  mode only (`bucket_dca.py:642`), so a position sold by a trend exit on Monday night
  is sold again, whole, by Tuesday's rotation.
* `executor.py:3` says that "a signal that has been acted on is never acted on twice".
  Ids tell signals apart by strategy, symbol and the order among those a run approves.
  Where two share a symbol, a re-run that approves another subset sends one of them
  under a second id, or finds the other's row in its place and sends nothing.
* `sync_bar_cache.py:7` says that losing the cache "costs one slow run, never
  correctness". A run that buys for Monday and is killed leaves a copy without that bar;
  a short fetch on the next night makes Tuesday the first bar of the week, and the week
  is bought again. The report job and the trade job are given the same copy
  (`RUNBOOK_Cloud_Deploy.md:379`), so one that started earlier can put an older one back.
* `repo.py:617` calls every other status "a resting state with nothing left to poll
  for"; a run killed after its POST leaves `pending` on a live order.
* `reconciler.py:11` has a bracket "for the filled quantity"; it is registered for
  the first partial fill, and never again.
* `executor.py:57` has a conflict that "cannot happen unless id generation is
  broken"; a reclamped order can meet its own delayed first request.
* `README.md:258` says that all orders stop at once; the switch is read once per
  run, and a run under way sends what it has approved.
* `reconciler.py:151` says the status string catches a cancellation; it is not read
  once a share has filled, so a cancelled partial fill is polled for good.
* An order by amount that is cancelled after a partial fill may be recorded as filled:
  `reconciler.py:142` takes nothing remaining for filled, and a word such as
  "cancel_completed" hints at complete (`reconciler.py:53`).
* `repo.py:668` says that a re-run "recognises one it already placed"; after a lost
  answer the bracket is placed again under its id.
* `reconciler.py:184` says that the caller "holds trading on them"; a pass killed
  between the stamp and the hold leaves nobody to do so.
* `risk.py:192` says "the local file already stopped it"; in a container that file
  ends with the run.
* `incident.py:8` says trading resumes only when a person has read the entry; a
  release under way undoes a newer hold.
* `client.py:258` says more than one refresh "would mean our credential is simply
  wrong"; two processes that refresh by force can end each other's token.
* `fills.py:55` says that a deposit due on a day without a session "does not
  vanish"; it does when no later session falls in the same month.
* `backtest/engine.py`: a sale that waits for a missing bar is not in the next
  day's context, so the same shares can be sold again.
* `momentum_dca.py:229` says that after a late benchmark "the next run with fresh bars
  catches up"; the make-up rule then finds Monday's bar in its place, and the week
  is not bought for at all.
* `momentum_dca.py:517` says that an empty or short log "must not read as a clean
  cooldown"; a short one does not, an empty one does.
* A run killed between `save_decision` and `submit` leaves "accepted" on an exit or a
  dislocation buy that was never sent, which holds the next one back for a cooldown.
* `bucket_dca.py:124` says that incumbency makes the slot count "a real ceiling"; not
  with the default `exit_requires_trend_break`, which keeps a name that has lost its
  slot, nor after a dislocation run, which does not rotate.
* With `require_absolute_exit` off and `prefer_incumbents` on, a run sells an incumbent
  past the buffer and, since it still holds a slot, buys it.
* `bucket_dca.py:742` says that an unfilled share is not left in cash; it is, when the
  bucket it is handed to cannot fill itself.
* `audit.py:430` has the first entry say "what the starting point was". It counts the
  symbols and names the strategies; the limits, the parameters and the symbols
  themselves are in no entry until they change, and of a symbol that joins only its name
  is (`audit.py:207`), so the settings of a day cannot be read off the log.
* `audit.py:4` says that every run fingerprints the settings that decide what may be
  traded; the bucket of a symbol, the list of excluded holdings and the enabled order
  types are not among them.
* A lift is not remembered: the next review may write the same veto again, and two
  lifts at once are both logged (`service.py:600`), as is the lift of a veto that had
  already expired. A review killed after `save_universe_review` leaves vetoes that no
  entry tells of. A run that cannot read the list is held back from nothing.
* `max_vetoes: 0` lets one veto through: `universe_review.py:306` looks at the count
  after it has added one.
* `service.py:246` says of chart and table that "the two can never disagree"; a chart
  keeps what it took from the table for 900 seconds, the table for 60, and drops the
  table's error.
* `service.py:578` reports `paper` and `live_open: False`, also when the job runs with
  `--live`.
* `invalidate` sets `fetched_at` to 0 (`service.py:66`), which is fresh in the first
  minute of the machine's uptime.
* A limit below one per second is taken from the header as it is
  (`ratelimit.py:125`); the bucket then never holds a token, and `acquire` never
  returns. A bucket lets its capacity go at once and its rate after it, so up to twice
  the limit within one second.

## 4. What is proved

TLAPS checks the following for every value of the constants: any batch, any number
of runs, passes, threads and clicks that overlap, crash and retry, any limits, any
worlds. The only assumptions are the named `ASSUME`s in the modules, and what the
table says a theorem assumes besides. "Inductive with" names the invariants that a
step needs and that the property does not say by itself.

| Theorem | Property | Argument |
|---|---|---|
| `ExecutorProofs!TypeCorrect` | `TypeOK` | inside `LoopInv`: the id a run submits under is typed only because it is the one `Identify` gives its current signal |
| `ExecutorProofs!WriteAhead` | `RecordedBeforeSent` | `LoopInv` says a run that is sending has a row; every order and every late request comes from such a run (`StepProvenance`) |
| `ExecutorProofs!UniqueSignalOnce` | `ActedOnOnce`: a signal whose key the batch names once is on one order at most | `OrdersKeepTheirIds`: an order's session and key are those of its id; `RowsKeepTheirIds`: the number in an id is no more than the key's signals |
| `ExecutorProofs!SubmittedMeansHeld` | `SubmittedIsHeld` | `AnswerIsTrue`: a call that came to "submitted" has its order; rows take that status from nothing else |
| `ExecutorProofs!HeldIsLive` | `HeldOrdersAreLive`, assuming `Overlap = FALSE` | `LiveInv`: a run that is sending wrote its row as LIVE, and an id that is found free is still free when its row is written |
| `ExecutorProofs!LimitHolds` | `DailyLimit`, assuming `Overlap = FALSE` | `WithinBudget`: the session's rows and the signals a run may still write a row for are together within the limit, by cardinalities |
| `ExecutorProofs!ImplementsActAsAsked` | `ActsAsAsked` | every step is a `Claim`, a `Place` or a stutter of `ActAsAsked`: a row is a claim and a key has no more ids than signals; an order appears only under a claimed id that had none (`AskInv`, by cardinalities) |
| `ReconcilerProofs!SettledRowsAreTrue` | `SettledIsTrue` | `AnswerIsTrue`: what a pass has read of an order stays true while it acts on it, because shares are only bought and final states are final |
| `ReconcilerProofs!BracketsAreCovered` | `BracketWithinFill` | `ArmsAFill`: a bracket is for a quantity that was read, which the broker only exceeds |
| `ReconcilerProofs!FillsAreComplete` | `FillsAddUp` | `FillIsSaved` (the fill rows are ahead of the row), and for passes alone and intact `OnePass`, `SnapshotIsFresh`, `FillsAreExact` |
| `ReconcilerProofs!OnlyForward` | `RowsOnlyAdvance` | from the same invariant: alone, what a pass compares with is what the collection holds |
| `RiskProofs!LogTellsTheState` | `AuditTellsTheState` | `LogIsAhead`: the log is ahead of the document only while a release is about to be entered |
| `RiskProofs!StopReaches` | `StopReachesEveryRun` | `StopIsKept`: a stop that is owed is in the document and nobody is on the way to undo it |
| `TokenCacheProofs!TypeCorrect` | `TypeOK` | inductive |
| `TokenCacheProofs!CacheStaysCurrent` | `CacheIsCurrent` | `FileLockHeld`, `WritesTheNewest` and `OneEach`: whoever issues or writes holds the file's lock, what it is about to write is the newest, and no two credentials share a token |
| `TokenCacheProofs!RefreshIsNotLost` | `RefreshIsUsed` | `RefreshIsKept`: behind a refresh, memory and file are both later than the token that was refused |
| `OversightProofs!NothingGoesUnlogged` | `NothingUnlogged` | each value a recording job would trade under is accounted for, or its category still on the job's list, and so is what it compares with (`LeftIsEnough`); what the log tells is only added to |
| `OversightProofs!ChangesFollowOn` | `ChangesAreAChain` | `ChainInv`: while nobody crosses or fails, one job records at most, its list says which categories have yet to follow, and the targets of the others end in what it will write (`Halfway`, `Stands`) |
| `OversightProofs!RunsHonour` | `RunsHonourTheLog` | `VetoInv`: list and log agree but for the symbols that a review or a lift under way has yet to write or enter (`ListAgrees`) |
| `OversightProofs!PowersAreKept` | `ReviewKeepsToItsPowers`, assuming `MaxVetoes # 0` | `CleanedKeeps`: whatever the rows, what is kept is a list of symbols that pass, none twice, no longer than the ceiling; `PowersInv` carries it to the last write |
| `DashboardProofs!ThreadsKeepTheBudget` | `BudgetKept` | `Balance`: what has been spent and what the bucket holds, refilled, are never more than its limit |
| `DashboardProofs!RenamesShow` | `RenameShows` | `TableInv`: a load that is about to keep a table has read every name answered for, and a table that counts as fresh has them (`FreshHasNames`) |
| `DashboardProofs!StaleSaysSo` | `StaleIsFlagged` | `AgeIsTrue` of the same invariant: the table is as old as it says, unless it says that a load failed |
| `RiskProofs!TypeCorrect` | `TypeOK` | an order's value is a natural number wherever it is known |
| `RiskProofs!DailyLimits` | `DailyLimitsHold` | inductive with `TypeOK`: an approval adds what its own check just measured |
| `RiskProofs!FundsCover` | `FundsCoverTheBatch` | as above, per currency and per symbol |
| `RiskProofs!WeightWithinCap` | `WeightHolds` | as above, with the products kept as they are |
| `RiskProofs!NothingForgotten` | `CommitmentIsExact` | `TotalGrows`: a sum over a batch grows by what the newest verdict adds, which is what `Plus` adds (`PlusIsExact`) |
| `CadenceProofs!WeekIsBoughtOnce` | `OneBuyDayPerWeek` | `Kept`: the sessions bought under are in the stored copy, or it ends before the first that is not, so that a full fetch brings that one back, and no run decides without it; a run's own bars are of closed sessions and none is taken away while it lasts |
| `CadenceProofs!CooldownIsKept` | `DislocationsAreSpaced` | `DipsAreRemembered`: of every dip that was bought the log has an entry, or has entries since and is too short to tell |
| `CadenceProofs!RulesSellOnce` | `SaleNotRepeated`, assuming `SettledByCooldown`, and for some `D` `SettledInDays(D)` and `WindowReaches(D)` | `SalesAreLogged`: a sale that has not settled is younger than `D` days, so fewer decisions have been logged since than the window holds, and its entry, younger than the cooldown, holds the rule back |
| `MoneyProofs!AmountsTyped` | `TypeOK` | sales are of what is held; buys are within a budget that is within the cash |
| `MoneyProofs!LimitsKept` | `BuysKeepTheirLimits` | `PartsFit` (the parts of the filled slots and of the spare ones are at most the whole), so `FlowBuysBounded` and, for targets, `TargetBuysBounded` (each scaled to its share of the budget, and rounded down) |
| `MoneyProofs!NeverBothWays` | `NoRoundTrip` | `SoldOrChosen`: what a run sells is not among the names that have a slot, and only those are bought |
| `MoneyProofs!SlotsKept` | `RosterWithinSlots` | `PickedIs`, `SelectedIs`: as many names as there are slots, by cardinalities, displaced ones included; what has lost its slot is sold (`KeptAreChosen`) |
| `MoneyProofs!BacktestTyped` | `BacktestTypeOK` | inside `BooksInv` |
| `MoneyProofs!MoneyConserved` | `BooksBalance` | `BoughtIs`, `SoldIs`: cash, the costs of the lots, commissions and gains of a fill add up to nothing, and `ExecutedStep`, `StopsExist` carry it along the queue and the positions |
| `MoneyProofs!NothingTwice` | `NothingSpentTwice` | `Covered`: what is queued bids no more than the cash and sells no more than the lots, from the verdict (`Snapshot`, `ApprovedFits`) to the fill (`ExecutedIsBacked`) |
| `MoneyProofs!BilledAndFundedOnce` | `YearsAndMonthsOnce` | `Taxed`: gains of a year that is billed are final; `Funded`: the months due have had their deposit, but for the one that is about to be taken |

Every proof has the same shape: an inductive invariant, one lemma per action or per
group of actions that disturb the same conjuncts, a lemma that adds them up over
`Next`, and a last step by temporal logic. TLC has checked each strengthening as an
invariant of the run of its module before it was proved: the
executor's `AskInv` on 707,100 and 167,432 states, the reconciler's `IInv` on 1,003,432,
that of `TokenCache` on 140,366, `IInv`, `ChainInv`, `VetoInv` and `PowersInv` of
`Oversight` on 1,627,393, `TableInv` on 258,249, the `IInv` of `Cadence` on 825,159,
`BooksInv` on 439,243, the `IInv` of `Buckets` on 373,793, and `SInv` on 984,666, with a
window of 19 decisions, one decision of another strategy, sales that settle within three
days, and kills but no other loss.

Where a definition recurses over a sequence or a finite set (`Total`, `Approved`,
`Cleaned`, `Executed`, `Stopped`, `Picked`), what it computes is proved by the least
counterexample. `NatHasLeast`, which follows from
`WFMin` of the library, says that a set of natural numbers has a least member;
it takes no operator for a parameter. A lemma shows that a function exists which the
recursion defines (`SumsExist`, `TakeExists`, `KeepingExists`, `FillsExist`,
`StopsExist`), and the next one that no prefix, or no smallest subset
(`SubsetInduction`), can be the first to break what is claimed. `Chain` says it of
the states between two whose steps each keep something.

The properties alone are not inductive:

* `LoopInv` is `TypeOK`, `SubmitsUnderItsId` and `RowIsWritten`. That `Slot(r)` is an
  id of the model depends on how it was computed, and so does that its row is there
  when `Finish` updates it.
* `DailyLimit` does not say that the runs still have room for what they have
  approved, nor that no earlier row of the session was given up as rejected
  (`NoneRejected`: within a session, nobody but the reconciler does that).
* `SettledIsTrue` and `BracketWithinFill` do not say what a pass has in hand between
  the broker's answer and its writes, nor `FillsAddUp` that the fill rows are written
  first.
* `OneBuyDayPerWeek` does not say where the bars are from which the next run will see
  that the week has been bought (`Kept`).
* `NothingUnlogged` does not say that a job with an empty list may write the
  fingerprint, `ChangesAreAChain` what the chain ends in meanwhile, and
  `RunsHonourTheLog` nothing of a list that a review is still writing.
* `ReviewKeepsToItsPowers` does not say that a list is one: it counts the members of
  a set, and a repetition would not show in it.
* `DislocationsAreSpaced` does not say that the log still tells of the last dip, nor
  that what a run is sending was decided for the session it is sent in
  (`SendsForToday`).
* `SaleNotRepeated` does not say where in the log an exit is to be found. `SInv` counts
  what may have been logged since it was decided: six decisions a day, those of the
  run under way, and those of other strategies.
* `BooksBalance` needs the types, and that a gain is entered under a year of the
  ledger (`Dated`). `NothingSpentTwice` says nothing of orders that are still queued,
  nor `YearsAndMonthsOnce` of the gains of the year that is running, or of the month
  whose deposit is next.
* The invariants of `Buckets` are about one run at a time, so they add up only what
  `Evaluate` gives and that nothing is on order between runs; the work is in its
  operators, over sets of any size.
* `BudgetKept` does not say that a token is there only because none was spent for it,
  nor `RenameShows` what a load has read before it keeps it.

Assumptions that are not in the code:

* `Overlap = FALSE`. The rows are counted and looked up before they are written, so
  two runs at once can pass the limit, and a LIVE run may send under a row that a
  PAPER run has created in between.
* `SettledByCooldown`, `SettledInDays`, `WindowReaches` (`RulesSellOnce` only). Between
  a sale and any session `exit_cooldown_days` later lie the sessions it takes to
  settle; the market is never shut for so long that this takes more than `D` days;
  and `recent_signals(limit=50)` reaches over `6 * D` decisions, two runs a day of at
  most an exit, a rotation and a buy each, besides those of other strategies. With
  `D = 5` and a limit of 50 twenty decisions of other strategies fit. One symbol of
  the model stands for all that a run buys; the code logs each of them, and where it
  buys several the limit is reached in fewer days.
* `SignalsAreOrders` (`Backtest`): a purchase names an amount and a sale a number of
  shares, as in the signals of the shipped strategies; and a strategy sells no more
  than is held, which is a guard of `Judge`.
* `MaxGap <= MonthDays` (`Backtest`): the first session is in the first month.
* Of the constants: values that stand for "nothing" differ from every value they are
  told from (`NoneIsApart`, `NoneIsNoTime`, `NoRowIsNoRow` and their like); a batch
  and a set of prices are not empty (`SomeSignal`, `SomePrice`); machines and actors
  differ (`SeparateActors`, `ActorsDiffer`).
* `MaxVetoes # 0`. `analyst.max_vetoes` may be configured as 0, and then one veto is
  let through: the code counts after it has taken a row.
* Of the environment: what the model may answer is lists of symbols
  (`RepliesAreLists`), settings are mappings of symbols and limits
  (`SettingsAreMappings`), and what is excluded are symbols (`ExcludedAreSymbols`).

Only model-checked:

* Liveness (`TroubleEngagesSwitch`, `EveryRunEnds`, `FilledIsRecorded`,
  `AnomalyHoldsTrading`, `EveryRequestEnds`, `EveryPageEnds`): temporal reasoning
  under fairness is out of the prover's reach.

Every other invariant and action property that a run checks is a theorem.

## 5. Not modelled

* The report but for its settings record, its review, its exchange rate and names;
  news, analyst, Notion and configuration code: linear I/O, parsing and layout, with
  no state that outlives a call.
* The dashboard's other views and its front end: formatting of what one read returns.
* The market calendar and the account wrappers: one call each, nothing kept.
* Backtest results and indicators: arithmetic over a finished list, in `Decimal`.
* momentum-dca's own sizing, which the bucket strategy overrides.
* The prompt of the review, the text of ids, rows, messages and audit entries; decimal
  rounding of prices to a tick.
* Scripts a person runs by hand (`backtest.py`, `strategy_lab.py`, `live_check.py`,
  `smoke_test.py`, `clear_demo_audit.py`).

## 6. Plan

1. Done: the order path (`OrderBook`, `Executor`, `Reconciler`, `RiskGate`,
   `KillSwitch`, `TokenCache`), `Backtest`, the strategies (`Cadence`, `Buckets`), the
   records and reviews (`Oversight`), the caches and the request budget (`Dashboard`).
2. Done: the theorems of section 4, which state every invariant and action property
   of the runs. What stays with TLC is liveness.
3. `Engine`, composing `Executor` and `Reconciler` over one `OrderBook`: a session
   after a reconcile, PAPER rows, usage after rejections.
4. The pure algorithms: calendar windows, indicators, momentum-dca's own sizing.
