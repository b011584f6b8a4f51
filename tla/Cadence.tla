------------------------------- MODULE Cadence -------------------------------
(***************************************************************************)
(* When the strategy acts: one run after another of trade.py, each fetching *)
(* the stored copy of the bar cache (entrypoint.sh), topping it up          *)
(* (src/data), deciding from its bars and from its own recent decisions     *)
(* (src/strategy/bucket_dca.py and the momentum_dca.py it inherits from),   *)
(* logging what it decided, only then sending it, and at the end putting    *)
(* the cache back.                                                          *)
(*                                                                         *)
(* Days are numbered, a Monday being a multiple of 7.  The engine starts   *)
(* at 23:35 KST of a weekday `night` and may be retried past midnight; in  *)
(* New York it is the morning of that same day, whose session is open.     *)
(* What prices say (trends, dips, ranking) is up to the environment.       *)
(***************************************************************************)
EXTENDS Integers, Sequences, FiniteSets

CONSTANTS
  Calendars,    \* the sets of trading days a behaviour may live under
  FirstNight,   \* bound: first and last night of a behaviour
  LastNight,
  Benchmark,    \* params.benchmark
  Others,       \* the other symbols whose bars are loaded
  Weekday,      \* params.rebalance_weekday
  ExitCooldown, \* params.exit_cooldown_days
  DipCooldown,  \* params.dislocation_cooldown_days
  Window,       \* recent_signals(limit)
  MaxNoise,     \* bound: decisions of other strategies in between
  Lag,          \* sessions a sale takes to settle
  MaxLosses,    \* bound: fetches, and copies of the cache, that fail or fall short
  MaxCrashes    \* bound: runs killed

ASSUME DaysAssumption ==
  /\ FirstNight \in Nat /\ LastNight \in Nat
  /\ Calendars \subseteq SUBSET Nat
ASSUME ParamsAssumption ==
  /\ Weekday \in 0..6 /\ ExitCooldown \in Nat /\ DipCooldown \in Nat
  /\ Window \in Nat \ {0} /\ MaxNoise \in Nat /\ Lag \in Nat
  /\ MaxLosses \in Nat /\ MaxCrashes \in Nat
ASSUME BenchmarkAssumption == Benchmark \notin Others

Symbols == Others \cup {Benchmark}

\* meta.mode of a signal.
Buys  == {"weekly", "dislocation"}
Exits == {"trend-exit", "rotation-exit"}

\* What a later run may read a decision as; "other" is one it only counts: a
\* weekly buy, a rejected exit, a decision of another strategy.
Entries == Exits \cup {"dislocation", "other"}

VARIABLES
  sessions,  \* the calendar of this behaviour
  night,     \* KST date on which the night's first run starts
  late,      \* past KST midnight: the retry
  phase,     \* of the run: "idle", "ready", "loaded", "sending", "ended", "done"
  stored,    \* [Symbols -> dates of the bars] of bars.db as GCS keeps it
  bars,      \* the same of bars.db on the run's own disk
  log,       \* the newest Window decisions in store, newest first
  queue,     \* modes of the approved orders still to be sent
  orders,    \* the orders the broker has: [session, mode, night]
  damage,    \* history: "none", "lost" once a run's bars were not kept or not had,
             \* "short" once a fetch of the benchmark has fallen short after that
  losses, crashes, noise

vars == <<sessions, night, late, phase, stored, bars, log, queue, orders, damage,
          losses, crashes, noise>>

-----------------------------------------------------------------------------
Newest(S) == CHOOSE d \in S : \A e \in S : e <= d
Oldest(S) == CHOOSE d \in S : \A e \in S : d <= e

\* last_closed_session_date: it is morning in New York.
Cutoff == night - 1

\* The date a decision is stamped with, by the KST wall clock.
WallDate == IF late THEN night + 1 ELSE night

(***************************************************************************)
(* The bar cache.  The disk of a Cloud Run task is thrown away with it.    *)
(***************************************************************************)
NoBars == [s \in Symbols |-> {}]
Lost   == IF damage = "none" THEN "lost" ELSE damage

\* entrypoint.sh: download, best effort; without a copy the run starts fresh.
Download ==
  /\ phase = "idle"
  /\ \/ bars' = stored /\ UNCHANGED <<damage, losses>>
     \/ bars' = NoBars /\ damage' = Lost /\ losses < MaxLosses /\ losses' = losses + 1
  /\ phase' = "ready"
  /\ UNCHANGED <<sessions, night, late, stored, log, queue, orders, crashes, noise>>

\* HistoryLoader._gaps: days before the first cached bar, days after the last.
Gaps(s) ==
  IF bars[s] = {} THEN 0..WallDate
  ELSE (0..Oldest(bars[s]) - 1)
       \cup (IF Newest(bars[s]) < Cutoff THEN Newest(bars[s]) + 1 .. WallDate ELSE {})

\* YahooBarSource.fetch: no bar of a session that has not closed.
Served(s) == {d \in Gaps(s) \cap sessions : d <= Cutoff}

\* HistoryLoader.load.  A fetch may fail, and a row without prices is dropped.
Load ==
  /\ phase = "ready"
  /\ \E short \in SUBSET Symbols :
       /\ losses' = losses + Cardinality(short) /\ losses' <= MaxLosses
       /\ damage' = IF damage = "lost" /\ Benchmark \in short THEN "short" ELSE damage
       /\ \E got \in [short -> SUBSET UNION {Served(s) : s \in short}] :
            /\ \A s \in short : got[s] \subseteq Served(s) /\ got[s] # Served(s)
            /\ bars' = [s \in Symbols |-> bars[s] \cup IF s \in short THEN got[s] ELSE Served(s)]
  /\ phase' = "loaded"
  /\ UNCHANGED <<sessions, night, late, stored, log, queue, orders, crashes, noise>>

\* entrypoint.sh: upload once the command has ended, however it ended; best effort.
\* A copy that another job had out meanwhile may also be put back over it.
Upload ==
  /\ phase = "ended"
  /\ \/ stored' = bars /\ UNCHANGED <<damage, losses>>
     \/ UNCHANGED stored /\ damage' = Lost /\ losses < MaxLosses /\ losses' = losses + 1
  /\ bars' = NoBars
  /\ phase' = "done"
  /\ UNCHANGED <<sessions, night, late, log, queue, orders, crashes, noise>>

-----------------------------------------------------------------------------
(***************************************************************************)
(* The decision.                                                           *)
(***************************************************************************)
\* session_date_of: the newest bar of any symbol names the run's session.
SessionDate == Newest(UNION {bars[s] : s \in Symbols})

\* What the strategy calls today.
Today == Newest(bars[Benchmark])

\* Mutated form of BenchmarkBehind: a stale benchmark decides all the same.
NeverBehind == bars[Benchmark] = {}

\* _benchmark_behind; without benchmark bars there is no trend and no decision.
BenchmarkBehind == bars[Benchmark] # {} => Today < SessionDate

\* The rebalance weekday on or before a day: the week the day belongs to.
Anchor(d) == d - ((d - Weekday) % 7)

\* _is_rebalance_session: the anchor itself, or the first bar after it.
IsRebalanceSession ==
  \/ Today = Anchor(Today)
  \/ Today = Oldest({d \in bars[Benchmark] : d >= Anchor(Today)})

Recent(mode) == {i \in DOMAIN log : log[i].mode = mode}

\* Mutated form of InFlight: an accepted sale does not count as under way.
NeverInFlight(mode) == mode = "other"

\* _exit_in_flight and _rotation_in_flight, each looking for its own mode.
InFlight(mode) ==
  \E i \in Recent(mode) : Today - log[i].date < ExitCooldown

\* Mutated form of CooledDown: finding no dislocation buy is enough.
CooledDownIfUnseen ==
  \A i \in Recent("dislocation") : Today - log[i].date >= DipCooldown

\* The end of _dislocation_fires: no such buy within the cooldown, and when the
\* log shows none at all, a log that reaches back that far.
CooledDown ==
  /\ \A i \in Recent("dislocation") : Today - log[i].date >= DipCooldown
  /\ Recent("dislocation") = {} /\ log # <<>> =>
       \E i \in DOMAIN log : Today - log[i].date >= DipCooldown

(***************************************************************************)
(* Settlement.  Until a sale has settled the position, and the quantity    *)
(* the broker calls sellable, still show the shares.                       *)
(***************************************************************************)
Settled(o, n) == Cardinality({d \in sessions : o.night < d /\ d < n}) >= Lag

Sales == {o \in orders : o.mode \in Exits}

\* The leveraged position, as ctx.positions shows it.
Held == \A o \in Sales : ~Settled(o, night)

\* The market is open this night, so the gate may approve an order.
Open == night \in sessions

-----------------------------------------------------------------------------
\* What the prices say of the run's bars.
Reading ==
  [up : BOOLEAN,       \* the benchmark is above its average
   dip : BOOLEAN,      \* it fell far and fast enough
   ranked : BOOLEAN,   \* the leveraged name ranks
   broken : BOOLEAN]   \* the leveraged name is below its own average

\* _mode: what the run buys for, if anything.
ModesOf(r) ==
  IF IsRebalanceSession THEN <<"weekly">>
  ELSE IF r.dip /\ r.up /\ CooledDown THEN <<"dislocation">>
  ELSE <<>>

\* BucketDcaStrategy.evaluate: the modes of the signals, in order.  Leverage is
\* ranked only while the trend is up.
Signals(r) ==
  LET mode == ModesOf(r)
      exit == ~r.up /\ Held /\ ~InFlight("trend-exit")
      rotation == /\ mode = <<"weekly">> /\ Held /\ ~(r.ranked /\ r.up) /\ r.broken
                  /\ ~InFlight("rotation-exit")
  IN  (IF exit THEN <<"trend-exit">> ELSE <<>>)
      \o (IF rotation THEN <<"rotation-exit">> ELSE <<>>)
      \o mode

\* A gate that approves a second full sale in one batch would sell what it has
\* already promised (RiskGate!FundsCoverTheBatch).
Verdicts(signals) ==
  {ok \in [DOMAIN signals -> BOOLEAN] :
     /\ \A i \in DOMAIN signals : ok[i] => Open
     /\ \A i, j \in DOMAIN signals :
          i # j /\ ok[i] /\ ok[j] => ~(signals[i] \in Exits /\ signals[j] \in Exits)}

Approved(signals, ok) ==
  LET Take[i \in 0..Len(signals)] ==
        IF i = 0 THEN <<>>
        ELSE IF ok[i] THEN Append(Take[i - 1], signals[i]) ELSE Take[i - 1]
  IN  Take[Len(signals)]

\* What save_decision leaves for later runs to find of one decision.
EntryOf(mode, accepted) ==
  IF mode = "dislocation" \/ (mode \in Exits /\ accepted) THEN mode ELSE "other"

\* The log after a run's decisions, newest first, as far back as a run reads.
Logged(signals, ok, others) ==
  LET n == Len(signals) + others
      fresh == [i \in 1..n |->
                  [mode |-> IF i <= others THEN "other"
                            ELSE EntryOf(signals[n + 1 - i], ok[n + 1 - i]),
                   date |-> WallDate]]
      all == fresh \o log
  IN  SubSeq(all, 1, IF Len(all) < Window THEN Len(all) ELSE Window)

\* The run stands down: the decision is to do nothing.
StandDown ==
  /\ phase = "loaded"
  /\ BenchmarkBehind
  /\ phase' = "ended"
  /\ UNCHANGED <<sessions, night, late, stored, bars, log, queue, orders, damage, losses,
                 crashes, noise>>

\* evaluate, then the gate, whose every decision is saved before any is sent.
Decide ==
  /\ phase = "loaded"
  /\ ~BenchmarkBehind
  /\ \E signals \in {Signals(r) : r \in Reading}, others \in 0..MaxNoise - noise :
       \E ok \in Verdicts(signals) :
         /\ log' = Logged(signals, ok, others)
         /\ noise' = noise + others
         /\ queue' = Approved(signals, ok)
  /\ phase' = IF queue' = <<>> THEN "ended" ELSE "sending"
  /\ UNCHANGED <<sessions, night, late, stored, bars, orders, damage, losses, crashes>>

\* The symbol an order is for: sales are of the leveraged position.
Leveraged(mode) == mode \in Exits

\* OrderExecutor.submit: the id names strategy, symbol and session.
Send ==
  /\ phase = "sending"
  /\ queue' = Tail(queue)
  /\ phase' = IF queue' = <<>> THEN "ended" ELSE "sending"
  /\ orders' =
       IF \E o \in orders : o.session = SessionDate /\ Leveraged(o.mode) = Leveraged(Head(queue))
       THEN orders
       ELSE orders \cup {[session |-> SessionDate, mode |-> Head(queue), night |-> night]}
  /\ UNCHANGED <<sessions, night, late, stored, bars, log, damage, losses, crashes, noise>>

\* The run is killed: what it logged stays, what it had not sent is lost, and so are
\* the bars it had loaded.
Crash ==
  /\ phase \in {"ready", "loaded", "sending", "ended"} /\ crashes < MaxCrashes
  /\ crashes' = crashes + 1
  /\ phase' = "done" /\ queue' = <<>>
  /\ bars' = NoBars /\ damage' = Lost
  /\ UNCHANGED <<sessions, night, late, stored, log, orders, losses, noise>>

\* Midnight passes, or the next weekday's night comes.  A run need not happen.
Tick ==
  /\ phase \in {"idle", "done"} /\ night < LastNight
  /\ late' = ~late
  /\ night' = IF ~late THEN night ELSE IF night % 7 = 4 THEN night + 3 ELSE night + 1
  /\ phase' = "idle"
  /\ UNCHANGED <<sessions, stored, bars, log, queue, orders, damage, losses, crashes, noise>>

-----------------------------------------------------------------------------
\* The stored cache holds what earlier runs loaded; the position is held.
Init ==
  /\ sessions \in Calendars
  /\ night = FirstNight /\ late = FALSE /\ phase = "idle"
  /\ stored = [s \in Symbols |-> {d \in sessions : d < FirstNight - 1}]
  /\ bars = NoBars
  /\ log = <<>> /\ queue = <<>> /\ orders = {}
  /\ damage = "none" /\ losses = 0 /\ crashes = 0 /\ noise = 0

Next == Download \/ Load \/ Upload \/ StandDown \/ Decide \/ Send \/ Crash \/ Tick

Spec == Init /\ [][Next]_vars

-----------------------------------------------------------------------------
Entry == [mode : Entries, date : Nat]

\* Bars are of trading days, the log is a window, orders are of the run's modes.
TypeOK ==
  /\ sessions \in Calendars
  /\ night \in Nat /\ late \in BOOLEAN
  /\ phase \in {"idle", "ready", "loaded", "sending", "ended", "done"}
  /\ stored \in [Symbols -> SUBSET sessions] /\ bars \in [Symbols -> SUBSET sessions]
  /\ log \in Seq(Entry) /\ Len(log) <= Window
  /\ queue \in Seq(Buys \cup Exits)
  /\ orders \subseteq [session : sessions, mode : Buys \cup Exits, night : Nat]
  /\ damage \in {"none", "lost", "short"}
  /\ losses \in 0..MaxLosses /\ crashes \in 0..MaxCrashes /\ noise \in 0..MaxNoise

\* However runs fail, repeat and miss bars, a week's buy is placed under one
\* session: what the ids do not join is never a second buy of the same week.  Losing
\* the cache alone does not change that, since a full fetch brings back the bars that
\* a buy was decided on, nor do short fetches alone, since no bar is taken back: a week
\* bought twice takes a lost cache and, after that, a fetch that falls short.
OneBuyDayPerWeek ==
  damage # "short" =>
    \A o, p \in {x \in orders : x.mode = "weekly"} :
      Anchor(o.session) = Anchor(p.session) => o.session = p.session

\* An exit is not sent again by the rule that sent it while the first sale may
\* still be settling and the shares still look held.
SaleNotRepeated ==
  \A o, p \in Sales :
    o # p /\ o.mode = p.mode /\ o.night <= p.night => Settled(o, p.night)

\* Dislocation buys keep their cooldown, even when other decisions have pushed
\* the last one out of the window a run reads.
DislocationsAreSpaced ==
  \A o, p \in {x \in orders : x.mode = "dislocation"} :
    o.session < p.session => p.session - o.session >= DipCooldown

=============================================================================
