----------------------------- MODULE Dashboard -----------------------------
(***************************************************************************)
(* The caches of the dashboard (src/dashboard/service.py) and the request  *)
(* budget under them (src/toss/ratelimit.py).  Every request runs in a     *)
(* thread of its own.  A page is served from a cached answer with a time   *)
(* to live; whoever finds it too old loads it, under the cache's lock,     *)
(* with calls that take tokens of a bucket the caches share: the exchange  *)
(* rate of a snapshot and the calendars of the market status are of one    *)
(* API group, MARKET_INFO.  Meanwhile a person renames holdings.  Of what  *)
(* a snapshot holds only the names are told apart.                         *)
(***************************************************************************)
EXTENDS Integers, FiniteSets

CONSTANTS
  Threads,      \* the workers of the web server
  TtlPortfolio, TtlStatus, TtlBars, \* in ticks of the clock
  Whole,        \* the units a token counts
  FirstLimit,   \* GROUP_LIMITS, in units per tick
  Limits,       \* what X-RateLimit-Limit may announce, likewise
  MaxRequests,  \* bound: requests of a behaviour
  MaxRenames,   \* bound: those that rename
  None

Ttl == [snapshot |-> TtlPortfolio, status |-> TtlStatus, bars |-> TtlBars]
Caches == DOMAIN Ttl

\* Of ages, and of uptimes, those from a time to live on are all alike; and a bucket
\* earns what it can hold in one tick, so that it need not know of a second.
ASSUME TimesToLive == \A c \in Caches : Ttl[c] \in Nat \ {0}
ASSUME LimitsArePositive ==
  Limits \cup {FirstLimit, Whole} \subseteq Nat \ {0}
ASSUME BoundsAreNumbers == {MaxRequests, MaxRenames} \subseteq Nat
ASSUME NoneIsApart == None \notin Nat \cup Caches \cup Threads

VARIABLES
  names,   \* the state of symbol_names in the store, counted
  up,      \* time.monotonic, from the start of the machine
  cache,   \* _Cached: value, error, and the age fetched_at stands for
  lock,    \* _Cached.lock: its owner, or None
  bucket,  \* TokenBucket of MARKET_INFO: limit, tokens, 0 or 1 for the time since _updated
  pc,
  req,     \* the request of a thread: what it is, and what it has read
  asked,   \* requests so far
  renamed, \* history: the newest rename that has been answered
  early,   \* history: a rename has been answered within TtlPortfolio of boot
  loaded,  \* history: time since the last good load of the snapshot
  spent    \* history: tokens taken and not yet earned since the limit changed

history == <<renamed, early, loaded, spent>>
vars    == <<names, up, cache, lock, bucket, pc, req, asked, history>>

Least(m, n) == IF m < n THEN m ELSE n
Goto(t, l)  == pc' = [pc EXCEPT ![t] = l]

NoRequest ==
  [op |-> None, cache |-> None, names |-> 0, calls |-> 0, nap |-> 0,
   since |-> 0]

\* A thread answers and takes leave, or asks another cache.
Answered(t) == Goto(t, "idle") /\ req' = [req EXCEPT ![t] = NoRequest]
Want(t, c)  == Goto(t, "want") /\ req' = [req EXCEPT ![t].cache = c]

Free(t) == lock' = [c \in Caches |-> IF lock[c] = t THEN None ELSE lock[c]]

-----------------------------------------------------------------------------
(***************************************************************************)
(* TokenBucket.                                                            *)
(***************************************************************************)
\* _refill, done before every other look at the bucket.
Refilled == Least(bucket.limit, bucket.tokens + bucket.idle * bucket.limit)

\* What a sleep of `deficit / rate` comes to, in whole ticks.
Wait(tokens) == (Whole - tokens + bucket.limit - 1) \div bucket.limit

\* Mutated form of Acquire: having slept, a thread takes its token unseen.
AcquireOnWaking(t) ==
  /\ pc[t] \in {"acquire", "waking"} /\ req[t].nap = 0
  /\ IF Refilled >= Whole \/ pc[t] = "waking"
     THEN /\ bucket' = [bucket EXCEPT !.tokens = Refilled - Whole, !.idle = 0]
          /\ spent' = spent + Whole
          /\ Goto(t, "send") /\ UNCHANGED req
     ELSE /\ bucket' = [bucket EXCEPT !.tokens = Refilled, !.idle = 0]
          /\ req' = [req EXCEPT ![t].nap = Wait(Refilled)]
          /\ Goto(t, "waking") /\ UNCHANGED spent
  /\ UNCHANGED <<names, up, cache, lock, asked, renamed, early, loaded>>

\* acquire: a token, or a sleep outside the lock and another look.
Acquire(t) ==
  /\ pc[t] = "acquire" /\ req[t].nap = 0
  /\ IF Refilled >= Whole
     THEN /\ bucket' = [bucket EXCEPT !.tokens = Refilled - Whole, !.idle = 0]
          /\ spent' = spent + Whole
          /\ Goto(t, "send") /\ UNCHANGED req
     ELSE /\ bucket' = [bucket EXCEPT !.tokens = Refilled, !.idle = 0]
          /\ req' = [req EXCEPT ![t].nap = Wait(Refilled)]
          /\ UNCHANGED <<pc, spent>>
  /\ UNCHANGED <<names, up, cache, lock, asked, renamed, early, loaded>>

\* RateLimiter.observe and resize.  A limit that is no news changes nothing.
Observe(limit) ==
  /\ bucket' = [limit |-> limit, tokens |-> Least(limit, Refilled), idle |-> 0]
  /\ spent' = IF limit = bucket.limit THEN spent ELSE 0

-----------------------------------------------------------------------------
(***************************************************************************)
(* _Cached.get, around the loader of each cache.                           *)
(***************************************************************************)
Ask(t, op) ==
  /\ pc[t] = "idle" /\ asked < MaxRequests
  /\ op = "rename" => names + Cardinality({u \in Threads : req[u].op = op}) < MaxRenames
  /\ asked' = asked + 1
  /\ req' = [req EXCEPT ![t].op = op, ![t].since = renamed,
               ![t].cache = CASE op = "page"   -> "snapshot"
                              [] op = "chart"  -> "bars"
                              [] op = "rename" -> None]
  /\ Goto(t, IF op = "rename" THEN "rename" ELSE "want")
  /\ UNCHANGED <<names, up, cache, lock, bucket, history>>

\* get returns what the cache now holds, value and error.  overview goes on to the
\* market status; a chart has asked for the position it draws.
Got(t) ==
  IF req[t].cache = "snapshot"
  THEN IF req[t].op = "page" THEN Want(t, "status") ELSE Goto(t, "draw") /\ UNCHANGED req
  ELSE Answered(t)

\* The lock is free: a fresh answer is served, any other is loaded.
Enter(t) ==
  /\ pc[t] = "want" /\ lock[req[t].cache] = None
  /\ LET c == req[t].cache IN
     IF cache[c].value # None /\ cache[c].age < Ttl[c]
     THEN Got(t) /\ UNCHANGED lock
     ELSE /\ lock' = [lock EXCEPT ![c] = t]
          /\ req' = [req EXCEPT ![t].calls = IF c = "status" THEN 2 ELSE 1]
          /\ Goto(t, IF c = "bars" THEN "history" ELSE "acquire")
  /\ UNCHANGED <<names, up, cache, bucket, asked, history>>

\* The loader returns: value, error and fetched_at are set, the lock is let go.
Keep(t, value) ==
  LET c == req[t].cache IN
  /\ cache' = [cache EXCEPT ![c] = [value |-> value, error |-> FALSE, age |-> 0]]
  /\ loaded' = IF c = "snapshot" THEN 0 ELSE loaded
  /\ lock' = [lock EXCEPT ![c] = None]
  /\ Got(t)

\* Mutated form of Fail: the failure is not kept with the answer it left standing.
FailQuietly(t) ==
  LET c == req[t].cache IN
  /\ cache' = [cache EXCEPT ![c].age = 0]
  /\ lock' = [lock EXCEPT ![c] = None]
  /\ Got(t)

\* It raises a TossError: the stale value is served, with the error.
Fail(t) ==
  LET c == req[t].cache IN
  /\ cache' = [cache EXCEPT ![c].error = TRUE, ![c].age = 0]
  /\ lock' = [lock EXCEPT ![c] = None]
  /\ Got(t)

\* Mutated form of Raise: the lock is let go by hand, and not on this path.
RaiseHolding(t) ==
  /\ Answered(t)
  /\ UNCHANGED <<cache, lock>>

\* It raises anything else: nothing is kept, every `with` lets go, and the request
\* fails.
Raise(t) ==
  /\ Free(t) /\ Answered(t)
  /\ UNCHANGED cache

-----------------------------------------------------------------------------
(***************************************************************************)
(* The loaders.                                                            *)
(***************************************************************************)
\* A call of the client (its retries are Executor's) ends well, or in a TossError, or
\* in something else, as an answer without a rate does.  _load_snapshot asks for the
\* holdings and the exchange rate; market_status for two calendars, and it does
\* without one that the broker refuses.
Send(t) ==
  /\ pc[t] = "send"
  /\ \E limit \in Limits : Observe(limit)
  /\ \/ /\ req[t].calls > 1
        /\ req' = [req EXCEPT ![t].calls = @ - 1]
        /\ Goto(t, "acquire") /\ UNCHANGED <<cache, lock, loaded>>
     \/ /\ req[t].calls = 1 /\ req[t].cache = "snapshot"
        /\ Goto(t, "names") /\ UNCHANGED <<req, cache, lock, loaded>>
     \/ req[t].calls = 1 /\ req[t].cache = "status" /\ Keep(t, "status")
     \/ (Fail(t) \/ Raise(t)) /\ UNCHANGED loaded
  /\ UNCHANGED <<names, up, asked, renamed, early>>

\* ... and the names, from a store that may be out of reach.
ReadNames(t) ==
  /\ pc[t] = "names"
  /\ \/ /\ req' = [req EXCEPT ![t].names = names]
        /\ Goto(t, "keep") /\ UNCHANGED <<cache, lock>>
     \/ Raise(t)
  /\ UNCHANGED <<names, up, bucket, asked, history>>

KeepSnapshot(t) ==
  /\ pc[t] = "keep"
  /\ Keep(t, req[t].names)
  /\ UNCHANGED <<names, up, bucket, asked, renamed, early, spent>>

\* _load_bars: the prices, then the position as the table has it.
ReadHistory(t) ==
  /\ pc[t] = "history"
  /\ \/ Want(t, "snapshot") /\ UNCHANGED <<cache, lock>>
     \/ Raise(t)
  /\ UNCHANGED <<names, up, bucket, asked, history>>

\* The error of the snapshot is not passed on, and what is drawn is kept for longer.
Draw(t) ==
  /\ pc[t] = "draw"
  /\ cache' = [cache EXCEPT !.bars = [value |-> "bars", error |-> FALSE, age |-> 0]]
  /\ lock' = [lock EXCEPT !.bars = None]
  /\ Answered(t)
  /\ UNCHANGED <<names, up, bucket, asked, history>>

-----------------------------------------------------------------------------
(***************************************************************************)
(* rename_symbol: the store, then the cache.                               *)
(***************************************************************************)
Rename(t) ==
  /\ pc[t] = "rename"
  /\ \/ /\ names' = names + 1
        /\ req' = [req EXCEPT ![t].names = names + 1]
        /\ Goto(t, "invalidate")
     \/ Answered(t) /\ UNCHANGED names
  /\ UNCHANGED <<up, cache, lock, bucket, asked, history>>

Forget(t) ==
  /\ cache' = [cache EXCEPT !.snapshot.age = up]
  /\ renamed' = IF req[t].names > renamed THEN req[t].names ELSE renamed
  /\ early' = (early \/ up < TtlPortfolio)
  /\ Answered(t)
  /\ UNCHANGED <<names, up, lock, bucket, asked, loaded, spent>>

\* Mutated form of Invalidate: fetched_at is reset without the lock.
InvalidateUnlocked(t) == pc[t] = "invalidate" /\ Forget(t)

\* invalidate waits for a load under way, then sets fetched_at to 0.
Invalidate(t) == pc[t] = "invalidate" /\ lock["snapshot"] = None /\ Forget(t)

-----------------------------------------------------------------------------
\* Time passes.
Later(n) == Least(TtlPortfolio, n + 1)

Tick ==
  /\ up' = Later(up) /\ loaded' = Later(loaded)
  /\ cache' = [c \in Caches |-> [cache[c] EXCEPT !.age = Least(Ttl[c], @ + 1)]]
  /\ bucket' = [bucket EXCEPT !.idle = 1]
  /\ spent' = IF spent < bucket.limit THEN 0 ELSE spent - bucket.limit
  /\ req' = [t \in Threads |-> [req[t] EXCEPT !.nap = IF @ = 0 THEN 0 ELSE @ - 1]]
  /\ UNCHANGED <<names, lock, pc, asked, renamed, early>>

Init ==
  /\ names = 0
  /\ up = 0
  /\ cache = [c \in Caches |-> [value |-> None, error |-> FALSE, age |-> Ttl[c]]]
  /\ lock = [c \in Caches |-> None]
  /\ bucket = [limit |-> FirstLimit, tokens |-> FirstLimit, idle |-> 0]
  /\ pc = [t \in Threads |-> "idle"] /\ req = [t \in Threads |-> NoRequest]
  /\ asked = 0
  /\ renamed = 0 /\ early = FALSE /\ loaded = TtlPortfolio /\ spent = 0

Step(t) ==
  \/ Enter(t) \/ Acquire(t) \/ Send(t)
  \/ ReadNames(t) \/ KeepSnapshot(t)
  \/ ReadHistory(t) \/ Draw(t)
  \/ Rename(t) \/ Invalidate(t)

Next ==
  \/ Tick
  \/ \E t \in Threads : Step(t) \/ \E op \in {"page", "chart", "rename"} : Ask(t, op)

Spec == Init /\ [][Next]_vars

\* A thread that can go on does, and time passes.  threading.Lock is given to one of
\* those who wait; nothing says to whom.
Fairness == WF_vars(Tick) /\ \A t \in Threads : WF_vars(Step(t))

FairSpec == Spec /\ Fairness

-----------------------------------------------------------------------------
\* Every variable holds a value the code can put there; a lock is held by a thread
\* that is loading.
TypeOK ==
  /\ names \in 0..MaxRenames /\ up \in 0..TtlPortfolio
  /\ \A c \in Caches :
       /\ cache[c].error \in BOOLEAN /\ cache[c].age \in 0..Ttl[c]
       /\ lock[c] # None => lock[c] \in Threads /\ pc[lock[c]] \notin {"idle", "rename", "invalidate"}
  /\ bucket.limit \in Limits \cup {FirstLimit} /\ bucket.tokens \in 0..bucket.limit
  /\ asked \in 0..MaxRequests

\* A page gets its table, as snapshot.value and snapshot.error now are.
ShowsTable(t) == req[t].op = "page" /\ req[t].cache = "snapshot" /\ req'[t].cache = "status"

\* rename_symbol, "then refresh so the UI shows it": a page asked for after a rename
\* was answered has the new name, whatever load was under way, unless it carries
\* an error.  (For a rename in the first TtlPortfolio of the machine's uptime a
\* fetched_at of 0 is not old.)
RenameShows ==
  [][\A t \in Threads : ShowsTable(t) /\ cache'.snapshot.value # None /\ ~cache'.snapshot.error /\ ~early
       => cache'.snapshot.value >= req[t].since]_vars

\* _Cached.get: a table is never shown without an error banner when its numbers are
\* older than their time to live, however loads have failed since.
StaleIsFlagged ==
  [][\A t \in Threads : ShowsTable(t) /\ ~cache'.snapshot.error
       => cache'.snapshot.value # None /\ loaded' < TtlPortfolio]_vars

\* TokenBucket: while the limit stands, the threads that share a bucket never send
\* more between them, over any stretch of time, than its capacity and what the
\* stretch has earned.
BudgetKept == spent <= bucket.limit

\* Every request is answered, over nested locks, failed loads and an empty bucket,
\* unless a limit below one token is announced: no bucket that small ever fills.
EveryPageEnds ==
  [](bucket.limit >= Whole) => \A t \in Threads : (pc[t] # "idle") ~> (pc[t] = "idle")
=============================================================================
