--------------------------- MODULE DashboardProofs ---------------------------
(***************************************************************************)
(* That the threads of the dashboard keep to the request budget they       *)
(* share, and that what they show of the table is as new as it says and    *)
(* has the names that were answered for: for any number of threads, any    *)
(* times to live and any limits announced.                                 *)
(***************************************************************************)
EXTENDS Dashboard, TLAPS

\* The inductive invariant: what has been spent and what the bucket holds, refilled,
\* are never more than it can hold.  BudgetKept alone does not say that a token is
\* there because none was spent for it.
Bucket == [limit : Nat \ {0}, tokens : Nat, idle : Nat]

Balance ==
  /\ bucket \in Bucket /\ spent \in Nat
  /\ spent + Refilled <= bucket.limit

\* A product of naturals is a natural.
LEMMA ProductNat == \A m, n \in Nat : m * n \in Nat
  OBVIOUS

\* A refilled bucket holds some number of units, and no more than it can.
LEMMA RefilledBounded ==
  ASSUME bucket \in Bucket
  PROVE  Refilled \in Nat /\ Refilled <= bucket.limit
<1>1. bucket.limit \in Nat /\ bucket.tokens \in Nat /\ bucket.idle \in Nat
  BY DEF Bucket
<1>2. bucket.idle * bucket.limit \in Nat
  BY <1>1, ProductNat
<1>. QED  BY <1>1, <1>2 DEF Refilled, Least

\* A bucket that has just been looked at holds what it was left with.
LEMMA JustRefilled ==
  ASSUME bucket' \in Bucket, bucket'.idle = 0
  PROVE  Refilled' = Least(bucket'.limit, bucket'.tokens)
<1>1. bucket'.limit \in Nat /\ bucket'.tokens \in Nat
  BY DEF Bucket
<1>2. bucket'.tokens + 0 * bucket'.limit = bucket'.tokens
  BY <1>1
<1>. QED  BY <1>2 DEF Refilled

\* A bucket that is left with n units is one.
LEMMA LeftInBucket ==
  ASSUME bucket \in Bucket, NEW n \in Nat,
         bucket' = [bucket EXCEPT !.tokens = n, !.idle = 0]
  PROVE  /\ bucket' \in Bucket /\ bucket'.idle = 0
         /\ bucket'.limit = bucket.limit /\ bucket'.tokens = n
BY DEF Bucket

\* Taking a token spends what it takes out of the bucket.
LEMMA AcquireKeeps ==
  ASSUME Balance, NEW t \in Threads, Acquire(t)
  PROVE  Balance'
<1>1. /\ bucket.limit \in Nat \ {0} /\ spent \in Nat /\ Whole \in Nat \ {0}
      /\ Refilled \in Nat /\ Refilled <= bucket.limit /\ spent + Refilled <= bucket.limit
  BY RefilledBounded, LimitsArePositive DEF Balance, Bucket, LimitsArePositive
<1>2. CASE Refilled >= Whole
  <2>1. /\ bucket' = [bucket EXCEPT !.tokens = Refilled - Whole, !.idle = 0]
        /\ spent' = spent + Whole
    BY <1>2 DEF Acquire
  <2>2. Refilled - Whole \in Nat
    BY <1>1, <1>2
  <2>3. /\ bucket' \in Bucket /\ bucket'.idle = 0
        /\ bucket'.limit = bucket.limit /\ bucket'.tokens = Refilled - Whole
    BY <2>1, <2>2, LeftInBucket DEF Balance
  <2>. QED  BY <1>1, <1>2, <2>1, <2>2, <2>3, JustRefilled DEF Balance, Least
<1>3. CASE ~(Refilled >= Whole)
  <2>1. bucket' = [bucket EXCEPT !.tokens = Refilled, !.idle = 0] /\ spent' = spent
    BY <1>3 DEF Acquire
  <2>2. /\ bucket' \in Bucket /\ bucket'.idle = 0
        /\ bucket'.limit = bucket.limit /\ bucket'.tokens = Refilled
    BY <1>1, <2>1, LeftInBucket DEF Balance
  <2>. QED  BY <1>1, <2>1, <2>2, JustRefilled DEF Balance, Least
<1>. QED  BY <1>2, <1>3

\* A limit announced mints nothing.
LEMMA ObserveKeeps ==
  ASSUME Balance, NEW limit \in Limits, Observe(limit)
  PROVE  Balance'
<1>1. /\ limit \in Nat \ {0} /\ spent \in Nat
      /\ Refilled \in Nat /\ Refilled <= bucket.limit /\ spent + Refilled <= bucket.limit
  BY RefilledBounded, LimitsArePositive DEF Balance, LimitsArePositive
<1>2. /\ bucket' \in Bucket /\ bucket'.idle = 0 /\ bucket'.limit = limit
      /\ bucket'.tokens = Least(limit, Refilled)
  BY <1>1 DEF Observe, Bucket, Least
<1>3. Refilled' = Least(limit, Least(limit, Refilled))
  BY <1>2, JustRefilled
<1>4. CASE limit = bucket.limit
  BY <1>1, <1>2, <1>3, <1>4 DEF Observe, Balance, Least
<1>5. CASE limit # bucket.limit
  BY <1>1, <1>2, <1>3, <1>5 DEF Observe, Balance, Least
<1>. QED  BY <1>4, <1>5

\* A tick of the clock earns a bucket full, of which what was spent is less.
LEMMA TickKeeps ==
  ASSUME Balance, Tick
  PROVE  Balance'
<1>1. /\ bucket.limit \in Nat \ {0} /\ bucket.tokens \in Nat /\ spent \in Nat
      /\ Refilled \in Nat /\ spent + Refilled <= bucket.limit
  BY RefilledBounded DEF Balance, Bucket
<1>2. bucket' = [bucket EXCEPT !.idle = 1]
  BY DEF Tick
<1>3. /\ bucket' \in Bucket /\ bucket'.limit = bucket.limit
      /\ bucket'.tokens = bucket.tokens /\ bucket'.idle = 1
  BY <1>1, <1>2 DEF Balance, Bucket
<1>4. Refilled' \in Nat /\ Refilled' <= bucket'.limit
  <2>1. 1 * bucket'.limit = bucket'.limit
    BY <1>1, <1>3
  <2>. QED  BY <1>1, <1>3, <2>1 DEF Refilled, Least
<1>5. spent' = 0
  <2>1. spent' = IF spent < bucket.limit THEN 0 ELSE spent - bucket.limit
    BY DEF Tick
  <2>. QED  BY <1>1, <2>1
<1>. QED  BY <1>1, <1>3, <1>4, <1>5 DEF Balance

\* What is left of a step that leaves bucket and tokens alone.
LEMMA OthersKeep ==
  ASSUME Balance, UNCHANGED <<bucket, spent>>
  PROVE  Balance'
BY DEF Balance, Refilled

\* The invariant holds at the start and in every step.
LEMMA InductiveBalance ==
  /\ Init => Balance
  /\ Balance /\ [Next]_vars => Balance'
<1>1. Init => Balance
  <2>. SUFFICES ASSUME Init  PROVE Balance
    OBVIOUS
  <2>1. FirstLimit \in Nat \ {0}
    BY LimitsArePositive DEF LimitsArePositive
  <2>2. /\ bucket \in Bucket /\ bucket.limit = FirstLimit
        /\ bucket.tokens = FirstLimit /\ bucket.idle = 0 /\ spent = 0
    BY <2>1 DEF Init, Bucket
  <2>3. Refilled \in Nat /\ Refilled <= bucket.limit
    BY <2>2, RefilledBounded
  <2>. QED  BY <2>1, <2>2, <2>3 DEF Balance
<1>2. Balance /\ [Next]_vars => Balance'
  <2>. SUFFICES ASSUME Balance, [Next]_vars  PROVE Balance'
    OBVIOUS
  <2>1. CASE Tick
    BY <2>1, TickKeeps
  <2>2. ASSUME NEW t \in Threads, Acquire(t)
        PROVE  Balance'
    BY <2>2, AcquireKeeps
  <2>3. ASSUME NEW t \in Threads, Send(t)
        PROVE  Balance'
    <3>1. \E limit \in Limits : Observe(limit)
      BY <2>3 DEF Send
    <3>. QED  BY <3>1, ObserveKeeps
  <2>4. ASSUME NEW t \in Threads,
               \/ Enter(t) \/ ReadNames(t) \/ KeepSnapshot(t) \/ ReadHistory(t)
               \/ Draw(t) \/ Rename(t) \/ Invalidate(t)
        PROVE  Balance'
    <3>1. UNCHANGED <<bucket, spent>>
      BY <2>4 DEF Enter, ReadNames, KeepSnapshot, ReadHistory, Draw, Rename,
                  Invalidate, Forget, history
    <3>. QED  BY <3>1, OthersKeep
  <2>5. ASSUME NEW t \in Threads, NEW op \in {"page", "chart", "rename"}, Ask(t, op)
        PROVE  Balance'
    <3>1. UNCHANGED <<bucket, spent>>
      BY <2>5 DEF Ask, history
    <3>. QED  BY <3>1, OthersKeep
  <2>6. CASE UNCHANGED vars
    <3>1. UNCHANGED <<bucket, spent>>
      BY <2>6 DEF vars, history
    <3>. QED  BY <3>1, OthersKeep
  <2>. QED  BY <2>1, <2>2, <2>3, <2>4, <2>5, <2>6 DEF Next, Step
<1>. QED  BY <1>1, <1>2

\* TokenBucket: the threads that share a bucket keep to its limit between them, over
\* any stretch of time, however they sleep, wake and are told of new limits.
THEOREM ThreadsKeepTheBudget == Spec => []BudgetKept
<1>1. Init => Balance
  BY InductiveBalance
<1>2. Balance /\ [Next]_vars => Balance'
  BY InductiveBalance
<1>3. Balance => BudgetKept
  <2>. SUFFICES ASSUME Balance  PROVE BudgetKept
    OBVIOUS
  <2>1. Refilled \in Nat /\ spent \in Nat /\ bucket.limit \in Nat
    BY RefilledBounded DEF Balance, Bucket
  <2>. QED  BY <2>1 DEF Balance, BudgetKept
<1>. QED  BY <1>1, <1>2, <1>3, PTL DEF Spec

-----------------------------------------------------------------------------
(***************************************************************************)
(* What the table shows: the renames that were answered, and its age.      *)
(***************************************************************************)
Labels == {"idle", "want", "acquire", "send", "names", "keep", "history", "draw", "rename",
           "invalidate"}
Requests == [op : {"page", "chart", "rename", None}, cache : Caches \cup {None}, names : Nat,
             calls : Nat, nap : Int, since : Nat]
Answers == [value : Nat \cup {"status", "bars", None}, error : BOOLEAN, age : Nat]

Typed ==
  /\ names \in Nat /\ up \in Nat /\ renamed \in Nat /\ loaded \in Nat /\ early \in BOOLEAN
  /\ cache \in [Caches -> Answers] /\ cache["snapshot"].value \in Nat \cup {None}
  /\ lock \in [Caches -> Threads \cup {None}]
  /\ pc \in [Threads -> Labels]
  /\ req \in [Threads -> Requests]

\* Whoever loads a cache has its lock, and has read every name answered for when it
\* keeps a table.
Loading(t) ==
  /\ pc[t] \in {"acquire", "send"} =>
       req[t].cache \in {"snapshot", "status"} /\ lock[req[t].cache] = t
  /\ pc[t] \in {"names", "keep"} => req[t].cache = "snapshot" /\ lock["snapshot"] = t
  /\ pc[t] = "keep" => renamed <= req[t].names
  /\ pc[t] = "want" => req[t].cache \in Caches
  /\ req[t].names <= names /\ req[t].since <= renamed

Loads == renamed <= names /\ \A t \in Threads : Loading(t)

\* The table is as old as it says, unless it says that a load has failed ...
AgeIsTrue ==
  cache["snapshot"].value # None =>
    /\ loaded <= up
    /\ cache["snapshot"].error = FALSE => loaded <= cache["snapshot"].age

\* ... and while it counts as fresh, it has every name that was answered for.
FreshHasNames ==
  /\ cache["snapshot"].value # None /\ cache["snapshot"].error = FALSE /\ early = FALSE
  /\ cache["snapshot"].age < TtlPortfolio
  => renamed <= cache["snapshot"].value

\* The inductive invariant of the table.
TableInv == Typed /\ Loads /\ AgeIsTrue /\ FreshHasNames

\* There are three caches, each with a time to live.
LEMMA ThreeCaches ==
  /\ Caches = {"snapshot", "status", "bars"}
  /\ \A c \in Caches : Ttl[c] \in Nat \ {0}
  /\ Ttl["snapshot"] = TtlPortfolio /\ TtlPortfolio \in Nat \ {0}
  /\ None \notin Caches /\ None \notin Nat /\ None \notin Threads
<1>1. Caches = {"snapshot", "status", "bars"} /\ Ttl["snapshot"] = TtlPortfolio
  BY DEF Caches, Ttl
<1>2. \A c \in Caches : Ttl[c] \in Nat \ {0}
  BY TimesToLive DEF TimesToLive
<1>. QED  BY <1>1, <1>2, NoneIsApart DEF NoneIsApart

\* A step of one thread.
Moves(t) ==
  /\ pc' \in [Threads -> Labels] /\ req' \in [Threads -> Requests]
  /\ \A u \in Threads \ {t} : pc'[u] = pc[u] /\ req'[u] = req[u]

\* A thread that takes no lock but its own, nor gives one away, disturbs no other's load.
LEMMA LoadsKeep ==
  ASSUME TableInv, NEW t \in Threads, Moves(t), UNCHANGED <<names, renamed>>,
         \A c \in Caches : lock[c] \notin {t, None} => lock'[c] = lock[c],
         Loading(t)'
  PROVE  Loads'
<1>1. ASSUME NEW u \in Threads, u # t
      PROVE  Loading(u)'
  <2>1. pc'[u] = pc[u] /\ req'[u] = req[u] /\ Loading(u)
    BY <1>1 DEF Moves, TableInv, Loads
  <2>2. \A c \in Caches : lock[c] = u => lock'[c] = u
    BY <1>1, ThreeCaches
  <2>. QED  BY <2>1, <2>2, ThreeCaches DEF Loading
<1>. QED  BY <1>1 DEF Loads, TableInv

\* What is shown of the table next, when a step leaves it alone.
LEMMA TableKept ==
  ASSUME TableInv, UNCHANGED <<up, renamed, early, loaded>>, cache'["snapshot"] = cache["snapshot"]
  PROVE  AgeIsTrue' /\ FreshHasNames'
BY DEF TableInv, AgeIsTrue, FreshHasNames

\* A change of one thread's request, of a kind.
LEMMA RequestMoves ==
  ASSUME TableInv, NEW t \in Threads, NEW l \in Labels, NEW r \in Requests,
         Goto(t, l), req' = [req EXCEPT ![t] = r]
  PROVE  Moves(t) /\ pc'[t] = l /\ req'[t] = r
BY DEF TableInv, Typed, Goto, Moves

\* A request that is answered, or goes on to the next cache, reads nothing more.
LEMMA GotMoves ==
  ASSUME TableInv, NEW t \in Threads, Got(t), req[t].cache \in Caches
  PROVE  /\ Moves(t) /\ pc'[t] \in {"want", "draw", "idle"}
         /\ pc'[t] = "want" => req'[t].cache \in Caches
         /\ req'[t].names \in {0, req[t].names} /\ req'[t].since \in {0, req[t].since}
<1>1. req[t] \in Requests
  BY DEF TableInv, Typed
<1>2. NoRequest \in Requests
  BY DEF NoRequest, Requests
<1>3. CASE req[t].cache = "snapshot" /\ req[t].op = "page"
  <2> DEFINE r == [req[t] EXCEPT !.cache = "status"]
  <2>1. Goto(t, "want") /\ req' = [req EXCEPT ![t] = r]
    BY <1>3 DEF Got, Want
  <2>2. r \in Requests /\ r.names = req[t].names /\ r.since = req[t].since /\ r.cache = "status"
    BY <1>1, ThreeCaches DEF Requests
  <2>. HIDE DEF r
  <2>3. Moves(t) /\ pc'[t] = "want" /\ req'[t] = r
    BY <2>1, <2>2, RequestMoves DEF Labels
  <2>. QED  BY <2>2, <2>3, ThreeCaches
<1>4. CASE req[t].cache = "snapshot" /\ req[t].op # "page"
  BY <1>4 DEF Got, Goto, Moves, TableInv, Typed, Labels
<1>5. CASE req[t].cache # "snapshot"
  <2>1. Goto(t, "idle") /\ req' = [req EXCEPT ![t] = NoRequest]
    BY <1>5 DEF Got, Answered
  <2>2. Moves(t) /\ pc'[t] = "idle" /\ req'[t] = NoRequest
    BY <1>2, <2>1, RequestMoves DEF Labels
  <2>. QED  BY <2>2 DEF NoRequest
<1>. QED  BY <1>3, <1>4, <1>5

\* ... so that it is no load any more.
LEMMA GotLoading ==
  ASSUME TableInv, NEW t \in Threads, Got(t), req[t].cache \in Caches, UNCHANGED <<names, renamed>>
  PROVE  Moves(t) /\ Loading(t)'
<1>1. Loading(t) /\ req[t].names \in Nat /\ req[t].since \in Nat /\ renamed \in Nat /\ names \in Nat
  BY DEF TableInv, Loads, Typed, Requests
<1>. QED  BY <1>1, GotMoves DEF Loading

\* The same of a request that ends.
LEMMA AnsweredLoading ==
  ASSUME TableInv, NEW t \in Threads, Answered(t), names' \in Nat, renamed' \in Nat
  PROVE  Moves(t) /\ Loading(t)' /\ pc'[t] = "idle" /\ req'[t] = NoRequest
<1>1. NoRequest \in Requests
  BY DEF NoRequest, Requests
<1>2. Moves(t) /\ pc'[t] = "idle" /\ req'[t] = NoRequest
  BY <1>1, RequestMoves DEF Answered, Labels
<1>. QED  BY <1>2 DEF Loading, NoRequest

\* What a load that succeeds leaves of the table.
LEMMA KeepTable ==
  ASSUME TableInv, NEW t \in Threads, NEW value \in Nat \cup {"status"}, Keep(t, value),
         req[t].cache \in {"snapshot", "status"}, lock[req[t].cache] = t,
         req[t].cache = "snapshot" => value \in Nat /\ renamed <= value,
         UNCHANGED <<names, up, renamed, early>>
  PROVE  /\ TableInv' /\ Moves(t)
         /\ req[t].cache = "snapshot" =>
              /\ cache'["snapshot"].value = value /\ cache'["snapshot"].error = FALSE
              /\ loaded' = 0
<1> DEFINE c == req[t].cache
           a == [value |-> value, error |-> FALSE, age |-> 0]
<1>1. /\ c \in Caches /\ cache' = [cache EXCEPT ![c] = a] /\ lock' = [lock EXCEPT ![c] = None]
      /\ loaded' = (IF c = "snapshot" THEN 0 ELSE loaded) /\ Got(t)
  BY ThreeCaches DEF Keep
<1>2. a \in Answers /\ a.value = value /\ a.error = FALSE /\ a.age = 0
  BY DEF Answers
<1>. HIDE DEF a
<1>3. Moves(t) /\ Loading(t)'
  BY <1>1, GotLoading
<1>4. \A d \in Caches : lock[d] \notin {t, None} => lock'[d] = lock[d]
  BY <1>1 DEF TableInv, Typed
<1>5. Loads'
  BY <1>3, <1>4, LoadsKeep
<1>6. Typed'
  BY <1>1, <1>2, <1>3, ThreeCaches DEF TableInv, Typed, Moves
<1>7. CASE c = "snapshot"
  <2>1. cache'["snapshot"] = a /\ loaded' = 0
    BY <1>1, <1>7 DEF TableInv, Typed
  <2>. QED  BY <1>2, <1>3, <1>5, <1>6, <1>7, <2>1 DEF TableInv, Typed, AgeIsTrue, FreshHasNames
<1>8. CASE c # "snapshot"
  <2>1. cache'["snapshot"] = cache["snapshot"] /\ loaded' = loaded
    BY <1>1, <1>8, ThreeCaches DEF TableInv, Typed
  <2>. QED  BY <1>3, <1>5, <1>6, <1>8, <2>1, TableKept DEF TableInv
<1>. QED  BY <1>7, <1>8

\* A load that fails leaves the answer, and says so.
LEMMA FailTable ==
  ASSUME TableInv, NEW t \in Threads, Fail(t), req[t].cache \in Caches, lock[req[t].cache] = t,
         UNCHANGED <<names, up, renamed, early, loaded>>
  PROVE  /\ TableInv' /\ Moves(t)
         /\ req[t].cache = "snapshot" => cache'["snapshot"].error = TRUE
<1> DEFINE c == req[t].cache
           a == [cache[c] EXCEPT !.error = TRUE, !.age = 0]
<1>1. /\ cache' = [cache EXCEPT ![c] = a] /\ lock' = [lock EXCEPT ![c] = None] /\ Got(t)
  BY DEF Fail
<1>2. a \in Answers /\ a.value = cache[c].value /\ a.error = TRUE
  BY DEF Answers, TableInv, Typed
<1>. HIDE DEF a
<1>3. Moves(t) /\ Loading(t)'
  BY <1>1, GotLoading
<1>4. \A d \in Caches : lock[d] \notin {t, None} => lock'[d] = lock[d]
  BY <1>1 DEF TableInv, Typed
<1>5. Loads'
  BY <1>3, <1>4, LoadsKeep
<1>6. Typed'
  BY <1>1, <1>2, <1>3, ThreeCaches DEF TableInv, Typed, Moves
<1>7. CASE c = "snapshot"
  <2>1. cache'["snapshot"] = a
    BY <1>1, <1>7 DEF TableInv, Typed
  <2>. QED  BY <1>2, <1>3, <1>5, <1>6, <1>7, <2>1 DEF TableInv, Typed, AgeIsTrue, FreshHasNames
<1>8. CASE c # "snapshot"
  <2>1. cache'["snapshot"] = cache["snapshot"]
    BY <1>1, <1>8, ThreeCaches DEF TableInv, Typed
  <2>. QED  BY <1>3, <1>5, <1>6, <1>8, <2>1, TableKept DEF TableInv
<1>. QED  BY <1>7, <1>8

\* One that raises leaves nothing.
LEMMA RaiseTable ==
  ASSUME TableInv, NEW t \in Threads, Raise(t), UNCHANGED <<names, up, renamed, early, loaded>>
  PROVE  TableInv' /\ Moves(t) /\ pc'[t] = "idle" /\ req'[t] = NoRequest
<1>1. names' \in Nat /\ renamed' \in Nat
  BY DEF TableInv, Typed
<1>2. Moves(t) /\ Loading(t)' /\ pc'[t] = "idle" /\ req'[t] = NoRequest
  BY <1>1, AnsweredLoading DEF Raise
<1>3. /\ lock' \in [Caches -> Threads \cup {None}]
      /\ \A d \in Caches : lock[d] \notin {t, None} => lock'[d] = lock[d]
  BY DEF TableInv, Typed, Raise, Free
<1>4. Loads'
  BY <1>2, <1>3, LoadsKeep
<1>5. cache' = cache
  BY DEF Raise
<1>6. Typed'
  BY <1>2, <1>3, <1>5 DEF TableInv, Typed, Moves
<1>. QED  BY <1>2, <1>4, <1>5, <1>6, TableKept DEF TableInv

\* A step that touches neither caches nor locks, and starts no load.
LEMMA QuietTable ==
  ASSUME TableInv, NEW t \in Threads, Moves(t), Loading(t)',
         UNCHANGED <<names, up, renamed, early, loaded, cache, lock>>
  PROVE  TableInv'
<1>1. Loads'
  BY LoadsKeep
<1>2. Typed'
  BY DEF TableInv, Typed, Moves
<1>. QED  BY <1>1, <1>2, TableKept DEF TableInv

\* A page that gets the table gets what is due.
Right(t) ==
  ShowsTable(t) =>
    /\ cache'["snapshot"].value # None /\ cache'["snapshot"].error = FALSE /\ early = FALSE
         => req[t].since <= cache'["snapshot"].value
    /\ cache'["snapshot"].error = FALSE
         => cache'["snapshot"].value # None /\ loaded' < TtlPortfolio

\* Those that do not move get nothing.
LEMMA OthersRight ==
  ASSUME NEW t \in Threads, Moves(t), NEW u \in Threads, u # t
  PROVE  Right(u)
BY DEF Moves, Right, ShowsTable

\* Asking for a page.
LEMMA AskTable ==
  ASSUME TableInv, NEW t \in Threads, NEW op \in {"page", "chart", "rename"}, Ask(t, op)
  PROVE  TableInv' /\ \A u \in Threads : Right(u)
<1> DEFINE c == CASE op = "page" -> "snapshot" [] op = "chart" -> "bars" [] op = "rename" -> None
           l == IF op = "rename" THEN "rename" ELSE "want"
           r == [req[t] EXCEPT !.op = op, !.since = renamed, !.cache = c]
<1>1. c \in Caches \cup {None} /\ c # "status" /\ (op # "rename" => c \in Caches) /\ l \in Labels
  BY ThreeCaches DEF Labels
<1>2. req[t] \in Requests /\ renamed \in Nat /\ Loading(t)
  BY DEF TableInv, Typed, Loads
<1>. HIDE DEF c
<1>3. r \in Requests /\ r.cache = c /\ r.names = req[t].names /\ r.since = renamed
  BY <1>1, <1>2 DEF Requests
<1>4. Goto(t, l) /\ req' = [req EXCEPT ![t] = r]
  BY DEF Ask, c, TableInv, Typed
<1>. HIDE DEF r
<1>5. Moves(t) /\ pc'[t] = l /\ req'[t] = r
  BY <1>1, <1>3, <1>4, RequestMoves
<1>6. Loading(t)'
  <2>1. UNCHANGED <<names, renamed>> /\ l \in {"want", "rename"} /\ (l = "want" => c \in Caches)
    BY <1>1 DEF Ask, history
  <2>. QED  BY <1>2, <1>3, <1>5, <2>1 DEF Loading
<1>7. TableInv'
  BY <1>5, <1>6, QuietTable DEF Ask, history
<1>8. Right(t)
  BY <1>1, <1>3, <1>5 DEF Right, ShowsTable
<1>. QED  BY <1>5, <1>7, <1>8, OthersRight

\* A fresh table is served; for another answer the lock is taken.
LEMMA EnterTable ==
  ASSUME TableInv, NEW t \in Threads, Enter(t)
  PROVE  TableInv' /\ \A u \in Threads : Right(u)
<1> DEFINE c == req[t].cache
<1>1. /\ c \in Caches /\ req[t] \in Requests /\ Loading(t) /\ pc[t] = "want" /\ lock[c] = None
      /\ UNCHANGED <<names, up, cache, renamed, early, loaded>>
  BY DEF TableInv, Typed, Loads, Loading, Enter, history
<1>2. CASE cache[c].value # None /\ cache[c].age < Ttl[c]
  <2>1. Got(t) /\ UNCHANGED lock
    BY <1>2 DEF Enter
  <2>2. Moves(t) /\ Loading(t)'
    BY <1>1, <2>1, GotLoading
  <2>3. TableInv'
    BY <1>1, <2>1, <2>2, QuietTable
  <2>4. ASSUME ShowsTable(t)
        PROVE  Right(t)
    <3>1. cache["snapshot"].value # None /\ cache["snapshot"].age < TtlPortfolio
      BY <1>2, <2>4, ThreeCaches DEF ShowsTable
    <3>2. /\ renamed \in Nat /\ loaded \in Nat /\ req[t].since \in Nat /\ req[t].since <= renamed
          /\ cache["snapshot"].value \in Nat /\ cache["snapshot"].age \in Nat
      BY <1>1, <3>1, ThreeCaches DEF TableInv, Typed, Answers, Requests, Loading
    <3>. QED  BY <1>1, <3>1, <3>2, ThreeCaches DEF TableInv, AgeIsTrue, FreshHasNames, Right
  <2>. QED  BY <2>2, <2>3, <2>4, OthersRight DEF Right
<1>3. CASE ~(cache[c].value # None /\ cache[c].age < Ttl[c])
  <2> DEFINE l == IF c = "bars" THEN "history" ELSE "acquire"
             n == IF c = "status" THEN 2 ELSE 1
             r == [req[t] EXCEPT !.calls = n]
  <2>1. lock' = [lock EXCEPT ![c] = t] /\ Goto(t, l) /\ req' = [req EXCEPT ![t] = r]
    BY <1>3 DEF Enter
  <2>2. n \in Nat /\ l \in Labels
    BY DEF Labels
  <2>. HIDE DEF n
  <2>3. r \in Requests /\ r.cache = c /\ r.names = req[t].names /\ r.since = req[t].since
    BY <1>1, <2>2 DEF Requests
  <2>. HIDE DEF r
  <2>4. Moves(t) /\ pc'[t] = l /\ req'[t] = r
    BY <2>1, <2>2, <2>3, RequestMoves
  <2>5. /\ lock' \in [Caches -> Threads \cup {None}] /\ lock'[c] = t
        /\ \A d \in Caches : lock[d] \notin {t, None} => lock'[d] = lock[d]
    BY <1>1, <2>1 DEF TableInv, Typed
  <2>6. Loading(t)'
    BY <1>1, <2>3, <2>4, <2>5, ThreeCaches DEF Loading
  <2>7. Loads'
    BY <1>1, <2>4, <2>5, <2>6, LoadsKeep
  <2>8. Typed'
    BY <1>1, <2>4, <2>5 DEF TableInv, Typed, Moves
  <2>9. Right(t)
    BY <2>3, <2>4 DEF Right, ShowsTable
  <2>. QED  BY <1>1, <2>4, <2>7, <2>8, <2>9, TableKept, OthersRight DEF TableInv
<1>. QED  BY <1>2, <1>3

\* Taking a token, or sleeping until there may be one.
LEMMA AcquireTable ==
  ASSUME TableInv, Balance, NEW t \in Threads, Acquire(t)
  PROVE  TableInv' /\ \A u \in Threads : Right(u)
<1>1. /\ req[t] \in Requests /\ Loading(t) /\ pc[t] = "acquire" /\ pc \in [Threads -> Labels]
      /\ UNCHANGED <<names, up, cache, lock, renamed, early, loaded>>
  BY DEF TableInv, Typed, Loads, Acquire
<1>2. CASE Refilled >= Whole
  <2>1. Goto(t, "send") /\ req' = [req EXCEPT ![t] = req[t]]
    BY <1>2 DEF Acquire, TableInv, Typed
  <2>2. Moves(t) /\ pc'[t] = "send" /\ req'[t] = req[t]
    BY <1>1, <2>1, RequestMoves DEF Labels
  <2>3. Loading(t)' /\ Right(t)
    BY <1>1, <2>2 DEF Loading, Right, ShowsTable
  <2>. QED  BY <1>1, <2>2, <2>3, QuietTable, OthersRight
<1>3. CASE ~(Refilled >= Whole)
  <2> DEFINE r == [req[t] EXCEPT !.nap = Wait(Refilled)]
  <2>1. Goto(t, "acquire") /\ req' = [req EXCEPT ![t] = r]
    BY <1>1, <1>3 DEF Acquire, Goto
  <2>2. Wait(Refilled) \in Int
    <3>1. bucket.limit \in Nat \ {0} /\ Refilled \in Nat /\ Whole \in Nat
      BY RefilledBounded, LimitsArePositive DEF Balance, Bucket, LimitsArePositive
    <3>. QED  BY <3>1 DEF Wait
  <2>3. r \in Requests /\ r.cache = req[t].cache /\ r.names = req[t].names /\ r.since = req[t].since
    BY <1>1, <2>2 DEF Requests
  <2>. HIDE DEF r
  <2>4. Moves(t) /\ pc'[t] = "acquire" /\ req'[t] = r
    BY <2>1, <2>3, RequestMoves DEF Labels
  <2>5. Loading(t)' /\ Right(t)
    BY <1>1, <2>3, <2>4 DEF Loading, Right, ShowsTable
  <2>. QED  BY <1>1, <2>4, <2>5, QuietTable, OthersRight
<1>. QED  BY <1>2, <1>3

\* A page that gets a table which was just kept, or which failed to load.
LEMMA KeepRight ==
  ASSUME TableInv, NEW t \in Threads, NEW value \in Nat \cup {"status"}, Keep(t, value),
         req[t].cache \in {"snapshot", "status"}, lock[req[t].cache] = t,
         req[t].cache = "snapshot" => value \in Nat /\ renamed <= value,
         UNCHANGED <<names, up, renamed, early>>
  PROVE  TableInv' /\ \A u \in Threads : Right(u)
<1>1. TableInv' /\ Moves(t)
  BY KeepTable
<1>2. CASE req[t].cache = "snapshot"
  <2>1. cache'["snapshot"].value = value /\ loaded' = 0 /\ value \in Nat /\ renamed <= value
    BY <1>2, KeepTable
  <2>2. renamed \in Nat /\ req[t].since \in Nat /\ req[t].since <= renamed
    BY DEF TableInv, Typed, Loads, Loading, Requests
  <2>3. req[t].since <= value /\ value # None /\ 0 < TtlPortfolio
    BY <2>1, <2>2, ThreeCaches
  <2>4. Right(t)
    BY <2>1, <2>3 DEF Right
  <2>. QED  BY <1>1, <2>4, OthersRight
<1>3. CASE req[t].cache # "snapshot"
  BY <1>1, <1>3, OthersRight DEF Right, ShowsTable
<1>. QED  BY <1>2, <1>3

\* The same of one that failed to load.
LEMMA FailRight ==
  ASSUME TableInv, NEW t \in Threads, Fail(t), req[t].cache \in Caches, lock[req[t].cache] = t,
         UNCHANGED <<names, up, renamed, early, loaded>>
  PROVE  TableInv' /\ \A u \in Threads : Right(u)
<1>1. TableInv' /\ Moves(t) /\ (req[t].cache = "snapshot" => cache'["snapshot"].error = TRUE)
  BY FailTable
<1>. QED  BY <1>1, OthersRight DEF Right, ShowsTable

\* ... and of a request that ends.
LEMMA RaiseRight ==
  ASSUME TableInv, NEW t \in Threads, Raise(t), UNCHANGED <<names, up, renamed, early, loaded>>
  PROVE  TableInv' /\ \A u \in Threads : Right(u)
<1>1. TableInv' /\ Moves(t) /\ req'[t] = NoRequest
  BY RaiseTable
<1>2. Right(t)
  BY <1>1, ThreeCaches DEF NoRequest, Right, ShowsTable
<1>. QED  BY <1>1, <1>2, OthersRight

\* The end of a call: another one, the names, or the end of the load.
LEMMA SendTable ==
  ASSUME TableInv, NEW t \in Threads, Send(t)
  PROVE  TableInv' /\ \A u \in Threads : Right(u)
<1>1. /\ req[t] \in Requests /\ Loading(t) /\ pc[t] = "send"
      /\ req[t].cache \in {"snapshot", "status"} /\ lock[req[t].cache] = t
      /\ UNCHANGED <<names, up, renamed, early>>
  BY DEF TableInv, Typed, Loads, Loading, Send
<1>2. CASE /\ req[t].calls > 1
           /\ req' = [req EXCEPT ![t].calls = @ - 1]
           /\ Goto(t, "acquire") /\ UNCHANGED <<cache, lock, loaded>>
  <2> DEFINE r == [req[t] EXCEPT !.calls = @ - 1]
  <2>1. req' = [req EXCEPT ![t] = r]
    BY <1>2
  <2>2. req[t].calls \in Nat /\ req[t].calls - 1 \in Nat
    BY <1>1, <1>2 DEF Requests
  <2>3. r \in Requests /\ r.cache = req[t].cache /\ r.names = req[t].names /\ r.since = req[t].since
    BY <1>1, <2>2 DEF Requests
  <2>. HIDE DEF r
  <2>4. Moves(t) /\ pc'[t] = "acquire" /\ req'[t] = r
    BY <1>2, <2>1, <2>3, RequestMoves DEF Labels
  <2>5. Loading(t)' /\ Right(t)
    BY <1>1, <1>2, <2>3, <2>4 DEF Loading, Right, ShowsTable
  <2>. QED  BY <1>1, <1>2, <2>4, <2>5, QuietTable, OthersRight
<1>3. CASE /\ req[t].cache = "snapshot"
           /\ Goto(t, "names") /\ UNCHANGED <<req, cache, lock, loaded>>
  <2>1. req' = [req EXCEPT ![t] = req[t]]
    BY <1>3 DEF TableInv, Typed
  <2>2. Moves(t) /\ pc'[t] = "names" /\ req'[t] = req[t]
    BY <1>1, <1>3, <2>1, RequestMoves DEF Labels
  <2>3. Loading(t)' /\ Right(t)
    BY <1>1, <1>3, <2>2 DEF Loading, Right, ShowsTable
  <2>. QED  BY <1>1, <1>3, <2>2, <2>3, QuietTable, OthersRight
<1>4. CASE req[t].cache = "status" /\ Keep(t, "status")
  BY <1>1, <1>4, KeepRight
<1>5. CASE Fail(t) /\ UNCHANGED loaded
  BY <1>1, <1>5, FailRight, ThreeCaches
<1>6. CASE Raise(t) /\ UNCHANGED loaded
  BY <1>1, <1>6, RaiseRight
<1>. QED  BY <1>2, <1>3, <1>4, <1>5, <1>6 DEF Send

\* Reading the names: every name answered for is in the store by then.
LEMMA ReadNamesTable ==
  ASSUME TableInv, NEW t \in Threads, ReadNames(t)
  PROVE  TableInv' /\ \A u \in Threads : Right(u)
<1>1. /\ req[t] \in Requests /\ Loading(t) /\ Loads /\ pc[t] = "names" /\ names \in Nat
      /\ UNCHANGED <<names, up, renamed, early, loaded>>
  BY DEF TableInv, Typed, Loads, ReadNames, history
<1>2. CASE req' = [req EXCEPT ![t].names = names] /\ Goto(t, "keep") /\ UNCHANGED <<cache, lock>>
  <2> DEFINE r == [req[t] EXCEPT !.names = names]
  <2>1. req' = [req EXCEPT ![t] = r]
    BY <1>2
  <2>2. r \in Requests /\ r.cache = req[t].cache /\ r.names = names /\ r.since = req[t].since
    BY <1>1 DEF Requests
  <2>. HIDE DEF r
  <2>3. Moves(t) /\ pc'[t] = "keep" /\ req'[t] = r
    BY <1>2, <2>1, <2>2, RequestMoves DEF Labels
  <2>4. Loading(t)' /\ Right(t)
    BY <1>1, <1>2, <2>2, <2>3 DEF Loading, Loads, Right, ShowsTable
  <2>. QED  BY <1>1, <1>2, <2>3, <2>4, QuietTable, OthersRight
<1>3. CASE Raise(t)
  BY <1>1, <1>3, RaiseRight
<1>. QED  BY <1>2, <1>3 DEF ReadNames

\* A table that was loaded in full is kept, and shown if it was for a page.
LEMMA KeepSnapshotTable ==
  ASSUME TableInv, NEW t \in Threads, KeepSnapshot(t)
  PROVE  TableInv' /\ \A u \in Threads : Right(u)
<1>1. /\ Keep(t, req[t].names) /\ req[t].names \in Nat /\ renamed <= req[t].names
      /\ req[t].cache = "snapshot" /\ lock["snapshot"] = t
      /\ UNCHANGED <<names, up, renamed, early>>
  BY DEF TableInv, Typed, Loads, Loading, KeepSnapshot, Requests
<1>. QED  BY <1>1, KeepRight

\* A chart goes on to the table, or fails.
LEMMA ReadHistoryTable ==
  ASSUME TableInv, NEW t \in Threads, ReadHistory(t)
  PROVE  TableInv' /\ \A u \in Threads : Right(u)
<1>1. /\ req[t] \in Requests /\ Loading(t)
      /\ UNCHANGED <<names, up, renamed, early, loaded>>
  BY DEF TableInv, Typed, Loads, ReadHistory, history
<1>2. CASE Want(t, "snapshot") /\ UNCHANGED <<cache, lock>>
  <2> DEFINE r == [req[t] EXCEPT !.cache = "snapshot"]
  <2>1. Goto(t, "want") /\ req' = [req EXCEPT ![t] = r]
    BY <1>2 DEF Want
  <2>2. r \in Requests /\ r.cache = "snapshot" /\ r.names = req[t].names /\ r.since = req[t].since
    BY <1>1, ThreeCaches DEF Requests
  <2>. HIDE DEF r
  <2>3. Moves(t) /\ pc'[t] = "want" /\ req'[t] = r
    BY <2>1, <2>2, RequestMoves DEF Labels
  <2>4. Loading(t)' /\ Right(t)
    BY <1>1, <2>2, <2>3, ThreeCaches DEF Loading, Right, ShowsTable
  <2>. QED  BY <1>1, <1>2, <2>3, <2>4, QuietTable, OthersRight
<1>3. CASE Raise(t)
  BY <1>1, <1>3, RaiseRight
<1>. QED  BY <1>2, <1>3 DEF ReadHistory

\* It keeps what it has drawn in a cache of its own.
LEMMA DrawTable ==
  ASSUME TableInv, NEW t \in Threads, Draw(t)
  PROVE  TableInv' /\ \A u \in Threads : Right(u)
<1> DEFINE a == [value |-> "bars", error |-> FALSE, age |-> 0]
<1>1. /\ Answered(t) /\ lock' = [lock EXCEPT !["bars"] = None] /\ pc[t] = "draw"
      /\ cache' = [cache EXCEPT !["bars"] = a]
      /\ UNCHANGED <<names, up, renamed, early, loaded>>
  BY DEF Draw, history
<1>2. a \in Answers
  BY DEF Answers
<1>. HIDE DEF a
<1>3. Moves(t) /\ Loading(t)' /\ pc'[t] = "idle" /\ req'[t] = NoRequest
  BY <1>1, AnsweredLoading DEF TableInv, Typed
<1>4. /\ lock' \in [Caches -> Threads \cup {None}] /\ cache' \in [Caches -> Answers]
      /\ cache'["snapshot"] = cache["snapshot"]
      /\ lock'["snapshot"] = lock["snapshot"] /\ lock'["status"] = lock["status"]
  BY <1>1, <1>2, ThreeCaches DEF TableInv, Typed
<1>5. Loads'
  <2>1. ASSUME NEW u \in Threads, u # t
        PROVE  Loading(u)'
    <3>1. pc'[u] = pc[u] /\ req'[u] = req[u] /\ Loading(u)
      BY <1>3, <2>1 DEF Moves, TableInv, Loads
    <3>. QED  BY <1>1, <1>4, <3>1 DEF Loading
  <2>. QED  BY <1>1, <1>3, <2>1 DEF Loads, TableInv
<1>6. Typed'
  BY <1>1, <1>3, <1>4 DEF TableInv, Typed, Moves
<1>7. Right(t)
  BY <1>3, ThreeCaches DEF NoRequest, Right, ShowsTable
<1>. QED  BY <1>1, <1>3, <1>4, <1>5, <1>6, <1>7, TableKept, OthersRight DEF TableInv

\* A new name in the store is not answered for before the table is forgotten.
LEMMA RenameTable ==
  ASSUME TableInv, NEW t \in Threads, Rename(t)
  PROVE  TableInv' /\ \A u \in Threads : Right(u)
<1>1. /\ req[t] \in Requests /\ Loading(t) /\ pc[t] = "rename"
      /\ names \in Nat /\ renamed \in Nat /\ renamed <= names /\ names' \in {names, names + 1}
      /\ UNCHANGED <<up, cache, lock, renamed, early, loaded>>
  BY DEF TableInv, Typed, Loads, Rename, history
<1>2. Moves(t) /\ Loading(t)' /\ req'[t].cache \in {None, req[t].cache}
  <2>1. CASE names' = names + 1 /\ req' = [req EXCEPT ![t].names = names + 1] /\ Goto(t, "invalidate")
    <3> DEFINE r == [req[t] EXCEPT !.names = names + 1]
    <3>1. req' = [req EXCEPT ![t] = r]
      BY <2>1
    <3>2. r \in Requests /\ r.cache = req[t].cache /\ r.names = names + 1 /\ r.since = req[t].since
      BY <1>1 DEF Requests
    <3>. HIDE DEF r
    <3>3. Moves(t) /\ pc'[t] = "invalidate" /\ req'[t] = r
      BY <2>1, <3>1, <3>2, RequestMoves DEF Labels
    <3>. QED  BY <1>1, <2>1, <3>2, <3>3 DEF Loading
  <2>2. CASE Answered(t) /\ UNCHANGED names
    <3>1. Moves(t) /\ Loading(t)' /\ req'[t] = NoRequest
      BY <1>1, <2>2, AnsweredLoading
    <3>. QED  BY <3>1 DEF NoRequest
  <2>. QED  BY <2>1, <2>2 DEF Rename
<1>3. Loads'
  <2>1. ASSUME NEW u \in Threads, u # t
        PROVE  Loading(u)'
    <3>1. pc'[u] = pc[u] /\ req'[u] = req[u] /\ Loading(u) /\ req[u].names \in Nat
      BY <1>2, <2>1 DEF Moves, TableInv, Loads, Typed, Requests
    <3>. QED  BY <1>1, <3>1 DEF Loading
  <2>. QED  BY <1>1, <1>2, <2>1 DEF Loads
<1>4. Typed'
  BY <1>1, <1>2 DEF TableInv, Typed, Moves
<1>5. Right(t)
  BY <1>2, ThreeCaches DEF Right, ShowsTable
<1>. QED  BY <1>1, <1>2, <1>3, <1>4, <1>5, TableKept, OthersRight DEF TableInv

\* Nobody is loading the table when it is forgotten, so the next load has the name.
LEMMA InvalidateTable ==
  ASSUME TableInv, NEW t \in Threads, Invalidate(t)
  PROVE  TableInv' /\ \A u \in Threads : Right(u)
<1> DEFINE a == [cache["snapshot"] EXCEPT !.age = up]
<1>1. /\ Answered(t) /\ lock["snapshot"] = None /\ cache' = [cache EXCEPT !["snapshot"] = a]
      /\ renamed' = (IF req[t].names > renamed THEN req[t].names ELSE renamed)
      /\ early' = (early \/ up < TtlPortfolio)
      /\ UNCHANGED <<names, up, lock, loaded>>
  BY DEF Invalidate, Forget
<1>2. /\ Loads /\ Loading(t) /\ names \in Nat /\ renamed \in Nat /\ up \in Nat
      /\ req[t].names \in Nat /\ early \in BOOLEAN
  BY DEF TableInv, Typed, Loads, Requests
<1>3. a \in Answers /\ a.age = up /\ a.value = cache["snapshot"].value
      /\ (a.error = FALSE => cache["snapshot"].error = FALSE)
  BY <1>2, ThreeCaches DEF TableInv, Typed, Answers
<1>. HIDE DEF a
<1>4. renamed' \in Nat /\ renamed <= renamed' /\ renamed' <= names
  BY <1>1, <1>2 DEF Loads, Loading
<1>5. early' \in BOOLEAN /\ (early' = FALSE => ~(up < TtlPortfolio))
  BY <1>1
<1>6. Moves(t) /\ Loading(t)' /\ pc'[t] = "idle" /\ req'[t] = NoRequest
  BY <1>1, <1>2, <1>4, AnsweredLoading
<1>7. cache'["snapshot"] = a /\ cache' \in [Caches -> Answers]
  BY <1>1, <1>3, ThreeCaches DEF TableInv, Typed
<1>8. Loads'
  <2>1. ASSUME NEW u \in Threads, u # t
        PROVE  Loading(u)'
    <3>1. /\ pc'[u] = pc[u] /\ req'[u] = req[u] /\ Loading(u) /\ req[u].names \in Nat
          /\ req[u].since \in Nat
      BY <1>6, <2>1 DEF Moves, TableInv, Loads, Typed, Requests
    <3>2. pc[u] # "keep"
      BY <1>1, <3>1, ThreeCaches DEF Loading
    <3>. QED  BY <1>1, <1>2, <1>4, <3>1, <3>2 DEF Loading
  <2>. QED  BY <1>1, <1>4, <1>6, <2>1 DEF Loads
<1>9. Typed'
  BY <1>1, <1>3, <1>4, <1>5, <1>6, <1>7 DEF TableInv, Typed, Moves
<1>10. AgeIsTrue'
  BY <1>1, <1>3, <1>7 DEF TableInv, AgeIsTrue
<1>11. FreshHasNames'
  BY <1>1, <1>3, <1>5, <1>7 DEF FreshHasNames
<1>12. Right(t)
  BY <1>6, ThreeCaches DEF NoRequest, Right, ShowsTable
<1>. QED  BY <1>6, <1>8, <1>9, <1>10, <1>11, <1>12, OthersRight DEF TableInv

\* The table, its age and the machine grow older together.
LEMMA TickTable ==
  ASSUME TableInv, Tick
  PROVE  TableInv' /\ \A u \in Threads : Right(u)
<1> DEFINE a == cache["snapshot"]
<1>1. /\ up \in Nat /\ loaded \in Nat /\ TtlPortfolio \in Nat \ {0} /\ a \in Answers
      /\ up' = Later(up) /\ loaded' = Later(loaded)
      /\ UNCHANGED <<names, lock, pc, renamed, early>>
  BY ThreeCaches DEF TableInv, Typed, Tick
<1>2. \A n \in Nat : Later(n) \in Nat
  BY ThreeCaches DEF Later, Least
<1>3. /\ cache' \in [Caches -> Answers] /\ cache'["snapshot"].value = a.value
      /\ cache'["snapshot"].error = a.error
      /\ cache'["snapshot"].age = Later(a.age)
  <2>1. cache' = [c \in Caches |-> [cache[c] EXCEPT !.age = Least(Ttl[c], @ + 1)]]
    BY DEF Tick
  <2>2. \A c \in Caches : \A n \in Nat : Least(Ttl[c], n + 1) \in Nat
    BY ThreeCaches DEF Least
  <2>3. ASSUME NEW c \in Caches
        PROVE  [cache[c] EXCEPT !.age = Least(Ttl[c], @ + 1)] \in Answers
    <3>1. cache[c] \in Answers /\ cache[c].age \in Nat
      BY DEF TableInv, Typed, Answers
    <3>. QED  BY <2>2, <3>1 DEF Answers
  <2>. QED  BY <1>1, <2>1, <2>3, ThreeCaches DEF Answers, Later
<1>4. req' \in [Threads -> Requests] /\ \A t \in Threads :
        req'[t].cache = req[t].cache /\ req'[t].names = req[t].names /\ req'[t].since = req[t].since
  <2>1. req' = [t \in Threads |-> [req[t] EXCEPT !.nap = IF @ = 0 THEN 0 ELSE @ - 1]]
    BY DEF Tick
  <2>2. ASSUME NEW t \in Threads
        PROVE  /\ req'[t] \in Requests /\ req'[t].cache = req[t].cache
               /\ req'[t].names = req[t].names /\ req'[t].since = req[t].since
    <3> DEFINE n == IF req[t].nap = 0 THEN 0 ELSE req[t].nap - 1
    <3>1. req[t] \in Requests /\ req[t].nap \in Int
      BY DEF TableInv, Typed, Requests
    <3>2. n \in Int /\ req'[t] = [req[t] EXCEPT !.nap = n]
      BY <2>1, <3>1
    <3>. HIDE DEF n
    <3>. QED  BY <3>1, <3>2 DEF Requests
  <2>. QED  BY <2>1, <2>2
<1>5. Typed'
  BY <1>1, <1>2, <1>3, <1>4 DEF TableInv, Typed
<1>6. Loads'
  BY <1>1, <1>4 DEF TableInv, Loads, Loading
<1>7. \A m, n \in Nat : m <= n => Later(m) <= Later(n)
  BY ThreeCaches DEF Later, Least
<1>8. a.age \in Nat /\ (Later(a.age) < TtlPortfolio => a.age < TtlPortfolio)
  BY <1>1 DEF Answers, Later, Least
<1>9. AgeIsTrue'
  BY <1>1, <1>3, <1>7, <1>8 DEF TableInv, AgeIsTrue
<1>10. FreshHasNames'
  BY <1>1, <1>3, <1>8 DEF TableInv, FreshHasNames
<1>11. \A u \in Threads : Right(u)
  BY <1>4 DEF Right, ShowsTable
<1>. QED  BY <1>5, <1>6, <1>9, <1>10, <1>11 DEF TableInv

\* Every step keeps the invariant, and shows what is due.
LEMMA TableStep == Balance /\ TableInv /\ [Next]_vars => TableInv' /\ \A t \in Threads : Right(t)
<1>. SUFFICES ASSUME Balance, TableInv, [Next]_vars
              PROVE  TableInv' /\ \A t \in Threads : Right(t)
  OBVIOUS
<1>1. CASE UNCHANGED vars
  <2>1. TableInv'
    BY <1>1 DEF vars, history, TableInv, Typed, Loads, Loading, AgeIsTrue, FreshHasNames
  <2>2. \A t \in Threads : Right(t)
    BY <1>1 DEF vars, Right, ShowsTable
  <2>. QED  BY <2>1, <2>2
<1>. QED
  BY <1>1, TickTable, AskTable, EnterTable, AcquireTable, SendTable, ReadNamesTable,
     KeepSnapshotTable, ReadHistoryTable, DrawTable, RenameTable, InvalidateTable DEF Next, Step

\* There is no table at first.
LEMMA TableInit == Init => TableInv
<1>. SUFFICES ASSUME Init
              PROVE  TableInv
  OBVIOUS
<1>1. NoRequest \in Requests
  BY DEF NoRequest, Requests
<1>2. \A c \in Caches : [value |-> None, error |-> FALSE, age |-> Ttl[c]] \in Answers
  BY ThreeCaches DEF Answers
<1>3. Typed
  BY <1>1, <1>2, ThreeCaches DEF Init, Typed, Labels
<1>4. cache["snapshot"].value = None
  BY ThreeCaches DEF Init
<1>5. Loads
  BY DEF Init, Loads, Loading, NoRequest
<1>. QED  BY <1>3, <1>4, <1>5 DEF TableInv, AgeIsTrue, FreshHasNames

\* What is due, in the words of the two properties.
LEMMA RightMeans ==
  ASSUME TableInv, TableInv', NEW t \in Threads, Right(t), ShowsTable(t)
  PROVE  /\ cache'.snapshot.value # None /\ ~cache'.snapshot.error /\ ~early
              => cache'.snapshot.value >= req[t].since
         /\ ~cache'.snapshot.error => cache'.snapshot.value # None /\ loaded' < TtlPortfolio
<1>1. cache'["snapshot"].error \in BOOLEAN /\ early \in BOOLEAN /\ req[t].since \in Nat
      /\ cache'["snapshot"].value \in Nat \cup {None}
  BY ThreeCaches DEF TableInv, Typed, Answers, Requests
<1>2. cache'.snapshot = cache'["snapshot"]
  OBVIOUS
<1>. QED  BY <1>1, <1>2 DEF Right

\* rename_symbol: a page asked for after a rename was answered shows the new name,
\* whatever loads were under way, unless it says that a load has failed.
THEOREM RenamesShow == Spec => RenameShows
<1>1. Balance /\ TableInv /\ [Next]_vars => (Balance /\ TableInv)'
  BY InductiveBalance, TableStep
<1>2. Balance /\ TableInv /\ [Next]_vars =>
        [\A t \in Threads : ShowsTable(t) /\ cache'.snapshot.value # None /\ ~cache'.snapshot.error /\ ~early
           => cache'.snapshot.value >= req[t].since]_vars
  BY TableStep, RightMeans
<1>. QED  BY <1>1, <1>2, InductiveBalance, TableInit, PTL DEF Spec, RenameShows

\* _Cached.get: a table older than its time to live is never shown without saying so.
THEOREM StaleSaysSo == Spec => StaleIsFlagged
<1>1. Balance /\ TableInv /\ [Next]_vars => (Balance /\ TableInv)'
  BY InductiveBalance, TableStep
<1>2. Balance /\ TableInv /\ [Next]_vars =>
        [\A t \in Threads : ShowsTable(t) /\ ~cache'.snapshot.error
           => cache'.snapshot.value # None /\ loaded' < TtlPortfolio]_vars
  BY TableStep, RightMeans
<1>. QED  BY <1>1, <1>2, InductiveBalance, TableInit, PTL DEF Spec, StaleIsFlagged
=============================================================================
