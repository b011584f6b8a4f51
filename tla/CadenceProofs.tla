---------------------------- MODULE CadenceProofs ----------------------------
(***************************************************************************)
(* That a week is bought for under one session, unless the cache is lost    *)
(* and then comes back with a bar less, and that dislocation buys keep      *)
(* their cooldown whatever becomes of the cache, for any calendar, any bars *)
(* that come late or never and any runs that are killed: the strategy reads *)
(* its history back from a cache that may go back and a log that is cut off.*)
(***************************************************************************)
EXTENDS Cadence, WellFoundedInduction, FiniteSetTheorems, TLAPS

-----------------------------------------------------------------------------
(* The least of some numbers, which also serves as induction. *)

\* There is a well-founded relation that has every pair of ascending numbers.
LEMMA LessThan ==
  \E R : IsWellFoundedOn(R, Nat) /\ \A x, y \in Nat : x < y => <<x, y>> \in R
<1>1. \A x, y \in Nat : x < y => <<x, y>> \in OpToRel(<, Nat)
  BY Zenon DEF OpToRel
<1>. QED  BY <1>1, NatLessThanWellFounded, Zenon

\* Some elements have a minimal one under a well-founded relation.
LEMMA HasMinimal ==
  \A R, S, T : IsWellFoundedOn(R, S) /\ T \subseteq S /\ T # {}
                 => \E x \in T : \A y \in T : <<y, x>> \notin R
  BY WFMin, Zenon

\* Some natural numbers have a least one.
LEMMA NatHasLeast ==
  ASSUME NEW T, T \subseteq Nat, T # {}
  PROVE  \E m \in T : \A n \in T : m <= n
<1>1. PICK R : IsWellFoundedOn(R, Nat) /\ \A x, y \in Nat : x < y => <<x, y>> \in R
  BY LessThan
<1>2. IsWellFoundedOn(R, Nat)
  BY <1>1
<1>3. \E x \in T : \A y \in T : <<y, x>> \notin R
  BY <1>2, HasMinimal, Zenon
<1>4. PICK x \in T : \A y \in T : <<y, x>> \notin R
  BY <1>3
<1>5. ASSUME NEW y \in T
      PROVE  x <= y
  <2>1. x \in Nat /\ y \in Nat /\ ~(y < x)
    BY <1>1, <1>4
  <2>. QED  BY <2>1
<1>. QED  BY <1>5

\* The oldest of some days is one of them, and none is older.
LEMMA OldestIs ==
  ASSUME NEW S, S \subseteq Nat, S # {}
  PROVE  Oldest(S) \in S /\ \A d \in S : Oldest(S) <= d
  BY NatHasLeast DEF Oldest

\* So is the newest, when they all lie before some day.
LEMMA NewestIs ==
  ASSUME NEW S, S \subseteq Nat, S # {}, NEW n \in Nat, \A d \in S : d <= n
  PROVE  Newest(S) \in S /\ \A d \in S : d <= Newest(S)
<1> DEFINE T == {n - d : d \in S}
<1>1. T \subseteq Nat /\ T # {}
  <2>1. \A d \in S : d \in Nat /\ d <= n
    OBVIOUS
  <2>2. \A d \in S : n - d \in Nat
    BY <2>1
  <2>. QED  BY <2>2
<1>2. PICK m \in T : \A k \in T : m <= k
  BY <1>1, NatHasLeast
<1>3. PICK d \in S : m = n - d
  OBVIOUS
<1>4. \A e \in S : e <= d
  <2>1. TAKE e \in S
  <2>2. m <= n - e
    BY <1>2
  <2>. QED  BY <2>2, <1>3
<1>. QED  BY <1>3, <1>4 DEF Newest

\* What the gate's verdicts take of the first k signals, given what they take of
\* fewer: Approved's own recursion.
Taken(g, k, s, ok) ==
  [i \in 0..k |-> IF i = 0 THEN <<>> ELSE IF ok[i] THEN Append(g[i - 1], s[i]) ELSE g[i - 1]]

\* There is a function that it defines, ...
LEMMA TakeExists ==
  ASSUME NEW n \in Nat, NEW s, NEW ok
  PROVE  \E g : g = Taken(g, n, s, ok)
<1> DEFINE Step(g, i) == IF i = 0 THEN <<>> ELSE IF ok[i] THEN Append(g[i - 1], s[i]) ELSE g[i - 1]
           P(k) == \E g : g = [i \in 0..k |-> Step(g, i)]
           Bad == {k \in 0..n : ~P(k)}
<1>1. P(0)
  <2> DEFINE g == [i \in 0..0 |-> <<>>]
  <2>1. g = [i \in 0..0 |-> Step(g, i)]
    OBVIOUS
  <2>. QED  BY <2>1
<1>2. ASSUME NEW k \in Nat \ {0}, P(k - 1) PROVE P(k)
  <2>1. PICK g : g = [i \in 0..(k - 1) |-> Step(g, i)]
    BY <1>2
  <2> DEFINE h == [i \in 0..k |-> IF i = k THEN Step(g, k) ELSE g[i]]
  <2>2. ASSUME NEW i \in 0..k PROVE h[i] = Step(h, i)
    <3>1. CASE i = k
      <4>1. h[k - 1] = g[k - 1] /\ h[k] = Step(g, k)
        OBVIOUS
      <4>. QED  BY <3>1, <4>1
    <3>2. CASE i # k
      <4>1. i \in 0..(k - 1)
        BY <3>2
      <4>2. h[i] = g[i]
        BY <3>2
      <4>3. g[i] = Step(g, i)
        <5> HIDE DEF Step
        <5>. QED  BY <2>1, <4>1
      <4>4. i # 0 => h[i - 1] = g[i - 1]
        BY <4>1
      <4>. QED  BY <4>2, <4>3, <4>4
    <3>. QED  BY <3>1, <3>2
  <2>3. h = [i \in 0..k |-> Step(h, i)]
    <3>1. h = [i \in 0..k |-> h[i]]
      OBVIOUS
    <3> HIDE DEF h, Step
    <3>. QED  BY <2>2, <3>1
  <2>. QED  BY <2>3
<1> HIDE DEF P
<1>3. Bad = {}
  <2>0. Bad \subseteq Nat
    OBVIOUS
  <2>1. ASSUME Bad # {} PROVE FALSE
    <3>1. PICK k \in Bad : \A j \in Bad : k <= j
      <4> HIDE DEF Bad
      <4>. QED  BY <2>0, <2>1, NatHasLeast
    <3>2. k \in 0..n /\ ~P(k)
      OBVIOUS
    <3>3. k \in Nat \ {0}
      BY <1>1, <3>2
    <3>4. k - 1 \in 0..n /\ k - 1 \notin Bad
      <4> HIDE DEF Bad
      <4>. QED  BY <3>1, <3>2, <3>3
    <3>5. P(k - 1)
      BY <3>4
    <3>. QED  BY <1>2, <3>2, <3>3, <3>5
  <2>. QED  BY <2>1
<1>4. P(n)
  BY <1>3
<1>. QED  BY <1>4 DEF P, Taken

\* Approved signals are some of the first k that the strategy sent, in their order.
Drawn(q, k, S, s, ok) ==
  /\ q \in Seq(S)
  /\ \A i \in 1..Len(q) : \E a \in 1..k : ok[a] /\ q[i] = s[a]
  /\ \A i, j \in 1..Len(q) :
       i < j => \E a, b \in 1..k : a < b /\ ok[a] /\ ok[b] /\ q[i] = s[a] /\ q[j] = s[b]

\* One more signal, approved or not.
LEMMA DrawnStep ==
  ASSUME NEW S, NEW s \in Seq(S), NEW ok, NEW k \in 1..Len(s), NEW q, Drawn(q, k - 1, S, s, ok)
  PROVE  Drawn(IF ok[k] THEN Append(q, s[k]) ELSE q, k, S, s, ok)
<1>1. /\ Len(s) \in Nat /\ k \in Nat \ {0} /\ s[k] \in S /\ q \in Seq(S) /\ Len(q) \in Nat
      /\ \A a \in 1..(k - 1) : a \in 1..k /\ a < k
  BY DEF Drawn
<1>2. \A i \in 1..Len(q) : \E a \in 1..(k - 1) : ok[a] /\ q[i] = s[a]
  BY DEF Drawn
<1>3. \A i, j \in 1..Len(q) :
        i < j => \E a, b \in 1..(k - 1) : a < b /\ ok[a] /\ ok[b] /\ q[i] = s[a] /\ q[j] = s[b]
  BY DEF Drawn
<1>4. CASE ok[k]
  <2> DEFINE p == Append(q, s[k])
  <2>1. /\ p \in Seq(S) /\ Len(p) = Len(q) + 1 /\ p[Len(q) + 1] = s[k]
        /\ \A i \in 1..Len(q) : p[i] = q[i]
    BY <1>1
  <2> HIDE DEF p
  <2>2. \A i \in 1..Len(p) : i \in 1..Len(q) \/ i = Len(q) + 1
    BY <1>1, <2>1
  <2>3. ASSUME NEW i \in 1..Len(p) PROVE \E a \in 1..k : ok[a] /\ p[i] = s[a]
    BY <1>1, <1>2, <1>4, <2>1, <2>2
  <2>4. ASSUME NEW i \in 1..Len(p), NEW j \in 1..Len(p), i < j
        PROVE  \E a, b \in 1..k : a < b /\ ok[a] /\ ok[b] /\ p[i] = s[a] /\ p[j] = s[b]
    <3>1. i \in 1..Len(q)
      BY <1>1, <2>1, <2>4
    <3>2. CASE j \in 1..Len(q)
      <4>1. PICK a, b \in 1..(k - 1) : a < b /\ ok[a] /\ ok[b] /\ q[i] = s[a] /\ q[j] = s[b]
        BY <1>3, <2>4, <3>1, <3>2
      <4>2. a \in 1..k /\ b \in 1..k /\ p[i] = s[a] /\ p[j] = s[b]
        BY <1>1, <2>1, <3>1, <3>2, <4>1
      <4>. QED  BY <4>1, <4>2
    <3>3. CASE j = Len(q) + 1
      <4>1. PICK a \in 1..(k - 1) : ok[a] /\ q[i] = s[a]
        BY <1>2, <3>1
      <4>2. a \in 1..k /\ a < k /\ k \in 1..k /\ p[i] = s[a] /\ p[j] = s[k]
        BY <1>1, <2>1, <3>1, <3>3, <4>1
      <4>. QED  BY <1>4, <4>1, <4>2
    <3>. QED  BY <2>2, <3>2, <3>3
  <2>5. Drawn(p, k, S, s, ok)
    BY <2>1, <2>3, <2>4 DEF Drawn
  <2>. QED  BY <1>4, <2>5 DEF p
<1>5. CASE ~ok[k]
  <2>1. Drawn(q, k, S, s, ok)
    <3>1. \A i \in 1..Len(q) : \E a \in 1..k : ok[a] /\ q[i] = s[a]
      BY <1>1, <1>2
    <3>2. \A i, j \in 1..Len(q) :
            i < j => \E a, b \in 1..k : a < b /\ ok[a] /\ ok[b] /\ q[i] = s[a] /\ q[j] = s[b]
      BY <1>1, <1>3
    <3>. QED  BY <1>1, <3>1, <3>2 DEF Drawn
  <2>. QED  BY <1>5, <2>1
<1>. QED  BY <1>4, <1>5

\* ... of signals the strategy sent.
LEMMA ApprovedKeeps ==
  ASSUME NEW S, NEW s \in Seq(S), NEW ok
  PROVE  Drawn(Approved(s, ok), Len(s), S, s, ok)
<1> DEFINE n == Len(s)
           T == CHOOSE g : g = [i \in 0..Len(s) |-> IF i = 0 THEN <<>>
                              ELSE IF ok[i] THEN Append(g[i - 1], s[i]) ELSE g[i - 1]]
           Bad == {k \in 0..n : ~Drawn(T[k], k, S, s, ok)}
<1>1. n \in Nat /\ \A i \in 1..n : s[i] \in S
  OBVIOUS
<1>2. Approved(s, ok) = T[n]
  BY DEF Approved
<1>3. T = [i \in 0..n |-> IF i = 0 THEN <<>>
                          ELSE IF ok[i] THEN Append(T[i - 1], s[i]) ELSE T[i - 1]]
  <2>1. T = CHOOSE g : g = Taken(g, n, s, ok)
    BY DEF Taken
  <2>2. T = Taken(T, n, s, ok)
    <3> HIDE DEF T, n
    <3>. QED  BY <1>1, <2>1, TakeExists
  <2>. QED  BY <2>2 DEF Taken
<1>7. n = Len(s)
  OBVIOUS
<1> HIDE DEF T, n
<1>4. ASSUME NEW k \in 0..n, k # 0 => Drawn(T[k - 1], k - 1, S, s, ok)
      PROVE  Drawn(T[k], k, S, s, ok)
  <2>1. T[k] = IF k = 0 THEN <<>>
               ELSE IF ok[k] THEN Append(T[k - 1], s[k]) ELSE T[k - 1]
    BY <1>3
  <2>2. CASE k = 0
    <3>1. <<>> \in Seq(S) /\ Len(<<>>) = 0
      OBVIOUS
    <3>. QED  BY <2>1, <2>2, <3>1 DEF Drawn
  <2>3. CASE k # 0
    <3>1. k \in 1..Len(s)
      BY <1>1, <1>7, <2>3
    <3>2. Drawn(IF ok[k] THEN Append(T[k - 1], s[k]) ELSE T[k - 1], k, S, s, ok)
      BY <1>4, <2>3, <3>1, DrawnStep
    <3>. QED  BY <2>1, <2>3, <3>2
  <2>. QED  BY <2>2, <2>3
<1>5. Bad = {}
  <2>0. Bad \subseteq Nat
    OBVIOUS
  <2>1. ASSUME Bad # {} PROVE FALSE
    <3>1. PICK k \in Bad : \A j \in Bad : k <= j
      <4> HIDE DEF Bad
      <4>. QED  BY <2>0, <2>1, NatHasLeast
    <3>2. k \in 0..n /\ ~Drawn(T[k], k, S, s, ok)
      OBVIOUS
    <3>3. k # 0 => k - 1 \in 0..n /\ k - 1 \notin Bad
      <4> HIDE DEF Bad
      <4>. QED  BY <1>1, <3>1, <3>2
    <3>4. k # 0 => Drawn(T[k - 1], k - 1, S, s, ok)
      BY <3>3
    <3>. QED  BY <1>4, <3>2, <3>4
  <2>. QED  BY <2>1
<1>6. Drawn(T[n], n, S, s, ok)
  BY <1>1, <1>5
<1>. QED  BY <1>2, <1>6, <1>7

-----------------------------------------------------------------------------
(* The inductive invariant. *)

Queued(mode) == \E i \in 1..Len(queue) : queue[i] = mode

\* The sessions that have closed by now: the run's bars and the stored ones are of these,
\* and so is what an order is sent under.
Closed == {d \in sessions : d < night}

Typed ==
  /\ sessions \subseteq Nat /\ night \in Nat /\ late \in BOOLEAN
  /\ stored \in [Symbols -> SUBSET Closed] /\ bars \in [Symbols -> SUBSET Closed]
  /\ log \in Seq(Entry) /\ queue \in Seq(Buys \cup Exits)
  /\ \A o \in orders : o.session \in Closed

\* The sessions bought under are in the benchmark's bars that a run decides on.  They
\* are in the stored copy, until one is lost; from then on the copy may instead end
\* before one of them, so that a full fetch brings it back.
Loaded == {"loaded", "sending", "ended"}
InStore(o) == o.session \in stored[Benchmark]
InReach(o) == InStore(o) \/ \A d \in stored[Benchmark] : d < o.session

Kept ==
  damage # "short" =>
    /\ \A o \in orders : InReach(o)
    /\ damage = "none" /\ phase \notin Loaded => \A o \in orders : InStore(o)
    /\ phase = "ready" =>
         \/ bars[Benchmark] = stored[Benchmark]
         \/ bars[Benchmark] = {} /\ damage = "lost"
    /\ phase \in Loaded =>
         /\ stored[Benchmark] \subseteq bars[Benchmark]
         /\ \A o \in orders : o.session \in bars[Benchmark]

\* While a run sends, its session is the benchmark's, and it buys for a week only on
\* the session for it.
SendsForToday ==
  phase = "sending" =>
    /\ queue # <<>> /\ bars[Benchmark] # {} /\ SessionDate = Today
    /\ Queued("weekly") => IsRebalanceSession

\* The log is newest first.
NewestFirst ==
  /\ \A i \in 1..Len(log) : log[i].date <= WallDate
  /\ \A i, j \in 1..Len(log) : i < j => log[j].date <= log[i].date

\* A run that reads the log sees a dislocation buy since day d, or cannot see back to d.
Remembers(d) ==
  \/ \E i \in 1..Len(log) : log[i].mode = "dislocation" /\ d <= log[i].date
  \/ log # <<>> /\ \A i \in 1..Len(log) : d <= log[i].date

Dips == {o \in orders : o.mode = "dislocation"}

DipsAreRemembered ==
  /\ \A o \in Dips : Remembers(o.session)
  /\ phase = "sending" /\ Queued("dislocation") =>
       /\ Remembers(SessionDate)
       /\ \A o \in Dips : o.session # SessionDate => SessionDate - o.session >= DipCooldown

IInv == /\ Typed /\ damage \in {"none", "lost", "short"} /\ Kept
        /\ SendsForToday /\ NewestFirst /\ DipsAreRemembered
        /\ OneBuyDayPerWeek /\ DislocationsAreSpaced

-----------------------------------------------------------------------------
(* What a run takes for today, and for the week. *)

\* Today is the benchmark's newest bar, and no later than the newest bar of all.
LEMMA DaysOfTheRun ==
  ASSUME Typed, bars[Benchmark] # {}
  PROVE  /\ Today \in bars[Benchmark] /\ Today \in Nat
         /\ \A d \in bars[Benchmark] : d \in Nat /\ d <= Today
         /\ SessionDate \in Nat /\ Today <= SessionDate /\ SessionDate < night
<1> DEFINE all == UNION {bars[s] : s \in Symbols}
<1>1. /\ bars[Benchmark] \subseteq all /\ bars[Benchmark] \subseteq Nat
      /\ all \subseteq Nat /\ all # {} /\ \A d \in all : d < night /\ d <= night
      /\ night \in Nat
  <2>1. Benchmark \in Symbols
    BY DEF Symbols
  <2>2. \A d \in all : d \in Nat /\ d < night
    BY DEF Typed, Closed
  <2>3. bars[Benchmark] \subseteq all
    BY <2>1
  <2>4. night \in Nat
    BY DEF Typed
  <2> HIDE DEF all
  <2>5. all \subseteq Nat /\ \A d \in all : d < night /\ d <= night
    BY <2>2, <2>4
  <2>. QED  BY <2>3, <2>4, <2>5
<1> HIDE DEF all
<1>2. Today \in bars[Benchmark] /\ \A d \in bars[Benchmark] : d <= Today
  <2>1. \A d \in bars[Benchmark] : d <= night
    BY <1>1
  <2>. QED  BY <1>1, <2>1, NewestIs DEF Today
<1>3. Newest(all) \in all /\ \A d \in all : d <= Newest(all)
  BY <1>1, NewestIs
<1>. QED
  BY <1>1, <1>2, <1>3 DEF SessionDate, all

\* A week begins on or before each of its days.
LEMMA WeekBegins ==
  ASSUME NEW d \in Nat
  PROVE  Anchor(d) \in Int /\ Anchor(d) <= d
  BY ParamsAssumption DEF Anchor

\* Of a week's cached sessions, the one to buy on has none before it.
LEMMA FirstOfTheWeek ==
  ASSUME Typed, IsRebalanceSession, NEW d \in bars[Benchmark], Anchor(d) = Anchor(Today)
  PROVE  d = Today
<1>1. Today \in Nat /\ d \in Nat /\ d <= Today
  BY DaysOfTheRun
<1>2. Anchor(Today) \in Int /\ Anchor(Today) <= d
  BY <1>1, WeekBegins
<1>3. CASE Today = Anchor(Today)
  BY <1>1, <1>2, <1>3
<1>4. CASE Today = Oldest({e \in bars[Benchmark] : e >= Anchor(Today)})
  <2> DEFINE S == {e \in bars[Benchmark] : e >= Anchor(Today)}
  <2>1. d \in S
    BY <1>1, <1>2
  <2>2. S \subseteq Nat
    BY DaysOfTheRun
  <2>3. Oldest(S) <= d
    <3> HIDE DEF S
    <3>. QED  BY <2>1, <2>2, OldestIs
  <2>4. Today <= d
    BY <1>4, <2>3
  <2>. QED  BY <1>1, <2>4
<1>. QED  BY <1>3, <1>4 DEF IsRebalanceSession

-----------------------------------------------------------------------------
(* What a full fetch brings. *)

\* Into an empty cache, every closed session.
LEMMA ClosedIsServed ==
  ASSUME Typed, bars[Benchmark] = {}
  PROVE  Closed \subseteq Served(Benchmark)
<1> SUFFICES ASSUME NEW d \in Closed PROVE d \in Served(Benchmark)
  OBVIOUS
<1>2. d \in sessions /\ d \in Nat /\ d < night /\ night \in Nat
  BY DEF Closed, Typed
<1>3. WallDate \in Nat /\ night <= WallDate
  BY <1>2 DEF WallDate
<1>4. d \in 0..WallDate /\ d <= night - 1
  BY <1>2, <1>3
<1>. QED  BY <1>2, <1>4 DEF Served, Gaps, Cutoff

\* Onto a cache that ends before a closed session, that session.
LEMMA LaterIsServed ==
  ASSUME Typed, bars[Benchmark] # {}, NEW t \in Closed, \A d \in bars[Benchmark] : d < t
  PROVE  t \in Served(Benchmark)
<1>1. t \in sessions /\ t \in Nat /\ t < night /\ night \in Nat
  BY DEF Closed, Typed
<1>2. WallDate \in Nat /\ night <= WallDate
  BY <1>1 DEF WallDate
<1>3. bars[Benchmark] \subseteq Nat /\ \A d \in bars[Benchmark] : d <= night
  <2>1. bars[Benchmark] \subseteq Closed
    BY DEF Typed, Symbols
  <2>2. \A d \in Closed : d \in Nat /\ d <= night
    BY <1>1 DEF Typed, Closed
  <2>. QED  BY <2>1, <2>2
<1>4. PICK n \in Nat : n = Newest(bars[Benchmark]) /\ n < t
  <2>1. Newest(bars[Benchmark]) \in bars[Benchmark]
    BY <1>1, <1>3, NewestIs
  <2>. QED  BY <1>3, <2>1
<1>5. n < night - 1 /\ t \in (n + 1)..WallDate /\ t <= night - 1
  BY <1>1, <1>2, <1>4
<1>. QED  BY <1>1, <1>4, <1>5 DEF Served, Gaps, Cutoff

-----------------------------------------------------------------------------
(* What a run decides, and what it logs of that. *)

Allowed == {m \in Buys \cup Exits : /\ m = "weekly" => IsRebalanceSession
                                    /\ m = "dislocation" => CooledDown
                                    /\ m \in Exits => Held /\ ~InFlight(m)}

\* The strategy buys for a week, or for a dislocation, only when it may, and sells only
\* what it holds and does not find under way.
LEMMA SignalsAreAllowed == \A r \in Reading : Signals(r) \in Seq(Allowed) /\ Len(Signals(r)) <= 3
<1> TAKE r \in Reading
<1>1. ModesOf(r) \in Seq(Allowed) /\ Len(ModesOf(r)) <= 1
  <2>1. IsRebalanceSession => "weekly" \in Allowed
    BY DEF Allowed, Buys, Exits
  <2>2. CooledDown => "dislocation" \in Allowed
    BY DEF Allowed, Buys, Exits
  <2>. QED  BY <2>1, <2>2 DEF ModesOf
<1> DEFINE exit == ~r.up /\ Held /\ ~InFlight("trend-exit")
           rotation == /\ ModesOf(r) = <<"weekly">> /\ Held /\ ~(r.ranked /\ r.up) /\ r.broken
                       /\ ~InFlight("rotation-exit")
           a == IF exit THEN <<"trend-exit">> ELSE <<>>
           b == IF rotation THEN <<"rotation-exit">> ELSE <<>>
<1>2. Signals(r) = a \o b \o ModesOf(r)
  BY DEF Signals
<1>3. a \in Seq(Allowed) /\ Len(a) <= 1
  <2>1. CASE exit
    <3>1. "trend-exit" \in Allowed
      BY <2>1 DEF Allowed, Exits
    <3>2. a = <<"trend-exit">>
      BY <2>1
    <3>. QED  BY <3>1, <3>2
  <2>2. CASE ~exit
    <3>1. a = <<>>
      BY <2>2
    <3>. QED  BY <3>1
  <2>. QED  BY <2>1, <2>2
<1>4. b \in Seq(Allowed) /\ Len(b) <= 1
  <2>1. CASE rotation
    <3>1. "rotation-exit" \in Allowed
      BY <2>1 DEF Allowed, Exits
    <3>2. b = <<"rotation-exit">>
      BY <2>1
    <3>. QED  BY <3>1, <3>2
  <2>2. CASE ~rotation
    <3>1. b = <<>>
      BY <2>2
    <3>. QED  BY <3>1
  <2>. QED  BY <2>1, <2>2
<1> HIDE DEF a, b
<1>5. \A x, y, z \in Seq(Allowed) : Len(x) <= 1 /\ Len(y) <= 1 /\ Len(z) <= 1
        => x \o y \o z \in Seq(Allowed) /\ Len(x \o y \o z) <= 3
  OBVIOUS
<1>. QED  BY <1>1, <1>2, <1>3, <1>4, <1>5

\* The log after a run: its own n decisions under today's date, and as much of what was
\* there as a later run reads.
OnTop(new, signals, ok, others, n) ==
  /\ new \in Seq(Entry)
  /\ n + Len(log) > 0 => Len(new) > 0
  /\ \A i \in 1..Len(new) : i <= n => new[i].date = WallDate
  /\ \A i \in 1..Len(new) : ~(i <= n) => i - n \in 1..Len(log) /\ new[i] = log[i - n]
  /\ \A i \in 1..Len(new) :
       i > others /\ i <= n => new[i].mode = EntryOf(signals[n + 1 - i], ok[n + 1 - i])
  /\ Len(new) <= n + Len(log)
  /\ \A i \in 1..Window : i <= n + Len(log) => i <= Len(new)

\* Logged puts them there.
LEMMA LoggedIs ==
  ASSUME Typed, NEW signals \in Seq(Buys \cup Exits), NEW ok, NEW others \in Nat,
         NEW n, n = Len(signals) + others, NEW new, new = Logged(signals, ok, others)
  PROVE  OnTop(new, signals, ok, others, n)
<1> DEFINE fresh == [i \in 1..n |-> [mode |-> IF i <= others THEN "other"
                                              ELSE EntryOf(signals[n + 1 - i], ok[n + 1 - i]),
                                     date |-> WallDate]]
           all == fresh \o log
           m == IF Len(all) < Window THEN Len(all) ELSE Window
<1>1. n \in Nat /\ Len(signals) \in Nat /\ WallDate \in Nat /\ Window \in Nat \ {0}
      /\ log \in Seq(Entry) /\ Len(log) \in Nat
  BY ParamsAssumption DEF Typed, WallDate
<1>2. fresh \in Seq(Entry) /\ Len(fresh) = n
  <2>1. \A i \in 1..n : i > others => signals[n + 1 - i] \in Buys \cup Exits
    BY <1>1
  <2>2. \A i \in 1..n : i > others => EntryOf(signals[n + 1 - i], ok[n + 1 - i]) \in Entries
    BY <2>1 DEF EntryOf, Entries, Buys, Exits
  <2>3. \A i \in 1..n : fresh[i] \in Entry
    <3>1. TAKE i \in 1..n
    <3>2. (IF i <= others THEN "other" ELSE EntryOf(signals[n + 1 - i], ok[n + 1 - i])) \in Entries
      BY <1>1, <2>2 DEF Entries
    <3>. QED  BY <1>1, <3>2 DEF Entry
  <2>4. fresh \in [1..n -> Entry]
    BY <2>3
  <2> HIDE DEF fresh
  <2>. QED  BY <1>1, <2>4
<1>3. all \in Seq(Entry) /\ Len(all) = n + Len(log) /\ m \in 0..Len(all)
      /\ \A i \in 1..Len(all) : all[i] = IF i <= n THEN fresh[i] ELSE log[i - n]
  BY <1>1, <1>2
<1>4. new = SubSeq(all, 1, m)
  BY DEF Logged
<1>5. new \in Seq(Entry) /\ Len(new) = m /\ \A i \in 1..m : new[i] = all[i]
  <2> HIDE DEF all, m
  <2>. QED  BY <1>3, <1>4
<1>6. n + Len(log) > 0 => m > 0
  BY <1>1, <1>3
<1>9. \A i \in 1..Window : i <= n + Len(log) => i <= m
  BY <1>1, <1>3
<1> HIDE DEF all, m
<1>7. \A i \in 1..m : i <= n => /\ new[i].date = WallDate
                                /\ i > others => new[i].mode = EntryOf(signals[n + 1 - i], ok[n + 1 - i])
  BY <1>1, <1>3, <1>5
<1>8. \A i \in 1..m : ~(i <= n) => i - n \in 1..Len(log) /\ new[i] = log[i - n]
  BY <1>1, <1>3, <1>5
<1>. QED  BY <1>1, <1>3, <1>5, <1>6, <1>7, <1>8, <1>9 DEF OnTop

-----------------------------------------------------------------------------
(* The steps. *)

\* What is remembered is up to the log.
LEMMA SameLog ==
  ASSUME UNCHANGED <<log, orders>>, phase' # "sending", damage' # "short" => damage # "short",
         DipsAreRemembered, OneBuyDayPerWeek, DislocationsAreSpaced
  PROVE  /\ SendsForToday' /\ DipsAreRemembered' /\ OneBuyDayPerWeek' /\ DislocationsAreSpaced'
<1>1. \A d : Remembers(d)' <=> Remembers(d)
  BY DEF Remembers
<1>2. DipsAreRemembered'
  BY <1>1 DEF DipsAreRemembered, Dips
<1>. QED
  BY <1>2 DEF SendsForToday, OneBuyDayPerWeek, DislocationsAreSpaced

\* A run starts from the copy, or from nothing.
LEMMA DownloadStep == IInv /\ Download => IInv'
<1> SUFFICES ASSUME IInv, Download PROVE IInv'
  OBVIOUS
<1> USE DEF IInv
<1>1. /\ UNCHANGED <<sessions, night, late, stored, log, queue, orders>>
      /\ phase' = "ready" /\ phase' # "sending" /\ phase' \notin Loaded /\ phase \notin Loaded
      /\ \/ bars' = stored /\ damage' = damage
         \/ bars' = NoBars /\ damage' = Lost
  BY DEF Download, Loaded
<1>2. /\ damage' \in {"none", "lost", "short"}
      /\ damage' # "short" => damage # "short"
      /\ damage' = "none" => damage = "none"
      /\ bars' = NoBars /\ damage' = Lost /\ damage' # "short" => damage' = "lost"
  BY <1>1 DEF Lost
<1>3. Typed' /\ NewestFirst'
  <2>1. Closed' = Closed /\ NoBars \in [Symbols -> SUBSET Closed]
    BY <1>1 DEF Closed, NoBars
  <2>2. bars' \in [Symbols -> SUBSET Closed]
    BY <1>1, <2>1 DEF Typed
  <2>. QED  BY <1>1, <2>1, <2>2 DEF Typed, NewestFirst, WallDate
<1>4. Kept'
  <2>1. NoBars[Benchmark] = {}
    BY DEF NoBars, Symbols
  <2>2. \A o : (InReach(o)' <=> InReach(o)) /\ (InStore(o)' <=> InStore(o))
    BY <1>1 DEF InReach, InStore
  <2>. QED  BY <1>1, <1>2, <2>1, <2>2 DEF Kept
<1>. QED  BY <1>1, <1>2, <1>3, <1>4, SameLog

\* A load only adds bars of closed sessions, and a full one all of those that the run's
\* copy ends before.
LEMMA LoadStep == IInv /\ Load => IInv'
<1> SUFFICES ASSUME IInv, Load PROVE IInv'
  OBVIOUS
<1> USE DEF IInv
<1>1. PICK short \in SUBSET Symbols :
        /\ damage' = IF damage = "lost" /\ Benchmark \in short THEN "short" ELSE damage
        /\ \E got \in [short -> SUBSET UNION {Served(s) : s \in short}] :
             /\ \A s \in short : got[s] \subseteq Served(s) /\ got[s] # Served(s)
             /\ bars' = [s \in Symbols |-> bars[s] \cup IF s \in short THEN got[s] ELSE Served(s)]
  BY DEF Load
<1>2. PICK got \in [short -> SUBSET UNION {Served(s) : s \in short}] :
             /\ \A s \in short : got[s] \subseteq Served(s) /\ got[s] # Served(s)
             /\ bars' = [s \in Symbols |-> bars[s] \cup IF s \in short THEN got[s] ELSE Served(s)]
  BY <1>1
<1>3. /\ UNCHANGED <<sessions, night, late, stored, log, queue, orders>>
      /\ phase = "ready" /\ phase' = "loaded"
  BY DEF Load
<1>4. \A s \in Symbols : Served(s) \subseteq Closed
  <2>1. \A s \in Symbols : \A d \in Served(s) : d \in sessions /\ d <= night - 1
    BY DEF Served, Cutoff
  <2>2. \A d \in sessions : d <= night - 1 => d < night
    BY DEF Typed
  <2>. QED  BY <2>1, <2>2 DEF Closed
<1>5. /\ \A s \in Symbols : bars[s] \subseteq bars'[s] /\ bars'[s] \subseteq Closed
      /\ \A s \in Symbols : s \notin short => bars'[s] = bars[s] \cup Served(s)
  <2>1. \A s \in Symbols : bars[s] \subseteq Closed
    BY DEF Typed
  <2>2. \A s \in Symbols : bars'[s] = bars[s] \cup IF s \in short THEN got[s] ELSE Served(s)
    BY <1>2
  <2>. QED  BY <1>2, <1>4, <2>1, <2>2
<1>6. Typed' /\ NewestFirst'
  <2>1. Closed' = Closed
    BY <1>3 DEF Closed
  <2>2. bars' \in [Symbols -> SUBSET Closed]
    <3>1. \A s \in Symbols : bars'[s] \in SUBSET Closed
      BY <1>5
    <3>. QED  BY <1>2, <3>1
  <2>. QED  BY <1>3, <2>1, <2>2 DEF Typed, NewestFirst, WallDate
<1>7. /\ damage' \in {"none", "lost", "short"}
      /\ damage' # "short" => damage # "short"
      /\ damage' = "none" => damage = "none"
      /\ damage' # "short" /\ Benchmark \in short => damage = "none"
  BY <1>1
<1>8. Kept'
  <2>. SUFFICES ASSUME damage' # "short" PROVE Kept'
    BY DEF Kept
  <2>0. Benchmark \in Symbols
    BY DEF Symbols
  <2>1. \A o \in orders : InReach(o)
    BY <1>7 DEF Kept
  <2>2. /\ stored[Benchmark] \subseteq bars'[Benchmark]
        /\ \A o \in orders : o.session \in bars'[Benchmark]
    <3>1. CASE damage = "none"
      <4>1. bars[Benchmark] = stored[Benchmark] /\ \A o \in orders : InStore(o)
        BY <1>3, <3>1 DEF Kept, Loaded
      <4>. QED  BY <1>5, <2>0, <4>1 DEF InStore
    <3>2. CASE damage # "none"
      <4>1. bars'[Benchmark] = bars[Benchmark] \cup Served(Benchmark)
        BY <1>5, <1>7, <2>0, <3>2
      <4>2. /\ stored[Benchmark] \subseteq Closed
            /\ \A o \in orders : o.session \in Closed
        BY <2>0 DEF Typed
      <4>3. bars[Benchmark] = stored[Benchmark] \/ bars[Benchmark] = {}
        BY <1>3, <1>7 DEF Kept
      <4>4. CASE bars[Benchmark] = {}
        <5>1. Closed \subseteq Served(Benchmark)
          BY <4>4, ClosedIsServed
        <5>. QED  BY <4>1, <4>2, <5>1
      <4>5. CASE bars[Benchmark] = stored[Benchmark] /\ bars[Benchmark] # {}
        <5>1. ASSUME NEW o \in orders PROVE o.session \in bars[Benchmark] \cup Served(Benchmark)
          <6>1. CASE o.session \in stored[Benchmark]
            BY <4>5, <6>1
          <6>2. CASE \A d \in bars[Benchmark] : d < o.session
            BY <4>2, <4>5, <6>2, LaterIsServed
          <6>. QED  BY <2>1, <4>5, <6>1, <6>2 DEF InReach, InStore
        <5>. QED  BY <4>1, <4>5, <5>1
      <4>. QED  BY <4>3, <4>4, <4>5
    <3>. QED  BY <3>1, <3>2
  <2>3. \A o : InReach(o)' <=> InReach(o)
    BY <1>3 DEF InReach, InStore
  <2>. QED  BY <1>3, <2>1, <2>2, <2>3 DEF Kept, Loaded
<1>. QED  BY <1>3, <1>6, <1>7, <1>8, SameLog

\* What the copy becomes is what the run had, or stays.
LEMMA UploadStep == IInv /\ Upload => IInv'
<1> SUFFICES ASSUME IInv, Upload PROVE IInv'
  OBVIOUS
<1> USE DEF IInv
<1>1. /\ UNCHANGED <<sessions, night, late, log, queue, orders>>
      /\ phase = "ended" /\ phase' = "done" /\ bars' = NoBars
      /\ \/ stored' = bars /\ damage' = damage
         \/ stored' = stored /\ damage' = Lost
  BY DEF Upload
<1>2. /\ damage' \in {"none", "lost", "short"}
      /\ damage' # "short" => damage # "short"
      /\ damage' = Lost => damage' # "none"
  BY <1>1 DEF Lost
<1>3. Typed' /\ NewestFirst'
  <2>1. Closed' = Closed /\ NoBars \in [Symbols -> SUBSET Closed]
    BY <1>1 DEF Closed, NoBars
  <2>2. stored' \in [Symbols -> SUBSET Closed]
    BY <1>1 DEF Typed
  <2>. QED  BY <1>1, <2>1, <2>2 DEF Typed, NewestFirst, WallDate
<1>4. Kept'
  <2>. SUFFICES ASSUME damage' # "short" PROVE Kept'
    BY DEF Kept
  <2>1. /\ \A o \in orders : InReach(o)
        /\ \A o \in orders : o.session \in bars[Benchmark]
    BY <1>1, <1>2 DEF Kept, Loaded
  <2>2. CASE stored' = bars /\ damage' = damage
    <3>1. \A o \in orders' : InStore(o)'
      BY <1>1, <2>1, <2>2 DEF InStore
    <3>2. \A o \in orders' : InReach(o)'
      BY <3>1 DEF InReach
    <3>. QED  BY <1>1, <3>1, <3>2 DEF Kept, Loaded
  <2>3. CASE stored' = stored /\ damage' = Lost
    <3>1. \A o \in orders' : InReach(o)'
      BY <1>1, <2>1, <2>3 DEF InReach, InStore
    <3>. QED  BY <1>1, <1>2, <2>3, <3>1 DEF Kept, Loaded
  <2>. QED  BY <1>1, <2>2, <2>3
<1>. QED  BY <1>1, <1>2, <1>3, <1>4, SameLog

\* A run that stands down or is killed leaves the log and the orders as they are, ...
LEMMA EndStep == IInv /\ (StandDown \/ Crash) => IInv'
<1> SUFFICES ASSUME IInv, StandDown \/ Crash PROVE IInv'
  OBVIOUS
<1> USE DEF IInv
<1>1. /\ UNCHANGED <<sessions, night, late, stored, log, orders>>
      /\ phase' \in {"ended", "done"} /\ queue' \in Seq(Buys \cup Exits)
      /\ \/ /\ bars' = bars /\ damage' = damage
            /\ phase = "loaded" /\ phase' = "ended"
         \/ bars' = NoBars /\ damage' = Lost /\ phase' = "done"
  <2>1. queue \in Seq(Buys \cup Exits) /\ <<>> \in Seq(Buys \cup Exits)
    BY DEF Typed
  <2>2. CASE StandDown
    BY <2>1, <2>2 DEF StandDown
  <2>3. CASE Crash
    BY <2>1, <2>3 DEF Crash
  <2>. QED  BY <2>2, <2>3
<1>2. /\ damage' \in {"none", "lost", "short"}
      /\ damage' # "short" => damage # "short"
      /\ damage' = Lost => damage' # "none"
  BY <1>1 DEF Lost
<1>3. Typed' /\ NewestFirst'
  <2>1. Closed' = Closed /\ NoBars \in [Symbols -> SUBSET Closed]
    BY <1>1 DEF Closed, NoBars
  <2>2. bars' \in [Symbols -> SUBSET Closed]
    BY <1>1, <2>1 DEF Typed
  <2>. QED  BY <1>1, <2>1, <2>2 DEF Typed, NewestFirst, WallDate
<1>4. Kept'
  <2>1. \A o : (InReach(o)' <=> InReach(o)) /\ (InStore(o)' <=> InStore(o))
    BY <1>1 DEF InReach, InStore
  <2>2. CASE bars' = bars /\ damage' = damage /\ phase = "loaded" /\ phase' = "ended"
    BY <1>1, <2>1, <2>2 DEF Kept, Loaded
  <2>3. CASE damage' = Lost /\ phase' = "done"
    BY <1>1, <1>2, <2>1, <2>3 DEF Kept, Loaded
  <2>. QED  BY <1>1, <2>2, <2>3
<1>. QED  BY <1>1, <1>2, <1>3, <1>4, SameLog

\* ... and so does the time that passes.
LEMMA TickStep == IInv /\ Tick => IInv'
<1> SUFFICES ASSUME IInv, Tick PROVE IInv'
  OBVIOUS
<1> USE DEF IInv
<1>1. /\ UNCHANGED <<sessions, stored, bars, log, queue, orders, damage>> /\ phase' = "idle"
      /\ phase \in {"idle", "done"}
  BY DEF Tick
<1>2. /\ night' \in Nat /\ late' \in BOOLEAN /\ night <= night' /\ night \in Nat
      /\ WallDate \in Nat /\ WallDate' \in Nat /\ WallDate <= WallDate'
  BY DEF Tick, Typed, WallDate
<1>3. Typed'
  <2>1. Closed \subseteq Closed'
    <3>1. \A d \in sessions : d < night => d < night'
      BY <1>2 DEF Typed
    <3>. QED  BY <1>1, <3>1 DEF Closed
  <2>2. stored' \in [Symbols -> SUBSET Closed'] /\ bars' \in [Symbols -> SUBSET Closed']
    BY <1>1, <2>1 DEF Typed
  <2>. QED  BY <1>1, <1>2, <2>1, <2>2 DEF Typed
<1>4. NewestFirst'
  <2>1. \A i \in 1..Len(log) : log[i].date \in Nat
    <3>1. \A i \in 1..Len(log) : log[i] \in Entry
      BY DEF Typed
    <3>. QED  BY <3>1 DEF Entry
  <2>. QED  BY <1>1, <1>2, <2>1 DEF NewestFirst
<1>5. Kept'
  <2>1. \A o : (InReach(o)' <=> InReach(o)) /\ (InStore(o)' <=> InStore(o))
    BY <1>1 DEF InReach, InStore
  <2>. QED  BY <1>1, <2>1 DEF Kept, Loaded
<1>. QED  BY <1>1, <1>3, <1>4, <1>5, SameLog

\* What has been remembered stays so when newer decisions come on top.
LEMMA LoggedRemembers ==
  ASSUME Typed, NewestFirst, NEW signals \in Seq(Buys \cup Exits), NEW ok, NEW others \in Nat,
         log' = Logged(signals, ok, others)
  PROVE  /\ log' \in Seq(Entry)
         /\ \A i \in 1..Len(log') : log'[i].date <= WallDate
         /\ \A i, j \in 1..Len(log') : i < j => log'[j].date <= log'[i].date
         /\ \A d \in Nat : d <= WallDate /\ Remembers(d) => Remembers(d)'
         /\ \A d \in Nat : d <= WallDate /\ (\E k \in 1..Len(signals) : signals[k] = "dislocation")
              => Remembers(d)'
<1>0. PICK n : n = Len(signals) + others
  OBVIOUS
<1>1. /\ log' \in Seq(Entry) /\ Len(log') \in Nat /\ n \in Nat /\ Len(log) \in Nat
      /\ n + Len(log) > 0 => Len(log') > 0
      /\ \A i \in 1..Len(log') : i <= n => log'[i].date = WallDate
      /\ \A i \in 1..Len(log') : ~(i <= n) => i - n \in 1..Len(log) /\ log'[i] = log[i - n]
      /\ \A i \in 1..Len(log') :
           i > others /\ i <= n => log'[i].mode = EntryOf(signals[n + 1 - i], ok[n + 1 - i])
      /\ Len(log') <= n + Len(log)
  <2>1. n \in Nat /\ Len(log) \in Nat
    BY <1>0 DEF Typed
  <2>2. log' \in Seq(Entry) => Len(log') \in Nat
    OBVIOUS
  <2>3. PICK new : new = log'
    OBVIOUS
  <2>4. OnTop(new, signals, ok, others, n)
    BY <1>0, <2>3, LoggedIs
  <2>. QED  BY <2>1, <2>2, <2>3, <2>4 DEF OnTop
<1>2. /\ WallDate \in Nat
      /\ \A i \in 1..Len(log) : log[i] \in Entry /\ log[i].date \in Nat
      /\ \A i \in 1..Len(log') : log'[i] \in Entry /\ log'[i].date \in Nat
  <2>1. WallDate \in Nat
    BY DEF Typed, WallDate
  <2>2. /\ \A i \in 1..Len(log) : log[i] \in Entry
        /\ \A i \in 1..Len(log') : log'[i] \in Entry
    BY <1>1 DEF Typed
  <2>. QED  BY <2>1, <2>2 DEF Entry
<1>3. \A i \in 1..Len(log') : log'[i].date <= WallDate
  <2>1. TAKE i \in 1..Len(log')
  <2>2. CASE i <= n
    BY <1>1, <1>2, <2>2
  <2>3. CASE ~(i <= n)
    <3>1. i - n \in 1..Len(log) /\ log'[i] = log[i - n]
      BY <1>1, <2>3
    <3>. QED  BY <3>1 DEF NewestFirst
  <2>. QED  BY <2>2, <2>3
<1>4. ASSUME NEW i \in 1..Len(log'), NEW j \in 1..Len(log'), i < j
      PROVE  log'[j].date <= log'[i].date
  <2>1. CASE i <= n
    BY <1>1, <1>2, <1>3, <2>1
  <2>2. CASE ~(i <= n)
    <3>1. /\ ~(j <= n) /\ i - n \in 1..Len(log) /\ j - n \in 1..Len(log) /\ i - n < j - n
          /\ log'[i] = log[i - n] /\ log'[j] = log[j - n]
      BY <1>1, <1>4, <2>2
    <3>. QED  BY <3>1 DEF NewestFirst
  <2>. QED  BY <2>1, <2>2
<1>5. ASSUME NEW d \in Nat, d <= WallDate, Remembers(d) PROVE Remembers(d)'
  <2>1. CASE \E i \in 1..Len(log) : log[i].mode = "dislocation" /\ d <= log[i].date
    <3>1. PICK i \in 1..Len(log) : log[i].mode = "dislocation" /\ d <= log[i].date
      BY <2>1
    <3>2. CASE n + i <= Len(log')
      <4>1. n + i \in 1..Len(log') /\ ~(n + i <= n) /\ (n + i) - n = i
        BY <1>1, <3>2
      <4>2. log'[n + i] = log[i]
        BY <1>1, <4>1
      <4>. QED  BY <3>1, <4>1, <4>2 DEF Remembers
    <3>3. CASE ~(n + i <= Len(log'))
      <4>1. \A k \in 1..Len(log') : d <= log'[k].date
        <5>1. TAKE k \in 1..Len(log')
        <5>2. CASE k <= n
          BY <1>1, <1>5, <5>2
        <5>3. CASE ~(k <= n)
          <6>1. k - n \in 1..Len(log) /\ log'[k] = log[k - n] /\ k - n < i
            BY <1>1, <3>3, <5>3
          <6>2. log[i].date <= log[k - n].date
            BY <6>1 DEF NewestFirst
          <6>. QED  BY <1>2, <3>1, <6>1, <6>2
        <5>. QED  BY <5>2, <5>3
      <4>2. log' # <<>>
        BY <1>1
      <4>. QED  BY <4>1, <4>2 DEF Remembers
    <3>. QED  BY <3>2, <3>3
  <2>2. CASE log # <<>> /\ \A i \in 1..Len(log) : d <= log[i].date
    <3>1. \A k \in 1..Len(log') : d <= log'[k].date
      BY <1>1, <1>5, <2>2
    <3>2. Len(log) > 0
      BY <2>2, <1>1 DEF Typed
    <3>3. log' # <<>>
      BY <1>1, <3>2
    <3>. QED  BY <3>1, <3>3 DEF Remembers
  <2>. QED  BY <1>5, <2>1, <2>2 DEF Remembers
<1>6. ASSUME NEW d \in Nat, d <= WallDate, NEW k \in 1..Len(signals), signals[k] = "dislocation"
      PROVE  Remembers(d)'
  <2>1. n = Len(signals) + others /\ Len(signals) \in Nat
    BY <1>0
  <2>2. CASE n + 1 - k <= Len(log')
    <3>1. n + 1 - k \in 1..Len(log') /\ n + 1 - k > others /\ n + 1 - k <= n
          /\ n + 1 - (n + 1 - k) = k
      BY <2>1, <2>2
    <3>2. log'[n + 1 - k].mode = EntryOf(signals[k], ok[k]) /\ log'[n + 1 - k].date = WallDate
      BY <1>1, <3>1
    <3>3. log'[n + 1 - k].mode = "dislocation"
      BY <1>6, <3>2 DEF EntryOf
    <3>. QED  BY <1>6, <3>1, <3>2, <3>3 DEF Remembers
  <2>3. CASE ~(n + 1 - k <= Len(log'))
    <3>1. \A i \in 1..Len(log') : i <= n
      BY <1>1, <2>1, <2>3
    <3>2. \A i \in 1..Len(log') : d <= log'[i].date
      BY <1>1, <1>6, <3>1
    <3>3. log' # <<>>
      BY <1>1, <2>1
    <3>. QED  BY <3>2, <3>3 DEF Remembers
  <2>. QED  BY <2>2, <2>3
<1>. QED  BY <1>1, <1>3, <1>4, <1>5, <1>6

\* A dislocation buy that the log lets through comes a cooldown after every earlier one.
LEMMA CooledDownMeansSpaced ==
  ASSUME Typed, NEW t \in Nat, t = Today, CooledDown, NEW d \in Nat, Remembers(d)
  PROVE  t - d >= DipCooldown
<1>1. DipCooldown \in Nat /\ DOMAIN log = 1..Len(log) /\ \A i \in 1..Len(log) : log[i].date \in Nat
  <2>1. \A i \in 1..Len(log) : log[i] \in Entry
    BY DEF Typed
  <2>2. \A i \in 1..Len(log) : log[i].date \in Nat
    BY <2>1 DEF Entry
  <2>. QED  BY <2>2, ParamsAssumption DEF Typed
<1>2. PICK i \in 1..Len(log) : t - log[i].date >= DipCooldown /\ d <= log[i].date
  <2>1. CASE \E i \in 1..Len(log) : log[i].mode = "dislocation" /\ d <= log[i].date
    BY <1>1, <2>1 DEF CooledDown, Recent
  <2>2. CASE log # <<>> /\ \A i \in 1..Len(log) : d <= log[i].date
    <3>1. \E i \in 1..Len(log) : t - log[i].date >= DipCooldown
      <4>1. CASE Recent("dislocation") = {}
        BY <1>1, <2>2, <4>1 DEF CooledDown
      <4>2. CASE Recent("dislocation") # {}
        BY <1>1, <4>2 DEF CooledDown, Recent
      <4>. QED  BY <4>1, <4>2
    <3>. QED  BY <2>2, <3>1
  <2>. QED  BY <2>1, <2>2 DEF Remembers
<1>. QED  BY <1>1, <1>2

\* A decision is for the session of the benchmark's newest bar, with the cooldown kept.
LEMMA DecideStep == IInv /\ Decide => IInv'
<1> SUFFICES ASSUME IInv, Decide PROVE IInv'
  OBVIOUS
<1> USE DEF IInv
<1>0. PICK r \in Reading, others \in Nat :
        \E ok : log' = Logged(Signals(r), ok, others) /\ queue' = Approved(Signals(r), ok)
  BY DEF Decide
<1>1. PICK ok : log' = Logged(Signals(r), ok, others) /\ queue' = Approved(Signals(r), ok)
  BY <1>0
<1>2. /\ UNCHANGED <<sessions, night, late, stored, bars, orders, damage>>
      /\ phase = "loaded" /\ phase' \in {"sending", "ended"}
      /\ phase' = "sending" => queue' # <<>>
      /\ bars[Benchmark] # {} /\ ~(Today < SessionDate)
  BY DEF Decide, BenchmarkBehind
<1>3. PICK s : s = Signals(r)
  OBVIOUS
<1>4. s \in Seq(Allowed) /\ s \in Seq(Buys \cup Exits)
  <2>1. Allowed \subseteq Buys \cup Exits
    BY DEF Allowed
  <2>2. s \in Seq(Allowed)
    BY <1>3, SignalsAreAllowed
  <2>. QED  BY <2>1, <2>2
<1>5. /\ queue' \in Seq(Buys \cup Exits)
      /\ \A i \in 1..Len(queue') : queue'[i] \in Allowed /\ \E k \in 1..Len(s) : queue'[i] = s[k]
  <2> DEFINE S == {s[k] : k \in 1..Len(s)}
  <2>1. s \in Seq(S)
    BY <1>4
  <2>2. \A m \in S : m \in Allowed /\ m \in Buys \cup Exits
    BY <1>4
  <2> HIDE DEF S
  <2>3. queue' \in Seq(S)
    BY <1>1, <1>3, <2>1, ApprovedKeeps DEF Drawn
  <2>4. \A i \in 1..Len(queue') : queue'[i] \in S
    BY <2>3
  <2>5. queue' \in Seq(Buys \cup Exits)
    BY <2>2, <2>3
  <2>6. \A m \in S : \E k \in 1..Len(s) : m = s[k]
    BY DEF S
  <2>. QED  BY <2>2, <2>4, <2>5, <2>6
<1>6. /\ Today \in Nat /\ SessionDate \in Nat /\ SessionDate = Today /\ SessionDate < night
      /\ \A d \in bars[Benchmark] : d \in Nat
      /\ WallDate \in Nat /\ night <= WallDate /\ night \in Nat /\ WallDate' = WallDate
      /\ \A d \in bars[Benchmark] : d < night
  <2>1. Benchmark \in Symbols
    BY DEF Symbols
  <2>2. WallDate \in Nat /\ night <= WallDate /\ night \in Nat /\ WallDate' = WallDate
    BY <1>2 DEF Typed, WallDate
  <2>3. /\ Today \in Nat /\ SessionDate \in Nat /\ Today <= SessionDate /\ SessionDate < night
        /\ \A d \in bars[Benchmark] : d \in Nat
    BY <1>2, DaysOfTheRun
  <2>4. SessionDate = Today
    BY <1>2, <2>3
  <2>5. \A d \in bars[Benchmark] : d < night
    BY <2>1 DEF Typed, Closed
  <2>. QED  BY <2>2, <2>3, <2>4, <2>5
<1>7. /\ log' \in Seq(Entry)
      /\ NewestFirst'
      /\ \A d \in Nat : d < night /\ Remembers(d) => Remembers(d)'
      /\ \A d \in Nat : d < night /\ (\E k \in 1..Len(s) : s[k] = "dislocation") => Remembers(d)'
  <2>1. /\ log' \in Seq(Entry)
        /\ \A i \in 1..Len(log') : log'[i].date <= WallDate
        /\ \A i, j \in 1..Len(log') : i < j => log'[j].date <= log'[i].date
        /\ \A d \in Nat : d <= WallDate /\ Remembers(d) => Remembers(d)'
        /\ \A d \in Nat : d <= WallDate /\ (\E k \in 1..Len(s) : s[k] = "dislocation")
             => Remembers(d)'
    BY <1>1, <1>3, <1>4, LoggedRemembers
  <2>2. NewestFirst'
    BY <1>6, <2>1 DEF NewestFirst
  <2>3. \A d \in Nat : d < night => d <= WallDate
    BY <1>6
  <2>. QED  BY <2>1, <2>2, <2>3
<1>8. Typed' /\ Kept'
  <2>1. Typed'
    BY <1>2, <1>5, <1>7 DEF Typed, Closed
  <2>2. \A o : (InReach(o)' <=> InReach(o)) /\ (InStore(o)' <=> InStore(o))
    BY <1>2 DEF InReach, InStore
  <2>. QED  BY <1>2, <2>1, <2>2 DEF Kept, Loaded
<1>9. SessionDate' = SessionDate /\ Today' = Today /\ (IsRebalanceSession => IsRebalanceSession')
  BY <1>2 DEF SessionDate, Today, IsRebalanceSession
<1>10. SendsForToday'
  <2>1. Queued("weekly")' => IsRebalanceSession
    BY <1>5 DEF Queued, Allowed
  <2>. QED  BY <1>2, <1>6, <1>9, <2>1 DEF SendsForToday
<1>11. DipsAreRemembered'
  <2>1. \A o \in Dips : o.session \in Nat /\ o.session < night /\ Remembers(o.session)
    BY <1>6 DEF Typed, Closed, DipsAreRemembered, Dips
  <2>2. \A o \in Dips : Remembers(o.session)'
    BY <1>7, <2>1
  <2>3. ASSUME Queued("dislocation")'
        PROVE  /\ Remembers(SessionDate)'
               /\ \A o \in Dips : SessionDate - o.session >= DipCooldown
    <3>1. CooledDown /\ \E k \in 1..Len(s) : s[k] = "dislocation"
      BY <1>5, <2>3 DEF Queued, Allowed
    <3>2. \A d \in Nat : d < night => Remembers(d)'
      BY <1>7, <3>1
    <3>3. Remembers(SessionDate)'
      <4>1. \A d \in Nat : d = SessionDate => Remembers(d)'
        BY <1>6, <3>2
      <4>. QED  BY <1>6, <1>9, <4>1 DEF Remembers
    <3>4. \A o \in Dips : SessionDate - o.session >= DipCooldown
      <4>1. TAKE o \in Dips
      <4>2. PICK t \in Nat : t = Today
        BY <1>6
      <4>3. t - o.session >= DipCooldown
        BY <2>1, <3>1, <4>2, CooledDownMeansSpaced
      <4>. QED  BY <1>6, <4>2, <4>3
    <3>. QED  BY <3>3, <3>4
  <2>4. Dips' = Dips /\ \A o \in Dips : Remembers(o.session)'
    BY <1>2, <2>2 DEF Dips
  <2>. QED  BY <1>9, <2>3, <2>4 DEF DipsAreRemembered
<1>12. OneBuyDayPerWeek' /\ DislocationsAreSpaced'
  BY <1>2 DEF OneBuyDayPerWeek, DislocationsAreSpaced
<1>. QED  BY <1>2, <1>7, <1>8, <1>10, <1>11, <1>12

\* What is sent was decided, under the session it was decided for.
LEMMA SendStep == IInv /\ Send => IInv'
<1> SUFFICES ASSUME IInv, Send PROVE IInv'
  OBVIOUS
<1> USE DEF IInv
<1> DEFINE new == [session |-> SessionDate, mode |-> Head(queue), night |-> night]
<1>1. /\ UNCHANGED <<sessions, night, late, stored, bars, log, damage>>
      /\ phase' = "sending" => queue' # <<>>
      /\ phase = "sending" /\ phase' \in {"sending", "ended"} /\ queue' = Tail(queue)
      /\ orders' = orders \/ orders' = orders \cup {new}
  BY DEF Send
<1>2. /\ queue # <<>> /\ bars[Benchmark] # {} /\ SessionDate = Today
      /\ Queued("weekly") => IsRebalanceSession
  BY <1>1 DEF SendsForToday
<1>3. /\ queue' \in Seq(Buys \cup Exits) /\ \A m : Queued(m)' => Queued(m)
      /\ Queued(Head(queue))
  <2>1. queue \in Seq(Buys \cup Exits) /\ queue # <<>>
    BY <1>2 DEF Typed
  <2>2. /\ Len(queue) \in Nat \ {0} /\ Tail(queue) \in Seq(Buys \cup Exits)
        /\ Len(Tail(queue)) = Len(queue) - 1 /\ Head(queue) = queue[1]
        /\ \A i \in 1..Len(queue) - 1 : Tail(queue)[i] = queue[i + 1]
    BY <2>1
  <2>3. \A i \in 1..Len(queue) - 1 : i + 1 \in 1..Len(queue)
    BY <2>2
  <2>. QED  BY <1>1, <2>2, <2>3 DEF Queued
<1>4. /\ Today \in bars[Benchmark] /\ Today \in Nat
      /\ \A d \in bars[Benchmark] : d \in Nat /\ d <= Today
  BY <1>2, DaysOfTheRun
<1>5. Typed'
  <2>1. Today \in Closed /\ Closed' = Closed
    BY <1>1, <1>4 DEF Typed, Closed, Symbols
  <2>. QED  BY <1>1, <1>2, <1>3, <2>1 DEF Typed
<1>6. SessionDate' = SessionDate /\ Today' = Today /\ (IsRebalanceSession => IsRebalanceSession')
  BY <1>1 DEF SessionDate, Today, IsRebalanceSession
<1>7. SendsForToday'
  BY <1>1, <1>2, <1>3, <1>6 DEF SendsForToday
<1>8. NewestFirst'
  BY <1>1 DEF NewestFirst, WallDate
<1>9. \A d : Remembers(d)' <=> Remembers(d)
  BY <1>1 DEF Remembers
<1>10. new.session = Today /\ new.mode = Head(queue)
  BY <1>2
<1>11. damage # "short" => \A o \in orders : o.session \in bars[Benchmark]
  BY <1>1 DEF Kept, Loaded
<1> HIDE DEF new
<1>15. Kept'
  <2>. SUFFICES ASSUME damage # "short" PROVE Kept'
    BY <1>1 DEF Kept
  <2>1. \A o : (InReach(o)' <=> InReach(o))
    BY <1>1 DEF InReach, InStore
  <2>2. /\ \A o \in orders : InReach(o)
        /\ stored[Benchmark] \subseteq bars[Benchmark]
    BY <1>1 DEF Kept, Loaded
  <2>3. InReach(new)
    <3>1. \A d \in stored[Benchmark] : d = Today \/ d < Today
      BY <1>4, <2>2
    <3>. QED  BY <1>10, <3>1 DEF InReach, InStore
  <2>4. \A o \in orders' : InReach(o) /\ o.session \in bars[Benchmark]
    BY <1>1, <1>4, <1>10, <1>11, <2>2, <2>3
  <2>. QED  BY <1>1, <2>1, <2>2, <2>4 DEF Kept, Loaded
<1>12. DipsAreRemembered'
  <2>1. \A o \in Dips' : o \in Dips \/ (o = new /\ Queued("dislocation"))
    BY <1>1, <1>3, <1>10 DEF Dips
  <2>2. \A o \in Dips' : Remembers(o.session)
    BY <1>1, <1>2, <1>10, <2>1 DEF DipsAreRemembered
  <2>3. ASSUME Queued("dislocation")
        PROVE  /\ Remembers(SessionDate)
               /\ \A o \in Dips' : o.session # SessionDate => SessionDate - o.session >= DipCooldown
    BY <1>1, <1>2, <1>4, <1>10, <2>1, <2>3 DEF DipsAreRemembered
  <2>. QED  BY <1>3, <1>6, <1>9, <2>2, <2>3 DEF DipsAreRemembered
<1>13. OneBuyDayPerWeek'
  <2>1. ASSUME damage # "short", NEW o \in orders, new.mode = "weekly",
               Anchor(o.session) = Anchor(new.session)
        PROVE  o.session = new.session
    BY <1>2, <1>3, <1>10, <1>11, <2>1, FirstOfTheWeek
  <2>. QED  BY <1>1, <2>1 DEF OneBuyDayPerWeek
<1>14. DislocationsAreSpaced'
  <2>1. ASSUME NEW o \in orders, new.mode = "dislocation", o.mode = "dislocation"
        PROVE  /\ o.session < new.session => new.session - o.session >= DipCooldown
               /\ ~(new.session < o.session)
    <3>1. o.session \in Nat /\ DipCooldown \in Nat
      BY ParamsAssumption DEF Typed, Closed
    <3>2. o.session # SessionDate => SessionDate - o.session >= DipCooldown
      BY <1>1, <1>3, <1>10, <2>1 DEF DipsAreRemembered, Dips
    <3>. QED  BY <1>2, <1>4, <1>10, <3>1, <3>2
  <2>2. ~(new.session < new.session)
    BY <1>4, <1>10
  <2>. QED  BY <1>1, <2>1, <2>2 DEF DislocationsAreSpaced
<1>. QED  BY <1>1, <1>5, <1>7, <1>8, <1>12, <1>13, <1>14, <1>15

\* At first nothing has been ordered and nothing logged.
LEMMA InductiveInit == Init => IInv
<1> SUFFICES ASSUME Init PROVE IInv
  OBVIOUS
<1>1. sessions \subseteq Nat /\ night \in Nat
  BY DaysAssumption DEF Init
<1>2. Typed
  <2>1. stored \in [Symbols -> SUBSET Closed] /\ bars \in [Symbols -> SUBSET Closed]
    <3>1. /\ stored = [s \in Symbols |-> {d \in sessions : d < FirstNight - 1}]
          /\ bars = [s \in Symbols |-> {}] /\ night = FirstNight
      BY DEF Init, NoBars
    <3>2. \A d \in sessions : d < FirstNight - 1 => d < FirstNight
      BY <1>1, <3>1
    <3>3. {d \in sessions : d < FirstNight - 1} \subseteq Closed
      BY <3>1, <3>2 DEF Closed
    <3>. QED  BY <3>1, <3>3
  <2>2. log = <<>> /\ queue = <<>> /\ orders = {} /\ late = FALSE
    BY DEF Init
  <2>3. log \in Seq(Entry) /\ queue \in Seq(Buys \cup Exits)
    BY <2>2
  <2>. QED  BY <1>1, <2>1, <2>2, <2>3 DEF Typed
<1>3. Len(log) = 0 /\ orders = {} /\ phase = "idle" /\ damage = "none"
  BY DEF Init
<1>. QED
  BY <1>2, <1>3 DEF IInv, Kept, Loaded, SendsForToday, NewestFirst, DipsAreRemembered, Dips,
                    OneBuyDayPerWeek, DislocationsAreSpaced

\* Every step preserves the invariant.
LEMMA InductiveStep == IInv /\ [Next]_vars => IInv'
<1> SUFFICES ASSUME IInv, [Next]_vars PROVE IInv'
  OBVIOUS
<1>1. CASE UNCHANGED vars
  <2>1. UNCHANGED <<sessions, night, late, phase, stored, bars, log, queue, orders, damage>>
    BY <1>1 DEF vars
  <2>2. /\ Today' = Today /\ WallDate' = WallDate /\ SessionDate' = SessionDate
        /\ IsRebalanceSession' <=> IsRebalanceSession
        /\ \A m : Queued(m)' <=> Queued(m)
    BY <2>1 DEF Today, WallDate, SessionDate, IsRebalanceSession, Queued
  <2>3. Typed' /\ Kept'
    BY <2>1 DEF IInv, Typed, Closed, Kept, InReach, InStore
  <2>4. SendsForToday' /\ NewestFirst'
    BY <2>1, <2>2 DEF IInv, SendsForToday, NewestFirst
  <2>5. DipsAreRemembered'
    BY <2>1, <2>2 DEF IInv, DipsAreRemembered, Dips, Remembers
  <2>6. OneBuyDayPerWeek' /\ DislocationsAreSpaced'
    BY <2>1 DEF IInv, OneBuyDayPerWeek, DislocationsAreSpaced
  <2>. QED  BY <2>1, <2>3, <2>4, <2>5, <2>6 DEF IInv
<1>. QED
  BY <1>1, DownloadStep, LoadStep, UploadStep, EndStep, DecideStep, SendStep, TickStep DEF Next

-----------------------------------------------------------------------------
(* Sales.  A rule may sell again only when its last sale has left the log, *)
(* or is older than the cooldown, while the shares still look held: what   *)
(* keeps it from that is the calendar, and how far back a run reads.       *)

Between(C, a, b) == {d \in C : a < d /\ d < b}
After(C, a, t) == {d \in C : a < d /\ d <= t}

\* params.exit_cooldown_days covers the settlement it is there to wait for.
SettledByCooldown ==
  \A C \in Calendars, a \in Nat : \A t \in C :
    t - a >= ExitCooldown => Cardinality(After(C, a, t)) >= Lag

\* The market never closes for so long that a sale takes more than D days to settle.
SettledInDays(D) ==
  \A C \in Calendars, a \in Nat, n \in Nat :
    FirstNight <= a /\ n <= LastNight + 2 /\ n - a >= D => Cardinality(Between(C, a, n)) >= Lag

\* recent_signals(limit) reaches over what the runs of as many days decide: two runs a
\* day, of at most an exit, a rotation and a buy each.
WindowReaches(D) == Window >= 6 * D + MaxNoise

\* How many decisions may have been logged since the runs of night a began.
Since(a) == 6 * (night - a) + (IF late THEN 3 ELSE 0)
            + (IF phase \in {"idle", "ready", "loaded"} THEN 0 ELSE 3) + noise

\* An exit decided in that night is among them.
LoggedSince(mode, a) ==
  \E i \in 1..Len(log) : log[i].mode = mode /\ a <= log[i].date /\ i <= Since(a)

\* Nights and other decisions are within the behaviour's bounds.
DaysTyped ==
  /\ sessions \in Calendars
  /\ FirstNight <= night /\ (night = FirstNight \/ night <= LastNight + 2)
  /\ noise \in Nat /\ noise <= MaxNoise
  /\ \A o \in Sales : o.night \in Nat /\ FirstNight <= o.night /\ o.night <= night

\* Every rule has sold at most once ...
SoldOnce == \A o, p \in Sales : o.mode = p.mode => o = p

\* ... and the log shows it until the sale has settled, ...
SalesAreLogged(D) == \A o \in Sales : night - o.night < D => LoggedSince(o.mode, o.night)

\* ... as it shows the sale that is about to be sent.
QueuedSales ==
  phase = "sending" => \A i \in 1..Len(queue) : queue[i] \in Exits =>
    /\ LoggedSince(queue[i], night)
    /\ \A o \in Sales : o.mode # queue[i]
    /\ \A j \in 1..Len(queue) : queue[j] = queue[i] => j = i

SInv(D) == DaysTyped /\ SoldOnce /\ SalesAreLogged(D) /\ QueuedSales

\* Steps that log nothing, sell nothing and at most let time pass.
LEMMA QuietSales ==
  ASSUME NEW D \in Nat, IInv, SInv(D), DaysTyped', UNCHANGED <<log, orders>>, phase' # "sending",
         night' \in Nat, night <= night',
         \A a \in Nat : Since(a) \in Int /\ Since(a)' \in Int /\ Since(a) <= Since(a)'
  PROVE  SInv(D)'
<1>1. Sales' = Sales
  BY DEF Sales
<1>2. SalesAreLogged(D)'
  <2>1. ASSUME NEW o \in Sales, night' - o.night < D PROVE LoggedSince(o.mode, o.night)'
    <3>1. night \in Nat
      BY DEF IInv, Typed
    <3>2. PICK a \in Nat : a = o.night
      BY DEF SInv, DaysTyped
    <3>3. night - a < D
      BY <2>1, <3>1, <3>2
    <3>4. LoggedSince(o.mode, a)
      BY <3>2, <3>3 DEF SInv, SalesAreLogged
    <3>5. PICK i \in 1..Len(log) : log[i].mode = o.mode /\ a <= log[i].date /\ i <= Since(a)
      BY <3>4 DEF LoggedSince
    <3>6. i <= Since(a)'
      <4>1. i \in Int /\ Since(a) \in Int /\ Since(a)' \in Int /\ Since(a) <= Since(a)'
        OBVIOUS
      <4>. QED  BY <3>5, <4>1
    <3>7. LoggedSince(o.mode, a)'
      BY <3>5, <3>6 DEF LoggedSince
    <3>. QED  BY <3>2, <3>7
  <2>. QED  BY <1>1, <2>1 DEF SalesAreLogged
<1>. QED
  BY <1>1, <1>2 DEF SInv, SoldOnce, QueuedSales

\* A load, a run that ends, and the time until the next one.
LEMMA QuietStep ==
  ASSUME NEW D \in Nat, IInv, SInv(D),
         Download \/ Load \/ Upload \/ StandDown \/ Crash \/ Tick
  PROVE  SInv(D)'
<1>1. /\ night \in Nat /\ late \in BOOLEAN /\ noise \in Nat
      /\ LastNight \in Nat /\ FirstNight \in Nat
      /\ \A o \in Sales : o.night \in Nat /\ FirstNight <= o.night /\ o.night <= night
  BY DaysAssumption DEF IInv, Typed, SInv, DaysTyped
<1>2. /\ UNCHANGED <<sessions, log, orders, noise>> /\ phase' # "sending"
      /\ night' \in Nat /\ night <= night' /\ (night' = night \/ night' <= LastNight + 2)
  <2>1. CASE Download
    BY <1>1, <2>1 DEF Download
  <2>2. CASE Load
    BY <1>1, <2>2 DEF Load
  <2>3. CASE Upload
    BY <1>1, <2>3 DEF Upload
  <2>4. CASE StandDown
    BY <1>1, <2>4 DEF StandDown
  <2>5. CASE Crash
    BY <1>1, <2>5 DEF Crash
  <2>6. CASE Tick
    BY <1>1, <2>6 DEF Tick
  <2>. QED  BY <2>1, <2>2, <2>3, <2>4, <2>5, <2>6
<1>3. Sales' = Sales
  BY <1>2 DEF Sales
<1>4. DaysTyped'
  BY <1>1, <1>2, <1>3 DEF SInv, DaysTyped
<1>5. ASSUME NEW a \in Nat
      PROVE  Since(a) \in Int /\ Since(a)' \in Int /\ Since(a) <= Since(a)'
  <2>1. Since(a) \in Int /\ Since(a)' \in Int
    BY <1>1, <1>2 DEF Since
  <2>2. CASE Download \/ Load \/ Upload
    BY <1>1, <1>2, <2>2 DEF Download, Load, Upload, Since
  <2>3. CASE StandDown
    BY <1>1, <1>2, <2>3 DEF StandDown, Since
  <2>4. CASE Crash
    BY <1>1, <1>2, <2>4 DEF Crash, Since
  <2>5. CASE Tick
    <3>1. phase' = "idle" /\ noise' = noise /\ late' = ~late
      BY <1>2, <2>5 DEF Tick
    <3>2. CASE late
      <4>1. night' = night + 3 \/ night' = night + 1
        BY <2>5, <3>2 DEF Tick
      <4>2. ~late'
        BY <3>1, <3>2
      <4>. QED  BY <1>1, <3>1, <3>2, <4>1, <4>2 DEF Since
    <3>3. CASE ~late
      <4>1. night' = night
        BY <2>5, <3>3 DEF Tick
      <4>2. late'
        BY <3>1, <3>3
      <4>. QED  BY <1>1, <3>1, <3>3, <4>1, <4>2 DEF Since
    <3>. QED  BY <3>2, <3>3
  <2>. QED  BY <2>1, <2>2, <2>3, <2>4, <2>5
<1>. QED  BY <1>2, <1>4, <1>5, QuietSales

\* A rule that sells has not sold before: its sale would have settled, or be in the log.
LEMMA NotSoldBefore ==
  ASSUME NEW D \in Nat \ {0}, SettledByCooldown, SettledInDays(D), IInv, SInv(D),
         bars[Benchmark] # {}, NEW mode \in Exits, Held, ~InFlight(mode), NEW o \in Sales
  PROVE  o.mode # mode
<1> SUFFICES ASSUME o.mode = mode PROVE FALSE
  OBVIOUS
<1>1. /\ night \in Nat /\ o.night \in Nat /\ FirstNight <= o.night /\ o.night <= night
      /\ Lag \in Nat /\ ExitCooldown \in Nat /\ LastNight \in Nat /\ D \in Nat \ {0}
      /\ sessions \in Calendars /\ sessions \subseteq Nat
  BY DaysAssumption, ParamsAssumption DEF IInv, Typed, SInv, DaysTyped
<1>2. PICK B : B = Between(sessions, o.night, night)
  OBVIOUS
<1>3. IsFiniteSet(B) /\ ~(Cardinality(B) >= Lag)
  <2>1. B \subseteq 0..night
    <3>1. \A d \in B : d \in sessions /\ d < night
      BY <1>2 DEF Between
    <3>2. \A d \in sessions : d \in Nat
      BY DEF IInv, Typed
    <3>3. \A d \in B : d \in Nat /\ d <= night
      <4>1. TAKE d \in B
      <4>2. d \in Nat /\ night \in Nat /\ d < night
        BY <1>1, <3>1, <3>2
      <4>. QED  BY <4>2
    <3>. QED  BY <1>1, <3>3
  <2>2. IsFiniteSet(B)
    <3>1. IsFiniteSet(0..night)
      BY <1>1, FS_Interval
    <3>. QED  BY <2>1, <3>1, FS_Subset
  <2>3. ~Settled(o, night)
    BY DEF Held
  <2>. QED  BY <1>2, <2>2, <2>3 DEF Settled, Between
<1>4. night - o.night < D
  <2>1. CASE night = FirstNight
    <3>1. night - o.night = 0
      BY <1>1, <2>1
    <3>. QED  BY <1>1, <3>1
  <2>2. CASE night <= LastNight + 2
    BY <1>1, <1>2, <1>3, <2>2 DEF SettledInDays
  <2>. QED  BY <2>1, <2>2 DEF SInv, DaysTyped
<1>5. PICK i \in 1..Len(log) : log[i].mode = mode /\ o.night <= log[i].date
  BY <1>4 DEF SInv, SalesAreLogged, LoggedSince
<1>6. log[i].date \in Nat /\ i \in DOMAIN log
  <2>1. log[i] \in Entry /\ i \in DOMAIN log
    BY DEF IInv, Typed
  <2>. QED  BY <2>1 DEF Entry
<1>7. PICK t : t = Today
  OBVIOUS
<1>8. t \in Nat /\ t \in sessions /\ t < night
  <2>1. Today \in bars[Benchmark] /\ Today \in Nat /\ SessionDate \in Nat
        /\ Today <= SessionDate /\ SessionDate < night
    BY DaysOfTheRun DEF IInv
  <2>2. bars[Benchmark] \subseteq Closed
    BY DEF IInv, Typed, Symbols
  <2>. QED  BY <1>1, <1>7, <2>1, <2>2 DEF Closed
<1>9. t - o.night >= ExitCooldown
  <2>1. t - log[i].date >= ExitCooldown
    BY <1>1, <1>5, <1>6, <1>7, <1>8 DEF InFlight, Recent
  <2>. QED  BY <1>1, <1>5, <1>6, <1>8, <2>1
<1> DEFINE A == After(sessions, o.night, t)
<1>10. Cardinality(A) >= Lag
  BY <1>1, <1>8, <1>9 DEF SettledByCooldown
<1>11. A \subseteq B
  <2>1. \A d \in A : d \in sessions /\ o.night < d /\ d <= t
    BY DEF After
  <2>2. \A d \in sessions : d \in Nat
    BY DEF IInv, Typed
  <2>3. \A d \in A : d < night
    <3>1. TAKE d \in A
    <3>2. d \in Nat /\ d <= t /\ t \in Nat /\ t < night /\ night \in Nat
      BY <1>1, <1>8, <2>1, <2>2
    <3>. QED  BY <3>2
  <2> HIDE DEF A
  <2>. QED  BY <1>2, <2>1, <2>3 DEF Between
<1>12. Cardinality(A) \in Nat /\ Cardinality(B) \in Nat /\ Cardinality(A) <= Cardinality(B)
  <2> HIDE DEF A
  <2>. QED  BY <1>3, <1>11, FS_Subset, FS_CardinalityType
<1>. QED  BY <1>1, <1>3, <1>10, <1>12

\* What a decision adds to the log pushes no sale out of it that still settles.
LEMMA DecideSales ==
  ASSUME NEW D \in Nat \ {0}, SettledByCooldown, SettledInDays(D), WindowReaches(D),
         IInv, SInv(D), Decide
  PROVE  SInv(D)'
<1>1. PICK r \in Reading, others \in 0..(MaxNoise - noise) :
        \E ok \in Verdicts(Signals(r)) :
          log' = Logged(Signals(r), ok, others) /\ noise' = noise + others
          /\ queue' = Approved(Signals(r), ok)
  BY DEF Decide
<1>2. PICK s : s = Signals(r)
  OBVIOUS
<1>3. PICK ok \in Verdicts(s) : log' = Logged(s, ok, others) /\ noise' = noise + others
                                /\ queue' = Approved(s, ok)
  BY <1>1, <1>2
<1>4. /\ UNCHANGED <<sessions, night, late, bars, orders>> /\ phase = "loaded"
      /\ phase' \in {"sending", "ended"} /\ bars[Benchmark] # {} /\ Sales' = Sales
  BY DEF Decide, BenchmarkBehind, Sales
<1>5. /\ night \in Nat /\ late \in BOOLEAN /\ noise \in Nat /\ others \in Nat
      /\ noise + others <= MaxNoise /\ MaxNoise \in Nat /\ Window \in Nat /\ Window >= 6 * D + MaxNoise
      /\ \A o \in Sales : o.night \in Nat /\ o.night <= night
      /\ Len(log) \in Nat
  BY ParamsAssumption DEF IInv, Typed, SInv, DaysTyped, WindowReaches
<1>6. s \in Seq(Allowed) /\ Len(s) <= 3 /\ Len(s) \in Nat /\ s \in Seq(Buys \cup Exits)
  <2>1. Allowed \subseteq Buys \cup Exits
    BY DEF Allowed
  <2>2. s \in Seq(Allowed) /\ Len(s) <= 3
    BY <1>2, SignalsAreAllowed
  <2>. QED  BY <2>1, <2>2
<1>7. PICK n \in Nat : n = Len(s) + others
  BY <1>5, <1>6
<1>8. PICK new : new = log'
  OBVIOUS
<1>9. OnTop(new, s, ok, others, n)
  BY <1>3, <1>5, <1>6, <1>7, <1>8, LoggedIs DEF IInv
<1>10. ASSUME NEW a \in Nat, a <= night, night - a < D
       PROVE  /\ Since(a) \in Int /\ Since(a)' \in Int /\ Since(a) + n <= Since(a)'
              /\ n <= Since(a)' /\ Since(a)' <= Window
  BY <1>3, <1>4, <1>5, <1>6, <1>7, <1>10 DEF Since
<1>11. ASSUME NEW a \in Nat, a <= night, night - a < D, NEW mode, LoggedSince(mode, a)
       PROVE  LoggedSince(mode, a)'
  <2>1. PICK i \in 1..Len(log) : log[i].mode = mode /\ a <= log[i].date /\ i <= Since(a)
    BY <1>11 DEF LoggedSince
  <2>2. i + n \in 1..Window /\ i + n <= n + Len(log) /\ i + n <= Since(a)' /\ ~(i + n <= n)
        /\ (i + n) - n = i
    <3>1. PICK x, y : x = Since(a) /\ y = Since(a)'
      OBVIOUS
    <3>2. /\ x \in Int /\ y \in Int /\ x + n <= y /\ y <= Window /\ i <= x
          /\ i \in Nat \ {0} /\ i <= Len(log) /\ Len(log) \in Nat /\ Window \in Nat
      BY <1>5, <1>10, <1>11, <2>1, <3>1
    <3>. QED  BY <3>1, <3>2
  <2>3. i + n \in 1..Len(new)
    BY <1>9, <2>2 DEF OnTop
  <2>4. new[i + n] = log[i]
    BY <1>9, <2>2, <2>3 DEF OnTop
  <2>. QED  BY <1>8, <2>1, <2>2, <2>3, <2>4 DEF LoggedSince
<1>12. ASSUME NEW k \in 1..Len(s), ok[k], s[k] \in Exits
       PROVE  LoggedSince(s[k], night)'
  <2>1. n + 1 - k > others /\ n + 1 - k <= n /\ n + 1 - k \in Nat \ {0} /\ n + 1 - (n + 1 - k) = k
    BY <1>5, <1>6, <1>7
  <2>2. n <= Since(night)' /\ Since(night)' <= Window /\ Since(night)' \in Int
    <3>1. night <= night /\ night - night < D
      BY <1>5
    <3>. QED  BY <1>4, <1>3, <1>5, <1>6, <1>7 DEF Since
  <2>3. n + 1 - k \in 1..Window /\ n + 1 - k <= n + Len(log) /\ n + 1 - k <= Since(night)'
    BY <1>5, <2>1, <2>2
  <2>4. n + 1 - k \in 1..Len(new)
    BY <1>9, <2>1, <2>3 DEF OnTop
  <2>5. new[n + 1 - k].mode = EntryOf(s[k], ok[k]) /\ new[n + 1 - k].date = WallDate
    BY <1>9, <2>1, <2>4 DEF OnTop
  <2>6. EntryOf(s[k], ok[k]) = s[k] /\ night <= WallDate
    <3>1. EntryOf(s[k], ok[k]) = s[k]
      BY <1>12 DEF EntryOf
    <3>2. night <= WallDate
      BY <1>5 DEF WallDate
    <3>. QED  BY <3>1, <3>2
  <2>. QED  BY <1>4, <1>8, <2>3, <2>4, <2>5, <2>6 DEF LoggedSince
<1>13. PICK q : q = queue'
  OBVIOUS
<1>14. Drawn(q, Len(s), Buys \cup Exits, s, ok)
  BY <1>3, <1>6, <1>13, ApprovedKeeps
<1>15. \A i, j \in DOMAIN s :
         i # j /\ ok[i] /\ ok[j] => ~(s[i] \in Exits /\ s[j] \in Exits)
  BY <1>3 DEF Verdicts
<1>16. ASSUME NEW i \in 1..Len(q), q[i] \in Exits
       PROVE  /\ LoggedSince(q[i], night)'
              /\ \A o \in Sales : o.mode # q[i]
              /\ \A j \in 1..Len(q) : q[j] = q[i] => j = i
  <2>1. PICK k \in 1..Len(s) : ok[k] /\ q[i] = s[k]
    BY <1>14 DEF Drawn
  <2>2. Held /\ ~InFlight(q[i])
    <3>1. s[k] \in Allowed
      BY <1>6
    <3>. QED  BY <1>16, <2>1, <3>1 DEF Allowed
  <2>3. \A o \in Sales : o.mode # q[i]
    BY <1>4, <1>16, <2>2, NotSoldBefore
  <2>4. ASSUME NEW j \in 1..Len(q), q[j] = q[i], j # i PROVE FALSE
    <3>1. Len(q) \in Nat
      BY <1>14 DEF Drawn
    <3>2. i < j \/ j < i
      BY <2>4, <3>1
    <3>3. \E a, b \in 1..Len(s) : a # b /\ ok[a] /\ ok[b] /\ s[a] = q[i] /\ s[b] = q[i]
      <4>1. CASE i < j
        <5>1. PICK a, b \in 1..Len(s) : a < b /\ ok[a] /\ ok[b] /\ q[i] = s[a] /\ q[j] = s[b]
          BY <1>14, <4>1 DEF Drawn
        <5>2. a # b
          BY <5>1
        <5>. QED  BY <2>4, <5>1, <5>2
      <4>2. CASE j < i
        <5>1. PICK a, b \in 1..Len(s) : a < b /\ ok[a] /\ ok[b] /\ q[j] = s[a] /\ q[i] = s[b]
          BY <1>14, <4>2 DEF Drawn
        <5>2. a # b
          BY <5>1
        <5>. QED  BY <2>4, <5>1, <5>2
      <4>. QED  BY <3>2, <4>1, <4>2
    <3>4. DOMAIN s = 1..Len(s)
      BY <1>6
    <3>. QED  BY <1>15, <1>16, <3>3, <3>4
  <2>. QED  BY <1>12, <1>16, <2>1, <2>3, <2>4
<1>17. DaysTyped'
  BY <1>3, <1>4, <1>5 DEF SInv, DaysTyped
<1>18. SoldOnce'
  BY <1>4 DEF SInv, SoldOnce
<1>19. SalesAreLogged(D)'
  <2>1. ASSUME NEW o \in Sales, night - o.night < D PROVE LoggedSince(o.mode, o.night)'
    <3>1. PICK a \in Nat : a = o.night /\ a <= night
      BY <1>5
    <3>2. LoggedSince(o.mode, a)
      BY <2>1, <3>1 DEF SInv, SalesAreLogged
    <3>3. LoggedSince(o.mode, a)'
      BY <1>11, <2>1, <3>1, <3>2
    <3>. QED  BY <1>4, <3>1, <3>3 DEF LoggedSince, Since
  <2>. QED  BY <1>4, <2>1 DEF SalesAreLogged
<1>20. QueuedSales'
  BY <1>4, <1>13, <1>16 DEF QueuedSales, LoggedSince, Since
<1>. QED  BY <1>17, <1>18, <1>19, <1>20 DEF SInv

\* The sale that is sent is one that was logged, and the rule's first.
LEMMA SendSales ==
  ASSUME NEW D \in Nat \ {0}, IInv, SInv(D), Send
  PROVE  SInv(D)'
<1> DEFINE new == [session |-> SessionDate, mode |-> Head(queue), night |-> night]
<1>1. /\ UNCHANGED <<sessions, night, late, bars, log, noise>>
      /\ phase = "sending" /\ phase' \in {"sending", "ended"} /\ queue' = Tail(queue)
      /\ orders' = orders \/ orders' = orders \cup {new}
  BY DEF Send
<1>2. /\ queue \in Seq(Buys \cup Exits) /\ queue # <<>> /\ night \in Nat /\ FirstNight \in Nat
  BY <1>1, DaysAssumption DEF IInv, SendsForToday, Typed
<1>3. /\ Len(queue) \in Nat \ {0} /\ Head(queue) = queue[1] /\ 1 \in 1..Len(queue)
      /\ Len(queue') = Len(queue) - 1
      /\ \A i \in 1..Len(queue') : queue'[i] = queue[i + 1] /\ i + 1 \in 1..Len(queue) /\ i + 1 # 1
  BY <1>1, <1>2
<1>4. \A m, a : LoggedSince(m, a)' <=> LoggedSince(m, a)
  <2>1. \A a : Since(a)' = Since(a)
    BY <1>1 DEF Since
  <2>. QED  BY <1>1, <2>1 DEF LoggedSince
<1>5. new.mode = queue[1] /\ new.night = night
  BY <1>3
<1>6. \A i \in 1..Len(queue) : queue[i] \in Exits =>
        /\ LoggedSince(queue[i], night)
        /\ \A o \in Sales : o.mode # queue[i]
        /\ \A j \in 1..Len(queue) : queue[j] = queue[i] => j = i
  BY <1>1 DEF SInv, QueuedSales
<1> HIDE DEF new
<1>7. \A o \in Sales' : o \in Sales \/ (o = new /\ queue[1] \in Exits)
  BY <1>1, <1>5 DEF Sales
<1>8. DaysTyped'
  <2>1. FirstNight <= night
    BY <1>2 DEF SInv, DaysTyped
  <2>. QED  BY <1>1, <1>2, <1>5, <1>7, <2>1 DEF SInv, DaysTyped
<1>9. SoldOnce'
  BY <1>3, <1>5, <1>6, <1>7 DEF SInv, SoldOnce
<1>10. SalesAreLogged(D)'
  <2>1. ASSUME NEW o \in Sales', night - o.night < D PROVE LoggedSince(o.mode, o.night)
    BY <1>3, <1>5, <1>6, <1>7, <2>1 DEF SInv, SalesAreLogged
  <2>. QED  BY <1>1, <1>4, <2>1 DEF SalesAreLogged
<1>11. QueuedSales'
  <2>1. ASSUME NEW i \in 1..Len(queue'), queue'[i] \in Exits
        PROVE  /\ LoggedSince(queue'[i], night)
               /\ \A o \in Sales' : o.mode # queue'[i]
               /\ \A j \in 1..Len(queue') : queue'[j] = queue'[i] => j = i
    <3>1. queue[i + 1] = queue'[i] /\ i + 1 \in 1..Len(queue) /\ i + 1 # 1
      BY <1>3
    <3>2. /\ LoggedSince(queue'[i], night)
          /\ \A o \in Sales : o.mode # queue'[i]
          /\ \A j \in 1..Len(queue) : queue[j] = queue'[i] => j = i + 1
      BY <1>6, <2>1, <3>1
    <3>3. queue[1] # queue'[i]
      BY <1>3, <3>1, <3>2
    <3>4. \A j \in 1..Len(queue') : queue'[j] = queue'[i] => j + 1 = i + 1
      BY <1>3, <3>2
    <3>5. \A j \in 1..Len(queue') : j + 1 = i + 1 => j = i
      OBVIOUS
    <3>. QED  BY <1>5, <1>7, <3>2, <3>3, <3>4, <3>5
  <2>. QED  BY <1>1, <1>4, <2>1 DEF QueuedSales
<1>. QED  BY <1>8, <1>9, <1>10, <1>11 DEF SInv

\* At first nothing has been sold.
LEMMA SalesInit == \A D : Init => SInv(D)
<1> TAKE D
<1> SUFFICES ASSUME Init PROVE SInv(D)
  OBVIOUS
<1>1. Sales = {} /\ phase = "idle"
  BY DEF Init, Sales
<1>2. DaysTyped
  <2>1. Benchmark \in Symbols
    BY DEF Symbols
  <2>. QED  BY <1>1, <2>1, DaysAssumption, ParamsAssumption DEF Init, DaysTyped
<1>. QED  BY <1>1, <1>2 DEF SInv, SoldOnce, SalesAreLogged, QueuedSales

\* Every step keeps the rules to one sale each.
LEMMA SalesStep ==
  ASSUME NEW D \in Nat \ {0}, SettledByCooldown, SettledInDays(D), WindowReaches(D)
  PROVE  IInv /\ SInv(D) /\ [Next]_vars => SInv(D)'
<1> SUFFICES ASSUME IInv, SInv(D), [Next]_vars PROVE SInv(D)'
  OBVIOUS
<1>1. CASE UNCHANGED vars
  <2>1. \A m, a : LoggedSince(m, a)' <=> LoggedSince(m, a)
    BY <1>1 DEF vars, LoggedSince, Since
  <2>2. Sales' = Sales
    BY <1>1 DEF vars, Sales
  <2>. QED
    BY <1>1, <2>1, <2>2 DEF vars, SInv, DaysTyped, SoldOnce, SalesAreLogged, QueuedSales
<1>2. CASE Decide
  BY <1>2, DecideSales
<1>3. CASE Send
  BY <1>3, SendSales
<1>4. CASE Download \/ Load \/ Upload \/ StandDown \/ Crash \/ Tick
  BY <1>4, QuietStep
<1>. QED
  BY <1>1, <1>2, <1>3, <1>4 DEF Next

-----------------------------------------------------------------------------
\* _is_rebalance_session: whatever bars are late, missing or loaded afterwards, a week
\* that has been bought for has its session, which no later one of that week becomes,
\* unless the cache is lost and a fetch of the benchmark then falls short.
THEOREM WeekIsBoughtOnce == Spec => []OneBuyDayPerWeek
<1>1. IInv => OneBuyDayPerWeek
  BY DEF IInv
<1>. QED
  BY <1>1, InductiveInit, InductiveStep, PTL DEF Spec

\* _dislocation_fires: buys for a dislocation keep their cooldown, for any window of
\* the log, since a log that cannot see back far enough holds the next one back.
THEOREM CooldownIsKept == Spec => []DislocationsAreSpaced
<1>1. IInv => DislocationsAreSpaced
  BY DEF IInv
<1>. QED
  BY <1>1, InductiveInit, InductiveStep, PTL DEF Spec

\* _exit_in_flight and _rotation_in_flight: a rule does not sell again while its sale may
\* still be settling, on any calendar on which sales settle within D days and by the
\* cooldown, when a run reads back as far as the decisions of so many days.
THEOREM RulesSellOnce ==
  ASSUME NEW D \in Nat \ {0}, SettledByCooldown, SettledInDays(D), WindowReaches(D)
  PROVE  Spec => []SaleNotRepeated
<1>1. SInv(D) => SaleNotRepeated
  BY DEF SInv, SoldOnce, SaleNotRepeated
<1>2. Init => SInv(D)
  BY SalesInit
<1>3. IInv /\ SInv(D) /\ [Next]_vars => SInv(D)'
  BY SalesStep
<1>. QED
  BY <1>1, <1>2, <1>3, InductiveInit, InductiveStep, PTL DEF Spec
=============================================================================
