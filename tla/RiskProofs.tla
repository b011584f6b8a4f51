------------------------------ MODULE RiskProofs ------------------------------
(***************************************************************************)
(* What src/execution/risk.py keeps.  The gate: for every set of limits,   *)
(* every context and every batch, however long.  The kill switch: for any  *)
(* number of dashboard requests and of runs, in whatever order they look,  *)
(* operate, end and are killed.                                            *)
(***************************************************************************)
EXTENDS RiskGate, KillSwitch, WellFoundedInduction, TLAPS

-----------------------------------------------------------------------------
(* The gate. *)

\* The limits are numbers, and nothing unknown is one.
LEMMA ConstantFacts ==
  /\ MaxOrders \in Nat /\ MaxNotional \in Nat /\ MinEquity \in Nat /\ HighValue \in Nat
  /\ Lot \in Nat /\ Cap \in [Symbols -> Nat]
  /\ Unknown \notin Nat
  /\ Currency \in [Symbols -> Currencies]
  BY LimitsAreNumbers, UnknownIsNoNumber, CurrenciesAssumption

\* A product of naturals is a natural.
LEMMA ProductNat == \A m, n \in Nat : m * n \in Nat
  OBVIOUS

\* What a signal is worth is a natural number, where it is known at all.
LEMMA NotionalTyped ==
  ASSUME ctx \in World, NEW s \in Signals
  PROVE  /\ s \in Signal
         /\ Priced(s) => Notional(s) \in Nat
         /\ Valued(s) => Krw(s) \in Nat
<1>1. /\ s \in Signal
      /\ s.amount = Unknown => s.quantity # Unknown
  BY SignalsAreSignals
<1>2. /\ s.symbol \in Symbols /\ s.amount \in Reading
      /\ s.quantity \in Reading /\ s.limit \in Reading
  BY <1>1 DEF Signal
<1>3. ctx.price[s.symbol] \in Reading /\ ctx.rate \in Nat
  BY <1>2 DEF World
<1>4. Priced(s) => Notional(s) \in Nat
  <2>1. CASE s.amount # Unknown
    BY <1>2, <2>1 DEF Notional, Reading
  <2>2. CASE s.amount = Unknown /\ s.limit # Unknown
    <3>1. s.quantity \in Nat /\ s.limit \in Nat
      BY <1>1, <1>2, <2>2 DEF Reading
    <3>. QED  BY <2>2, <3>1, ProductNat DEF Notional
  <2>3. CASE s.amount = Unknown /\ s.limit = Unknown /\ ctx.price[s.symbol] # Unknown
    <3>1. s.quantity \in Nat /\ ctx.price[s.symbol] \in Nat
      BY <1>1, <1>2, <1>3, <2>3 DEF Reading
    <3>. QED  BY <2>3, <3>1, ProductNat DEF Notional
  <2>4. CASE s.amount = Unknown /\ s.limit = Unknown /\ ctx.price[s.symbol] = Unknown
    BY <2>4 DEF Priced, Notional
  <2>. QED  BY <2>1, <2>2, <2>3, <2>4
<1>5. Valued(s) => Krw(s) \in Nat
  BY <1>3, <1>4, ProductNat DEF Valued, Krw
<1>. QED  BY <1>1, <1>4, <1>5

\* Committing an order keeps the commitment a commitment.
LEMMA PlusTyped ==
  ASSUME ctx \in World, committed \in Commitment, NEW s \in Signals
  PROVE  Plus(committed, s) \in Commitment
<1>1. /\ s.symbol \in Symbols /\ s.quantity \in Reading
      /\ Currency[s.symbol] \in Currencies
      /\ Priced(s) => Notional(s) \in Nat
      /\ Valued(s) => Krw(s) \in Nat
  BY NotionalTyped, ConstantFacts DEF Signal
<1>2. committed.count + 1 \in Nat
  BY DEF Commitment
<1>3. (committed.krw + IF Valued(s) THEN Krw(s) ELSE 0) \in Nat
  BY <1>1 DEF Commitment
<1>4. (IF s.buy /\ Priced(s)
       THEN [committed.spent EXCEPT ![Currency[s.symbol]] = @ + Notional(s)]
       ELSE committed.spent) \in [Currencies -> Nat]
  BY <1>1 DEF Commitment
<1>5. (IF s.buy /\ Valued(s)
       THEN [committed.bought EXCEPT ![s.symbol] = @ + Krw(s)]
       ELSE committed.bought) \in [Symbols -> Nat]
  BY <1>1 DEF Commitment
<1>6. (IF ~s.buy /\ s.quantity # Unknown
       THEN [committed.sold EXCEPT ![s.symbol] = @ + s.quantity]
       ELSE committed.sold) \in [Symbols -> Nat]
  BY <1>1 DEF Commitment, Reading
<1>. QED
  BY <1>2, <1>3, <1>4, <1>5, <1>6 DEF Plus, Commitment

\* Every step keeps the types.
LEMMA TypeStep == TypeOK /\ [Next]_vars => TypeOK'
<1> SUFFICES ASSUME TypeOK, [Next]_vars PROVE TypeOK'
  OBVIOUS
<1>1. ASSUME NEW s \in Signals, Evaluate(s) PROVE TypeOK'
  <2>1. committed' \in Commitment
    BY <1>1, PlusTyped DEF Evaluate, TypeOK
  <2>2. Approves(s, committed) \in BOOLEAN
    BY DEF Approves, NotKilled
  <2>3. batch' \in Seq([signal : Signals, ok : BOOLEAN])
    BY <1>1, <2>2 DEF Evaluate, TypeOK
  <2>. QED
    BY <1>1, <2>1, <2>3 DEF Evaluate, TypeOK
<1>. QED
  BY <1>1 DEF Next, TypeOK, vars

\* The gate's state is well typed.
LEMMA TypeInit == Init => TypeOK
<1> SUFFICES ASSUME Init PROVE TypeOK
  OBVIOUS
<1>1. ctx \in World
  BY WorldsAreWorlds DEF Init
<1>2. committed \in Commitment
  BY DEF Init, Nothing, Commitment
<1>. QED
  BY <1>1, <1>2 DEF Init, TypeOK

\* The types hold in every reachable state.
THEOREM TypeCorrect == Spec => []TypeOK
  BY TypeInit, TypeStep, PTL DEF Spec

-----------------------------------------------------------------------------
(* The daily limits. *)

\* An approval adds one order within both daily limits, a rejection none.
LEMMA DailyStep == TypeOK /\ DailyLimitsHold /\ [Next]_vars => DailyLimitsHold'
<1> SUFFICES ASSUME TypeOK, DailyLimitsHold, [Next]_vars PROVE DailyLimitsHold'
  OBVIOUS
<1>1. ASSUME NEW s \in Signals, Evaluate(s), Approves(s, committed) PROVE DailyLimitsHold'
  <2>1. ctx' = ctx /\ committed' = Plus(committed, s)
    BY <1>1 DEF Evaluate
  <2>2. /\ committed'.count = committed.count + 1
        /\ committed'.krw = committed.krw + IF Valued(s) THEN Krw(s) ELSE 0
    BY <2>1 DEF Plus
  <2>3. /\ ctx.used + committed.count < MaxOrders
        /\ Valued(s) => ctx.usedKrw + committed.krw + Krw(s) <= MaxNotional
    BY <1>1 DEF Approves, OrdersLeft, WithinBudget
  <2>4. /\ ctx.used \in Nat /\ ctx.usedKrw \in Nat
        /\ committed.count \in Nat /\ committed.krw \in Nat
        /\ Valued(s) => Krw(s) \in Nat
    BY NotionalTyped DEF TypeOK, World, Commitment
  <2>. QED
    BY <2>1, <2>2, <2>3, <2>4, ConstantFacts DEF DailyLimitsHold
<1>2. ASSUME NEW s \in Signals, Evaluate(s), ~Approves(s, committed) PROVE DailyLimitsHold'
  BY <1>2 DEF Evaluate, DailyLimitsHold
<1>. QED
  BY <1>1, <1>2 DEF Next, DailyLimitsHold, vars

\* However long the batch, its approvals and the day's earlier orders stay within
\* both daily limits.
THEOREM DailyLimits == Spec => []DailyLimitsHold
<1>1. Init => DailyLimitsHold
  BY DEF Init, Nothing, DailyLimitsHold
<1>. QED
  BY <1>1, TypeInit, TypeStep, DailyStep, PTL DEF Spec

-----------------------------------------------------------------------------
(* Cash and shares. *)

\* An approval takes only cash and shares the earlier ones have left.
LEMMA FundsStep == TypeOK /\ FundsCoverTheBatch /\ [Next]_vars => FundsCoverTheBatch'
<1> SUFFICES ASSUME TypeOK, FundsCoverTheBatch, [Next]_vars PROVE FundsCoverTheBatch'
  OBVIOUS
<1>1. ASSUME NEW s \in Signals, Evaluate(s), Approves(s, committed) PROVE FundsCoverTheBatch'
  <2> DEFINE cur == Currency[s.symbol]
  <2>1. ctx' = ctx /\ committed' = Plus(committed, s)
    BY <1>1 DEF Evaluate
  <2>2. /\ s.symbol \in Symbols /\ cur \in Currencies /\ s.quantity \in Reading
        /\ Priced(s) => Notional(s) \in Nat
    BY NotionalTyped, ConstantFacts DEF TypeOK, Signal
  <2>3. /\ committed.spent \in [Currencies -> Nat] /\ committed.sold \in [Symbols -> Nat]
        /\ ctx.power \in [Currencies -> Reading] /\ ctx.sellable \in [Symbols -> Reading]
    BY DEF TypeOK, World, Commitment
  <2>4. ASSUME NEW c \in Currencies, ctx.power[c] # Unknown
        PROVE  committed'.spent[c] <= ctx.power[c]
    <3>1. CASE s.buy /\ Priced(s) /\ c = cur
      <4>1. committed'.spent[c] = committed.spent[c] + Notional(s)
        BY <2>1, <2>2, <2>3, <3>1 DEF Plus
      <4>2. Notional(s) <= ctx.power[c] - committed.spent[c]
        BY <1>1, <2>4, <3>1 DEF Approves, Affordable
      <4>. QED  BY <2>2, <2>3, <2>4, <3>1, <4>1, <4>2 DEF Reading
    <3>2. CASE ~(s.buy /\ Priced(s) /\ c = cur)
      <4>1. committed'.spent[c] = committed.spent[c]
        BY <2>1, <2>2, <2>3, <3>2 DEF Plus
      <4>. QED  BY <2>4, <4>1 DEF FundsCoverTheBatch
    <3>. QED  BY <3>1, <3>2
  <2>5. ASSUME NEW x \in Symbols, ctx.sellable[x] # Unknown
        PROVE  committed'.sold[x] <= ctx.sellable[x]
    <3>1. CASE ~s.buy /\ s.quantity # Unknown /\ x = s.symbol
      <4>1. committed'.sold[x] = committed.sold[x] + s.quantity
        BY <2>1, <2>2, <2>3, <3>1 DEF Plus
      <4>2. s.quantity <= ctx.sellable[x] - committed.sold[x]
        BY <1>1, <2>5, <3>1 DEF Approves, Sellable
      <4>. QED  BY <2>2, <2>3, <2>5, <3>1, <4>1, <4>2 DEF Reading
    <3>2. CASE ~(~s.buy /\ s.quantity # Unknown /\ x = s.symbol)
      <4>1. committed'.sold[x] = committed.sold[x]
        BY <2>1, <2>2, <2>3, <3>2 DEF Plus
      <4>. QED  BY <2>5, <4>1 DEF FundsCoverTheBatch
    <3>. QED  BY <3>1, <3>2
  <2>. QED  BY <2>1, <2>4, <2>5 DEF FundsCoverTheBatch
<1>2. ASSUME NEW s \in Signals, Evaluate(s), ~Approves(s, committed) PROVE FundsCoverTheBatch'
  BY <1>2 DEF Evaluate, FundsCoverTheBatch
<1>. QED
  BY <1>1, <1>2 DEF Next, FundsCoverTheBatch, vars

\* No run promises the same cash or the same shares to two of its orders.
THEOREM FundsCover == Spec => []FundsCoverTheBatch
<1>1. ASSUME Init PROVE FundsCoverTheBatch
  <2>1. ctx \in World
    BY <1>1, WorldsAreWorlds DEF Init
  <2>. QED
    BY <1>1, <2>1 DEF Init, Nothing, FundsCoverTheBatch, World, Reading
<1>2. Init => FundsCoverTheBatch
  BY <1>1
<1>. QED
  BY <1>2, TypeInit, TypeStep, FundsStep, PTL DEF Spec

-----------------------------------------------------------------------------
(* Concentration. *)

\* An approved buy keeps the position it adds to within its weight limit.
LEMMA WeightStep == TypeOK /\ WeightHolds /\ [Next]_vars => WeightHolds'
<1> SUFFICES ASSUME TypeOK, WeightHolds, [Next]_vars PROVE WeightHolds'
  OBVIOUS
<1>1. ASSUME NEW s \in Signals, Evaluate(s), Approves(s, committed),
             ctx.equity > 0 /\ ctx.equity >= MinEquity,
             NEW x \in Symbols, committed'.bought[x] > 0
      PROVE  100 * (committed'.bought[x] + ctx.holding[x]) <= Cap[x] * ctx.equity
  <2>1. committed' = Plus(committed, s)
    BY <1>1 DEF Evaluate
  <2>2. s.symbol \in Symbols /\ (Valued(s) => Krw(s) \in Nat)
    BY NotionalTyped DEF TypeOK, Signal
  <2>3. committed.bought \in [Symbols -> Nat] /\ ctx.holding \in [Symbols -> Nat]
    BY DEF TypeOK, World, Commitment
  <2>4. CASE s.buy /\ Valued(s) /\ x = s.symbol
    <3>1. committed'.bought[x] = committed.bought[x] + Krw(s)
      BY <2>1, <2>2, <2>3, <2>4 DEF Plus
    <3>2. 100 * (committed.bought[x] + ctx.holding[x] + Krw(s)) <= Cap[x] * ctx.equity
      BY <1>1, <2>4 DEF Approves, WithinWeight
    <3>3. committed.bought[x] + Krw(s) + ctx.holding[x]
            = committed.bought[x] + ctx.holding[x] + Krw(s)
      BY <2>2, <2>3, <2>4
    <3>. QED  BY <3>1, <3>2, <3>3
  <2>5. CASE ~(s.buy /\ Valued(s) /\ x = s.symbol)
    <3>1. committed'.bought[x] = committed.bought[x]
      BY <2>1, <2>2, <2>3, <2>5 DEF Plus
    <3>. QED  BY <1>1, <3>1 DEF WeightHolds
  <2>. QED  BY <2>4, <2>5
<1>2. ASSUME NEW s \in Signals, Evaluate(s), Approves(s, committed) PROVE WeightHolds'
  BY <1>1, <1>2 DEF Evaluate, WeightHolds
<1>3. ASSUME NEW s \in Signals, Evaluate(s), ~Approves(s, committed) PROVE WeightHolds'
  BY <1>3 DEF Evaluate, WeightHolds
<1>. QED
  BY <1>2, <1>3 DEF Next, WeightHolds, vars

\* Small buys of one symbol never add up to more than its weight limit.
THEOREM WeightWithinCap == Spec => []WeightHolds
<1>1. Init => WeightHolds
  BY DEF Init, Nothing, WeightHolds
<1>. QED
  BY <1>1, TypeInit, TypeStep, WeightStep, PTL DEF Spec

-----------------------------------------------------------------------------
(* What is committed is what the approvals come to. *)

\* There is a well-founded relation that has every pair of ascending numbers.
LEMMA LessThan ==
  \E R : IsWellFoundedOn(R, Nat) /\ \A x, y \in Nat : x < y => <<x, y>> \in R
<1>1. \A x, y \in Nat : x < y => <<x, y>> \in OpToRel(<, Nat)
  BY Zenon DEF OpToRel
<1>. QED  BY <1>1, NatLessThanWellFounded, Zenon

\* Some elements have a minimal one under a well-founded relation.
LEMMA HasMinimal ==
  \A R, S, T : IsWellFoundedOn(R, S) /\ T \subseteq S /\ T # {}
                 => \E x \in T : \A y \in T : <<y, x>> \notin R
  BY WFMin, Zenon

\* Some natural numbers have a least one.
LEMMA NatHasLeast ==
  ASSUME NEW T, T \subseteq Nat, T # {}
  PROVE  \E m \in T : \A n \in T : m <= n
<1>1. PICK R : IsWellFoundedOn(R, Nat) /\ \A x, y \in Nat : x < y => <<x, y>> \in R
  BY LessThan
<1>2. IsWellFoundedOn(R, Nat)
  BY <1>1
<1>3. \E x \in T : \A y \in T : <<y, x>> \notin R
  BY <1>2, HasMinimal, Zenon
<1>4. PICK x \in T : \A y \in T : <<y, x>> \notin R
  BY <1>3
<1>5. ASSUME NEW y \in T
      PROVE  x <= y
  <2>1. x \in Nat /\ y \in Nat /\ ~(y < x)
    BY <1>1, <1>4
  <2>. QED  BY <2>1
<1>. QED  BY <1>5

\* The partial sums of n amounts: Total's own recursion.
Sums(g, n, amounts) ==
  [i \in 0..n |-> IF i = 0 THEN 0 ELSE g[i - 1] + amounts[i]]

\* There is a function that it defines, ...
LEMMA SumsExist ==
  ASSUME NEW n \in Nat, NEW f
  PROVE  \E g : g = Sums(g, n, f)
<1> DEFINE P(k) == \E g : g = Sums(g, k, f)
           Bad == {k \in 0..n : ~P(k)}
<1>1. P(0)
  <2> DEFINE g == [i \in 0..0 |-> 0]
  <2>1. g = Sums(g, 0, f)
    BY DEF Sums
  <2>. QED  BY <2>1
<1>2. ASSUME NEW k \in Nat \ {0}, P(k - 1) PROVE P(k)
  <2>1. PICK g : g = Sums(g, k - 1, f)
    BY <1>2
  <2> DEFINE h == [i \in 0..k |-> IF i = k THEN g[k - 1] + f[k] ELSE g[i]]
  <2>2. \A i \in 0..(k - 1) : g[i] = IF i = 0 THEN 0 ELSE g[i - 1] + f[i]
    BY <2>1 DEF Sums
  <2>3. \A i \in 0..k : h[i] = IF i = 0 THEN 0 ELSE h[i - 1] + f[i]
    <3>1. TAKE i \in 0..k
    <3>2. CASE i = k
      <4>1. h[k - 1] = g[k - 1] /\ h[k] = g[k - 1] + f[k]
        OBVIOUS
      <4>. QED  BY <3>2, <4>1
    <3>3. CASE i # k
      <4>1. i \in 0..(k - 1) /\ h[i] = g[i] /\ (i # 0 => h[i - 1] = g[i - 1])
        BY <3>3
      <4>. QED  BY <2>2, <4>1
    <3>. QED  BY <3>2, <3>3
  <2>4. h = [i \in 0..k |-> h[i]]
    OBVIOUS
  <2> HIDE DEF h
  <2>5. h = Sums(h, k, f)
    BY <2>3, <2>4 DEF Sums
  <2>. QED  BY <2>5
<1> HIDE DEF P
<1>3. Bad = {}
  <2>1. Bad \subseteq Nat
    OBVIOUS
  <2>2. ASSUME Bad # {} PROVE FALSE
    <3>1. PICK k \in Bad : \A j \in Bad : k <= j
      <4> HIDE DEF Bad
      <4>. QED  BY <2>1, <2>2, NatHasLeast
    <3>2. k \in 0..n /\ ~P(k)
      OBVIOUS
    <3>3. k \in Nat \ {0}
      BY <1>1, <3>2
    <3>4. k - 1 \in 0..n /\ k - 1 \notin Bad
      <4> HIDE DEF Bad
      <4>. QED  BY <3>1, <3>2, <3>3
    <3>5. P(k - 1)
      BY <3>4
    <3>. QED  BY <1>2, <3>2, <3>3, <3>5
  <2>. QED  BY <2>2
<1>4. P(n)
  BY <1>3
<1>. QED  BY <1>4 DEF P

\* ... and Total takes its last value.
LEMMA TotalIs ==
  ASSUME NEW f, Len(f) \in Nat
  PROVE  \E g : g = Sums(g, Len(f), f) /\ Total(f) = g[Len(f)]
<1> DEFINE g == CHOOSE g : g = [i \in 0..Len(f) |-> IF i = 0 THEN 0 ELSE g[i - 1] + f[i]]
<1>1. Total(f) = g[Len(f)]
  BY DEF Total
<1>2. g = CHOOSE h : h = Sums(h, Len(f), f)
  BY DEF Sums
<1> HIDE DEF g
<1>3. g = Sums(g, Len(f), f)
  BY <1>2, SumsExist
<1>. QED  BY <1>1, <1>3

\* The partial sums of two sequences agree as far as the sequences do.
LEMMA SumsAgree ==
  ASSUME NEW n \in Nat, NEW m \in Nat, n <= m, NEW f, NEW h, \A i \in 1..n : f[i] = h[i],
         NEW a, a = Sums(a, n, f), NEW b, b = Sums(b, m, h)
  PROVE  a[n] = b[n]
<1> DEFINE Bad == {k \in 0..n : a[k] # b[k]}
<1>1. \A i \in 0..n : /\ a[i] = IF i = 0 THEN 0 ELSE a[i - 1] + f[i]
                      /\ b[i] = IF i = 0 THEN 0 ELSE b[i - 1] + h[i]
  BY DEF Sums
<1>2. Bad \subseteq Nat
  OBVIOUS
<1>3. ASSUME Bad # {} PROVE FALSE
  <2>1. PICK k \in Bad : \A j \in Bad : k <= j
    <3> HIDE DEF Bad
    <3>. QED  BY <1>2, <1>3, NatHasLeast
  <2>2. k \in 0..n /\ a[k] # b[k]
    OBVIOUS
  <2>3. k # 0
    BY <1>1, <2>2
  <2>4. k - 1 \in 0..n /\ k - 1 \notin Bad
    <3> HIDE DEF Bad
    <3>. QED  BY <2>1, <2>2, <2>3
  <2>5. a[k - 1] = b[k - 1] /\ f[k] = h[k]
    BY <2>2, <2>3, <2>4
  <2>. QED  BY <1>1, <2>2, <2>3, <2>5
<1>. QED  BY <1>3

\* One amount more adds to the total.
LEMMA TotalGrows ==
  ASSUME NEW f, NEW h, NEW n \in Nat, Len(f) = n, Len(h) = n + 1, \A i \in 1..n : h[i] = f[i]
  PROVE  Total(h) = Total(f) + h[n + 1]
<1>1. PICK a : a = Sums(a, n, f) /\ Total(f) = a[n]
  BY TotalIs
<1>2. PICK b : b = Sums(b, n + 1, h) /\ Total(h) = b[n + 1]
  BY TotalIs
<1>3. a[n] = b[n]
  BY <1>1, <1>2, SumsAgree
<1>4. b[n + 1] = b[n] + h[n + 1]
  BY <1>2 DEF Sums
<1>. QED  BY <1>1, <1>2, <1>3, <1>4

\* Of the signals of a batch that were approved, the amounts a function gives.
SumOf(amount, b) ==
  Total([i \in DOMAIN b |-> IF b[i].ok THEN amount[b[i].signal] ELSE 0])

Judged == [signal : Signals, ok : BOOLEAN]

\* One more verdict adds its amount.
LEMMA SumOfGrows ==
  ASSUME NEW amount, NEW b \in Seq(Judged), NEW e \in Judged
  PROVE  SumOf(amount, Append(b, e)) = SumOf(amount, b) + IF e.ok THEN amount[e.signal] ELSE 0
<1> DEFINE f == [i \in DOMAIN b |-> IF b[i].ok THEN amount[b[i].signal] ELSE 0]
           h == [i \in DOMAIN Append(b, e) |->
                   IF Append(b, e)[i].ok THEN amount[Append(b, e)[i].signal] ELSE 0]
<1>1. PICK n \in Nat : n = Len(b)
  OBVIOUS
<1>2. /\ DOMAIN b = 1..n /\ DOMAIN Append(b, e) = 1..(n + 1)
      /\ \A i \in 1..n : Append(b, e)[i] = b[i]
      /\ Append(b, e)[n + 1] = e
  BY <1>1
<1>3. Len(f) = n
  BY <1>1, <1>2
<1>4. Len(h) = n + 1
  BY <1>1, <1>2
<1>5. \A i \in 1..n : h[i] = f[i]
  BY <1>2
<1>6. h[n + 1] = IF e.ok THEN amount[e.signal] ELSE 0
  BY <1>1, <1>2
<1>7. SumOf(amount, b) = Total(f) /\ SumOf(amount, Append(b, e)) = Total(h)
  BY DEF SumOf
<1> HIDE DEF f, h
<1>8. Total(h) = Total(f) + h[n + 1]
  BY <1>3, <1>4, <1>5, TotalGrows
<1>. QED  BY <1>6, <1>7, <1>8

\* What a signal takes of each budget.
One       == [s \in Signals |-> 1]
Value     == [s \in Signals |-> IF Valued(s) THEN Krw(s) ELSE 0]
Cash(c)   == [s \in Signals |-> IF s.buy /\ Currency[s.symbol] = c /\ Priced(s) THEN Notional(s) ELSE 0]
Bought(x) == [s \in Signals |-> IF s.buy /\ s.symbol = x /\ Valued(s) THEN Krw(s) ELSE 0]
Sold(x)   == [s \in Signals |-> IF ~s.buy /\ s.symbol = x /\ s.quantity # Unknown THEN s.quantity ELSE 0]

Exact(c, b) ==
  /\ c.count = SumOf(One, b) /\ c.krw = SumOf(Value, b)
  /\ \A k \in Currencies : c.spent[k] = SumOf(Cash(k), b)
  /\ \A x \in Symbols : c.bought[x] = SumOf(Bought(x), b) /\ c.sold[x] = SumOf(Sold(x), b)

\* The property, in these terms.
LEMMA ExactMeans == TypeOK => (CommitmentIsExact <=> Exact(committed, batch))
<1> SUFFICES ASSUME TypeOK PROVE CommitmentIsExact <=> Exact(committed, batch)
  OBVIOUS
<1>1. \A i \in DOMAIN batch : batch[i].signal \in Signals
  <2>1. batch \in Seq(Judged)
    BY DEF TypeOK, Judged
  <2>2. \A i \in DOMAIN batch : batch[i] \in Judged
    BY <2>1
  <2>. QED  BY <2>2 DEF Judged
<1>2. SumApproved(LAMBDA s : 1) = SumOf(One, batch)
  <2>1. [i \in DOMAIN batch |-> IF batch[i].ok THEN 1 ELSE 0]
          = [i \in DOMAIN batch |-> IF batch[i].ok THEN One[batch[i].signal] ELSE 0]
    BY <1>1 DEF One
  <2>. QED  BY <2>1 DEF SumApproved, SumOf
<1>3. SumApproved(LAMBDA s : IF Valued(s) THEN Krw(s) ELSE 0) = SumOf(Value, batch)
  <2>1. [i \in DOMAIN batch |->
           IF batch[i].ok THEN IF Valued(batch[i].signal) THEN Krw(batch[i].signal) ELSE 0 ELSE 0]
          = [i \in DOMAIN batch |-> IF batch[i].ok THEN Value[batch[i].signal] ELSE 0]
    BY <1>1 DEF Value
  <2>. QED  BY <2>1 DEF SumApproved, SumOf
<1>4. ASSUME NEW c \in Currencies
      PROVE  SumApproved(LAMBDA s : IF s.buy /\ Currency[s.symbol] = c /\ Priced(s)
                                    THEN Notional(s) ELSE 0) = SumOf(Cash(c), batch)
  <2>1. [i \in DOMAIN batch |->
           IF batch[i].ok
           THEN IF batch[i].signal.buy /\ Currency[batch[i].signal.symbol] = c /\ Priced(batch[i].signal)
                THEN Notional(batch[i].signal) ELSE 0
           ELSE 0]
          = [i \in DOMAIN batch |-> IF batch[i].ok THEN Cash(c)[batch[i].signal] ELSE 0]
    BY <1>1 DEF Cash
  <2>. QED  BY <2>1 DEF SumApproved, SumOf
<1>5. ASSUME NEW x \in Symbols
      PROVE  /\ SumApproved(LAMBDA s : IF s.buy /\ s.symbol = x /\ Valued(s) THEN Krw(s) ELSE 0)
                  = SumOf(Bought(x), batch)
             /\ SumApproved(LAMBDA s : IF ~s.buy /\ s.symbol = x /\ s.quantity # Unknown
                                       THEN s.quantity ELSE 0) = SumOf(Sold(x), batch)
  <2>1. [i \in DOMAIN batch |->
           IF batch[i].ok
           THEN IF batch[i].signal.buy /\ batch[i].signal.symbol = x /\ Valued(batch[i].signal)
                THEN Krw(batch[i].signal) ELSE 0
           ELSE 0]
          = [i \in DOMAIN batch |-> IF batch[i].ok THEN Bought(x)[batch[i].signal] ELSE 0]
    BY <1>1 DEF Bought
  <2>2. [i \in DOMAIN batch |->
           IF batch[i].ok
           THEN IF ~batch[i].signal.buy /\ batch[i].signal.symbol = x /\ batch[i].signal.quantity # Unknown
                THEN batch[i].signal.quantity ELSE 0
           ELSE 0]
          = [i \in DOMAIN batch |-> IF batch[i].ok THEN Sold(x)[batch[i].signal] ELSE 0]
    BY <1>1 DEF Sold
  <2>. QED  BY <2>1, <2>2 DEF SumApproved, SumOf
<1>. QED
  BY <1>2, <1>3, <1>4, <1>5 DEF CommitmentIsExact, Exact

\* Plus adds what the signal takes.
LEMMA PlusIsExact ==
  ASSUME TypeOK, NEW s \in Signals, NEW v \in BOOLEAN, Exact(committed, batch)
  PROVE  Exact(IF v THEN Plus(committed, s) ELSE committed, Append(batch, [signal |-> s, ok |-> v]))
<1>1. PICK e \in Judged : e.signal = s /\ e.ok = v /\ e = [signal |-> s, ok |-> v]
  BY DEF Judged
<1>2. \A amount : SumOf(amount, Append(batch, e)) = SumOf(amount, batch) + IF v THEN amount[s] ELSE 0
  BY <1>1, SumOfGrows DEF TypeOK, Judged
<1>3. committed \in Commitment /\ ctx \in World /\ s \in Signal /\ Currency \in [Symbols -> Currencies]
  BY NotionalTyped, ConstantFacts DEF TypeOK
<1>4. /\ s.symbol \in Symbols /\ (s.quantity # Unknown => s.quantity \in Nat)
      /\ Priced(s) => Notional(s) \in Nat
      /\ Valued(s) => Krw(s) \in Nat /\ Priced(s)
  BY <1>3, NotionalTyped DEF TypeOK, Signal, Reading, Valued
<1>5. /\ One[s] = 1 /\ Value[s] = IF Valued(s) THEN Krw(s) ELSE 0
      /\ \A c : Cash(c)[s] = IF s.buy /\ Currency[s.symbol] = c /\ Priced(s) THEN Notional(s) ELSE 0
      /\ \A x : Bought(x)[s] = IF s.buy /\ s.symbol = x /\ Valued(s) THEN Krw(s) ELSE 0
      /\ \A x : Sold(x)[s] = IF ~s.buy /\ s.symbol = x /\ s.quantity # Unknown THEN s.quantity ELSE 0
  BY DEF One, Value, Cash, Bought, Sold
<1>6. /\ committed.count \in Nat /\ committed.krw \in Nat /\ committed.spent \in [Currencies -> Nat]
      /\ committed.bought \in [Symbols -> Nat] /\ committed.sold \in [Symbols -> Nat]
  BY <1>3 DEF Commitment
<1>7. CASE v = FALSE
  BY <1>1, <1>2, <1>6, <1>7 DEF Exact
<1>8. CASE v = TRUE
  <2> DEFINE p == Plus(committed, s)
             b == Append(batch, e)
  <2>1. p.count = SumOf(One, b) /\ p.krw = SumOf(Value, b)
    BY <1>2, <1>5, <1>8 DEF Exact, Plus
  <2>2. ASSUME NEW c \in Currencies PROVE p.spent[c] = SumOf(Cash(c), b)
    <3>1. SumOf(Cash(c), b) = committed.spent[c] + Cash(c)[s]
      BY <1>2, <1>8 DEF Exact
    <3>2. p.spent[c] = committed.spent[c] + Cash(c)[s]
      BY <1>4, <1>5, <1>6 DEF Plus
    <3>. QED  BY <3>1, <3>2
  <2>3. ASSUME NEW x \in Symbols PROVE p.bought[x] = SumOf(Bought(x), b)
    <3>1. SumOf(Bought(x), b) = committed.bought[x] + Bought(x)[s]
      BY <1>2, <1>8 DEF Exact
    <3>2. p.bought[x] = committed.bought[x] + Bought(x)[s]
      BY <1>4, <1>5, <1>6 DEF Plus
    <3>. QED  BY <3>1, <3>2
  <2>4. ASSUME NEW x \in Symbols PROVE p.sold[x] = SumOf(Sold(x), b)
    <3>1. SumOf(Sold(x), b) = committed.sold[x] + Sold(x)[s]
      BY <1>2, <1>8 DEF Exact
    <3>2. p.sold[x] = committed.sold[x] + Sold(x)[s]
      BY <1>4, <1>5, <1>6 DEF Plus
    <3>. QED  BY <3>1, <3>2
  <2>. QED  BY <1>1, <1>8, <2>1, <2>2, <2>3, <2>4 DEF Exact
<1>. QED  BY <1>7, <1>8

\* Judging a signal keeps the commitment exact: the context does not change.
LEMMA ExactStep == TypeOK /\ TypeOK' /\ CommitmentIsExact /\ [Next]_vars => CommitmentIsExact'
<1>1. (TypeOK => (CommitmentIsExact <=> Exact(committed, batch)))'
  BY ExactMeans, PTL
<1> SUFFICES ASSUME TypeOK, TypeOK', CommitmentIsExact, [Next]_vars PROVE CommitmentIsExact'
  OBVIOUS
<1>2. Exact(committed, batch)
  BY ExactMeans
<1>3. ctx' = ctx /\ Exact(committed', batch')
  <2>1. CASE UNCHANGED vars
    BY <1>2, <2>1 DEF vars
  <2>2. ASSUME NEW s \in Signals, Evaluate(s) PROVE ctx' = ctx /\ Exact(committed', batch')
    <3>1. PICK v \in BOOLEAN : v = Approves(s, committed)
      BY DEF Approves
    <3>2. /\ ctx' = ctx /\ committed' = IF v THEN Plus(committed, s) ELSE committed
          /\ batch' = Append(batch, [signal |-> s, ok |-> v])
      BY <2>2, <3>1 DEF Evaluate
    <3>. QED  BY <1>2, <3>2, PlusIsExact
  <2>. QED  BY <2>1, <2>2 DEF Next
<1>4. Exact(committed, batch)'
  BY <1>3 DEF Exact, One, Value, Cash, Bought, Sold, Valued, Krw, Priced, Converted, Notional
<1>. QED  BY <1>1, <1>4

\* BatchCommitment.plus: nothing an approved order takes is forgotten, and a signal
\* that is rejected takes nothing, for every batch however long.
THEOREM NothingForgotten == Spec => []CommitmentIsExact
<1>1. TypeOK /\ Init => CommitmentIsExact
  <2> SUFFICES ASSUME TypeOK, Init PROVE CommitmentIsExact
    OBVIOUS
  <2>1. \A amount : SumOf(amount, batch) = 0
    <3>1. batch = <<>>
      BY DEF Init
    <3>2. TAKE amount
    <3> DEFINE f == [i \in DOMAIN batch |-> IF batch[i].ok THEN amount[batch[i].signal] ELSE 0]
    <3>3. Len(f) = 0 /\ SumOf(amount, batch) = Total(f)
      BY <3>1 DEF SumOf
    <3> HIDE DEF f
    <3>4. PICK g : g = Sums(g, 0, f) /\ Total(f) = g[0]
      BY <3>3, TotalIs
    <3>. QED  BY <3>3, <3>4 DEF Sums
  <2>2. Exact(committed, batch)
    BY <2>1 DEF Init, Nothing, Exact
  <2>. QED  BY <2>2, ExactMeans
<1>. QED  BY <1>1, TypeInit, TypeStep, ExactStep, PTL DEF Spec

-----------------------------------------------------------------------------
(* The kill switch. *)

\* Nobody else is at the switch while somebody operates it.
OneAtTheSwitch == \A a, b \in Actors : Operating(a) /\ Operating(b) => a = b

\* The document says what whoever has just written it wants; the machine's file did
\* so before it.  A run only ever stops trading.
SwitchIsSet ==
  \A a \in Actors :
    /\ pc[a] \in {"doc", "report"} => file[Machine(a)] = want[a]
    /\ pc[a] = "report" => doc = want[a]
    /\ a \in Runs /\ Operating(a) => want[a]

\* A stop that is owed is in the document, and nobody is on the way to undo it.
StopIsKept ==
  owed => doc /\ \A a \in Actors : Operating(a) => want[a]

\* The log runs ahead of the document only while a release is about to be entered,
\* by an operator who saw the switch engaged.
LogIsAhead ==
  /\ \A a \in Actors : Operating(a) /\ log => was[a]
  /\ log => doc \/ \E a \in Clicks : pc[a] = "report" /\ ~want[a]

\* The inductive invariant.  What the run checks says nothing of the moments in
\* between, when the file, the document and the log disagree.
SwitchInv ==
  /\ SwitchTypeOK
  /\ ~raced => OneAtTheSwitch
  /\ Undisturbed => SwitchIsSet /\ StopIsKept /\ LogIsAhead

-----------------------------------------------------------------------------
\* What an actor's step does to the others: nothing.
LEMMA OthersStay ==
  ASSUME SwitchTypeOK, NEW a \in Actors, NEW b \in Actors \ {a},
         \/ Click(a) \/ Abort(a) \/ WriteFile(a) \/ WriteDoc(a) \/ Report(a)
         \/ a \in Runs /\ (Begin(a) \/ Hold(a) \/ End(a))
  PROVE  pc'[b] = pc[b] /\ want'[b] = want[b] /\ was'[b] = was[b]
  BY DEF SwitchTypeOK, Click, Abort, WriteFile, WriteDoc, Report, Begin, Hold, End, Operate

\* SwitchTypeOK is inductive.
LEMMA SwitchTypeStep == SwitchTypeOK /\ [SwitchNext]_switchVars => SwitchTypeOK'
<1> SUFFICES ASSUME SwitchTypeOK, [SwitchNext]_switchVars PROVE SwitchTypeOK'
  OBVIOUS
<1> USE SeparateActors DEF SwitchTypeOK, Actors, Operating, SeparateActors
<1>1. ASSUME NEW r \in Runs, Begin(r) PROVE SwitchTypeOK'
  BY <1>1 DEF Begin, history
<1>2. ASSUME NEW a \in Actors, NEW engage \in BOOLEAN, pc[a] \in {"idle", "trading"}, Operate(a, engage)
      PROVE  SwitchTypeOK'
  BY <1>2 DEF Operate, Active
<1>3. ASSUME NEW a \in Actors, WriteFile(a) PROVE SwitchTypeOK'
  BY <1>3 DEF WriteFile, Machine, history
<1>4. ASSUME NEW a \in Actors, WriteDoc(a) PROVE SwitchTypeOK'
  BY <1>4 DEF WriteDoc
<1>5. ASSUME NEW a \in Actors, Report(a) PROVE SwitchTypeOK'
  BY <1>5 DEF Report, Active
<1>6. ASSUME NEW r \in Runs, End(r) PROVE SwitchTypeOK'
  BY <1>6 DEF End, history
<1>7. ASSUME NEW a \in Clicks, Abort(a) PROVE SwitchTypeOK'
  BY <1>7 DEF Abort
<1>8. CASE UNCHANGED switchVars
  BY <1>8 DEF switchVars, history
<1>. QED
  BY <1>1, <1>2, <1>3, <1>4, <1>5, <1>6, <1>7, <1>8 DEF SwitchNext, Click, Hold

\* A step that leaves the actors' own state leaves it alone: only the operations
\* make an actor an operator, and only into an empty place while nothing has raced.
LEMMA OneStep ==
  SwitchTypeOK /\ (~raced => OneAtTheSwitch) /\ [SwitchNext]_switchVars
    => (~raced => OneAtTheSwitch)'
<1> SUFFICES ASSUME SwitchTypeOK, ~raced => OneAtTheSwitch, [SwitchNext]_switchVars, ~raced'
             PROVE  OneAtTheSwitch'
  OBVIOUS
<1> USE DEF SwitchTypeOK, Actors, Operating
<1>1. ASSUME NEW a \in Actors, NEW engage \in BOOLEAN, Operate(a, engage) PROVE OneAtTheSwitch'
  BY <1>1 DEF Operate, OneAtTheSwitch
<1>2. ASSUME NEW a \in Actors, WriteFile(a) \/ WriteDoc(a) \/ Report(a) PROVE OneAtTheSwitch'
  BY <1>2 DEF WriteFile, WriteDoc, Report, OneAtTheSwitch, history
<1>3. ASSUME NEW r \in Runs, Begin(r) \/ End(r) PROVE OneAtTheSwitch'
  BY <1>3 DEF Begin, End, OneAtTheSwitch, history
<1>4. ASSUME NEW a \in Clicks, Abort(a) PROVE OneAtTheSwitch'
  BY <1>4 DEF Abort, OneAtTheSwitch
<1>5. CASE UNCHANGED switchVars
  BY <1>5 DEF switchVars, history, OneAtTheSwitch
<1>. QED
  BY <1>1, <1>2, <1>3, <1>4, <1>5 DEF SwitchNext, Click, Hold

\* What is true of the switch while nothing disturbs it.
Settled == SwitchIsSet /\ StopIsKept /\ LogIsAhead

\* Each action preserves it, as long as one actor at a time is at the switch.
LEMMA SettledStep ==
  SwitchInv /\ [SwitchNext]_switchVars => (Undisturbed => Settled)'
<1> SUFFICES ASSUME SwitchInv, [SwitchNext]_switchVars, Undisturbed' PROVE Settled'
  BY DEF Undisturbed
<1>0. SwitchTypeOK /\ SwitchTypeOK'
  BY SwitchTypeStep DEF SwitchInv
<1>1. Undisturbed /\ Settled /\ OneAtTheSwitch
  <2>1. raced' \in BOOLEAN /\ (raced => raced') /\ (failed => failed')
    BY <1>0 DEF SwitchTypeOK, SwitchNext, switchVars, history, Click, Hold, Operate,
                WriteFile, WriteDoc, Report, Begin, End, Abort
  <2>. QED  BY <2>1 DEF Undisturbed, SwitchInv, Settled
<1> USE SeparateActors DEF Settled, Actors, SeparateActors
<1>2. ASSUME NEW a \in Actors, NEW engage \in BOOLEAN, Operate(a, engage),
             pc[a] \in {"idle", "trading"}, a \in Runs => engage
      PROVE  Settled'
  <2>1. /\ Quiet
        /\ \A b \in Actors \ {a} : pc'[b] = pc[b] /\ want'[b] = want[b] /\ was'[b] = was[b]
        /\ pc'[a] = "file" /\ want'[a] = engage /\ UNCHANGED <<file, doc, log>>
        /\ owed' = (owed /\ engage)
    BY <1>0, <1>2 DEF SwitchTypeOK, Operate, Quiet, Undisturbed
  <2>2. log => doc
    BY <1>1, <2>1 DEF LogIsAhead, Quiet, Operating
  <2>3. log => was'[a]
    BY <1>0, <1>2, <2>2 DEF Operate, Active, SwitchTypeOK
  <2>4. SwitchIsSet'
    BY <1>1, <1>2, <2>1 DEF SwitchIsSet, Operating, Quiet
  <2>5. StopIsKept'
    BY <1>1, <2>1 DEF StopIsKept, Operating, Quiet
  <2>6. LogIsAhead'
    BY <1>1, <2>1, <2>2, <2>3 DEF LogIsAhead, Operating, Quiet
  <2>. QED  BY <2>4, <2>5, <2>6
<1>3. ASSUME NEW a \in Actors, WriteFile(a) PROVE Settled'
  <2>1. /\ pc[a] = "file" /\ pc'[a] = "doc" /\ file'[Machine(a)] = want[a]
        /\ \A b \in Actors \ {a} : pc'[b] = pc[b] /\ ~Operating(b)
        /\ UNCHANGED <<doc, want, was, log, owed>>
    BY <1>0, <1>1, <1>3 DEF WriteFile, SwitchTypeOK, OneAtTheSwitch, Operating, Machine, history
  <2>2. SwitchIsSet'
    BY <1>1, <2>1 DEF SwitchIsSet, Operating
  <2>3. StopIsKept' /\ LogIsAhead'
    BY <1>1, <2>1 DEF StopIsKept, LogIsAhead, Operating
  <2>. QED  BY <2>2, <2>3
<1>4. ASSUME NEW a \in Actors, WriteDoc(a) PROVE Settled'
  <2>1. /\ pc[a] = "doc" /\ pc'[a] = "report" /\ doc' = want[a]
        /\ \A b \in Actors \ {a} : pc'[b] = pc[b] /\ ~Operating(b)
        /\ UNCHANGED <<file, want, was, log, owed>>
    BY <1>0, <1>1, <1>4 DEF WriteDoc, SwitchTypeOK, OneAtTheSwitch, Operating, Undisturbed
  <2>2. SwitchIsSet'
    BY <1>1, <2>1 DEF SwitchIsSet, Operating
  <2>3. StopIsKept'
    BY <1>1, <2>1 DEF StopIsKept, Operating
  <2>4. LogIsAhead'
    <3>1. \A b \in Actors : Operating(b)' /\ log' => was'[b]
      BY <1>1, <2>1 DEF LogIsAhead, Operating
    <3>2. doc' \/ (a \in Clicks /\ pc'[a] = "report" /\ ~want'[a])
      BY <1>0, <1>1, <2>1 DEF SwitchIsSet, Operating, SwitchTypeOK
    <3>. QED  BY <3>1, <3>2 DEF LogIsAhead
  <2>. QED  BY <2>2, <2>3, <2>4
<1>5. ASSUME NEW a \in Actors, Report(a) PROVE Settled'
  <2>1. /\ pc[a] = "report" /\ pc'[a] = "gone"
        /\ \A b \in Actors \ {a} : pc'[b] = pc[b] /\ ~Operating(b)
        /\ UNCHANGED <<doc, want, was>>
    BY <1>0, <1>1, <1>5 DEF Report, SwitchTypeOK, OneAtTheSwitch, Operating
  <2>2. file[Machine(a)] = want[a] /\ doc = want[a] /\ want[a] \in BOOLEAN /\ was[a] \in BOOLEAN
    BY <1>0, <1>1, <2>1 DEF SwitchIsSet, SwitchTypeOK
  <2>3. /\ log' = (IF want[a] # was[a] THEN want[a] ELSE log)
        /\ owed' = (owed \/ want[a])
    BY <1>0, <1>5, <2>2 DEF Report, Active, Undisturbed, SwitchTypeOK
  <2>4. Quiet'
    BY <2>1 DEF Quiet, Operating
  <2>5. SwitchIsSet' /\ StopIsKept'
    BY <1>1, <2>1, <2>2, <2>3, <2>4 DEF SwitchIsSet, StopIsKept, Quiet, Operating
  <2>6. log' => doc'
    BY <1>1, <2>1, <2>2, <2>3 DEF LogIsAhead, Operating
  <2>. QED  BY <2>4, <2>5, <2>6 DEF LogIsAhead, Quiet
<1>6. ASSUME NEW r \in Runs, Begin(r) PROVE Settled'
  <2>1. /\ pc[r] = "idle" /\ pc'[r] \in {"stopped", "trading"}
        /\ \A b \in Actors \ {r} : pc'[b] = pc[b]
        /\ UNCHANGED <<file, doc, want, was, log, owed>>
    BY <1>0, <1>6 DEF Begin, SwitchTypeOK
  <2>. QED  BY <1>1, <2>1 DEF SwitchIsSet, StopIsKept, LogIsAhead, Operating
<1>7. ASSUME NEW r \in Runs, End(r) PROVE Settled'
  <2>1. /\ pc'[r] = "gone" /\ \A b \in Actors \ {r} : pc'[b] = pc[b]
        /\ \A b \in Actors \ {r} : file'[Machine(b)] = file[Machine(b)]
        /\ UNCHANGED <<doc, want, was, log, owed>>
    BY <1>0, <1>7 DEF End, SwitchTypeOK, Machine
  <2>2. SwitchIsSet'
    BY <1>1, <2>1 DEF SwitchIsSet, Operating
  <2>. QED  BY <1>1, <2>1, <2>2 DEF StopIsKept, LogIsAhead, Operating
<1>8. ASSUME NEW a \in Clicks, Abort(a) PROVE Settled'
  BY <1>8 DEF Abort, Undisturbed
<1>9. CASE UNCHANGED switchVars
  BY <1>1, <1>9 DEF switchVars, history, SwitchIsSet, StopIsKept, LogIsAhead, Operating
<1>. QED
  BY <1>2, <1>3, <1>4, <1>5, <1>6, <1>7, <1>8, <1>9 DEF SwitchNext, Click, Hold

\* Before the first click and the first run the switch is off and nothing is owed.
LEMMA SwitchBegins == SwitchInit => SwitchInv
  BY SeparateActors DEF SwitchInit, SwitchInv, SwitchTypeOK, Undisturbed, OneAtTheSwitch,
                        SwitchIsSet, StopIsKept, LogIsAhead, Operating, Actors, Machine

\* The inductive invariant is one.
LEMMA SwitchStep == SwitchInv /\ [SwitchNext]_switchVars => SwitchInv'
  BY SwitchTypeStep, OneStep, SettledStep DEF SwitchInv, Settled

-----------------------------------------------------------------------------
\* kill_switch entries never leave the log saying stopped of a switch that lets the
\* job trade, once the operations are over.
THEOREM LogTellsTheState == SwitchSpec => []AuditTellsTheState
<1>1. SwitchInv => AuditTellsTheState
  BY DEF SwitchInv, AuditTellsTheState, LogIsAhead, Quiet, Operating, Actors
<1>. QED
  BY <1>1, SwitchBegins, SwitchStep, PTL DEF SwitchSpec

\* A stop that was reported done stops every run that begins after it, on whichever
\* machine, until a release is asked for: the run finds it in the document.
THEOREM StopReaches == SwitchSpec => StopReachesEveryRun
<1>1. SwitchInv /\ [SwitchNext]_switchVars
        => [\A r \in Runs :
              pc[r] = "idle" /\ pc'[r] = "trading" => ~(owed /\ Undisturbed)]_switchVars
  <2> SUFFICES ASSUME SwitchInv, [SwitchNext]_switchVars, NEW r \in Runs, pc[r] = "idle",
                      pc'[r] = "trading", owed, Undisturbed
               PROVE  FALSE
    OBVIOUS
  <2>1. doc
    BY DEF SwitchInv, StopIsKept
  <2>2. ~Begin(r)
    BY <2>1 DEF Begin, Active, SwitchInv, SwitchTypeOK, Actors
  <2>. QED
    BY <2>2 DEF SwitchNext, switchVars, Click, Hold, Operate, WriteFile, WriteDoc,
                Report, Begin, End, Abort, Actors, SwitchInv, SwitchTypeOK
<1>. QED
  BY <1>1, SwitchBegins, SwitchStep, PTL DEF SwitchSpec, StopReachesEveryRun
=============================================================================
