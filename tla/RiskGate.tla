------------------------------- MODULE RiskGate -------------------------------
(***************************************************************************)
(* The risk gate (src/execution/risk.py): evaluate_batch takes one run's   *)
(* signals in order and approves or rejects each against one snapshot of   *)
(* the world and what the run has committed so far.                        *)
(*                                                                         *)
(* Quantities are counted in 1/Lot shares and prices are per 1/Lot share.  *)
(* Limits are in KRW; buying power and order values are in the symbol's    *)
(* own currency, which also stands for the market it trades on.            *)
(***************************************************************************)
EXTENDS Integers, Sequences

CONSTANTS
  Symbols, Currencies,
  Currency,      \* [Symbols -> Currencies]
  KRW, USD,      \* the currency that needs no rate; the one of fractional sells
  Signals,       \* what the strategies may ask for
  Worlds,        \* the contexts build_context may hand over
  MaxBatch,      \* bound: signals of one run
  Lot,           \* quantity units in a share
  MaxOrders,     \* limits.max_orders_per_day
  MaxNotional,   \* limits.max_daily_notional_krw
  Cap,           \* [Symbols -> Nat]: position weight limit, in percent
  MinEquity,     \* limits.weight_check_min_equity_krw
  HighValue,     \* limits.high_value_threshold_krw
  AllowHigh,     \* limits.allow_high_value
  Unknown        \* a reading the context does not have

ASSUME LimitsAreNumbers ==
  /\ MaxOrders \in Nat /\ MaxNotional \in Nat /\ MinEquity \in Nat /\ HighValue \in Nat
  /\ MaxBatch \in Nat /\ Lot \in Nat \ {0}
  /\ Cap \in [Symbols -> Nat]
ASSUME SwitchesAreBoolean == AllowHigh \in BOOLEAN
ASSUME CurrenciesAssumption == Currency \in [Symbols -> Currencies]
ASSUME UnknownIsNoNumber == Unknown \notin Nat

\* A reading: a number, or nothing.
Reading == Nat \cup {Unknown}

\* Exactly one of quantity and amount is set; `limit` is Unknown for MARKET.
Signal == [symbol : Symbols, buy : BOOLEAN, amount : Reading, quantity : Reading, limit : Reading]

World ==
  [strict    : BOOLEAN,                        \* limits.strict of the run
   killed    : BOOLEAN,
   vetoed    : SUBSET Symbols,                 \* blocked_symbols
   used      : Nat,                            \* daily_usage.order_count
   usedKrw   : Nat,                            \* daily_usage.notional_krw
   rate      : Nat,                            \* exchange_rate, 0 when unknown
   equity    : Nat,                            \* equity_krw
   price     : [Symbols -> Reading],
   low       : [Symbols -> Reading],           \* price_limits
   high      : [Symbols -> Reading],
   banded    : SUBSET Symbols,                 \* symbols with price_limits at all
   session   : [Currencies -> {"unknown", "closed", "open", "closing", "endless"}],
   power     : [Currencies -> Reading],        \* buying_power
   sellable  : [Symbols -> Reading],
   holding   : [Symbols -> Nat]]               \* evaluation of the position, in KRW

ASSUME SignalsAreSignals ==
  Signals \subseteq {s \in Signal : (s.amount = Unknown) # (s.quantity = Unknown)}
ASSUME WorldsAreWorlds == Worlds \subseteq World

VARIABLES
  ctx,        \* the context of this run
  committed,  \* BatchCommitment: what the approvals so far add up to
  batch       \* the signals judged so far, each with its verdict

vars == <<ctx, committed, batch>>

Nothing ==
  [count |-> 0, krw |-> 0,
   spent  |-> [c \in Currencies |-> 0],
   bought |-> [s \in Symbols |-> 0],
   sold   |-> [s \in Symbols |-> 0]]

-----------------------------------------------------------------------------
\* Signal.notional: what the order is worth in its own currency.
Notional(s) ==
  IF s.amount # Unknown THEN s.amount
  ELSE IF s.limit # Unknown THEN s.quantity * s.limit
  ELSE IF ctx.price[s.symbol] # Unknown THEN s.quantity * ctx.price[s.symbol]
  ELSE Unknown

Priced(s)    == Notional(s) # Unknown
Converted(s) == Currency[s.symbol] = KRW \/ ctx.rate > 0
Valued(s)    == Priced(s) /\ Converted(s)

\* notional_krw, where there is one.
Krw(s) == IF Currency[s.symbol] = KRW THEN Notional(s) ELSE Notional(s) * ctx.rate

Fractional(s) == s.quantity # Unknown /\ s.quantity % Lot # 0

(***************************************************************************)
(* The rules, each what an approval requires.  A check with no data passes *)
(* only when the gate is not strict.                                       *)
(***************************************************************************)
NotKilled == ~ctx.killed

\* A veto holds back buys only.
NotVetoed(s) == s.buy => s.symbol \notin ctx.vetoed

\* Mutated form of OrdersLeft: one order too many.
OrdersLeftOrLast(c) == ctx.used + c.count <= MaxOrders

OrdersLeft(c) == ctx.used + c.count < MaxOrders

\* US MARKET SELL is the only order that may name part of a share.
WholeOrUsSale(s) ==
  Fractional(s) => Currency[s.symbol] = USD /\ s.limit = Unknown /\ ~s.buy

\* "closing": open, past the cutoff for amounts and fractions; "endless": open,
\* with no known close.
SessionTakes(s) ==
  LET session == ctx.session[Currency[s.symbol]] IN
  /\ session # "closed"
  /\ session = "unknown" => ~ctx.strict
  /\ s.amount # Unknown \/ Fractional(s) =>
       session # "closing" /\ (session = "endless" => ~ctx.strict)

InBand(s) ==
  s.limit # Unknown =>
    /\ s.symbol \notin ctx.banded => ~ctx.strict
    /\ s.symbol \in ctx.banded =>
         /\ ctx.low[s.symbol]  # Unknown => s.limit >= ctx.low[s.symbol]
         /\ ctx.high[s.symbol] # Unknown => s.limit <= ctx.high[s.symbol]

CanBeValued(s) == ctx.strict => Valued(s)

WithinBudget(s, c) ==
  Valued(s) => ctx.usedKrw + c.krw + Krw(s) <= MaxNotional

\* Mutated form of WithinWeight: the order alone, not the position it makes.
WithinWeightAlone(s, c) ==
  (Valued(s) /\ s.buy /\ ctx.equity > 0 /\ ctx.equity >= MinEquity) =>
    100 * Krw(s) <= Cap[s.symbol] * ctx.equity

\* Weight of the position the buy would result in.  Not asked of an account too
\* small to be concentrated.
WithinWeight(s, c) ==
  (Valued(s) /\ s.buy /\ ctx.equity > 0 /\ ctx.equity >= MinEquity) =>
    100 * (c.bought[s.symbol] + ctx.holding[s.symbol] + Krw(s)) <= Cap[s.symbol] * ctx.equity

\* Mutated form of Affordable: against the balance before the run.
AffordableAlone(s, c) ==
  LET power == ctx.power[Currency[s.symbol]] IN
  s.buy =>
    /\ power = Unknown => ~ctx.strict
    /\ power # Unknown /\ Priced(s) => Notional(s) <= power

Affordable(s, c) ==
  LET power == ctx.power[Currency[s.symbol]] IN
  s.buy =>
    /\ power = Unknown => ~ctx.strict
    /\ power # Unknown /\ Priced(s) => Notional(s) <= power - c.spent[Currency[s.symbol]]

\* Mutated form of Sellable: against the shares before the run.
SellableAlone(s, c) ==
  ~s.buy =>
    /\ ctx.sellable[s.symbol] = Unknown => ~ctx.strict
    /\ ctx.sellable[s.symbol] # Unknown /\ s.quantity # Unknown =>
         s.quantity <= ctx.sellable[s.symbol]

\* Only a sale that names shares can be checked against them.
Sellable(s, c) ==
  ~s.buy =>
    /\ ctx.sellable[s.symbol] = Unknown => ~ctx.strict
    /\ ctx.sellable[s.symbol] # Unknown /\ s.quantity # Unknown =>
         s.quantity <= ctx.sellable[s.symbol] - c.sold[s.symbol]

NotHighValue(s) == Valued(s) /\ Krw(s) >= HighValue => AllowHigh

Approves(s, c) ==
  /\ NotKilled         /\ NotVetoed(s)       /\ OrdersLeft(c)
  /\ WholeOrUsSale(s)  /\ SessionTakes(s)    /\ InBand(s)
  /\ CanBeValued(s)    /\ WithinBudget(s, c) /\ WithinWeight(s, c)
  /\ Affordable(s, c)  /\ Sellable(s, c)     /\ NotHighValue(s)

\* BatchCommitment.plus.
Plus(c, s) ==
  [count  |-> c.count + 1,
   krw    |-> c.krw + IF Valued(s) THEN Krw(s) ELSE 0,
   spent  |-> IF s.buy /\ Priced(s)
              THEN [c.spent EXCEPT ![Currency[s.symbol]] = @ + Notional(s)] ELSE c.spent,
   bought |-> IF s.buy /\ Valued(s)
              THEN [c.bought EXCEPT ![s.symbol] = @ + Krw(s)] ELSE c.bought,
   sold   |-> IF ~s.buy /\ s.quantity # Unknown
              THEN [c.sold EXCEPT ![s.symbol] = @ + s.quantity] ELSE c.sold]

-----------------------------------------------------------------------------
Init ==
  /\ ctx \in Worlds
  /\ committed = Nothing
  /\ batch = <<>>

\* Mutated form of Evaluate: a rejection uses up the budget too.
EvaluateAndCharge(s) ==
  /\ Len(batch) < MaxBatch
  /\ batch' = Append(batch, [signal |-> s, ok |-> Approves(s, committed)])
  /\ committed' = Plus(committed, s)
  /\ UNCHANGED ctx

\* One turn of evaluate_batch.
Evaluate(s) ==
  /\ Len(batch) < MaxBatch
  /\ batch' = Append(batch, [signal |-> s, ok |-> Approves(s, committed)])
  /\ committed' = IF Approves(s, committed) THEN Plus(committed, s) ELSE committed
  /\ UNCHANGED ctx

Next == \E s \in Signals : Evaluate(s)

Spec == Init /\ [][Next]_vars

-----------------------------------------------------------------------------
Commitment ==
  [count : Nat, krw : Nat, spent : [Currencies -> Nat],
   bought : [Symbols -> Nat], sold : [Symbols -> Nat]]

\* The context is the one the run began with, and the commitment is numbers.
TypeOK ==
  /\ ctx \in World
  /\ committed \in Commitment
  /\ batch \in Seq([signal : Signals, ok : BOOLEAN])

\* A run's orders and the day's together stay within both daily limits.
DailyLimitsHold ==
  /\ committed.count > 0 => ctx.used + committed.count <= MaxOrders
  /\ committed.krw > 0 => ctx.usedKrw + committed.krw <= MaxNotional

\* The run never promises the same cash, or the same shares, twice.
FundsCoverTheBatch ==
  /\ \A c \in Currencies : ctx.power[c] # Unknown => committed.spent[c] <= ctx.power[c]
  /\ \A s \in Symbols : ctx.sellable[s] # Unknown => committed.sold[s] <= ctx.sellable[s]

\* No symbol's buys build a position above its weight limit between them.
WeightHolds ==
  ctx.equity > 0 /\ ctx.equity >= MinEquity =>
    \A s \in Symbols : committed.bought[s] > 0 =>
      100 * (committed.bought[s] + ctx.holding[s]) <= Cap[s] * ctx.equity

\* The sum of a sequence of amounts.
Total(amounts) ==
  LET sum[i \in 0..Len(amounts)] == IF i = 0 THEN 0 ELSE sum[i - 1] + amounts[i]
  IN  sum[Len(amounts)]

\* Sum of an amount over the signals approved so far.
SumApproved(Amount(_)) ==
  Total([i \in DOMAIN batch |-> IF batch[i].ok THEN Amount(batch[i].signal) ELSE 0])

\* What is committed is exactly what the approvals come to: nothing an approved
\* order takes is forgotten, and a rejected signal takes nothing.
CommitmentIsExact ==
  /\ committed.count = SumApproved(LAMBDA s : 1)
  /\ committed.krw = SumApproved(LAMBDA s : IF Valued(s) THEN Krw(s) ELSE 0)
  /\ \A c \in Currencies : committed.spent[c] =
       SumApproved(LAMBDA s : IF s.buy /\ Currency[s.symbol] = c /\ Priced(s)
                              THEN Notional(s) ELSE 0)
  /\ \A x \in Symbols :
       /\ committed.bought[x] =
            SumApproved(LAMBDA s : IF s.buy /\ s.symbol = x /\ Valued(s) THEN Krw(s) ELSE 0)
       /\ committed.sold[x] =
            SumApproved(LAMBDA s : IF ~s.buy /\ s.symbol = x /\ s.quantity # Unknown
                                   THEN s.quantity ELSE 0)
=============================================================================
