------------------------------ MODULE Backtest ------------------------------
(***************************************************************************)
(* The backtest (src/backtest/engine.py): a strategy replayed session by   *)
(* session against a simulated account and the real risk gate.  A session  *)
(* fills what the last one approved, works the stop-loss, settles last     *)
(* year's tax, takes the month's deposit, and then judges new signals.     *)
(*                                                                         *)
(* Prices, cash and cost bases are whole numbers, divisions round down.  A *)
(* lot keeps its cost, which is its average price times its quantity.      *)
(***************************************************************************)
EXTENDS Amounts, Sequences

CONSTANTS
  Universe,
  Safe,          \* the SAFE bucket, exempt from the stop-loss
  Signals,       \* what a strategy may ask for
  Quotes,        \* what a session may bring: [bars : symbol -> [open, low, high, close]
                 \* or NoBar, rate : KRW per USD]
  NoBar,
  MaxBatch,      \* bound: signals of one session
  MaxSessions,   \* bound: sessions, the last of which only fills
  MaxGap,        \* bound: calendar days from one session to the next
  SlipPct, FeePct, \* slippage_bps and commission_bps, in percent
  StopPct,       \* stop_loss_pct, in percent
  Seed, Monthly, \* initial_krw and the monthly amount, in KRW
  DueDay,        \* contribution.day_of_month
  MonthDays, YearMonths,
  TaxFree, TaxPct,  \* deduction in KRW, and rate in percent
  MaxOrders, MaxNotional, WeightCap, MinEquity, HighValue, AllowHigh, \* RiskLimits
  Unknown

Bar == [open : Nat \ {0}, low : Nat \ {0}, high : Nat \ {0}, close : Nat \ {0}]

ASSUME BacktestParameters ==
  /\ IsFiniteSet(Universe) /\ Safe \subseteq Universe
  /\ {MaxBatch, MaxSessions, FeePct, StopPct, Seed, Monthly, TaxFree, TaxPct} \subseteq Nat
  /\ SlipPct \in 0..99 /\ FeePct <= 100 /\ StopPct <= 100
  /\ {MaxGap, DueDay, MonthDays, YearMonths} \subseteq Nat \ {0}
  /\ \A q \in Quotes : q.bars \in [Universe -> Bar \cup {NoBar}] /\ q.rate \in Nat \ {0}
  /\ MaxGap <= MonthDays   \* the first session is in month 0
  /\ Unknown \notin Int
\* The strategies buy for an amount and sell a number of shares.
ASSUME SignalsAreOrders ==
  Signals \subseteq
    [symbol : Universe, buy : {TRUE}, amount : Nat, quantity : {Unknown}, limit : Nat \cup {Unknown}]
    \cup
    [symbol : Universe, buy : {FALSE}, amount : {Unknown}, quantity : Nat, limit : Nat \cup {Unknown}]

VARIABLES
  step,      \* where the session is
  session,   \* sessions so far
  day,       \* the session's date
  bars,      \* symbol -> its bar of the day
  rate,      \* the day's exchange rate
  last,      \* symbol -> its latest close, Unknown when it has had none
  account,   \* the simulated account and the ledger of its gains, see Account
  settled,   \* ledger.paid_years
  paid,      \* ledger.total_paid_krw
  deposited, \* sim.contributed_krw
  funded,    \* the month contributed_this_month is about
  pending,   \* approved intents still to be filled
  ctx, committed, batch,  \* the gate's, as in RiskGate
  waited,    \* history: a sale or a purchase has had to wait for a bar
  taxes,     \* history: USD taken out for tax, and USD put in
  funds,
  due        \* history: months that have had a session on or after DueDay

Gate == INSTANCE RiskGate WITH
  Symbols <- Universe, Cap <- WeightCap, Worlds <- {}, Lot <- 1,
  Currencies <- {"USD"}, Currency <- [x \in Universe |-> "USD"], KRW <- "KRW", USD <- "USD"

market  == <<session, day, bars, rate, last>>
tax     == <<settled, paid, taxes>>
money   == <<deposited, funded, funds, due>>
gate    == <<ctx, committed, batch>>
backtestVars == <<step, market, account, tax, money, pending, gate, waited>>

Month(d)      == (d - 1) \div MonthDays
Year(d)       == Month(d) \div YearMonths
DayOfMonth(d) == ((d - 1) % MonthDays) + 1
Years         == 0..Year(1 + MaxSessions * MaxGap)

\* sim.cash_usd, sim.lots with their cost, the sum of sim.trades, ledger.by_year;
\* as history, the commissions of purchases and what was sold beyond the lots.
NoLot   == [quantity |-> 0, cost |-> 0]
Account == [cash |-> 0, lots |-> [x \in Universe |-> NoLot], realised |-> 0,
            gains |-> [y \in Years |-> 0], fees |-> 0, over |-> 0]

Owned(x) == account.lots[x].quantity

\* The gate between two sessions.
NoContext == [strict |-> FALSE]

-----------------------------------------------------------------------------
\* FillModel, and the stop-loss beside it.
Slippage(price)      == (price * SlipPct) \div 100
Commission(notional) == (notional * FeePct) \div 100

\* FillModel.fill_price, 0 when a limit is not touched.
FillPrice(s, bar) ==
  LET base == IF s.limit = Unknown THEN bar.open
              ELSE IF s.buy THEN IF s.limit < bar.low  THEN 0 ELSE Least(s.limit, bar.open)
              ELSE               IF s.limit > bar.high THEN 0 ELSE Most(s.limit, bar.open)
  IN  IF s.buy THEN base + Slippage(base) ELSE base - Slippage(base)

\* Mutated form of Bought: the commission is not part of the price paid.
BoughtFree(a, x, quantity, price) ==
  [a EXCEPT !.cash = @ - quantity * price,
            !.lots[x] = [quantity |-> @.quantity + quantity, cost |-> @.cost + quantity * price],
            !.fees = @ + Commission(quantity * price)]

\* SimPortfolio.apply_fill, a purchase.
Bought(a, x, quantity, price) ==
  [a EXCEPT !.cash = @ - quantity * price - Commission(quantity * price),
            !.lots[x] = [quantity |-> @.quantity + quantity, cost |-> @.cost + quantity * price],
            !.fees = @ + Commission(quantity * price)]

\* SimPortfolio.apply_fill, a sale: it does not ask whether the lot is that large,
\* or is there.
Sold(a, x, quantity, price) ==
  LET lot   == a.lots[x]
      entry == IF lot.quantity = 0 THEN quantity * price ELSE (quantity * lot.cost) \div lot.quantity
      net   == quantity * price - Commission(quantity * price)
      pnl   == net - entry
      all   == quantity >= lot.quantity
  IN  [a EXCEPT !.cash = @ + net,
                !.lots[x] = IF all THEN NoLot
                            ELSE [quantity |-> lot.quantity - quantity, cost |-> lot.cost - entry],
                !.realised = @ + pnl,
                !.gains[Year(day)] = @ + pnl * rate,
                !.over = @ + IF all THEN entry - lot.cost ELSE 0]

\* One intent of `pending` against its bar; a limit that is not touched lapses.
Fill(a, s) ==
  LET price    == FillPrice(s, bars[s.symbol])
      quantity == IF s.buy THEN s.amount \div price ELSE s.quantity
  IN  IF price = 0 THEN a
      ELSE IF s.buy THEN Bought(a, s.symbol, quantity, price)
      ELSE Sold(a, s.symbol, quantity, price)

\* The intents in turn; those without a bar today wait.
Executed ==
  LET done[n \in 0..Len(pending)] ==
        IF n = 0 THEN [account |-> account, waiting |-> <<>>]
        ELSE IF bars[pending[n].symbol] = NoBar
             THEN [done[n - 1] EXCEPT !.waiting = Append(@, pending[n])]
             ELSE [done[n - 1] EXCEPT !.account = Fill(@, pending[n])]
  IN  done[Len(pending)]

\* The stop-loss of one position: a resting order below its average price.
Stop(x, a) ==
  LET lot   == a.lots[x]
      price == (lot.cost * (100 - StopPct)) \div (100 * lot.quantity)
  IN  IF x \notin Safe /\ lot.quantity > 0 /\ bars[x] # NoBar /\ bars[x].low <= price
      THEN Sold(a, x, lot.quantity, price - Slippage(price))
      ELSE a

\* All positions, in any order.
Stopped ==
  LET after[S \in SUBSET Universe] ==
        IF S = {} THEN account
        ELSE LET x == CHOOSE x \in S : TRUE IN Stop(x, after[S \ {x}])
  IN  after[Universe]

-----------------------------------------------------------------------------
\* The next session of the benchmark, with what it brings.
Open ==
  /\ step = "night" /\ session < MaxSessions
  /\ session' = session + 1
  /\ \E n \in 1..MaxGap : day' = day + n
  /\ \E quote \in Quotes : bars' = quote.bars /\ rate' = quote.rate
  /\ last' = [x \in Universe |-> IF bars'[x] = NoBar THEN last[x] ELSE bars'[x].close]
  /\ due' = IF DayOfMonth(day') >= DueDay THEN due \cup {Month(day')} ELSE due
  /\ step' = "fill"
  /\ UNCHANGED <<account, tax, deposited, funded, funds, pending, gate, waited>>

\* 1. Yesterday's approved intents at today's open.
FillPending ==
  /\ step = "fill"
  /\ account' = Executed.account
  /\ pending' = Executed.waiting
  /\ waited' = (waited \/ pending' # <<>>)
  /\ step' = "stop"
  /\ UNCHANGED <<market, tax, money, gate>>

\* 1.5. The stop-loss.
WorkStops ==
  /\ step = "stop"
  /\ account' = Stopped
  /\ step' = "tax"
  /\ UNCHANGED <<market, tax, money, pending, gate, waited>>

\* CapitalGainsTax.bill_krw
Bill(net) == IF net <= TaxFree THEN 0 ELSE ((net - TaxFree) * TaxPct) \div 100

\* Mutated form of Unsettled: the current year too.
UnsettledToDate == {y \in Years : y <= Year(day)} \ settled

\* ledger.due_on: completed years that have not been billed.
Unsettled == {y \in Years : y < Year(day)} \ settled

SettleTax ==
  /\ step = "tax"
  /\ LET owed == Total([y \in Unsettled |-> Bill(account.gains[y])]) IN
       /\ paid' = paid + owed
       /\ account' = [account EXCEPT !.cash = @ - owed \div rate]
       /\ taxes' = taxes + owed \div rate
  /\ settled' = settled \cup Unsettled
  /\ step' = "deposit"
  /\ UNCHANGED <<market, money, pending, gate, waited>>

\* SimPortfolio.contribute
Contribute(krw) ==
  /\ account' = [account EXCEPT !.cash = @ + krw \div rate]
  /\ deposited' = deposited + krw
  /\ funds' = funds + krw \div rate
  /\ funded' = Month(day)

\* ContributionSchedule.is_due
Due == DayOfMonth(day) >= DueDay /\ funded # Month(day)

\* 2. The seed on the first session, then one deposit a month.
TakeDeposit ==
  /\ step = "deposit"
  /\ \/ session = 1 /\ Contribute(Seed)
     \/ session > 1 /\ Due /\ Contribute(Monthly)
     \/ session > 1 /\ ~Due /\ UNCHANGED <<account, deposited, funds, funded>>
  /\ step' = "context"
  /\ UNCHANGED <<market, tax, due, pending, gate, waited>>

\* 4. build_backtest_context: positions at their latest close, cash as it is.  What
\* is pending is in neither; the day's usage is always nil, since the counters
\* record_intent keeps are reset before they are next read.
BuildContext ==
  /\ step = "context"
  /\ LET value == [x \in Universe |-> IF Owned(x) = 0 THEN 0 ELSE Owned(x) * last[x]] IN
     ctx' = [strict |-> FALSE, killed |-> FALSE, vetoed |-> {}, used |-> 0, usedKrw |-> 0,
             rate |-> rate, equity |-> (account.cash + Total(value)) * rate,
             price |-> [x \in Universe |-> IF bars[x] = NoBar THEN Unknown ELSE bars[x].close],
             low |-> [x \in Universe |-> Unknown], high |-> [x \in Universe |-> Unknown],
             banded |-> {}, session |-> [c \in {"USD"} |-> "open"],
             power |-> [c \in {"USD"} |-> account.cash],
             sellable |-> [x \in Universe |-> IF Owned(x) = 0 THEN Unknown ELSE Owned(x)],
             holding |-> [x \in Universe |-> value[x] * rate]]
  /\ committed' = Gate!Nothing
  /\ batch' = <<>>
  /\ step' = "judge"
  /\ UNCHANGED <<market, account, tax, money, pending, waited>>

\* 5-7. The strategy asks, the gate judges, what it approves is queued.  A strategy
\* sells what it holds, never more.
Judge(s) ==
  /\ step = "judge" /\ session < MaxSessions
  /\ ~s.buy => s.quantity <= Owned(s.symbol)
  /\ Gate!Evaluate(s)
  /\ pending' = IF Gate!Approves(s, committed) THEN Append(pending, s) ELSE pending
  /\ UNCHANGED <<step, market, account, tax, money, waited>>

Close ==
  /\ step = "judge"
  /\ step' = "night"
  /\ ctx' = NoContext /\ committed' = Gate!Nothing /\ batch' = <<>>
  /\ UNCHANGED <<market, account, tax, money, pending, waited>>

BacktestInit ==
  /\ step = "night" /\ session = 0 /\ day = 0
  /\ bars = [x \in Universe |-> NoBar] /\ rate = 1
  /\ last = [x \in Universe |-> Unknown]
  /\ account = Account
  /\ settled = {} /\ paid = 0 /\ taxes = 0
  /\ deposited = 0 /\ funded = -1 /\ funds = 0 /\ due = {}
  /\ pending = <<>> /\ waited = FALSE
  /\ ctx = NoContext /\ committed = Gate!Nothing /\ batch = <<>>

BacktestNext ==
  \/ Open \/ FillPending \/ WorkStops \/ SettleTax \/ TakeDeposit \/ BuildContext
  \/ \E s \in Signals : Judge(s)
  \/ Close

BacktestSpec == BacktestInit /\ [][BacktestNext]_backtestVars

-----------------------------------------------------------------------------
\* Values have their types.
BacktestTypeOK ==
  /\ step \in {"night", "fill", "stop", "tax", "deposit", "context", "judge"}
  /\ session \in 0..MaxSessions /\ day \in 0..(MaxSessions * MaxGap)
  /\ DOMAIN bars = Universe /\ rate \in Nat \ {0}
  /\ DOMAIN last = Universe
  /\ \A x \in Universe : account.lots[x] \in [quantity : Nat, cost : Nat]
  /\ account.cash \in Int /\ account.realised \in Int
  /\ account.gains \in [Years -> Int] /\ account.fees \in Nat
  /\ settled \subseteq Years /\ {paid, taxes, deposited, funds} \subseteq Nat
  /\ pending \in Seq(Signals)
  /\ waited \in BOOLEAN

\* engine.run and sim.apply_fill: no money appears or vanishes.  Cash and what the
\* lots cost are what was put in, less tax and commissions, plus what trades made;
\* the one exception is a sale of shares that were not there.
BooksBalance ==
  account.cash + Total([x \in Universe |-> account.lots[x].cost])
    = funds - taxes - account.fees + account.realised + account.over

\* engine.run: the gate's view of one day is enough to keep a lot from being sold
\* twice, by the strategy or by the stop-loss, and cash from being spent twice, as
\* long as no symbol misses a bar: cash falls short only of commissions and tax.
NothingSpentTwice ==
  ~waited => account.over = 0 /\ account.cash + taxes + account.fees >= 0

\* ledger.due_on and ContributionSchedule: every year is billed once, for all of its
\* gains, and no later than the first session of the next; each month with a
\* session on or after the due day gets its deposit, once, and that of the seed the
\* seed.
YearsAndMonthsOnce ==
  /\ paid = Total([y \in settled |-> Bill(account.gains[y])])
  /\ step \notin {"night", "fill", "stop", "tax"} => settled = {y \in Years : y < Year(day)}
  /\ step \in {"context", "judge", "night"} /\ session > 0 =>
       deposited = Seed + Monthly * Cardinality(due \ {0})
=============================================================================
