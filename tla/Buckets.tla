------------------------------- MODULE Buckets -------------------------------
(***************************************************************************)
(* What the bucket strategy buys and sells (src/strategy/bucket_dca.py):   *)
(* a portfolio held in the shape of its buckets by one run after another,  *)
(* each ranking the symbols anew.  When runs happen is Cadence's matter;   *)
(* here every run that acts is an Evaluate, and its orders have filled or  *)
(* been refused before the next.                                           *)
(*                                                                         *)
(* Money is counted in whole units of one currency and every quotient is   *)
(* rounded down, as the code rounds its amounts down to cents.             *)
(***************************************************************************)
EXTENDS Amounts

CONSTANTS
  Symbols,      \* the universe's enabled symbols
  Order,        \* [Symbols -> Nat]: where the universe declares them
  Bucket,       \* [Symbols -> Buckets]
  Buckets, SAFE,
  Leveraged,    \* the symbols that are leveraged
  MaxWeight,    \* [Symbols -> 0..100]: Instrument.max_weight, percent
  Weight,       \* [Buckets -> 0..100]: params.bucket_weights, percent
  Slots,        \* [Buckets -> Nat]: params.bucket_slots
  Whole,        \* the parts that shares of the whole are counted in
  ParamSets,    \* the settings of params a behaviour may run under
  Portfolios,   \* what the account may hold when the strategy takes over
  Readings,     \* what a run may find the prices to say
  Reserve,      \* params.cash_reserve, percent
  MinOrder,     \* params.min_order_usd
  UsdCap,       \* params.max_deploy_per_week_usd
  PctCap,       \* params.max_deploy_per_week_pct, percent
  Multiple,     \* params.dislocation_budget_multiple
  Deposit,      \* cash that arrives after a run
  NoMargin,     \* params.incumbent_margin is None
  Movers,       \* bound: the symbols whose price may double between runs
  MaxRefused,   \* bound: orders of a run that do not go through
  MaxRuns       \* bound: runs of a behaviour

\* BucketDcaParams.__post_init__.  Each slot of each bucket has a whole number of parts.
ASSUME ShapeAssumption ==
  /\ IsFiniteSet(Buckets)
  /\ Weight \in [Buckets -> 0..100] /\ Slots \in [Buckets -> Nat]
  /\ Total(Weight) = 100
  /\ \A b \in Buckets : Weight[b] > 0 => Slots[b] > 0
  /\ Whole \in Nat \ {0} /\ \A b \in Buckets : Whole % (100 * Most(Slots[b], 1)) = 0
ASSUME UniverseAssumption ==
  /\ IsFiniteSet(Symbols)
  /\ SAFE \in Buckets /\ Leveraged \subseteq Symbols
  /\ Bucket \in [Symbols -> Buckets] /\ MaxWeight \in [Symbols -> 0..100]
  /\ Order \in [Symbols -> Nat] /\ \A s, t \in Symbols : Order[s] = Order[t] => s = t
ASSUME SizingAssumption ==
  /\ Reserve \in 0..100 /\ PctCap \in Nat /\ UsdCap \in Nat /\ MinOrder \in Nat \ {0}
  /\ Multiple \in Nat \ {0} /\ Deposit \in Nat /\ NoMargin \notin Nat
  /\ Movers \subseteq Symbols /\ MaxRefused \in Nat /\ MaxRuns \in Nat

Params ==
  [flow      : BOOLEAN,                  \* weight_mode = "flow"
   incumbents : BOOLEAN,                 \* prefer_incumbents
   margin    : Nat \cup {NoMargin},      \* incumbent_margin, percent
   rotation  : BOOLEAN,                  \* rotation_enabled
   absolute  : BOOLEAN,                  \* require_absolute_exit
   buffer    : Nat,                      \* rotation_buffer
   broken    : BOOLEAN,                  \* exit_requires_trend_break
   fraction  : 1..100,                   \* exit_fraction, percent
   unfilled  : Buckets,                  \* unfilled_weight_to
   dips      : BOOLEAN]                  \* dislocation_enabled

\* score 0: below min_score, the feed stale, or too volatile to lever.  SAFE is
\* not ranked: any other score only says that its feed is live.
Reading == [up : BOOLEAN, score : [Symbols -> Nat], below : SUBSET Symbols]

ASSUME ParamSetsAreParams == ParamSets \subseteq Params
ASSUME ReadingsAreReadings == Readings \subseteq Reading
ASSUME PortfoliosAreValues == Portfolios \subseteq [Symbols -> Nat]

VARIABLES
  p,       \* the params of this behaviour
  value,   \* [Symbols -> Nat]: what each position is worth
  cash,
  run,     \* the run's mode while its orders are out, "none" in between
  sells,   \* [Symbols -> Nat]: what the run sells of each position
  buys,    \* [Symbols -> Nat]: what the run buys for
  runs     \* runs so far

vars == <<p, value, cash, run, sells, buys, runs>>

None   == [s \in Symbols |-> 0]
Held   == {s \in Symbols : value[s] > 0}
Equity == Total(value) + cash    \* _managed_equity

-----------------------------------------------------------------------------
(***************************************************************************)
(* Selection.                                                              *)
(***************************************************************************)
\* _ranked_by_bucket: leverage takes part only while the trend is up.
Ranked(b, r) ==
  {s \in Symbols : Bucket[s] = b /\ r.score[s] > 0 /\ (s \in Leveraged => r.up)}

\* s comes before t among the rows of a bucket.
Before(s, t, r) ==
  IF Bucket[s] = SAFE \/ r.score[s] = r.score[t]
  THEN Order[s] < Order[t] ELSE r.score[s] > r.score[t]

\* The first n of S, in the order of rows.
First(S, n, r) == {s \in S : Cardinality({t \in S : Before(t, s, r)}) < n}

\* Mutated form of Picked: slots go to whoever ranks highest.
PickedByRank(b, r) == First(Ranked(b, r), Slots[b], r)

\* Incumbents in ranked order, then challengers, as many as there are slots.
Picked(b, r) ==
  LET rows == Ranked(b, r)
      held == First(rows \cap Held, Slots[b], r)
  IN  IF p.incumbents
      THEN held \cup First(rows \ Held, Slots[b] - Cardinality(held), r)
      ELSE First(rows, Slots[b], r)

\* Rows that _displace compares: it needs an incumbent with a slot and a
\* challenger without one.
Contested(b, r) ==
  /\ p.incumbents /\ p.margin # NoMargin /\ Picked(b, r) \cap Held # {}
  /\ Ranked(b, r) \ (Held \cup Picked(b, r)) # {}

\* _displace: the best challenger left takes the weakest incumbent's slot, by a
\* clear margin only.
Displace(b, r) ==
  LET incumbents == Picked(b, r) \cap Held
      weakest == CHOOSE s \in incumbents : \A t \in incumbents \ {s} :
                   r.score[s] < r.score[t] \/ (r.score[s] = r.score[t] /\ Order[s] < Order[t])
      best == CHOOSE s \in First(Ranked(b, r) \ (Held \cup Picked(b, r)), 1, r) : TRUE
  IN  IF 100 * r.score[best] > r.score[weakest] * (100 + p.margin)
      THEN (Picked(b, r) \ {weakest}) \cup {best}
      ELSE Picked(b, r)

\* _selected, for one bucket.
Selected(b, r) == IF Contested(b, r) THEN Displace(b, r) ELSE Picked(b, r)

-----------------------------------------------------------------------------
(***************************************************************************)
(* Exits.                                                                  *)
(***************************************************************************)
\* Mutated form of Keep: a name outside the slots goes, ranked or not.
KeepSlots(b, r, chosen) == First(Ranked(b, r), Slots[b], r)

\* What rotation keeps in a bucket; an incumbent that lost its slot is not kept.
Keep(b, r, chosen) ==
  LET displaced == IF p.incumbents /\ p.margin # NoMargin
                   THEN (Ranked(b, r) \cap Held) \ chosen ELSE {}
  IN  (IF p.absolute THEN Ranked(b, r) ELSE First(Ranked(b, r), Slots[b] + p.buffer, r))
      \ displaced

\* _rotation_exits.
Rotated(r, chosen) ==
  {s \in Held :
     /\ p.rotation /\ Bucket[s] # SAFE
     /\ s \notin Keep(Bucket[s], r, chosen[Bucket[s]])
     /\ p.broken => s \in r.below}

\* A broken trend sells every leveraged position, whole; rotation sells its
\* fraction, on the weekly run only.  The gate lets a symbol's sale through once.
Sales(r, mode, chosen) ==
  [s \in Symbols |->
     IF s \in Leveraged \cap Held /\ ~r.up THEN value[s]
     ELSE IF mode = "weekly" /\ s \in Rotated(r, chosen)
          THEN (value[s] * p.fraction) \div 100
     ELSE 0]

-----------------------------------------------------------------------------
(***************************************************************************)
(* Sizing.                                                                 *)
(***************************************************************************)
Filled(chosen) == {b \in Buckets : Slots[b] > 0 /\ Weight[b] > 0 /\ chosen[b] # {}}

\* What each slot of a bucket has of the whole.
SlotPart(b) == (Weight[b] * (Whole \div 100)) \div Most(Slots[b], 1)

\* The share of the slots nobody fills.
Spare(chosen) ==
  Total([b \in Buckets |-> SlotPart(b) * (Slots[b] - Cardinality(chosen[b]))])

\* _bucket_shares: one bucket takes what the others leave, if it can fill at all.
Share(b, chosen) ==
  SlotPart(b) * Cardinality(chosen[b]) + (IF b = p.unfilled THEN Spare(chosen) ELSE 0)

Cap(mode) ==
  Most(UsdCap, (PctCap * Equity) \div 100) * (IF mode = "dislocation" THEN Multiple ELSE 1)

\* Mutated form of Budget: the multiple widens what the reserve left.
BudgetWidened(mode) ==
  LET spendable == (cash * (100 - Reserve)) \div 100 IN
  IF mode = "dislocation"
  THEN Least(cash, Least(spendable, Cap("weekly")) * Multiple)
  ELSE Least(spendable, Cap(mode))

\* _budget: the reserve first, then the cap; the multiple widens the cap only.
Budget(mode) == Least((cash * (100 - Reserve)) \div 100, Cap(mode))

MaxValue(s) == (MaxWeight[s] * Equity) \div 100

\* _targets: an equal part of the bucket's share of equity, up to max_weight.
Target(s, chosen) ==
  LET b == Bucket[s] IN
  Least((Share(b, chosen) * Equity) \div (Whole * Cardinality(chosen[b])), MaxValue(s))

\* The names money may go to.
Chosen(chosen) == UNION {chosen[b] : b \in Filled(chosen)}

\* Orders below the minimum are not placed.
Placed(amount) == IF amount < MinOrder THEN 0 ELSE amount

\* _target_buys: the budget in proportion to what each name is short of, and
\* never more than that.
TargetBuys(mode, chosen) ==
  LET gap == [s \in Symbols |->
                IF s \in Chosen(chosen) THEN Most(Target(s, chosen) - value[s], 0) ELSE 0]
      total == Total(gap)
      budget == Budget(mode)
  IN  [s \in Symbols |->
         IF gap[s] = 0 \/ budget < MinOrder THEN 0
         ELSE Placed(Least((gap[s] * budget) \div total, gap[s]))]

\* _flow_buys: the budget by bucket share, and a name only up to its max_weight.
FlowBuys(mode, chosen) ==
  LET budget == Budget(mode)
      perName == [b \in Filled(chosen) |->
                    (Share(b, chosen) * budget) \div (Whole * Cardinality(chosen[b]))]
  IN  [s \in Symbols |->
         IF s \notin Chosen(chosen) \/ budget < MinOrder THEN 0
         ELSE IF perName[Bucket[s]] < MinOrder THEN 0
         ELSE Placed(Most(Least(perName[Bucket[s]], MaxValue(s) - value[s]), 0))]

Purchases(mode, chosen) ==
  IF p.flow THEN FlowBuys(mode, chosen) ELSE TargetBuys(mode, chosen)

\* The rows of SAFE have no score to compare: a run that selects among contested
\* ones, for its rotation or its buys, ends in a TypeError.
Raises(mode, r) ==
  /\ Contested(SAFE, r)
  /\ (mode = "weekly" /\ p.rotation) \/ ~p.flow \/ Budget(mode) >= MinOrder

-----------------------------------------------------------------------------
\* BucketDcaStrategy.evaluate on a day it acts on.
Evaluate(mode, r) ==
  /\ run = "none" /\ runs < MaxRuns
  /\ mode = "dislocation" => p.dips /\ r.up
  /\ ~Raises(mode, r)
  /\ LET chosen == [b \in Buckets |-> Selected(b, r)] IN
     /\ sells' = Sales(r, mode, chosen)
     /\ buys' = Purchases(mode, chosen)
  /\ run' = mode /\ runs' = runs + 1
  /\ UNCHANGED <<p, value, cash>>

\* evaluate raises: the run places nothing, its exits included.
EvaluateRaises(mode, r) ==
  /\ run = "none" /\ runs < MaxRuns
  /\ mode = "dislocation" => p.dips /\ r.up
  /\ Raises(mode, r)
  /\ runs' = runs + 1
  /\ UNCHANGED <<p, value, cash, run, sells, buys>>

\* The gate refuses some of the orders, the others fill; then cash arrives and
\* one position may double.
Settle(refused, doubled) ==
  /\ run # "none"
  /\ LET sold   == [s \in Symbols |-> IF s \in refused THEN 0 ELSE sells[s]]
         bought == [s \in Symbols |-> IF s \in refused THEN 0 ELSE buys[s]]
     IN /\ value' = [s \in Symbols |->
                       (value[s] - sold[s] + bought[s]) * (IF s \in doubled THEN 2 ELSE 1)]
        /\ cash' = cash + Total(sold) - Total(bought) + Deposit
  /\ run' = "none" /\ sells' = None /\ buys' = None
  /\ UNCHANGED <<p, runs>>

Init ==
  /\ p \in ParamSets
  /\ value \in Portfolios /\ cash = Deposit
  /\ run = "none" /\ sells = None /\ buys = None /\ runs = 0

Ordered == {s \in Symbols : sells[s] + buys[s] > 0}

Next ==
  \/ \E mode \in {"weekly", "dislocation"}, r \in Readings : Evaluate(mode, r)
  \/ \E mode \in {"weekly", "dislocation"}, r \in Readings : EvaluateRaises(mode, r)
  \/ \E refused \in {R \in SUBSET Ordered : Cardinality(R) <= MaxRefused},
        doubled \in SUBSET Movers :
       Settle(refused, doubled)

Spec == Init /\ [][Next]_vars

-----------------------------------------------------------------------------
\* Values and amounts are natural numbers: nothing is sold that is not held.
TypeOK ==
  /\ p \in ParamSets
  /\ value \in [Symbols -> Nat] /\ cash \in Nat
  /\ run \in {"none", "weekly", "dislocation"} /\ runs \in 0..MaxRuns
  /\ sells \in [Symbols -> Nat] /\ buys \in [Symbols -> Nat]
  /\ \A s \in Symbols : sells[s] <= value[s]

\* A run's buys together leave the cash reserve alone and keep to the deployment
\* cap, on a dislocation day too, whatever slots are empty; and none takes a position
\* above its own max_weight, in either sizing.
BuysKeepTheirLimits ==
  /\ run # "none" =>
       /\ 100 * Total(buys) <= cash * (100 - Reserve)
       /\ Total(buys) <= Cap(run)
  /\ \A s \in Symbols : buys[s] > 0 => 100 * (value[s] + buys[s]) <= MaxWeight[s] * Equity

\* A run never buys the symbol it sells.  (Ranking-only exits under incumbency
\* do: an incumbent past the buffer is sold and, still holding a slot, bought.)
NoRoundTrip ==
  p.absolute \/ ~p.incumbents =>
    \A s \in Symbols : sells[s] = 0 \/ buys[s] = 0

Roster(b) == {s \in Held : Bucket[s] = b /\ sells[s] < value[s]} \cup
             {s \in Symbols : Bucket[s] = b /\ buys[s] > 0}

\* Exits that do not wait for a broken trend keep a ranked bucket within its
\* slots from one weekly run to the next, displaced names included.
RosterWithinSlots ==
  run = "weekly" /\ p.incumbents /\ p.absolute /\ p.rotation /\ ~p.broken /\ p.fraction = 100 =>
    \A b \in Buckets \ {SAFE} :
      Cardinality({s \in Held : Bucket[s] = b}) <= Slots[b] => Cardinality(Roster(b)) <= Slots[b]
=============================================================================
