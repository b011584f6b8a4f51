----------------------------- MODULE MCRiskGate -----------------------------
(* Constant values for model-checking RiskGate: a US and a KR symbol, limits a *)
(* batch of four reaches, and a world for each reading that may be missing.    *)
EXTENDS RiskGate, TLC

MCSymbols    == {"US1", "KR1"}
MCCurrencies == {"USD", "KRW"}
MCCurrency   == "US1" :> "USD" @@ "KR1" :> "KRW"
MCCap        == "US1" :> 50 @@ "KR1" :> 20

MCBuy(x, amount, quantity, limit) ==
  [symbol |-> x, buy |-> TRUE, amount |-> amount, quantity |-> quantity, limit |-> limit]
MCSell(x, amount, quantity, limit) ==
  [MCBuy(x, amount, quantity, limit) EXCEPT !.buy = FALSE]

MCSignals ==
  {MCBuy("US1", 3, Unknown, Unknown), MCBuy("US1", Unknown, 2, Unknown),
   MCBuy("KR1", Unknown, 2, 4),       MCBuy("KR1", Unknown, 1, Unknown),
   MCBuy("KR1", 20, Unknown, Unknown),
   MCSell("US1", Unknown, 1, Unknown), MCSell("US1", Unknown, 2, Unknown),
   MCSell("KR1", Unknown, 2, 9),       MCSell("US1", 2, Unknown, Unknown)}

MCWorld ==
  [strict |-> TRUE, killed |-> FALSE, vetoed |-> {}, used |-> 1, usedKrw |-> 10, rate |-> 2, equity |-> 60,
   price    |-> "US1" :> 2 @@ "KR1" :> 4,
   low      |-> "US1" :> Unknown @@ "KR1" :> 3,
   high     |-> "US1" :> Unknown @@ "KR1" :> 6,
   banded   |-> {"KR1"},
   session  |-> "USD" :> "open" @@ "KRW" :> "open",
   power    |-> "USD" :> 8 @@ "KRW" :> 30,
   sellable |-> "US1" :> 3 @@ "KR1" :> 2,
   holding  |-> "US1" :> 12 @@ "KR1" :> 0]

MCStrictWorlds ==
  {MCWorld,
   [MCWorld EXCEPT !.killed = TRUE],
   [MCWorld EXCEPT !.vetoed = {"US1"}],
   [MCWorld EXCEPT !.used = 4],
   [MCWorld EXCEPT !.usedKrw = 36],
   [MCWorld EXCEPT !.rate = 0],
   [MCWorld EXCEPT !.equity = 20, !.holding["KR1"] = 9],
   [MCWorld EXCEPT !.power["USD"] = Unknown, !.sellable["US1"] = Unknown],
   [MCWorld EXCEPT !.price["US1"] = Unknown, !.banded = {}],
   [MCWorld EXCEPT !.session["USD"] = "closing", !.session["KRW"] = "unknown"],
   [MCWorld EXCEPT !.session["USD"] = "endless", !.session["KRW"] = "closed"]}

\* Every world under strict and under lenient limits.
MCWorlds == MCStrictWorlds \cup {[w EXCEPT !.strict = FALSE] : w \in MCStrictWorlds}
=============================================================================
