----------------------------- MODULE MCBacktest -----------------------------
(* Constant values for model-checking Backtest: a traded symbol that may miss  *)
(* its bar, and one of the SAFE bucket that never does.                        *)
EXTENDS Backtest, TLC

MCBuy(x, amount)    == [symbol |-> x, buy |-> TRUE, amount |-> amount, quantity |-> Unknown, limit |-> Unknown]
MCSell(x, quantity) == [symbol |-> x, buy |-> FALSE, amount |-> Unknown, quantity |-> quantity, limit |-> Unknown]

MCSignals == {MCBuy("TQQQ", 40), MCBuy("GLD", 20), MCSell("TQQQ", 1),
              [MCSell("TQQQ", 2) EXCEPT !.limit = 20]}

MCBar(open, low, high, close) == [open |-> open, low |-> low, high |-> high, close |-> close]
MCFlat == MCBar(19, 19, 21, 21)
MCDip  == MCBar(19, 10, 20, 11)
MCQuote(traded, safe, krw) == [bars |-> "TQQQ" :> traded @@ "GLD" :> safe, rate |-> krw]
MCQuotes == {MCQuote(MCFlat, MCFlat, 2), MCQuote(NoBar, MCFlat, 2), MCQuote(MCDip, MCFlat, 1),
             MCQuote(MCBar(39, 39, 41, 41), MCFlat, 2), MCQuote(MCFlat, MCDip, 2)}
MCCap  == "TQQQ" :> 100 @@ "GLD" :> 50
=============================================================================
