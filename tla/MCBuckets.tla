------------------------------ MODULE MCBuckets ------------------------------
(* Two safe names for one slot, three core names, one of them leveraged, for *)
(* two, and one growth name; four settings of the strategy.                  *)
EXTENDS Buckets

MCSymbols == {"SHY", "GLD", "AAA", "BBB", "QLD", "GRW"}
MCOrder  == [SHY |-> 1, GLD |-> 2, AAA |-> 3, BBB |-> 4, QLD |-> 5, GRW |-> 6]
MCBucket == [SHY |-> "safe", GLD |-> "safe", AAA |-> "core", BBB |-> "core",
             QLD |-> "core", GRW |-> "growth"]
MCMaxWeight == [SHY |-> 25, GLD |-> 15, AAA |-> 40, BBB |-> 30, QLD |-> 15, GRW |-> 20]
MCWeight == [safe |-> 20, core |-> 60, growth |-> 20]
MCSlots  == [safe |-> 1, core |-> 2, growth |-> 1]

Default ==
  [flow |-> FALSE, incumbents |-> TRUE, margin |-> NoMargin, rotation |-> TRUE,
   absolute |-> TRUE, buffer |-> 1, broken |-> TRUE, fraction |-> 100,
   unfilled |-> "safe", dips |-> TRUE]
Displacing == [Default EXCEPT !.margin = 10, !.broken = FALSE]
Flowing    == [Default EXCEPT !.flow = TRUE, !.broken = FALSE, !.unfilled = "core"]
Reranking  == [Default EXCEPT !.flow = TRUE, !.absolute = FALSE, !.incumbents = FALSE,
                 !.buffer = 0, !.broken = FALSE, !.fraction = 50]
MCParams == {Default, Displacing, Flowing, Reranking}

\* Nothing, a roster that is full, and one that has outgrown its slots.
MCPortfolios ==
  {[s \in MCSymbols |-> 0],
   [SHY |-> 20, GLD |-> 0, AAA |-> 40, BBB |-> 20, QLD |-> 0, GRW |-> 10],
   [SHY |-> 0, GLD |-> 30, AAA |-> 20, BBB |-> 30, QLD |-> 20, GRW |-> 0]}

\* Every ranking of AAA, BBB and QLD that differs in who ranks and who leads.
Cores == {<<2, 1, 0>>, <<1, 2, 3>>, <<0, 1, 2>>, <<3, 0, 1>>, <<0, 0, 0>>}
\* The safe feeds and the growth name.
Sides == {<<1, 1, 1>>, <<0, 1, 1>>, <<1, 1, 0>>}
MCReadings ==
  {[up |-> u, below |-> w,
    score |-> [SHY |-> x[1], GLD |-> x[2], GRW |-> x[3],
               AAA |-> c[1], BBB |-> c[2], QLD |-> c[3]]] :
     u \in BOOLEAN, w \in {{}, {"AAA", "QLD", "GRW"}}, c \in Cores, x \in Sides}
=============================================================================
