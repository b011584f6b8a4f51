------------------------------- MODULE Amounts -------------------------------
(* Sums and bounds of amounts, as the strategies and the backtest take them.   *)
EXTENDS Integers, FiniteSets

\* The sum of f over its domain, in any order.
Total(f) ==
  LET sum[S \in SUBSET DOMAIN f] ==
        IF S = {} THEN 0 ELSE LET x == CHOOSE x \in S : TRUE IN f[x] + sum[S \ {x}]
  IN  sum[DOMAIN f]

Least(a, b) == IF a < b THEN a ELSE b
Most(a, b)  == IF a < b THEN b ELSE a
=============================================================================
