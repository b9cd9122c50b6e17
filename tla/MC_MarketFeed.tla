--------------------------- MODULE MC_MarketFeed ---------------------------
(* MarketFeed with two trades in the first minute and one in the others; a  *)
(* trade that is dropped or late leaves a gap.                              *)
EXTENDS MarketFeed, TLC

CONSTANTS t1, t2, t3, t4

MCMinuteOf == [t \in Ticks |-> CASE t \in {t1, t2} -> 1 [] t = t3 -> 2
                                 [] OTHER -> 3]

\* The two trades of the first minute may be exchanged.
MCSymmetry == Permutations({t1, t2})

\* Bound: the provider delivers one trade again.
OneAgain == Cardinality({t \in Ticks : sent[t] > 1}) <= 1
============================================================================
