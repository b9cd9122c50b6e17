-------------------------- MODULE MC_StrategyStore --------------------------
EXTENDS StrategyStore, TLC

Symmetry == Permutations(Ids) \cup Permutations(Names)
              \cup Permutations(Threads)
=============================================================================
