--------------------------- MODULE MC_UserAccess ---------------------------
EXTENDS UserAccess, TLC

Symmetry == Permutations(Subjects) \cup Permutations(Callers)
              \cup Permutations(Emails \ Bootstrap)
=============================================================================
