-------------------------- MODULE MC_PaperAccount --------------------------
(* PaperAccount on small instances: keys and callers are model values.      *)
EXTENDS PaperAccount

KeySymmetry == Permutations(Keys)

\* Bound: once runs have overlapped, two orders of one day without an
\* operator's kill switch are enough (overlap stays TRUE).
OverlapBriefly ==
    overlap => Cardinality(keys) <= 2 /\ day = 1 /\ held = "no"
============================================================================
