------------------------------- MODULE MCVmar -------------------------------
\* Vmar for TLC: the pools are interchangeable but for the root region.
EXTENDS Vmar, TLC

MCFlags == {{"r"}, {"r", "w"}}

Symmetry == Permutations(Regions \ {Root}) \cup Permutations(Mappings)
              \cup Permutations(Callers)
=============================================================================
