-------------------------------- MODULE MCVmo --------------------------------
(***************************************************************************)
(* Lengths and ranges for the run of Vmo: a VMO of two pages or of none,   *)
(* and ranges that are its first, its second or both of its pages.         *)
(***************************************************************************)
EXTENDS Vmo, TLC

MCLens == {0, 2}
MCRanges == {[at |-> 0, len |-> 1], [at |-> 1, len |-> 1], [at |-> 0, len |-> 2]}
Symmetry == Permutations(Pins)

\* bound of the run on uses at a time: VMOs are mapped or pinned, and of pins
\* and objects whose pins are miscounted there are two
Pinned == {q \in Pins : pin[q] # None}
Mapped == {m \in Mappings : mapping[m] # None} \cup {v \in Vmos : count[v] # 0}
FewUses == /\ Mapped # {} => Pinned = {} /\ miscounted = {}
           /\ Cardinality(Pinned) + Cardinality(miscounted) <= 2
=============================================================================
