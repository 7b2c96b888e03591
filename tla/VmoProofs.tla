------------------------------ MODULE VmoProofs ------------------------------
(* Theorems about Vmo, for any number of VMOs, any lengths, policies and     *)
(* mappings: slices stay inside their frames, the family tree stays whole,   *)
(* shared or mapped frames keep their cache policy, pins are counted and the *)
(* policy of pinned frames does not change.                                  *)
EXTENDS VmoChapters, FiniteSetTheorems, TLAPS

\* A koid that was not given yet names nothing.
Fresh ==
    \A v \in Vmos : v > made =>
        kind[v] = "paged" /\ parent[v] = None /\ children[v] = {} /\ count[v] = 0

\* Slices are the only VMOs that use frames made for another, and those are
\* frames of an earlier VMO that is none.
Slice(v) == kind[v] = "slice"
BaseOK ==
    \A v \in Vmos :
        /\ ~Slice(v) => base[v] = v
        /\ Slice(v) => v \in live /\ base[v] < v /\ ~Slice(base[v])

SliceOK ==
    \A v \in Vmos :
        /\ Slice(v) => off[v] + size[v] <= frames[base[v]] /\ ~resizable[base[v]]
        /\ ~Slice(v) => off[v] = 0

\* Between a slice and the VMO it comes from, while that lives, there are only
\* slices of the same frames.
PathOK ==
    \A v \in live : Slice(v) /\ base[v] \in live =>
        parent[v] \in live /\ base[parent[v]] = base[v]

TreeOK ==
    /\ \A v \in Vmos : parent[v] # None => parent[v] < v
    /\ \A v \in Vmos : v \notin live => children[v] = {}
    /\ FamilyOK
    /\ PathOK

Inv == TypeOK /\ Fresh /\ BaseOK /\ SliceOK /\ TreeOK

MappedOK ==
    \A m \in Mappings : mapping[m] # None =>
        /\ mapping[m].vmo \in live
        /\ count[mapping[m].vmo] > 0
        /\ mapping[m].policy = policy[base[mapping[m].vmo]]

PolicyOK == CachedWhileShared /\ MappedOK

-----------------------------------------------------------------------------
LEMMA VmoNumbers ==
    /\ Vmos \subseteq Nat
    /\ None \notin Vmos
    /\ \A v \in Vmos : v # 0
  BY BoundAssumption, NoneAssumption DEF Vmos

LEMMA LiveIsVmo == TypeOK => live \subseteq Vmos /\ \A v \in live : v <= made
  BY BoundAssumption DEF TypeOK, Vmos

LEMMA BaseBefore ==
    ASSUME Inv, NEW x \in live
    PROVE  /\ made \in Nat /\ x \in Vmos /\ base[x] \in Vmos
           /\ base[x] # made + 1 /\ x # made + 1
<1>1. made \in Nat
  BY BoundAssumption DEF Inv, TypeOK
<1>2. x \in Vmos /\ x <= made /\ base[x] \in Vmos /\ x \in Nat /\ base[x] \in Nat
  BY LiveIsVmo, VmoNumbers DEF Inv, TypeOK
<1>3. base[x] <= x
  BY <1>2 DEF Inv, BaseOK
<1> QED
  BY <1>1, <1>2, <1>3

\* The least element, by way of the initial segments of the elements: strict
\* inclusion is well-founded on finite sets.
LEMMA Smallest ==
    ASSUME NEW S \in SUBSET Nat, S # {}
    PROVE  \E x \in S : \A y \in S : ~(y < x)
<1> DEFINE Segments == {0 .. x : x \in S}
           R == StrictSubsetOrdering(Nat)
<1>1. IsWellFoundedOn(R, FiniteSubsetsOf(Nat))
  BY FS_StrictSubsetOrderingWellFounded
<1>2. Segments \subseteq FiniteSubsetsOf(Nat) /\ Segments # {}
  <2>1. ASSUME NEW x \in S PROVE 0 .. x \in FiniteSubsetsOf(Nat)
    <3>1. IsFiniteSet(0 .. x)
      BY FS_Interval
    <3> QED
      BY <3>1 DEF FiniteSubsetsOf
  <2> QED
    BY <2>1
<1> HIDE DEF Segments, R
<1>3. PICK T \in Segments : \A U \in Segments : ~(<<U, T>> \in R)
  BY <1>1, <1>2, WFMin
<1>4. PICK x \in S : T = 0 .. x
  BY DEF Segments
<1>5. ASSUME NEW y \in S, y < x PROVE FALSE
  <2>1. 0 .. y \in Segments
    BY DEF Segments
  <2>2. 0 .. y \subseteq 0 .. x /\ 0 .. y # 0 .. x /\ 0 .. x \in SUBSET Nat /\ 0 .. y \in SUBSET Nat
    <3>1. x \in 0 .. x /\ x \notin 0 .. y
      BY <1>5
    <3> QED
      BY <1>5, <3>1
  <2>3. <<0 .. y, T>> \in R
    BY <1>4, <2>2 DEF R, StrictSubsetOrdering
  <2> QED
    BY <1>3, <2>1, <2>3
<1> QED
  BY <1>5

\* Frames seen through a slice, whose own VMO lives, have a child there.
LEMMA SharedHasChild ==
    ASSUME Inv, NEW v \in live, Slice(v), base[v] \in live
    PROVE  children[base[v]] # {}
<1> DEFINE S == {x \in live : Slice(x) /\ base[x] = base[v]}
<1>1. S \in SUBSET Nat /\ S # {}
  BY LiveIsVmo, VmoNumbers DEF Inv
<1>2. PICK x \in S : \A y \in S : ~(y < x)
  BY <1>1, Smallest
<1>3. parent[x] \in live /\ base[parent[x]] = base[v]
  BY <1>2 DEF Inv, TreeOK, PathOK
<1>4. parent[x] \in Vmos /\ x \in Vmos /\ parent[x] < x
  BY <1>2, <1>3, LiveIsVmo, VmoNumbers DEF Inv, TreeOK
<1>5. parent[x] \notin S
  BY <1>2, <1>4
<1>6. ~Slice(parent[x])
  BY <1>3, <1>5
<1>7. parent[x] = base[v]
  BY <1>3, <1>4, <1>6 DEF Inv, BaseOK
<1>8. x \in children[parent[x]]
  BY <1>2, <1>3 DEF Inv, TreeOK, FamilyOK
<1> QED
  BY <1>7, <1>8

-----------------------------------------------------------------------------
(* Steps that make no VMO and drop none *)

LEMMA InitInv == Init => Inv /\ PolicyOK
<1> SUFFICES ASSUME Init PROVE Inv /\ PolicyOK
  OBVIOUS
<1> USE DEF Init
<1>1. TypeOK
  BY BoundAssumption, PolicyAssumption DEF TypeOK, Kinds
<1>2. Fresh /\ BaseOK /\ SliceOK
  BY DEF Fresh, BaseOK, SliceOK, Slice
<1>3. TreeOK
  BY DEF TreeOK, FamilyOK, PathOK
<1>4. PolicyOK
  BY DEF PolicyOK, CachedWhileShared, MappedOK
<1> QED
  BY <1>1, <1>2, <1>3, <1>4 DEF Inv

\* What VMOs are, who lives and the family stay as they are.
Settled == UNCHANGED <<identity, live, parent, children>>

LEMMA SettledInv ==
    ASSUME Inv, Settled,
           frames' \in [Vmos -> Nat], policy' \in [Vmos -> Policies],
           count' \in [Vmos -> Nat],
           mapping' \in [Mappings -> [vmo : Vmos, policy : Policies] \cup {None}],
           \A v \in Vmos : v > made => count'[v] = count[v],
           \A v \in Vmos : ~resizable[v] => frames'[v] = frames[v]
    PROVE  Inv'
<1> USE DEF Settled, identity, Inv
<1>1. TypeOK'
  BY DEF TypeOK
<1>2. Fresh'
  BY DEF Fresh
<1>3. BaseOK'
  BY DEF BaseOK, Slice
<1>4. SliceOK'
  BY DEF SliceOK, Slice, TypeOK
<1>5. FamilyOK' /\ PathOK'
  BY DEF TreeOK, FamilyOK, PathOK, Slice, Live
<1>6. TreeOK'
  BY <1>5 DEF TreeOK
<1> QED
  BY <1>1, <1>2, <1>3, <1>4, <1>6

LEMMA SetLenInv ==
    ASSUME Inv, NEW v \in Vmos, NEW n \in Lens, SetLen(v, n)
    PROVE  Inv'
<1>1. Settled /\ n \in Nat
  BY LenAssumption DEF SetLen, Settled
<1>2. frames' \in [Vmos -> Nat] /\ (\A x \in Vmos : ~resizable[x] => frames'[x] = frames[x])
  BY <1>1 DEF SetLen, Inv, TypeOK
<1>3. UNCHANGED <<policy, count, mapping>>
  BY DEF SetLen
<1> QED
  BY <1>1, <1>2, <1>3, SettledInv DEF Inv, TypeOK

LEMMA SetCachePolicyInv ==
    ASSUME Inv, NEW v \in Vmos, NEW p \in Policies, SetCachePolicy(v, p)
    PROVE  Inv'
<1>1. Settled /\ UNCHANGED <<frames, count, mapping>>
  BY DEF SetCachePolicy, Settled
<1>2. policy' \in [Vmos -> Policies]
  BY DEF SetCachePolicy, Inv, TypeOK
<1> QED
  BY <1>1, <1>2, SettledInv DEF Inv, TypeOK

LEMMA MapInv ==
    ASSUME Inv, NEW m \in Mappings, NEW v \in Vmos, Map(m, v)
    PROVE  Inv'
<1>1. Settled /\ UNCHANGED <<frames, policy>>
  BY DEF Map, Settled
<1>2. count' \in [Vmos -> Nat] /\ (\A x \in Vmos : x > made => count'[x] = count[x])
  <2>1. v \in live /\ v <= made
    BY LiveIsVmo DEF Map, Live, Inv
  <2> QED
    BY <2>1, VmoNumbers DEF Map, Inv, TypeOK
<1>3. mapping' \in [Mappings -> [vmo : Vmos, policy : Policies] \cup {None}]
  <2>1. policy[base[v]] \in Policies
    BY DEF Inv, TypeOK
  <2>2. [vmo |-> v, policy |-> policy[base[v]]] \in [vmo : Vmos, policy : Policies]
    BY <2>1
  <2> QED
    BY <2>2 DEF Map, Inv, TypeOK
<1> QED
  BY <1>1, <1>2, <1>3, SettledInv DEF Inv, TypeOK

LEMMA UnmapInv ==
    ASSUME Inv, NEW m \in Mappings, Unmap(m)
    PROVE  Inv'
<1>1. Settled /\ UNCHANGED <<frames, policy, count>>
  BY DEF Unmap, Settled
<1>2. mapping' \in [Mappings -> [vmo : Vmos, policy : Policies] \cup {None}]
  BY DEF Unmap, Inv, TypeOK
<1> QED
  BY <1>1, <1>2, SettledInv DEF Inv, TypeOK

LEMMA SameInv ==
    ASSUME Inv, Settled, UNCHANGED <<frames, policy, count, mapping>>
    PROVE  Inv'
  BY SettledInv DEF Inv, TypeOK

-----------------------------------------------------------------------------
(* Steps that make a VMO *)

LEMMA NewTypes ==
    ASSUME Inv, NEW c \in Vmos, NEW k \in Kinds, NEW r \in BOOLEAN, NEW b \in Vmos,
           New(c, k, r, b)
    PROVE  /\ made' \in 0 .. MaxVmos /\ live' \subseteq 1 .. made'
           /\ kind' \in [Vmos -> Kinds] /\ resizable' \in [Vmos -> BOOLEAN]
           /\ base' \in [Vmos -> Vmos]
<1> USE DEF New, Inv, TypeOK
<1>1. made' = c /\ made \in Nat /\ c = made + 1
  BY BoundAssumption
<1>2. made' \in 0 .. MaxVmos
  BY <1>1, BoundAssumption DEF Vmos
<1>3. live' \subseteq 1 .. made'
  BY <1>1
<1> QED
  BY <1>2, <1>3

\* The new VMO stands alone or on the list of the one it is made from.
LEMMA NewTree ==
    ASSUME Inv, NEW c \in Vmos, NEW k, NEW r, NEW b, New(c, k, r, b),
           \/ UNCHANGED <<parent, children>> /\ k # "slice"
           \/ \E v \in live : /\ parent' = [parent EXCEPT ![c] = v]
                              /\ AddChild(v, c)
                              /\ k = "slice" => b = base[v]
    PROVE  /\ Fresh' /\ TreeOK'
           /\ parent' \in [Vmos -> Vmos \cup {None}]
           /\ children' \in [Vmos -> SUBSET Vmos]
<1>1. /\ c = made + 1 /\ made' = c /\ live' = live \cup {c} /\ made \in Nat
      /\ kind' = [kind EXCEPT ![c] = k] /\ base' = [base EXCEPT ![c] = b]
      /\ count' = count /\ c \notin live /\ live \subseteq Vmos
  BY BoundAssumption, LiveIsVmo DEF New, Inv, TypeOK
<1>2. /\ parent[c] = None /\ children[c] = {}
      /\ \A x \in Vmos : parent[x] # c
      /\ \A x \in Vmos : c \notin children[x]
  <2>1. parent[c] = None /\ children[c] = {}
    BY <1>1 DEF Inv, Fresh
  <2>2. ASSUME NEW x \in Vmos PROVE parent[x] # c
    BY <1>1, <2>1, VmoNumbers DEF Inv, TreeOK, Fresh
  <2>3. ASSUME NEW x \in Vmos PROVE c \notin children[x]
    BY <1>1 DEF Inv, TreeOK, FamilyOK, Live
  <2> QED
    BY <2>1, <2>2, <2>3
<1>3. /\ parent \in [Vmos -> Vmos \cup {None}] /\ children \in [Vmos -> SUBSET Vmos]
      /\ kind \in [Vmos -> Kinds] /\ base \in [Vmos -> Vmos]
      /\ TreeOK /\ Fresh
  BY DEF Inv, TypeOK
<1>4. CASE UNCHANGED <<parent, children>> /\ k # "slice"
  <2>1. Fresh'
    BY <1>1, <1>3, <1>4, VmoNumbers DEF Fresh
  <2>2. FamilyOK'
    BY <1>1, <1>2, <1>3, <1>4, VmoNumbers DEF TreeOK, FamilyOK, Live
  <2>3. PathOK'
    <3> SUFFICES ASSUME NEW v \in live', Slice(v)', base'[v] \in live'
                 PROVE  parent'[v] \in live' /\ base'[parent'[v]] = base'[v]
      BY DEF PathOK
    <3>1. v # c /\ v \in live /\ Slice(v) /\ base'[v] = base[v]
      BY <1>1, <1>3, <1>4 DEF Slice
    <3>2. base[v] < v /\ v < c
      BY <1>1, <3>1, LiveIsVmo DEF Inv, BaseOK, TypeOK
    <3>3. base[v] \in live
      BY <1>1, <1>3, <3>1, <3>2, VmoNumbers
    <3>4. parent[v] \in live /\ base[parent[v]] = base[v]
      BY <1>3, <3>1, <3>3 DEF TreeOK, PathOK
    <3> QED
      BY <1>1, <1>3, <1>4, <3>1, <3>4
  <2>4. TreeOK'
    BY <1>1, <1>3, <1>4, <2>2, <2>3 DEF TreeOK
  <2> QED
    BY <1>3, <1>4, <2>1, <2>4
<1>5. ASSUME NEW v \in live, parent' = [parent EXCEPT ![c] = v], AddChild(v, c),
             k = "slice" => b = base[v]
      PROVE  /\ Fresh' /\ TreeOK'
             /\ parent' \in [Vmos -> Vmos \cup {None}]
             /\ children' \in [Vmos -> SUBSET Vmos]
  <2>1. v \in Vmos /\ v # c /\ v < c
    BY <1>1, LiveIsVmo, VmoNumbers DEF Inv
  <2>2. children' = [children EXCEPT ![v] = children[v] \cup {c}]
    <3>1. {x \in children[v] : Live(x)} = children[v]
      BY <1>3 DEF TreeOK, FamilyOK
    <3> QED
      BY <1>5, <3>1 DEF AddChild
  <2>3. /\ parent' \in [Vmos -> Vmos \cup {None}]
        /\ children' \in [Vmos -> SUBSET Vmos]
    BY <1>3, <1>5, <2>1, <2>2
  <2>4. Fresh'
    BY <1>1, <1>3, <1>5, <2>1, <2>2, VmoNumbers DEF Fresh
  <2>5. FamilyOK'
    <3> SUFFICES ASSUME NEW x \in live'
                 PROVE  /\ \A y \in children'[x] : y \in live' /\ parent'[y] = x
                        /\ parent'[x] \in live' => x \in children'[parent'[x]]
      BY DEF FamilyOK, Live
    <3>1. CASE x = c
      BY <1>1, <1>2, <1>3, <1>5, <2>1, <2>2, <3>1
    <3>2. CASE x # c
      <4>1. x \in live /\ x \in Vmos /\ parent'[x] = parent[x] /\ parent[x] # c
        BY <1>1, <1>2, <1>3, <1>5, <3>2
      <4>2. \A y \in children[x] : y \in live /\ parent[y] = x /\ y # c
        BY <1>1, <1>3, <4>1 DEF TreeOK, FamilyOK, Live
      <4>3. \A y \in children'[x] : y \in live' /\ parent'[y] = x
        BY <1>1, <1>3, <1>5, <2>1, <2>2, <4>1, <4>2
      <4>4. parent[x] \in live => x \in children[parent[x]]
        BY <1>3, <4>1 DEF TreeOK, FamilyOK
      <4>5. parent'[x] \in live' => x \in children'[parent'[x]]
        BY <1>1, <1>3, <2>2, <4>1, <4>4
      <4> QED
        BY <4>3, <4>5
    <3> QED
      BY <3>1, <3>2
  <2>6. PathOK'
    <3> SUFFICES ASSUME NEW x \in live', Slice(x)', base'[x] \in live'
                 PROVE  parent'[x] \in live' /\ base'[parent'[x]] = base'[x]
      BY DEF PathOK
    <3>1. CASE x = c
      BY <1>1, <1>3, <1>5, <2>1, <3>1 DEF Slice
    <3>2. CASE x # c
      <4>1. x \in live /\ x \in Vmos /\ Slice(x) /\ base'[x] = base[x]
        BY <1>1, <1>3, <3>2 DEF Slice
      <4>2. base[x] < x /\ x < c
        BY <1>1, <4>1, LiveIsVmo DEF Inv, BaseOK, TypeOK
      <4>3. base[x] \in live
        BY <1>1, <1>3, <4>1, <4>2, VmoNumbers
      <4>4. parent[x] \in live /\ base[parent[x]] = base[x]
        BY <1>3, <4>1, <4>3 DEF TreeOK, PathOK
      <4> QED
        BY <1>1, <1>3, <1>5, <4>1, <4>4, <3>2
    <3> QED
      BY <3>1, <3>2
  <2>7. TreeOK'
    <3>1. \A x \in Vmos : parent'[x] # None => parent'[x] < x
      BY <1>1, <1>3, <1>5, <2>1 DEF TreeOK
    <3>2. \A x \in Vmos : x \notin live' => children'[x] = {}
      BY <1>1, <1>3, <2>1, <2>2 DEF TreeOK
    <3> QED
      BY <2>5, <2>6, <3>1, <3>2 DEF TreeOK
  <2> QED
    BY <2>3, <2>4, <2>7
<1> QED
  BY <1>4, <1>5

\* A VMO with frames of its own is the base of no slice yet.
LEMMA FramedInv ==
    ASSUME Inv, NEW c \in Vmos, NEW k \in {"paged", "contiguous", "physical"},
           NEW r \in BOOLEAN, NEW n \in Nat, Framed(c, k, r, n),
           \/ UNCHANGED <<parent, children>>
           \/ \E v \in live : parent' = [parent EXCEPT ![c] = v] /\ AddChild(v, c)
    PROVE  Inv'
<1>1. New(c, k, r, c) /\ k \in Kinds /\ k # "slice"
  BY DEF Framed, Kinds
<1>2. /\ Fresh' /\ TreeOK'
      /\ parent' \in [Vmos -> Vmos \cup {None}]
      /\ children' \in [Vmos -> SUBSET Vmos]
  BY <1>1, NewTree
<1>3. TypeOK'
  <2>1. policy' \in [Vmos -> Policies] /\ frames' \in [Vmos -> Nat]
          /\ UNCHANGED <<off, size, count, mapping>>
    BY PolicyAssumption DEF Framed, New, Inv, TypeOK
  <2> QED
    BY <1>1, <1>2, <2>1, NewTypes DEF Inv, TypeOK
<1>4. /\ c = made + 1 /\ made \in Nat /\ live' = live \cup {c} /\ c \notin live
      /\ kind' = [kind EXCEPT ![c] = k] /\ base' = [base EXCEPT ![c] = c]
      /\ resizable' = [resizable EXCEPT ![c] = r] /\ frames' = [frames EXCEPT ![c] = n]
      /\ UNCHANGED <<off, size>>
  BY <1>1, BoundAssumption DEF New, Framed, Inv, TypeOK
<1>5. ASSUME NEW x \in Vmos, x # c
      PROVE  /\ kind'[x] = kind[x] /\ base'[x] = base[x]
             /\ Slice(x) => base[x] # c /\ Slice(base[x])' = Slice(base[x])
  <2>1. kind'[x] = kind[x] /\ base'[x] = base[x]
    BY <1>4, <1>5 DEF Inv, TypeOK
  <2>2. ASSUME Slice(x) PROVE base[x] # c /\ kind'[base[x]] = kind[base[x]]
    <3>1. x \in live /\ base[x] < x /\ x <= made /\ base[x] \in Vmos
      BY <2>2, LiveIsVmo DEF Inv, BaseOK, TypeOK
    <3>2. base[x] # c
      BY <1>4, <3>1, VmoNumbers
    <3> QED
      BY <1>4, <3>1, <3>2 DEF Inv, TypeOK
  <2> QED
    BY <2>1, <2>2 DEF Slice
<1>6. base'[c] = c /\ kind'[c] = k
  BY <1>4 DEF Inv, TypeOK
<1>7. BaseOK'
  BY <1>1, <1>4, <1>5, <1>6 DEF Inv, BaseOK, Slice
<1>8. SliceOK'
  <2>1. ASSUME NEW x \in Vmos, Slice(x)'
        PROVE  off'[x] + size'[x] <= frames'[base'[x]] /\ ~resizable'[base'[x]]
    <3>1. x # c /\ Slice(x) /\ base[x] # c /\ base[x] \in Vmos
      BY <1>1, <1>5, <1>6, <2>1 DEF Slice, Inv, TypeOK
    <3>2. off[x] + size[x] <= frames[base[x]] /\ ~resizable[base[x]]
      BY <3>1 DEF Inv, SliceOK
    <3>3. frames'[base[x]] = frames[base[x]] /\ resizable'[base[x]] = resizable[base[x]]
      BY <1>4, <3>1 DEF Inv, TypeOK
    <3> QED
      BY <1>4, <1>5, <3>1, <3>2, <3>3
  <2>2. ASSUME NEW x \in Vmos, ~Slice(x)' PROVE off'[x] = 0
    <3>1. ~Slice(c)
      BY <1>4 DEF Inv, Fresh, Slice
    <3>2. ~Slice(x)
      BY <1>5, <2>2, <3>1 DEF Slice
    <3> QED
      BY <1>4, <3>2 DEF Inv, SliceOK
  <2> QED
    BY <2>1, <2>2 DEF SliceOK
<1> QED
  BY <1>2, <1>3, <1>7, <1>8 DEF Inv

LEMMA CreateSliceInv ==
    ASSUME Inv, NEW c \in Vmos, NEW v \in Vmos, NEW range \in Ranges,
           CreateSlice(v, c, range)
    PROVE  Inv'
<1>1. /\ New(c, "slice", FALSE, base[v]) /\ v \in live
      /\ range.at \in Nat /\ range.len \in Nat
      /\ "slice" \in Kinds /\ base[v] \in Vmos
  BY LenAssumption DEF CreateSlice, Live, Kinds, Inv, TypeOK
<1>2. /\ Fresh' /\ TreeOK'
      /\ parent' \in [Vmos -> Vmos \cup {None}]
      /\ children' \in [Vmos -> SUBSET Vmos]
  BY <1>1, NewTree DEF CreateSlice
<1>3. TypeOK'
  <2>1. UNCHANGED <<frames, policy, count, mapping>>
    BY <1>1 DEF CreateSlice, New
  <2>2. off' \in [Vmos -> Nat] /\ size' \in [Vmos -> Nat]
    BY <1>1 DEF CreateSlice, Inv, TypeOK
  <2> QED
    BY <1>1, <1>2, <2>1, <2>2, NewTypes DEF Inv, TypeOK
<1>4. /\ c = made + 1 /\ made \in Nat /\ live' = live \cup {c} /\ c \notin live
      /\ v <= made /\ v # c
      /\ kind' = [kind EXCEPT ![c] = "slice"] /\ base' = [base EXCEPT ![c] = base[v]]
      /\ resizable' = [resizable EXCEPT ![c] = FALSE]
      /\ off' = [off EXCEPT ![c] = off[v] + range.at]
      /\ size' = [size EXCEPT ![c] = range.len]
      /\ frames' = frames
  <2>1. c = made + 1 /\ made \in Nat /\ live' = live \cup {c} /\ c \notin live
    BY <1>1, BoundAssumption DEF New, Inv, TypeOK
  <2>2. v <= made /\ v # c
    BY <1>1, <2>1, LiveIsVmo DEF Inv
  <2> QED
    BY <1>1, <2>1, <2>2 DEF New, CreateSlice
<1>5. \A x \in Vmos : x # c =>
        /\ kind'[x] = kind[x] /\ base'[x] = base[x] /\ resizable'[x] = resizable[x]
        /\ off'[x] = off[x] /\ size'[x] = size[x]
  BY <1>4 DEF Inv, TypeOK
<1>6. kind'[c] = "slice" /\ base'[c] = base[v] /\ off'[c] = off[v] + range.at
        /\ size'[c] = range.len
  BY <1>4 DEF Inv, TypeOK
<1>7. ASSUME NEW x \in Vmos, x \in live PROVE base[x] # c /\ base[x] <= x
  <2>1. x <= made /\ x \in Nat /\ base[x] \in Nat
    BY <1>7, LiveIsVmo, VmoNumbers DEF Inv, TypeOK
  <2>2. base[x] <= x
    BY <2>1 DEF Inv, BaseOK
  <2> QED
    BY <1>4, <2>1, <2>2
<1>8. ~Slice(base[v]) /\ base[v] # c /\ base[v] < c
  <2>1. ~Slice(base[v])
    BY DEF Inv, BaseOK
  <2>2. base[v] <= v
    BY <1>1, <1>7
  <2> QED
    BY <1>1, <1>4, <1>7, <2>1, <2>2, VmoNumbers
<1>9. BaseOK'
  <2>1. ASSUME NEW x \in Vmos, x # c
        PROVE  /\ ~Slice(x)' => base'[x] = x
               /\ Slice(x)' => x \in live' /\ base'[x] < x /\ ~Slice(base[x])'
    BY <1>4, <1>5, <1>7, <2>1 DEF Inv, BaseOK, Slice, TypeOK
  <2>2. Slice(c)' /\ c \in live' /\ base'[c] < c /\ ~Slice(base[v])'
    BY <1>1, <1>4, <1>5, <1>6, <1>8 DEF Slice
  <2> QED
    BY <1>5, <1>6, <2>1, <2>2 DEF BaseOK, Slice
<1>10. off[v] + range.at + range.len <= frames[base[v]] /\ ~resizable[base[v]]
  <2>1. range.at + range.len <= Length(v) /\ ~resizable[v]
    BY DEF CreateSlice, MayShare
  <2>2. CASE Slice(v)
    <3>1. off[v] + size[v] <= frames[base[v]] /\ ~resizable[base[v]] /\ Length(v) = size[v]
      BY <2>2 DEF Inv, SliceOK, Length, Slice
    <3>2. off[v] \in Nat /\ size[v] \in Nat /\ frames[base[v]] \in Nat
      BY <1>1 DEF Inv, TypeOK
    <3> QED
      BY <1>1, <2>1, <3>1, <3>2
  <2>3. CASE ~Slice(v)
    <3>1. base[v] = v /\ Length(v) = frames[v]
      BY <2>3 DEF Inv, BaseOK, Length, Slice
    <3>2. off[v] = 0
      BY <2>3 DEF Inv, SliceOK
    <3> QED
      BY <1>1, <2>1, <3>1, <3>2 DEF Inv, TypeOK
  <2> QED
    BY <2>2, <2>3
<1>11. SliceOK'
  <2> SUFFICES ASSUME NEW x \in Vmos, Slice(x)'
               PROVE  /\ off'[x] + size'[x] <= frames[base'[x]]
                      /\ ~resizable'[base'[x]]
    BY <1>4, <1>5, <1>6 DEF Inv, SliceOK, Slice
  <2>1. CASE x = c
    <3>1. ~resizable'[base[v]]
      BY <1>1, <1>5, <1>8, <1>10
    <3> QED
      BY <1>6, <1>10, <2>1, <3>1
  <2>2. CASE x # c
    <3>1. Slice(x) /\ x \in live /\ base[x] \in Vmos
      BY <1>5, <2>2 DEF Slice, Inv, BaseOK, TypeOK
    <3>2. off[x] + size[x] <= frames[base[x]] /\ ~resizable[base[x]]
      BY <3>1 DEF Inv, SliceOK
    <3> QED
      BY <1>5, <1>7, <2>2, <3>1, <3>2
  <2> QED
    BY <2>1, <2>2
<1> QED
  BY <1>2, <1>3, <1>9, <1>11 DEF Inv

-----------------------------------------------------------------------------
(* The drop of a VMO *)

\* Nothing goes that a VMO which lives on is or uses.
LEMMA KeptFields ==
    ASSUME Inv, NEW v \in live, Release(v), NEW x \in live, x # v
    PROVE  /\ x \in Vmos /\ base[x] \in Vmos /\ x \notin Gone(v) /\ base[x] \notin Gone(v)
           /\ kind'[x] = kind[x] /\ base'[x] = base[x]
           /\ off'[x] = off[x] /\ size'[x] = size[x]
           /\ kind'[base[x]] = kind[base[x]] /\ frames'[base[x]] = frames[base[x]]
           /\ policy'[base[x]] = policy[base[x]]
           /\ count'[x] = count[x]
<1>1. x \in Vmos /\ base[x] \in Vmos
  BY LiveIsVmo DEF Inv, TypeOK
<1>2. ASSUME NEW y \in Vmos, ~Slice(y), base[x] = y PROVE y \notin Gone(v)
  BY <1>2 DEF Gone, Shared, Slice
<1>3. base[x] \notin Gone(v)
  BY <1>1, <1>2 DEF Inv, BaseOK
<1>4. x \notin Gone(v)
  <2>1. CASE Slice(x)
    <3>1. x # base[v]
      BY <2>1, <1>1, LiveIsVmo DEF Inv, BaseOK
    <3> QED
      BY <3>1 DEF Gone
  <2>2. CASE ~Slice(x)
    BY <1>1, <1>3, <2>2 DEF Inv, BaseOK
  <2> QED
    BY <2>1, <2>2
<1>5. count'[x] = count[x]
  BY <1>1 DEF Release, Inv, TypeOK
<1> QED
  BY <1>1, <1>3, <1>4, <1>5 DEF Release, Blank

LEMMA DroppedFields ==
    ASSUME Inv, NEW v \in live, Release(v), NEW x \in Vmos, x \notin live \/ x = v
    PROVE  ~Slice(x)' /\ base'[x] = x /\ off'[x] = 0
<1>1. CASE x \in Gone(v)
  BY <1>1 DEF Release, Blank, Slice
<1>2. CASE x \notin Gone(v)
  <2>1. kind'[x] = kind[x] /\ base'[x] = base[x] /\ off'[x] = off[x]
    BY <1>2 DEF Release, Blank
  <2>2. ~Slice(x)
    <3>1. CASE x = v
      BY <1>2, <3>1 DEF Gone, Slice
    <3>2. CASE x \notin live
      BY <3>2 DEF Inv, BaseOK
    <3> QED
      BY <3>1, <3>2
  <2> QED
    BY <2>1, <2>2 DEF Inv, BaseOK, SliceOK, Slice
<1> QED
  BY <1>1, <1>2

LEMMA ReleaseSlices ==
    ASSUME Inv, NEW v \in live, Release(v)
    PROVE  BaseOK' /\ SliceOK'
<1>1. live' = live \ {v}
  BY DEF Release
<1>2. ASSUME NEW x \in Vmos
      PROVE  /\ ~Slice(x)' => base'[x] = x /\ off'[x] = 0
             /\ Slice(x)' => /\ x \in live' /\ base'[x] < x /\ kind'[base'[x]] # "slice"
                             /\ off'[x] + size'[x] <= frames'[base'[x]]
                             /\ ~resizable'[base'[x]]
  <2>1. CASE x \notin live \/ x = v
    BY <2>1, DroppedFields
  <2>2. CASE x \in live /\ x # v
    <3>1. /\ base[x] \in Vmos /\ kind'[x] = kind[x] /\ base'[x] = base[x]
          /\ off'[x] = off[x] /\ size'[x] = size[x]
          /\ kind'[base[x]] = kind[base[x]] /\ frames'[base[x]] = frames[base[x]]
      BY <2>2, KeptFields
    <3>2. ~resizable[base[x]] => ~resizable'[base[x]]
      BY <3>1 DEF Release, Inv, TypeOK
    <3>3. ~Slice(x) => base[x] = x /\ off[x] = 0
      BY DEF Inv, BaseOK, SliceOK
    <3>4. Slice(x) => /\ x \in live /\ base[x] < x /\ kind[base[x]] # "slice"
                      /\ off[x] + size[x] <= frames[base[x]] /\ ~resizable[base[x]]
      BY DEF Inv, BaseOK, SliceOK, Slice
    <3>5. Slice(x)' <=> Slice(x)
      BY <3>1 DEF Slice
    <3> QED
      BY <1>1, <2>2, <3>1, <3>2, <3>3, <3>4, <3>5
  <2> QED
    BY <2>1, <2>2
<1>3. BaseOK'
  BY <1>2 DEF BaseOK, Slice
<1>4. SliceOK'
  BY <1>2 DEF SliceOK, Slice
<1> QED
  BY <1>3, <1>4

LEMMA ReleaseTypes ==
    ASSUME Inv, NEW v \in live, Release(v), UNCHANGED <<made, mapping>>
    PROVE  /\ made' \in 0 .. MaxVmos /\ live' \subseteq 1 .. made'
           /\ kind' \in [Vmos -> Kinds] /\ resizable' \in [Vmos -> BOOLEAN]
           /\ base' \in [Vmos -> Vmos]
           /\ off' \in [Vmos -> Nat] /\ size' \in [Vmos -> Nat] /\ frames' \in [Vmos -> Nat]
           /\ policy' \in [Vmos -> Policies]
           /\ count' \in [Vmos -> Nat]
           /\ mapping' \in [Mappings -> [vmo : Vmos, policy : Policies] \cup {None}]
<1> USE DEF Inv, TypeOK
<1>1. made' \in 0 .. MaxVmos /\ live' \subseteq 1 .. made'
        /\ mapping' \in [Mappings -> [vmo : Vmos, policy : Policies] \cup {None}]
  BY DEF Release
<1>2. resizable' \in [Vmos -> BOOLEAN] /\ count' \in [Vmos -> Nat]
  BY DEF Release
<1>3. kind' \in [Vmos -> Kinds]
  BY DEF Release, Blank, Kinds
<1>4. base' \in [Vmos -> Vmos]
  BY DEF Release
<1>5. off' \in [Vmos -> Nat] /\ size' \in [Vmos -> Nat] /\ frames' \in [Vmos -> Nat]
  BY DEF Release, Blank
<1>6. policy' \in [Vmos -> Policies]
  BY PolicyAssumption DEF Release, Blank
<1> QED
  BY <1>1, <1>2, <1>3, <1>4, <1>5, <1>6

\* The lists and the parents after a drop: the children of v have its parent
\* for theirs, if that lives, and nobody lists v.
LEMMA DropFamily ==
    ASSUME Inv, NEW v \in live, Drop(v)
    PROVE  /\ parent' \in [Vmos -> Vmos \cup {None}]
           /\ children' \in [Vmos -> SUBSET Vmos]
           /\ \A x \in Vmos : parent'[x] =
                IF parent[v] \in live /\ x \in children[v] THEN parent[v] ELSE parent[x]
           /\ \A x \in Vmos : children'[x] =
                IF x = v THEN {}
                ELSE IF x = parent[v] /\ x \in live
                THEN (children[x] \cup children[v]) \ {v}
                ELSE children[x]
<1>1. /\ v \in Vmos /\ live \subseteq Vmos
      /\ parent \in [Vmos -> Vmos \cup {None}] /\ children \in [Vmos -> SUBSET Vmos]
  BY LiveIsVmo DEF Inv, TypeOK
<1>2. /\ \A x \in Vmos : \A y \in children[x] : y \in live /\ parent[y] = x /\ x \in live
      /\ \A x \in Vmos : parent[x] # None => parent[x] < x
  BY DEF Inv, TreeOK, FamilyOK, Live
<1>3. CASE parent[v] \in live
  <2> DEFINE p == parent[v]
             all == {x \in children[p] \cup HandsOn(v) : Live(x) /\ x # v}
  <2>1. p \in Vmos /\ p # v
    <3>1. p \in Vmos /\ parent[v] # None
      BY <1>1, <1>3, VmoNumbers
    <3>2. parent[v] < v
      BY <1>1, <1>2, <3>1
    <3> QED
      BY <1>1, <3>1, <3>2, VmoNumbers
  <2>2. /\ parent' = [c \in Vmos |-> IF c \in children[v] /\ Live(c) THEN p ELSE parent[c]]
        /\ children' = [x \in Vmos |->
               IF x = v THEN {}
               ELSE IF x = p THEN all
               ELSE IF x \in all THEN {y \in children[x] : Live(y) /\ y # v}
               ELSE children[x]]
    <3>1. Adopt(p, v)
      BY <1>3 DEF Drop
    <3>2. parent' = [c \in Vmos |-> IF c \in children[v] /\ Live(c) THEN p ELSE parent[c]]
      BY <1>3 DEF Drop
    <3> QED
      BY <3>1, <3>2 DEF Adopt
  <2>3. all = (children[p] \cup children[v]) \ {v}
    BY <1>1, <1>2, <2>1 DEF HandsOn, Live
  <2>4. all \subseteq Vmos
    BY <1>1, <2>1, <2>3
  <2> HIDE DEF all, p
  <2>5. ASSUME NEW x \in Vmos, x # v, x # p
        PROVE  children'[x] = children[x]
    <3>1. v \notin children[x]
      BY <1>2, <2>5 DEF p
    <3>2. {y \in children[x] : Live(y) /\ y # v} = children[x]
      BY <1>2, <3>1 DEF Live
    <3>3. children'[x] = IF x \in all THEN {y \in children[x] : Live(y) /\ y # v}
                         ELSE children[x]
      BY <2>2, <2>5
    <3> QED
      BY <3>2, <3>3
  <2>6. children'[v] = {} /\ children'[p] = all
    BY <1>1, <2>1, <2>2
  <2>7. \A x \in Vmos : children'[x] =
           IF x = v THEN {}
           ELSE IF x = p THEN (children[x] \cup children[v]) \ {v}
           ELSE children[x]
    BY <2>1, <2>3, <2>5, <2>6
  <2>8. children' \in [Vmos -> SUBSET Vmos]
    <3>1. \A x \in Vmos : children'[x] \in SUBSET Vmos
      BY <1>1, <2>1, <2>7
    <3>2. children' = [x \in Vmos |-> children'[x]]
      BY <2>2
    <3> QED
      BY <3>1, <3>2
  <2>9. /\ parent' \in [Vmos -> Vmos \cup {None}]
        /\ \A x \in Vmos : parent'[x] = IF x \in children[v] THEN p ELSE parent[x]
    BY <1>1, <1>2, <2>1, <2>2 DEF Live
  <2> QED
    BY <1>3, <2>7, <2>8, <2>9 DEF p
<1>4. CASE parent[v] \notin live
  <2>1. children' = [children EXCEPT ![v] = {}] /\ parent' = parent
    BY <1>4 DEF Drop
  <2> QED
    BY <1>1, <1>4, <2>1
<1> QED
  BY <1>3, <1>4

LEMMA DropTree ==
    ASSUME Inv, NEW v \in live, Drop(v)
    PROVE  TreeOK' /\ Fresh'
<1>1. /\ v \in Vmos /\ live \subseteq Vmos /\ v <= made
      /\ parent \in [Vmos -> Vmos \cup {None}]
      /\ live' = live \ {v} /\ made' = made /\ Release(v)
  BY LiveIsVmo DEF Inv, TypeOK, Drop, Release
<1>2. /\ \A x \in Vmos : \A y \in children[x] : y \in live /\ parent[y] = x /\ x \in live
      /\ \A x \in Vmos : parent[x] # None => parent[x] < x
      /\ \A x \in live : parent[x] \in live => x \in children[parent[x]]
      /\ \A x \in Vmos : x \notin live => children[x] = {}
  BY DEF Inv, TreeOK, FamilyOK, Live
<1>3. /\ \A x \in Vmos : parent'[x] =
           IF parent[v] \in live /\ x \in children[v] THEN parent[v] ELSE parent[x]
      /\ \A x \in Vmos : children'[x] =
           IF x = v THEN {}
           ELSE IF x = parent[v] /\ x \in live
           THEN (children[x] \cup children[v]) \ {v}
           ELSE children[x]
  BY DropFamily
<1>4. parent[v] \in live => parent[v] \in Vmos /\ parent[v] # v /\ parent[v] < v
  BY <1>1, <1>2, VmoNumbers
<1>5. \A x \in Vmos : parent'[x] # None => parent'[x] < x
  <2> SUFFICES ASSUME NEW x \in Vmos, parent'[x] # None PROVE parent'[x] < x
    OBVIOUS
  <2>1. CASE parent[v] \in live /\ x \in children[v]
    <3>1. parent'[x] = parent[v] /\ parent[x] = v /\ v < x
      BY <1>1, <1>2, <1>3, <2>1, VmoNumbers
    <3> QED
      BY <1>1, <1>4, <2>1, <3>1, VmoNumbers
  <2>2. CASE ~(parent[v] \in live /\ x \in children[v])
    BY <1>2, <1>3, <2>2
  <2> QED
    BY <2>1, <2>2
<1>6. \A x \in Vmos : x \notin live' => children'[x] = {}
  BY <1>1, <1>2, <1>3
<1>7. FamilyOK'
  <2> SUFFICES ASSUME NEW x \in live'
               PROVE  /\ \A y \in children'[x] : y \in live' /\ parent'[y] = x
                      /\ parent'[x] \in live' => x \in children'[parent'[x]]
    BY DEF FamilyOK, Live
  <2>1. x \in live /\ x # v /\ x \in Vmos
    BY <1>1
  <2>2. ASSUME NEW y \in children'[x] PROVE y \in live' /\ parent'[y] = x
    <3>1. CASE y \in children[v]
      <4>1. parent[y] = v /\ y # v /\ y \in live
        BY <1>1, <1>2, <3>1, VmoNumbers
      <4>2. y \notin children[x]
        BY <1>2, <2>1, <4>1
      <4>3. x = parent[v] /\ x \in live
        BY <1>3, <2>1, <2>2, <4>2
      <4> QED
        BY <1>1, <1>3, <3>1, <4>1, <4>3
    <3>2. CASE y \notin children[v]
      <4>1. y \in children[x] /\ y # v
        <5>1. y \in children[x]
          BY <1>3, <2>1, <2>2, <3>2
        <5>2. ASSUME y = v PROVE FALSE
          <6>1. parent[v] = x /\ x \in live
            BY <1>2, <2>1, <5>1, <5>2
          <6>2. children'[x] = (children[x] \cup children[v]) \ {v}
            BY <1>3, <2>1, <6>1
          <6> QED
            BY <2>2, <5>2, <6>2
        <5> QED
          BY <5>1, <5>2
      <4> QED
        BY <1>1, <1>2, <1>3, <2>1, <3>2, <4>1
    <3> QED
      BY <3>1, <3>2
  <2>3. ASSUME parent'[x] \in live' PROVE x \in children'[parent'[x]]
    <3>1. CASE parent[v] \in live /\ x \in children[v]
      BY <1>1, <1>3, <1>4, <2>1, <3>1
    <3>2. CASE ~(parent[v] \in live /\ x \in children[v])
      <4>1. parent'[x] = parent[x] /\ parent[x] \in live /\ parent[x] # v
        BY <1>1, <1>3, <2>1, <2>3, <3>2
      <4>2. x \in children[parent[x]] /\ parent[x] \in Vmos
        BY <1>1, <1>2, <2>1, <4>1
      <4> QED
        BY <1>3, <2>1, <4>1, <4>2
    <3> QED
      BY <3>1, <3>2
  <2> QED
    BY <2>2, <2>3
<1>8. PathOK'
  <2> SUFFICES ASSUME NEW x \in live', Slice(x)', base'[x] \in live'
               PROVE  parent'[x] \in live' /\ base'[parent'[x]] = base'[x]
    BY DEF PathOK
  <2>1. x \in live /\ x # v /\ x \in Vmos
    BY <1>1
  <2>2. Slice(x) /\ base'[x] = base[x] /\ base[x] \in live /\ base[x] # v
    BY <1>1, <2>1, KeptFields DEF Slice
  <2>3. parent[x] \in live /\ base[parent[x]] = base[x] /\ x \in children[parent[x]]
    BY <1>2, <2>1, <2>2 DEF Inv, TreeOK, PathOK
  <2>4. CASE parent[x] = v
    <3>1. Slice(v) /\ base[v] = base[x]
      BY <1>1, <2>2, <2>3, <2>4 DEF Inv, BaseOK
    <3>2. parent[v] \in live /\ base[parent[v]] = base[x]
      BY <2>2, <3>1 DEF Inv, TreeOK, PathOK
    <3>3. parent'[x] = parent[v] /\ parent[v] # v
      BY <1>3, <1>4, <2>1, <2>3, <2>4, <3>2
    <3>4. base'[parent[v]] = base[parent[v]]
      BY <1>1, <3>2, <3>3, KeptFields
    <3> QED
      BY <1>1, <2>2, <3>2, <3>3, <3>4
  <2>5. CASE parent[x] # v
    <3>1. parent'[x] = parent[x]
      BY <1>1, <1>2, <1>3, <2>1, <2>5
    <3>2. base'[parent[x]] = base[parent[x]]
      BY <1>1, <2>3, <2>5, KeptFields
    <3> QED
      BY <1>1, <2>2, <2>3, <2>5, <3>1, <3>2
  <2> QED
    BY <2>4, <2>5
<1>9. Fresh'
  <2> SUFFICES ASSUME NEW x \in Vmos, x > made
               PROVE  kind'[x] = "paged" /\ parent'[x] = None /\ children'[x] = {}
                        /\ count'[x] = 0
    BY <1>1 DEF Fresh
  <2>1. x # v /\ x \notin live
    BY <1>1, LiveIsVmo, VmoNumbers DEF Inv, TypeOK
  <2>2. kind[x] = "paged" /\ parent[x] = None /\ children[x] = {} /\ count[x] = 0
    BY DEF Inv, Fresh
  <2>3. kind'[x] = "paged" /\ count'[x] = 0
    BY <1>1, <2>1, <2>2 DEF Release, Blank, Inv, TypeOK
  <2>4. x \notin children[v]
    BY <1>1, <1>2, <2>1
  <2> QED
    BY <1>3, <2>1, <2>2, <2>3, <2>4
<1> QED
  BY <1>5, <1>6, <1>7, <1>8, <1>9 DEF TreeOK

LEMMA DropInv ==
    ASSUME Inv, NEW v \in Vmos, Drop(v)
    PROVE  Inv'
<1>1. v \in live /\ Release(v) /\ UNCHANGED <<made, mapping>>
  BY DEF Drop, Live
<1>2. TypeOK'
  BY <1>1, ReleaseTypes, DropFamily DEF TypeOK
<1> QED
  BY <1>1, <1>2, ReleaseSlices, DropTree DEF Inv

LEMMA NextInv ==
    ASSUME Inv, [Next]_vars
    PROVE  Inv'
<1>1. ASSUME NEW c \in Vmos, NEW n \in Lens, NEW r \in BOOLEAN,
             NewPaged(c, r, n) \/ NewContiguous(c, n) \/ NewPhysical(c, n)
      PROVE  Inv'
  BY <1>1, FramedInv, LenAssumption DEF NewPaged, NewContiguous, NewPhysical
<1>2. ASSUME NEW c \in Vmos, NEW v \in Vmos, NEW r \in BOOLEAN, NEW range \in Ranges,
             CreateChild(v, c, r, range)
      PROVE  Inv'
  <2>1. v \in live /\ range.len \in Nat
    BY <1>2, LenAssumption DEF CreateChild, Live
  <2> QED
    BY <1>2, <2>1, FramedInv DEF CreateChild
<1>3. ASSUME NEW v \in Vmos, NEW q \in Pins, NEW range \in Ranges, Pin(q, v, range)
      PROVE  Inv'
  BY <1>3, SameInv DEF Pin, Settled
<1>4. ASSUME NEW v \in Vmos, NEW range, Unpin(v, range) PROVE Inv'
  BY <1>4, SameInv DEF Unpin, Settled
<1>5. CASE UNCHANGED vars
  BY <1>5, SameInv DEF vars, Settled, identity
<1> QED
  BY <1>1, <1>2, <1>3, <1>4, <1>5, CreateSliceInv, SetLenInv, SetCachePolicyInv,
     MapInv, UnmapInv, DropInv DEF Next

LEMMA Family == Spec => []Inv
<1>1. Inv /\ [Next]_vars => Inv'
  BY NextInv
<1> QED
  BY <1>1, InitInv, PTL DEF Spec

-----------------------------------------------------------------------------
(* Cache policies *)

\* A step that leaves the base and the policy of slices and mapped VMOs alone.
LEMMA KeepsPolicy ==
    ASSUME Inv, PolicyOK, UNCHANGED mapping,
           \A x \in live' : Slice(x)' =>
              /\ x \in live /\ Slice(x) /\ base'[x] = base[x]
              /\ kind'[base[x]] = kind[base[x]] /\ policy'[base[x]] = policy[base[x]],
           \A m \in Mappings : mapping[m] # None =>
              LET x == mapping[m].vmo
              IN  /\ x \in live' /\ count'[x] > 0
                  /\ base'[x] = base[x] /\ policy'[base[x]] = policy[base[x]]
    PROVE  PolicyOK'
<1>1. CachedWhileShared'
  <2> SUFFICES ASSUME NEW x \in live', Slice(x)'
               PROVE  (Contiguous(x) \/ policy[base[x]] = Cached)'
    BY DEF CachedWhileShared, Slice
  <2>1. x \in live /\ Slice(x)
    OBVIOUS
  <2>2. Contiguous(x) \/ policy[base[x]] = Cached
    BY <2>1 DEF PolicyOK, CachedWhileShared, Slice
  <2> QED
    BY <2>2 DEF Contiguous
<1>2. MappedOK'
  BY DEF PolicyOK, MappedOK
<1> QED
  BY <1>1, <1>2 DEF PolicyOK

\* A change of policy is refused while the frames are mapped or shared.
LEMMA SetCachePolicyKeeps ==
    ASSUME Inv, PolicyOK, NEW v \in Vmos, NEW p \in Policies, SetCachePolicy(v, p)
    PROVE  PolicyOK'
<1>1. /\ v \in live /\ ~Slice(v) /\ children[v] = {} /\ count[v] = 0
      /\ policy' = [policy EXCEPT ![v] = p]
      /\ UNCHANGED <<live, kind, base, count, mapping>>
  BY DEF SetCachePolicy, Live, InUse, Slice, identity
<1>2. ASSUME NEW x \in live, Slice(x) PROVE policy'[base[x]] = policy[base[x]]
  <2>1. base[x] # v
    BY <1>1, <1>2, SharedHasChild
  <2> QED
    BY <1>1, <2>1, LiveIsVmo DEF Inv, TypeOK
<1>3. ASSUME NEW m \in Mappings, mapping[m] # None
      PROVE  LET x == mapping[m].vmo
             IN  x \in live /\ count[x] > 0 /\ policy'[base[x]] = policy[base[x]]
  <2> DEFINE x == mapping[m].vmo
  <2>1. x \in live /\ count[x] > 0
    BY <1>3 DEF PolicyOK, MappedOK
  <2> HIDE DEF x
  <2>2. base[x] # v
    <3>1. CASE Slice(x)
      BY <1>1, <2>1, <3>1, SharedHasChild
    <3>2. CASE ~Slice(x)
      <4>1. base[x] = x
        BY <2>1, <3>2, LiveIsVmo DEF Inv, BaseOK
      <4> QED
        BY <1>1, <2>1, <4>1
    <3> QED
      BY <3>1, <3>2
  <2>3. policy'[base[x]] = policy[base[x]]
    BY <1>1, <2>1, <2>2, LiveIsVmo DEF Inv, TypeOK
  <2> QED
    BY <2>1, <2>3 DEF x
<1> QED
  BY <1>1, <1>2, <1>3, KeepsPolicy DEF Slice

LEMMA MapKeeps ==
    ASSUME Inv, PolicyOK, NEW m \in Mappings, NEW v \in Vmos, Map(m, v)
    PROVE  PolicyOK'
<1>1. /\ v \in live /\ UNCHANGED <<live, kind, base, policy>>
      /\ count' = [count EXCEPT ![v] = @ + 1]
      /\ mapping' = [mapping EXCEPT ![m] = [vmo |-> v, policy |-> policy[base[v]]]]
  BY DEF Map, Live, identity
<1>2. CachedWhileShared'
  BY <1>1 DEF PolicyOK, CachedWhileShared, Contiguous
<1>3. MappedOK'
  <2> SUFFICES ASSUME NEW n \in Mappings, mapping'[n] # None
               PROVE  /\ mapping'[n].vmo \in live'
                      /\ count'[mapping'[n].vmo] > 0
                      /\ mapping'[n].policy = policy'[base'[mapping'[n].vmo]]
    BY DEF MappedOK
  <2>1. \A x \in live : (x = v \/ count[x] > 0) => count'[x] > 0
    BY <1>1, LiveIsVmo DEF Inv, TypeOK
  <2>2. CASE n = m
    <3>1. mapping'[n] = [vmo |-> v, policy |-> policy[base[v]]]
      BY <1>1, <2>2 DEF Inv, TypeOK
    <3> QED
      BY <1>1, <2>1, <3>1
  <2>3. CASE n # m
    <3>1. mapping'[n] = mapping[n]
      BY <1>1, <2>3 DEF Inv, TypeOK
    <3>2. /\ mapping[n].vmo \in live
          /\ count[mapping[n].vmo] > 0
          /\ mapping[n].policy = policy[base[mapping[n].vmo]]
      BY <3>1 DEF PolicyOK, MappedOK
    <3> QED
      BY <1>1, <2>1, <3>1, <3>2
  <2> QED
    BY <2>2, <2>3
<1> QED
  BY <1>2, <1>3 DEF PolicyOK

LEMMA UnmapKeeps ==
    ASSUME Inv, PolicyOK, NEW m \in Mappings, Unmap(m)
    PROVE  PolicyOK'
<1>1. UNCHANGED <<live, kind, base, policy, count>>
        /\ mapping' = [mapping EXCEPT ![m] = None]
  BY DEF Unmap, identity
<1>2. CachedWhileShared'
  BY <1>1 DEF PolicyOK, CachedWhileShared, Contiguous
<1>3. MappedOK'
  <2>1. \A n \in Mappings : mapping'[n] # None => mapping'[n] = mapping[n]
    BY <1>1 DEF Inv, TypeOK
  <2> QED
    BY <1>1, <2>1 DEF PolicyOK, MappedOK
<1> QED
  BY <1>2, <1>3 DEF PolicyOK

\* The frames of VMOs made before are not those of a new one.
LEMMA NewKeeps ==
    ASSUME Inv, PolicyOK, NEW c \in Vmos, NEW k, NEW r, NEW b \in Vmos,
           New(c, k, r, b),
           \A x \in Vmos : x # c => policy'[x] = policy[x],
           k = "slice" => (Contiguous(c) \/ policy[base[c]] = Cached)'
    PROVE  PolicyOK'
<1>1. /\ c = made + 1 /\ live' = live \cup {c} /\ c \notin live /\ made \in Nat
      /\ kind' = [kind EXCEPT ![c] = k] /\ base' = [base EXCEPT ![c] = b]
      /\ UNCHANGED <<count, mapping>>
  BY BoundAssumption DEF New, Inv, TypeOK
<1>2. ASSUME NEW x \in live
      PROVE  /\ x \in Vmos /\ x # c /\ base[x] \in Vmos /\ base[x] # c
             /\ kind'[x] = kind[x] /\ base'[x] = base[x]
             /\ kind'[base[x]] = kind[base[x]] /\ policy'[base[x]] = policy[base[x]]
  <2>1. x \in Vmos /\ base[x] \in Vmos /\ base[x] # c /\ x # c
    BY <1>1, BaseBefore
  <2> QED
    BY <1>1, <2>1 DEF Inv, TypeOK
<1>3. CachedWhileShared'
  <2> SUFFICES ASSUME NEW x \in live', Slice(x)'
               PROVE  (Contiguous(x) \/ policy[base[x]] = Cached)'
    BY DEF CachedWhileShared, Slice
  <2>1. CASE x = c
    BY <1>1, <2>1 DEF Slice, Inv, TypeOK
  <2>2. CASE x \in live
    <3>1. Contiguous(x) \/ policy[base[x]] = Cached
      BY <1>2, <2>2 DEF PolicyOK, CachedWhileShared, Slice
    <3> QED
      BY <1>2, <2>2, <3>1 DEF Contiguous
  <2> QED
    BY <1>1, <2>1, <2>2
<1>4. MappedOK'
  <2> SUFFICES ASSUME NEW m \in Mappings, mapping[m] # None
               PROVE  /\ mapping[m].vmo \in live'
                      /\ count'[mapping[m].vmo] > 0
                      /\ mapping[m].policy = policy'[base'[mapping[m].vmo]]
    BY <1>1 DEF MappedOK
  <2>1. /\ mapping[m].vmo \in live
        /\ count[mapping[m].vmo] > 0
        /\ mapping[m].policy = policy[base[mapping[m].vmo]]
    BY DEF PolicyOK, MappedOK
  <2> QED
    BY <1>1, <1>2, <2>1
<1> QED
  BY <1>3, <1>4 DEF PolicyOK

LEMMA FramedKeeps ==
    ASSUME Inv, PolicyOK, NEW c \in Vmos, NEW k \in {"paged", "contiguous", "physical"},
           NEW r, NEW n, Framed(c, k, r, n)
    PROVE  PolicyOK'
<1>1. New(c, k, r, c) /\ k # "slice"
  BY DEF Framed
<1>2. \A x \in Vmos : x # c => policy'[x] = policy[x]
  BY DEF Framed, Inv, TypeOK
<1> QED
  BY <1>1, <1>2, NewKeeps

LEMMA CreateSliceKeeps ==
    ASSUME Inv, PolicyOK, NEW c \in Vmos, NEW v \in Vmos, NEW range,
           CreateSlice(v, c, range)
    PROVE  PolicyOK'
<1>1. /\ New(c, "slice", FALSE, base[v]) /\ v \in live /\ base[v] \in Vmos
      /\ policy' = policy
      /\ kind[base[v]] \in {"contiguous", "physical"} \/ policy[base[v]] = Cached
  BY DEF CreateSlice, Live, MayShare, Contiguous, Inv, TypeOK
<1>2. base'[c] = base[v] /\ kind' = [kind EXCEPT ![c] = "slice"] /\ c = made + 1
  BY <1>1 DEF New, Inv, TypeOK
<1>3. base[v] # c
  BY <1>1, <1>2, BaseBefore
<1>4. (Contiguous(c) \/ policy[base[c]] = Cached)'
  BY <1>1, <1>2, <1>3 DEF Contiguous, Inv, TypeOK
<1> QED
  BY <1>1, <1>4, NewKeeps

LEMMA DropKeeps ==
    ASSUME Inv, PolicyOK, NEW v \in Vmos, Drop(v)
    PROVE  PolicyOK'
<1>1. /\ v \in live /\ Release(v) /\ live' = live \ {v} /\ UNCHANGED mapping
      /\ \A m \in Mappings : mapping[m] # None => mapping[m].vmo # v
  BY DEF Drop, Live, Release
<1>2. ASSUME NEW m \in Mappings, mapping[m] # None
      PROVE  LET x == mapping[m].vmo
             IN  /\ x \in live' /\ count'[x] > 0
                 /\ base'[x] = base[x] /\ policy'[base[x]] = policy[base[x]]
  <2> DEFINE x == mapping[m].vmo
  <2>1. x \in live /\ count[x] > 0 /\ x # v
    BY <1>1, <1>2 DEF PolicyOK, MappedOK
  <2> HIDE DEF x
  <2>2. base'[x] = base[x] /\ policy'[base[x]] = policy[base[x]] /\ count'[x] = count[x]
    BY <1>1, <2>1, KeptFields
  <2> QED
    BY <1>1, <2>1, <2>2 DEF x
<1>3. \A x \in live' : Slice(x)' =>
        /\ x \in live /\ Slice(x) /\ base'[x] = base[x]
        /\ kind'[base[x]] = kind[base[x]] /\ policy'[base[x]] = policy[base[x]]
  BY <1>1, KeptFields DEF Slice
<1> QED
  BY <1>1, <1>2, <1>3, KeepsPolicy

LEMMA SettledKeeps ==
    ASSUME Inv, PolicyOK, UNCHANGED <<live, kind, base, policy, count, mapping>>
    PROVE  PolicyOK'
  BY DEF PolicyOK, CachedWhileShared, MappedOK, Contiguous

LEMMA NextPolicy ==
    ASSUME Inv, PolicyOK, [Next]_vars
    PROVE  PolicyOK'
<1>1. ASSUME NEW c \in Vmos, NEW n, NEW r,
             NewPaged(c, r, n) \/ NewContiguous(c, n) \/ NewPhysical(c, n)
      PROVE  PolicyOK'
  BY <1>1, FramedKeeps DEF NewPaged, NewContiguous, NewPhysical
<1>2. ASSUME NEW c \in Vmos, NEW v \in Vmos, NEW r, NEW range, CreateChild(v, c, r, range)
      PROVE  PolicyOK'
  BY <1>2, FramedKeeps DEF CreateChild
<1>3. ASSUME NEW v \in Vmos, NEW n, SetLen(v, n) PROVE PolicyOK'
  BY <1>3, SettledKeeps DEF SetLen, identity
<1>4. ASSUME NEW v \in Vmos, NEW q \in Pins, NEW range, Pin(q, v, range) PROVE PolicyOK'
  BY <1>4, SettledKeeps DEF Pin, identity
<1>5. ASSUME NEW v \in Vmos, NEW range, Unpin(v, range) PROVE PolicyOK'
  BY <1>5, SettledKeeps DEF Unpin, identity
<1>6. CASE UNCHANGED vars
  BY <1>6, SettledKeeps DEF vars
<1> QED
  BY <1>1, <1>2, <1>3, <1>4, <1>5, <1>6, CreateSliceKeeps, SetCachePolicyKeeps,
     MapKeeps, UnmapKeeps, DropKeeps DEF Next

LEMMA Sharing == Spec => [](Inv /\ PolicyOK)
<1>1. Inv /\ PolicyOK /\ [Next]_vars => (Inv /\ PolicyOK)'
  BY NextInv, NextPolicy
<1> QED
  BY <1>1, InitInv, PTL DEF Spec

-----------------------------------------------------------------------------
\* However deep slices are cut from slices, and whatever is resized or dropped
\* on the way, every slice lies inside its frames.
THEOREM SlicesInside == Spec => []SliceInside
<1>1. Inv => SliceInside
  BY LiveIsVmo DEF Inv, SliceOK, SliceInside, Slice
<1> QED
  BY <1>1, Family, PTL

\* The family tree is whole in every state: lists hold live VMOs only, each on
\* the list of its parent and on no other.
THEOREM FamilyWhole == Spec => []FamilyOK
<1>1. Inv => FamilyOK
  BY DEF Inv, TreeOK
<1> QED
  BY <1>1, Family, PTL

\* No slice ever shares frames that are neither cached nor contiguous.
THEOREM SharedStaysCached == Spec => []CachedWhileShared
<1>1. Inv /\ PolicyOK => CachedWhileShared
  BY DEF PolicyOK
<1> QED
  BY <1>1, Sharing, PTL

\* The policy a mapping was made with is the policy of its frames for as long
\* as it exists.
THEOREM MappedStaysPut == Spec => []MappedKeepsPolicy
<1>1. Inv /\ PolicyOK => MappedKeepsPolicy
  BY DEF PolicyOK, MappedOK, MappedKeepsPolicy
<1> QED
  BY <1>1, Sharing, PTL

-----------------------------------------------------------------------------
(* Pins *)

PinRecord == [vmo : Vmos, of : Vmos, range : Ranges]

\* Who has pinned a range named a VMO that was there, whose frames can be
\* pinned; as long as that VMO lives it stands for the same frames.
PinOK(q) ==
    pin[q] # None =>
        /\ pin[q].vmo <= made /\ pin[q].of <= made
        /\ pin[q].range.len # 0
        /\ kind[pin[q].of] # "physical"
        /\ pin[q].vmo \in live => base[pin[q].vmo] = pin[q].of

PinInv ==
    /\ pin \in [Pins -> PinRecord \cup {None}]
    /\ pinned \in [Vmos -> 0 .. (Word - 1)]
    /\ \A q \in Pins : PinOK(q)
    /\ \A b \in Vmos : IsFiniteSet(PinnedPages(b))
    /\ PinsAccounted

\* Counts are taken modulo Word, which does nothing to those below it.
LEMMA Wraps ==
    ASSUME NEW n \in Int
    PROVE  n % Word \in 0 .. (Word - 1) /\ (n \in 0 .. (Word - 1) => n % Word = n)
BY WordAssumption

LEMMA PinFields ==
    ASSUME NEW r \in PinRecord
    PROVE  /\ r.vmo \in Vmos /\ r.of \in Vmos /\ r.range \in Ranges
           /\ r.range.at \in Nat /\ r.range.len \in Nat
           /\ r # None
<1>1. r \in [vmo : Nat, of : Nat, range : [at : Nat, len : Nat]]
  BY VmoNumbers, LenAssumption DEF PinRecord
<1>2. r.range \in [at : Nat, len : Nat]
  BY <1>1
<1> QED
  BY <1>1, <1>2, NoneAssumption DEF PinRecord

LEMMA InitPinInv == Init => PinInv
<1> SUFFICES ASSUME Init PROVE PinInv
  OBVIOUS
<1>1. \A q \in Pins : pin[q] = None
  BY DEF Init
<1>2. \A b \in Vmos : PinnedPages(b) = {}
  BY <1>1 DEF PinnedPages, PinsOf
<1>3. /\ pin \in [Pins -> PinRecord \cup {None}] /\ pinned \in [Vmos -> 0 .. (Word - 1)]
      /\ \A b \in Vmos : pinned[b] = 0
  BY WordAssumption DEF Init
<1> QED
  BY <1>1, <1>2, <1>3, FS_EmptySet DEF PinInv, PinOK, PinsAccounted

\* The pages of one pin
PagesBy(q, range) == {q} \X PagesIn(range)

LEMMA PagesOfPin ==
    ASSUME NEW q, NEW range, range.at \in Nat, range.len \in Nat \ {0}
    PROVE  /\ IsFiniteSet(PagesBy(q, range))
           /\ Cardinality(PagesBy(q, range)) = range.len
           /\ \E p : p \in PagesBy(q, range)
           /\ \A p \in PagesBy(q, range) : p[1] = q
<1> DEFINE I == PagesIn(range)
<1>1. IsFiniteSet(I) /\ Cardinality(I) = range.len /\ range.at \in I
  <2>1. IsFiniteSet(range.at .. (range.at + range.len - 1))
          /\ Cardinality(range.at .. (range.at + range.len - 1)) =
               IF range.at > range.at + range.len - 1 THEN 0
               ELSE (range.at + range.len - 1) - range.at + 1
    <3>1. range.at \in Int /\ range.at + range.len - 1 \in Int
      OBVIOUS
    <3> QED
      BY <3>1, FS_Interval
  <2> QED
    BY <2>1 DEF PagesIn
<1>2. IsFiniteSet({q}) /\ Cardinality({q}) = 1
  BY FS_Singleton
<1> HIDE DEF I
<1>3. IsFiniteSet({q} \X I) /\ Cardinality({q} \X I) = 1 * range.len
  BY <1>1, <1>2, FS_Product
<1>4. <<q, range.at>> \in {q} \X I /\ \A p \in {q} \X I : p[1] = q
  BY <1>1
<1>5. PagesBy(q, range) = {q} \X I
  BY DEF PagesBy, I
<1> QED
  BY <1>3, <1>4, <1>5

LEMMA PagesPinnedBy ==
    ASSUME NEW b, NEW p
    PROVE  p \in PinnedPages(b) <=>
           \E q \in Pins : pin[q] # None /\ pin[q].of = b /\ p \in PagesBy(q, pin[q].range)
  BY DEF PinnedPages, PinsOf, PagesBy

\* The pages of every pin of b are among the pages of b.
LEMMA PinPages ==
    ASSUME PinInv, NEW q \in Pins, pin[q] # None
    PROVE  /\ pin[q] \in PinRecord
           /\ pin[q].of \in Vmos /\ pin[q].vmo \in Vmos
           /\ pin[q].range.at \in Nat /\ pin[q].range.len \in Nat \ {0}
           /\ PagesBy(q, pin[q].range) \subseteq PinnedPages(pin[q].of)
<1>1. pin[q] \in PinRecord
  BY DEF PinInv
<1>2. pin[q].range.len # 0
  BY DEF PinInv, PinOK
<1>3. PagesBy(q, pin[q].range) \subseteq PinnedPages(pin[q].of)
  BY PagesPinnedBy
<1> QED
  BY <1>1, <1>2, <1>3, PinFields

\* An object without pins is one whose count is right and zero.
LEMMA NoPins ==
    ASSUME PinInv, NEW b \in Vmos \ miscounted, pinned[b] = 0
    PROVE  \A q \in Pins : pin[q] # None => pin[q].of # b
<1>1. PinnedPages(b) = {}
  BY FS_EmptySet DEF PinInv, PinsAccounted
<1> QED
  BY <1>1, PinPages, PagesOfPin

LEMMA PinPinInv ==
    ASSUME Inv, PinInv, NEW q \in Pins, NEW v \in Vmos, NEW range \in Ranges, Pin(q, v, range)
    PROVE  PinInv'
<1>1. /\ pin[q] = None /\ v \in live /\ kind[base[v]] # "physical" /\ range.len # 0
      /\ UNCHANGED <<made, kind, base, live>>
      /\ pinned' = [pinned EXCEPT ![base[v]] = (@ + range.len) % Word]
      /\ pin' = [pin EXCEPT ![q] = [vmo |-> v, of |-> base[v], range |-> range]]
      /\ miscounted' = IF pinned[base[v]] + range.len < Word THEN miscounted
                       ELSE miscounted \cup {base[v]}
  BY DEF Pin, Pinnable, PinOf, Live, Counted, identity
<1>2. PICK b \in Vmos : b = base[v]
  BY DEF Inv, TypeOK
<1>3. PICK r \in PinRecord : r = [vmo |-> v, of |-> b, range |-> range]
  BY DEF PinRecord
<1>4. range.at \in Nat /\ range.len \in Nat \ {0}
  BY <1>1, LenAssumption
<1>5. /\ pin' = [pin EXCEPT ![q] = r]
      /\ pinned' = [pinned EXCEPT ![b] = (@ + range.len) % Word]
      /\ r.vmo = v /\ r.of = b /\ r.range = range /\ r # None
  BY <1>1, <1>2, <1>3, PinFields
<1>6. pin' \in [Pins -> PinRecord \cup {None}] /\ pinned' \in [Vmos -> 0 .. (Word - 1)]
        /\ pin'[q] = r /\ \A s \in Pins \ {q} : pin'[s] = pin[s]
  <2>1. pinned[b] \in Int /\ range.len \in Int
    BY <1>4 DEF PinInv
  <2>2. (pinned[b] + range.len) % Word \in 0 .. (Word - 1)
    BY <2>1, Wraps
  <2>3. pinned' \in [Vmos -> 0 .. (Word - 1)]
    BY <1>5, <2>2 DEF PinInv
  <2> QED
    BY <1>5, <2>3 DEF PinInv
<1>7. b <= made /\ v <= made
  <2>1. v <= made /\ base[v] <= v
    BY <1>1, <1>2, LiveIsVmo, VmoNumbers DEF Inv, BaseOK
  <2>2. made \in Nat /\ b \in Nat /\ v \in Nat
    BY BoundAssumption, VmoNumbers DEF Inv, TypeOK
  <2> QED
    BY <1>2, <2>1, <2>2
<1>8. ASSUME NEW s \in Pins PROVE PinOK(s)'
  <2>1. CASE s = q
    BY <2>1, <1>1, <1>2, <1>4, <1>5, <1>6, <1>7 DEF PinOK
  <2>2. CASE s # q
    <3>1. PinOK(s)
      BY DEF PinInv
    <3> QED
      BY <2>2, <3>1, <1>1, <1>6 DEF PinOK
  <2> QED
    BY <2>1, <2>2
<1>9. ASSUME NEW x \in Vmos
      PROVE  PinnedPages(x)' = IF x = b THEN PinnedPages(x) \cup PagesBy(q, range)
                               ELSE PinnedPages(x)
  <2>1. ASSUME NEW p
        PROVE  p \in PinnedPages(x)' <=>
                  p \in PinnedPages(x) \/ (x = b /\ p \in PagesBy(q, range))
    <3>1. p \in PinnedPages(x)' <=>
             \E s \in Pins : pin'[s] # None /\ pin'[s].of = x /\ p \in PagesBy(s, pin'[s].range)
      BY DEF PinnedPages, PinsOf, PagesBy
    <3>2. p \in PinnedPages(x) <=>
             \E s \in Pins : pin[s] # None /\ pin[s].of = x /\ p \in PagesBy(s, pin[s].range)
      BY PagesPinnedBy
    <3> QED
      BY <3>1, <3>2, <1>1, <1>5, <1>6
  <2> QED
    BY <2>1
<1>10. PinnedPages(b) \cap PagesBy(q, range) = {}
  <2> SUFFICES ASSUME NEW p \in PinnedPages(b), p \in PagesBy(q, range) PROVE FALSE
    OBVIOUS
  <2>1. PICK s \in Pins : pin[s] # None /\ p \in PagesBy(s, pin[s].range)
    BY PagesPinnedBy
  <2>2. p[1] = s
    BY <2>1, PinPages, PagesOfPin
  <2>3. p[1] = q
    BY <1>4, PagesOfPin
  <2> QED
    BY <2>1, <2>2, <2>3, <1>1
<1>11. ASSUME NEW x \in Vmos
       PROVE  /\ IsFiniteSet(PinnedPages(x)')
              /\ x \notin miscounted' => pinned'[x] = Cardinality(PinnedPages(x)')
  <2>1. /\ IsFiniteSet(PinnedPages(x)) /\ pinned[x] \in 0 .. (Word - 1)
        /\ x \notin miscounted => pinned[x] = Cardinality(PinnedPages(x))
    BY DEF PinInv, PinsAccounted
  <2>2. CASE x = b
    <3>1. IsFiniteSet(PagesBy(q, range)) /\ Cardinality(PagesBy(q, range)) = range.len
      BY <1>4, PagesOfPin
    <3>2. PICK A : A = PagesBy(q, range)
      OBVIOUS
    <3>3. PICK B : B = PinnedPages(x)
      OBVIOUS
    <3>4. IsFiniteSet(A) /\ Cardinality(A) = range.len
            /\ IsFiniteSet(B) /\ B \cap A = {}
      BY <2>1, <2>2, <3>1, <3>2, <3>3, <1>10
    <3>5. IsFiniteSet(B \cup A)
            /\ Cardinality(B \cup A) = Cardinality(B) + Cardinality(A) - Cardinality(B \cap A)
      BY <3>4, FS_Union
    <3>6. Cardinality(B \cap A) = 0
      BY <3>4, FS_EmptySet
    <3>7. PinnedPages(x)' = B \cup A
      BY <2>2, <3>2, <3>3, <1>9
    <3>8. ASSUME x \notin miscounted' PROVE pinned'[x] = Cardinality(B \cup A)
      <4>1. x \notin miscounted /\ pinned[x] + range.len < Word
        BY <1>1, <1>2, <2>2, <3>8
      <4>2. pinned'[x] = (pinned[x] + range.len) % Word
        BY <2>2, <1>5 DEF PinInv
      <4>3. pinned[x] + range.len \in 0 .. (Word - 1)
        BY <1>4, <2>1, <4>1, WordAssumption
      <4>4. pinned'[x] = pinned[x] + range.len
        BY <4>2, <4>3, Wraps
      <4>5. pinned[x] = Cardinality(B)
        BY <2>1, <3>3, <4>1
      <4> QED
        BY <2>1, <3>4, <3>5, <3>6, <4>4, <4>5, <1>4
    <3> QED
      BY <3>5, <3>7, <3>8
  <2>3. CASE x # b
    <3>1. pinned'[x] = pinned[x] /\ (x \notin miscounted' => x \notin miscounted)
      BY <2>3, <1>1, <1>2, <1>5 DEF PinInv
    <3>2. PinnedPages(x)' = PinnedPages(x)
      BY <2>3, <1>9
    <3> QED
      BY <2>1, <3>1, <3>2
  <2> QED
    BY <2>2, <2>3
<1> QED
  BY <1>6, <1>8, <1>11 DEF PinInv, PinsAccounted

LEMMA UnpinPinInv ==
    ASSUME Inv, PinInv, NEW q \in Pins, NEW v \in Vmos, NEW range \in Ranges, Unpin(v, range),
           pin[q] = PinOf(v, range), pin' = [pin EXCEPT ![q] = None], UNCHANGED miscounted
    PROVE  PinInv'
<1>0. pin[q] # None
  <2>1. PICK r \in PinRecord : r = PinOf(v, range)
    BY DEF PinOf, PinRecord, Inv, TypeOK
  <2> QED
    BY <2>1, PinFields
<1>1. /\ pin[q] # None /\ pin[q].vmo = v /\ v \in live
      /\ UNCHANGED <<made, kind, base, live>>
      /\ pinned' = [pinned EXCEPT ![base[v]] = (@ - pin[q].range.len) % Word]
      /\ pin' = [pin EXCEPT ![q] = None]
  BY <1>0 DEF Unpin, Pinnable, PinOf, Live, identity
<1>2. PICK b \in Vmos : b = pin[q].of /\ b = base[v]
  BY <1>1, PinPages DEF PinInv, PinOK
<1>3. PICK n \in Nat \ {0} : n = pin[q].range.len
  BY <1>1, PinPages
<1>4. PICK T : T = PagesBy(q, pin[q].range)
  OBVIOUS
<1>5. IsFiniteSet(T) /\ Cardinality(T) = n /\ (\A p \in T : p[1] = q) /\ T \subseteq PinnedPages(b)
  BY <1>1, <1>2, <1>3, <1>4, PinPages, PagesOfPin, ZenonT(60)
<1>6. pin' \in [Pins -> PinRecord \cup {None}] /\ pin'[q] = None
        /\ \A s \in Pins \ {q} : pin'[s] = pin[s]
  BY <1>1 DEF PinInv
<1>7. ASSUME NEW s \in Pins PROVE PinOK(s)'
  <2>1. CASE s = q
    BY <2>1, <1>6 DEF PinOK
  <2>2. CASE s # q
    <3>1. PinOK(s)
      BY DEF PinInv
    <3> QED
      BY <2>2, <3>1, <1>1, <1>6 DEF PinOK
  <2> QED
    BY <2>1, <2>2
<1>8. ASSUME NEW x \in Vmos
      PROVE  PinnedPages(x)' = IF x = b THEN PinnedPages(x) \ T ELSE PinnedPages(x)
  <2>1. ASSUME NEW p
        PROVE  p \in PinnedPages(x)' <=> p \in PinnedPages(x) /\ ~(x = b /\ p \in T)
    <3>1. p \in PinnedPages(x)' <=>
             \E s \in Pins : pin'[s] # None /\ pin'[s].of = x /\ p \in PagesBy(s, pin'[s].range)
      BY DEF PinnedPages, PinsOf, PagesBy
    <3>2. p \in PinnedPages(x) <=>
             \E s \in Pins : pin[s] # None /\ pin[s].of = x /\ p \in PagesBy(s, pin[s].range)
      BY PagesPinnedBy
    <3>3. \A s \in Pins : pin[s] # None /\ p \in PagesBy(s, pin[s].range) => p[1] = s
      BY PinPages, PagesOfPin
    <3>4. p \in PinnedPages(x)' <=>
             \E s \in Pins \ {q} : pin[s] # None /\ pin[s].of = x /\ p \in PagesBy(s, pin[s].range)
      BY <3>1, <1>6
    <3> QED
      BY <3>2, <3>3, <3>4, <1>1, <1>2, <1>4, <1>5
  <2> QED
    BY <2>1
<1>9. ASSUME NEW x \in Vmos
      PROVE  /\ IsFiniteSet(PinnedPages(x)')
             /\ x \notin miscounted => pinned'[x] = Cardinality(PinnedPages(x)')
  <2>1. /\ IsFiniteSet(PinnedPages(x)) /\ pinned[x] \in 0 .. (Word - 1)
        /\ x \notin miscounted => pinned[x] = Cardinality(PinnedPages(x))
    BY DEF PinInv, PinsAccounted
  <2>2. CASE x = b
    <3>1. PICK B : B = PinnedPages(x)
      OBVIOUS
    <3>2. IsFiniteSet(B) /\ B \cap T = T
      BY <2>1, <2>2, <3>1, <1>5
    <3>3. IsFiniteSet(B \ T) /\ Cardinality(B \ T) = Cardinality(B) - Cardinality(B \cap T)
      BY <3>2, FS_Difference
    <3>4. Cardinality(B \ T) \in Nat
      BY <3>3, FS_CardinalityType
    <3>5. Cardinality(B \cap T) = n
      BY <3>2, <1>5
    <3>6. PinnedPages(x)' = B \ T
      BY <2>2, <3>1, <1>8
    <3>7. ASSUME x \notin miscounted PROVE pinned'[x] = Cardinality(B \ T)
      <4>1. pinned[x] - n = Cardinality(B \ T)
        BY <2>1, <3>1, <3>3, <3>5, <3>7
      <4>2. pinned[x] - n \in 0 .. (Word - 1)
        BY <2>1, <3>4, <4>1, WordAssumption
      <4>3. pinned'[x] = (pinned[x] - n) % Word
        BY <2>2, <1>1, <1>2, <1>3 DEF PinInv
      <4> QED
        BY <4>1, <4>2, <4>3, Wraps
    <3> QED
      BY <3>3, <3>6, <3>7
  <2>3. CASE x # b
    <3>1. pinned'[x] = pinned[x]
      BY <2>3, <1>1, <1>2 DEF PinInv
    <3>2. PinnedPages(x)' = PinnedPages(x)
      BY <2>3, <1>8
    <3> QED
      BY <2>1, <3>1, <3>2
  <2> QED
    BY <2>2, <2>3
<1>10. pinned' \in [Vmos -> 0 .. (Word - 1)]
  <2>1. pinned[b] - n \in Int
    BY DEF PinInv
  <2>2. (pinned[b] - n) % Word \in 0 .. (Word - 1)
    BY <2>1, Wraps
  <2> QED
    BY <1>1, <1>2, <1>3, <2>2 DEF PinInv
<1> QED
  BY <1>6, <1>7, <1>9, <1>10 DEF PinInv, PinsAccounted

\* What nobody had pinned takes the object off those that are counted.
LEMMA StrayPinInv ==
    ASSUME Inv, PinInv, NEW v \in Vmos, NEW range \in Ranges, Unpin(v, range),
           miscounted' = miscounted \cup {base[v]}, UNCHANGED pin
    PROVE  PinInv'
<1>1. /\ UNCHANGED <<made, kind, base, live>>
      /\ pinned' = [pinned EXCEPT ![base[v]] = (@ - range.len) % Word]
  BY DEF Unpin, identity
<1>2. PICK b \in Vmos : b = base[v]
  BY DEF Inv, TypeOK
<1>3. pinned' \in [Vmos -> 0 .. (Word - 1)]
  <2>1. pinned[b] - range.len \in Int
    BY LenAssumption DEF PinInv
  <2>2. (pinned[b] - range.len) % Word \in 0 .. (Word - 1)
    BY <2>1, Wraps
  <2> QED
    BY <1>1, <1>2, <2>2 DEF PinInv
<1>4. ASSUME NEW q \in Pins PROVE PinOK(q)'
  BY <1>1 DEF PinInv, PinOK
<1>5. ASSUME NEW x PROVE PinnedPages(x)' = PinnedPages(x)
  BY DEF PinnedPages, PinsOf, PagesIn
<1>6. ASSUME NEW x \in Vmos
      PROVE  /\ IsFiniteSet(PinnedPages(x)')
             /\ x \notin miscounted' => pinned'[x] = Cardinality(PinnedPages(x)')
  <2>1. x \notin miscounted' => x \notin miscounted /\ pinned'[x] = pinned[x]
    BY <1>1, <1>2 DEF PinInv
  <2>2. /\ IsFiniteSet(PinnedPages(x))
        /\ x \notin miscounted => pinned[x] = Cardinality(PinnedPages(x))
    BY DEF PinInv, PinsAccounted
  <2> QED
    BY <1>5, <2>1, <2>2
<1>7. pin' \in [Pins -> PinRecord \cup {None}]
  BY DEF PinInv
<1> QED
  BY <1>3, <1>4, <1>6, <1>7 DEF PinInv, PinsAccounted

\* Steps that do not touch the pins and leave the VMOs that were made what they are
LEMMA SamePinInv ==
    ASSUME Inv, PinInv, UNCHANGED pins,
           made' \in Nat, made <= made',
           \A x \in Vmos : x <= made => kind'[x] = kind[x] /\ base'[x] = base[x]
                                         /\ (x \in live' => x \in live)
    PROVE  PinInv'
<1>0. UNCHANGED <<pin, pinned, miscounted>>
  BY DEF pins
<1>1. ASSUME NEW x PROVE PinnedPages(x)' = PinnedPages(x)
  BY <1>0 DEF PinnedPages, PinsOf, PagesIn
<1>2. ASSUME NEW q \in Pins PROVE PinOK(q)'
  <2> SUFFICES ASSUME pin[q] # None PROVE PinOK(q)'
    BY <1>0 DEF PinOK
  <2>1. PinOK(q) /\ pin[q].of \in Vmos /\ pin[q].vmo \in Vmos
    BY PinPages DEF PinInv
  <2>2. made \in Nat /\ pin[q].of \in Nat /\ pin[q].vmo \in Nat
    <3>1. made \in Nat
      BY BoundAssumption DEF Inv, TypeOK
    <3> QED
      BY <2>1, <3>1, VmoNumbers
  <2>3. pin' = pin
    BY <1>0
  <2>4. pin[q].of <= made /\ pin[q].vmo <= made
    BY <2>1 DEF PinOK
  <2>5. pin[q].of <= made' /\ pin[q].vmo <= made'
    BY <2>2, <2>4
  <2>6. kind'[pin[q].of] = kind[pin[q].of] /\ base'[pin[q].vmo] = base[pin[q].vmo]
          /\ (pin[q].vmo \in live' => pin[q].vmo \in live)
    BY <2>1, <2>4
  <2> QED
    BY <2>1, <2>3, <2>5, <2>6 DEF PinOK
<1>3. ASSUME NEW x \in Vmos
      PROVE  /\ IsFiniteSet(PinnedPages(x)')
             /\ x \notin miscounted => pinned'[x] = Cardinality(PinnedPages(x)')
  <2>1. /\ IsFiniteSet(PinnedPages(x))
        /\ x \notin miscounted => pinned[x] = Cardinality(PinnedPages(x))
    BY DEF PinInv, PinsAccounted
  <2> QED
    BY <2>1, <1>0, <1>1
<1>4. pin' \in [Pins -> PinRecord \cup {None}] /\ pinned' \in [Vmos -> 0 .. (Word - 1)]
  BY <1>0 DEF PinInv
<1> QED
  BY <1>0, <1>2, <1>3, <1>4 DEF PinInv, PinsAccounted

LEMMA NewPinInv ==
    ASSUME Inv, PinInv, NEW c \in Vmos, NEW k, NEW r, NEW b, New(c, k, r, b)
    PROVE  PinInv'
<1>1. /\ made \in Nat /\ c = made + 1 /\ made' = c /\ live' = live \cup {c}
      /\ kind' = [kind EXCEPT ![c] = k] /\ base' = [base EXCEPT ![c] = b]
      /\ UNCHANGED pins
  BY BoundAssumption DEF New, Inv, TypeOK
<1>2. ASSUME NEW x \in Vmos, x <= made
      PROVE  kind'[x] = kind[x] /\ base'[x] = base[x] /\ (x \in live' => x \in live)
  <2>1. x # c
    BY <1>1, <1>2, VmoNumbers
  <2> QED
    BY <2>1, <1>1 DEF Inv, TypeOK
<1> QED
  BY <1>1, <1>2, SamePinInv

LEMMA DropPinInv ==
    ASSUME Inv, PinInv, NEW v \in Vmos, Drop(v)
    PROVE  PinInv'
<1>1. /\ v \in live /\ Release(v) /\ live' = live \ {v} /\ made' = made
      /\ kind' = Blank(kind, Gone(v), "paged")
      /\ pinned' = Blank(pinned, Gone(v), 0)
      /\ pin' = [q \in Pins |-> IF pin[q] # None /\ pin[q].of \in Gone(v) THEN None ELSE pin[q]]
      /\ miscounted' = miscounted \ Gone(v)
  BY DEF Drop, Live, Release
<1>2. ASSUME NEW q \in Pins, pin'[q] # None
      PROVE  pin'[q] = pin[q] /\ pin[q].of \notin Gone(v) /\ pin[q] # None
  BY <1>1, <1>2
<1>3. \A q \in Pins : pin[q] # None /\ pin[q].of \notin Gone(v) => pin'[q] = pin[q]
  BY <1>1
<1>4. pin' \in [Pins -> PinRecord \cup {None}] /\ pinned' \in [Vmos -> 0 .. (Word - 1)]
  BY <1>1, WordAssumption DEF PinInv, Blank
<1>5. ASSUME NEW q \in Pins PROVE PinOK(q)'
  <2> SUFFICES ASSUME pin'[q] # None PROVE PinOK(q)'
    BY DEF PinOK
  <2>1. pin'[q] = pin[q] /\ pin[q].of \notin Gone(v) /\ pin[q] # None
    BY <1>2
  <2>2. PinOK(q) /\ pin[q].of \in Vmos
    BY <2>1, PinPages DEF PinInv
  <2>3. kind'[pin[q].of] = kind[pin[q].of]
    BY <2>1, <2>2, <1>1 DEF Blank
  <2>4. ASSUME pin[q].vmo \in live' PROVE base'[pin[q].vmo] = pin[q].of
    <3>1. base'[pin[q].vmo] = base[pin[q].vmo]
      BY <1>1, <2>4, KeptFields
    <3> QED
      BY <3>1, <1>1, <2>1, <2>2, <2>4 DEF PinOK
  <2> QED
    BY <2>1, <2>2, <2>3, <2>4, <1>1 DEF PinOK
<1>6. ASSUME NEW x \in Vmos
      PROVE  PinnedPages(x)' = IF x \in Gone(v) THEN {} ELSE PinnedPages(x)
  <2>1. ASSUME NEW p
        PROVE  p \in PinnedPages(x)' <=> x \notin Gone(v) /\ p \in PinnedPages(x)
    <3>1. p \in PinnedPages(x)' <=>
             \E s \in Pins : pin'[s] # None /\ pin'[s].of = x /\ p \in PagesBy(s, pin'[s].range)
      BY DEF PinnedPages, PinsOf, PagesBy
    <3>2. p \in PinnedPages(x) <=>
             \E s \in Pins : pin[s] # None /\ pin[s].of = x /\ p \in PagesBy(s, pin[s].range)
      BY PagesPinnedBy
    <3> QED
      BY <3>1, <3>2, <1>2, <1>3
  <2> QED
    BY <2>1
<1>7. ASSUME NEW x \in Vmos
      PROVE  /\ IsFiniteSet(PinnedPages(x)')
             /\ x \notin miscounted' => pinned'[x] = Cardinality(PinnedPages(x)')
  <2>1. /\ IsFiniteSet(PinnedPages(x))
        /\ x \notin miscounted => pinned[x] = Cardinality(PinnedPages(x))
    BY DEF PinInv, PinsAccounted
  <2>2. pinned'[x] = IF x \in Gone(v) THEN 0 ELSE pinned[x]
    BY <1>1 DEF Blank
  <2>3. CASE x \in Gone(v)
    BY <2>2, <2>3, <1>6, FS_EmptySet
  <2>4. CASE x \notin Gone(v)
    BY <2>1, <2>2, <2>4, <1>1, <1>6
  <2> QED
    BY <2>3, <2>4
<1> QED
  BY <1>4, <1>5, <1>7 DEF PinInv, PinsAccounted

LEMMA NextPinInv ==
    ASSUME Inv, PinInv, [Next]_vars
    PROVE  PinInv'
<1>0. made \in Nat /\ made <= made
  BY BoundAssumption DEF Inv, TypeOK
<1>1. ASSUME NEW c \in Vmos, NEW n, NEW r,
             NewPaged(c, r, n) \/ NewContiguous(c, n) \/ NewPhysical(c, n)
      PROVE  PinInv'
  BY <1>1, NewPinInv DEF NewPaged, NewContiguous, NewPhysical, Framed
<1>2. ASSUME NEW c \in Vmos, NEW v \in Vmos, NEW r, NEW range,
             CreateChild(v, c, r, range) \/ CreateSlice(v, c, range)
      PROVE  PinInv'
  BY <1>2, NewPinInv DEF CreateChild, CreateSlice, Framed
<1>3. ASSUME UNCHANGED <<made, kind, base, live, pins>> PROVE PinInv'
  BY <1>0, <1>3, SamePinInv
<1>4. ASSUME NEW v \in Vmos, NEW n, SetLen(v, n) PROVE PinInv'
  BY <1>3, <1>4 DEF SetLen, identity
<1>5. ASSUME NEW v \in Vmos, NEW p, SetCachePolicy(v, p) PROVE PinInv'
  BY <1>3, <1>5 DEF SetCachePolicy, identity
<1>6. ASSUME NEW v \in Vmos, NEW m \in Mappings, Map(m, v) PROVE PinInv'
  BY <1>3, <1>6 DEF Map, identity
<1>7. ASSUME NEW m \in Mappings, Unmap(m) PROVE PinInv'
  BY <1>3, <1>7 DEF Unmap, identity
<1>8. CASE UNCHANGED vars
  BY <1>3, <1>8 DEF vars, pins
<1>9. ASSUME NEW v \in Vmos, NEW range \in Ranges, Unpin(v, range) PROVE PinInv'
  <2>1. \/ /\ miscounted' = miscounted \cup {base[v]}
           /\ UNCHANGED pin
        \/ \E q \in Pins : /\ pin[q] = PinOf(v, range)
                            /\ pin' = [pin EXCEPT ![q] = None]
                            /\ UNCHANGED miscounted
    BY <1>9 DEF Unpin
  <2> QED
    BY <1>9, <2>1, StrayPinInv, UnpinPinInv
<1> QED
  BY <1>1, <1>2, <1>4, <1>5, <1>6, <1>7, <1>8, <1>9, PinPinInv, DropPinInv DEF Next

LEMMA Pinned == Spec => [](Inv /\ PinInv)
<1>1. Inv /\ PinInv /\ [Next]_vars => (Inv /\ PinInv)'
  BY NextInv, NextPinInv
<1> QED
  BY <1>1, InitInv, InitPinInv, PTL DEF Spec

\* However pages are pinned and unpinned, once or more, through a VMO or slices
\* of it, and whatever is resized or dropped between: the count of an object is
\* that of the pages pinned, until a range of it is unpinned that nobody pinned.
THEOREM PinsCounted == Spec => []PinsAccounted
<1>1. Inv /\ PinInv => PinsAccounted
  BY DEF PinInv
<1> QED
  BY <1>1, Pinned, PTL

-----------------------------------------------------------------------------
(* What a change of policy meets *)

\* No pin has frames of b, and no slice.
Unpinned(b) == \A q \in Pins : pin[q] # None => pin[q].of # b
Unsliced(b) == \A v \in live : kind[v] = "slice" => base[v] # b
Careful == \A b \in Vmos : policy'[b] # policy[b] =>
    (b \notin miscounted => Unpinned(b)') /\ Unsliced(b)'

LEMMA SetCachePolicyCareful ==
    ASSUME Inv, PinInv, NEW v \in Vmos, NEW p, SetCachePolicy(v, p)
    PROVE  Careful
<1>1. /\ v \in live /\ ~Slice(v) /\ children[v] = {}
      /\ kind[v] # "physical" => pinned[v] = 0
      /\ policy' = [policy EXCEPT ![v] = p]
      /\ UNCHANGED <<live, kind, base, pin>>
  BY DEF SetCachePolicy, Live, InUse, PinsHold, Slice, identity, pins
<1>2. ASSUME v \notin miscounted, NEW q \in Pins, pin[q] # None PROVE pin[q].of # v
  <2>1. CASE kind[v] = "physical"
    BY <1>2, <2>1 DEF PinInv, PinOK
  <2>2. CASE kind[v] # "physical"
    BY <1>1, <1>2, <2>2, NoPins
  <2> QED
    BY <2>1, <2>2
<1>3. ASSUME NEW x \in live, Slice(x) PROVE base[x] # v
  BY <1>1, <1>3, SharedHasChild
<1>4. (v \notin miscounted => Unpinned(v)') /\ Unsliced(v)'
  BY <1>1, <1>2, <1>3 DEF Unpinned, Unsliced, Slice
<1>5. \A b \in Vmos : policy'[b] # policy[b] => b = v
  BY <1>1 DEF Inv, TypeOK
<1> QED
  BY <1>4, <1>5 DEF Careful

\* New frames have no pins and no slices.
LEMMA FramedCareful ==
    ASSUME Inv, PinInv, NEW c \in Vmos, NEW k, NEW r, NEW n, Framed(c, k, r, n), k # "slice"
    PROVE  Careful
<1>1. New(c, k, r, c)
  BY DEF Framed
<1>2. /\ made \in Nat /\ c = made + 1 /\ live' = live \cup {c}
      /\ kind' = [kind EXCEPT ![c] = k] /\ base' = [base EXCEPT ![c] = c]
      /\ pin' = pin
  BY <1>1, BoundAssumption DEF New, Inv, TypeOK, pins
<1>3. \A b \in Vmos : policy'[b] # policy[b] => b = c
  BY DEF Framed, Inv, TypeOK
<1>4. ASSUME NEW q \in Pins, pin[q] # None PROVE pin[q].of # c
  <2>1. pin[q].of \in Nat /\ pin[q].of <= made
    BY <1>4, PinPages, VmoNumbers DEF PinInv, PinOK
  <2> QED
    BY <2>1, <1>2
<1>5. ASSUME NEW x \in live', kind'[x] = "slice" PROVE base'[x] # c
  <2>1. x # c
    BY <1>2, <1>5 DEF Inv, TypeOK
  <2>2. x \in live /\ x \in Vmos /\ base[x] # made + 1
    BY <2>1, <1>2, BaseBefore
  <2> QED
    BY <2>1, <2>2, <1>2 DEF Inv, TypeOK
<1>6. Unpinned(c)' /\ Unsliced(c)'
  BY <1>2, <1>4, <1>5 DEF Unpinned, Unsliced
<1> QED
  BY <1>3, <1>6 DEF Careful

LEMMA DropCareful ==
    ASSUME Inv, PinInv, NEW v \in Vmos, Drop(v)
    PROVE  Careful
<1>1. /\ v \in live /\ Release(v) /\ live' = live \ {v}
      /\ policy' = Blank(policy, Gone(v), Cached)
      /\ pin' = [q \in Pins |-> IF pin[q] # None /\ pin[q].of \in Gone(v) THEN None ELSE pin[q]]
  BY DEF Drop, Live, Release
<1>2. ASSUME NEW b \in Vmos, policy'[b] # policy[b] PROVE Unpinned(b)' /\ Unsliced(b)'
  <2>1. b \in Gone(v)
    BY <1>1, <1>2 DEF Blank
  <2>2. \A q \in Pins : pin'[q] # None => pin'[q].of # b
    BY <2>1, <1>1
  <2>3. \A x \in live' : base'[x] # b
    BY <2>1, <1>1, KeptFields
  <2> QED
    BY <2>2, <2>3 DEF Unpinned, Unsliced
<1> QED
  BY <1>2 DEF Careful

LEMMA NextCareful ==
    ASSUME Inv, PinInv, [Next]_vars
    PROVE  Careful
<1>1. ASSUME NEW c \in Vmos, NEW n, NEW r,
             NewPaged(c, r, n) \/ NewContiguous(c, n) \/ NewPhysical(c, n)
      PROVE  Careful
  BY <1>1, FramedCareful DEF NewPaged, NewContiguous, NewPhysical
<1>2. ASSUME NEW c \in Vmos, NEW v \in Vmos, NEW r, NEW range, CreateChild(v, c, r, range)
      PROVE  Careful
  BY <1>2, FramedCareful DEF CreateChild
<1>3. ASSUME UNCHANGED policy PROVE Careful
  BY <1>3 DEF Careful
<1>4. ASSUME NEW c \in Vmos, NEW v \in Vmos, NEW range, CreateSlice(v, c, range) PROVE Careful
  BY <1>3, <1>4 DEF CreateSlice
<1>5. ASSUME NEW v \in Vmos, NEW n, SetLen(v, n) PROVE Careful
  BY <1>3, <1>5 DEF SetLen
<1>6. ASSUME NEW v \in Vmos, NEW m \in Mappings, Map(m, v) PROVE Careful
  BY <1>3, <1>6 DEF Map
<1>7. ASSUME NEW m \in Mappings, Unmap(m) PROVE Careful
  BY <1>3, <1>7 DEF Unmap
<1>8. ASSUME NEW q \in Pins, NEW v \in Vmos, NEW range, Pin(q, v, range) PROVE Careful
  BY <1>3, <1>8 DEF Pin
<1>9. ASSUME NEW v \in Vmos, NEW range, Unpin(v, range) PROVE Careful
  BY <1>3, <1>9 DEF Unpin
<1>10. CASE UNCHANGED vars
  BY <1>3, <1>10 DEF vars
<1> QED
  BY <1>1, <1>2, <1>4, <1>5, <1>6, <1>7, <1>8, <1>9, <1>10, SetCachePolicyCareful, DropCareful
  DEF Next

\* The policy of frames changes only when no slice sees them and, unless a range
\* was unpinned that nobody had pinned, nothing of them is pinned: the count of
\* pins and the list of children, which the code asks, tell.
THEOREM PolicyChangesCareful == Spec => PolicyChangesUnused
<1>1. Inv /\ PinInv /\ [Next]_vars =>
        [\A b \in Vmos : policy'[b] # policy[b] =>
          /\ b \notin miscounted => \A q \in Pins : pin'[q] # None => pin'[q].of # b
          /\ \A v \in live' : kind'[v] = "slice" => base'[v] # b]_vars
  BY NextCareful DEF Careful, Unpinned, Unsliced
<1> QED
  BY <1>1, Pinned, PTL DEF Spec, PolicyChangesUnused

-----------------------------------------------------------------------------
(* The earlier chapters.  What is proved above holds of each of them.      *)

\* The parts of VmoChapters are all that Next does.
LEMMA VmoParts ==
    Next <=> \/ MakingPaged \/ MakingContiguous \/ MakingPhysical \/ Copying \/ Slicing
             \/ Resizing \/ SettingPolicy \/ Counting \/ Pinning \/ Dropping
BY DEF Next, MakingPaged, MakingContiguous, MakingPhysical, Copying, Slicing,
       Resizing, SettingPolicy, Counting, Pinning, Dropping

\* The VMOs of ch03-02 do what those of ch04-03 can do.
THEOREM VmosOf_03_02 == Spec_03_02 => Spec
<1>1. Next_03_02 => Next
  BY VmoParts
  DEF Next_03_02, MakingPaged_03_02, MakingContiguous_03_02, MakingPhysical_03_02,
      Copying_03_02, Slicing_03_02, Resizing_03_02, SettingPolicy_03_02,
      Pinning_03_02, Dropping_03_02
<1> QED
  BY <1>1, PTL DEF Spec_03_02, Spec, vars_03_02

\* The VMOs of ch03-04 are those of ch04-03.
THEOREM VmosOf_03_04 == Spec_03_04 <=> Spec
<1>1. Next_03_04 <=> Next
  BY VmoParts
  DEF Next_03_04, MakingPaged_03_04, MakingContiguous_03_04, MakingPhysical_03_04,
      Copying_03_04, Slicing_03_04, Resizing_03_04, SettingPolicy_03_04,
      Counting_03_04, Pinning_03_04, Dropping_03_04
<1> QED
  BY <1>1, PTL DEF Spec_03_04, Spec, vars_03_04

\* The VMOs of ch04-01 are those of ch04-03.
THEOREM VmosOf_04_01 == Spec_04_01 <=> Spec
<1>1. Next_04_01 <=> Next
  BY VmoParts
  DEF Next_04_01, MakingPaged_04_01, MakingContiguous_04_01, MakingPhysical_04_01,
      Copying_04_01, Slicing_04_01, Resizing_04_01, SettingPolicy_04_01,
      Counting_04_01, Pinning_04_01, Dropping_04_01
<1> QED
  BY <1>1, PTL DEF Spec_04_01, Spec, vars_04_01
=============================================================================
