----------------------------- MODULE VmarProofs -----------------------------
(* Theorems about Vmar, for any number of regions, mappings and callers and *)
(* any lengths, zero included: siblings stay apart, dead regions leave their *)
(* parents, no live region is forgotten, callers do not wait in a ring, and  *)
(* the page table is that of the mappings.                                   *)
EXTENDS VmarChapters, SequenceTheorems, TLAPS

\* A call that goes down the tree has a region it has come to.
WalkOK == \A a \in Callers : call[a].pc = "walk" => call[a].frames # <<>>

\* A place is on the list of one region, the one it belongs to; a region that
\* does not exist has nothing.
ListsOK ==
    /\ parent[Root] = None
    /\ \A c \in Regions : parent[c] # None => Made(parent[c])
    /\ \A r \in Regions : \A c \in children[r] : parent[c] = r
    /\ \A r, q \in Regions : \A m \in mappings[r] : m \in mappings[q] => r = q
    /\ \A r \in Regions : mappings[r] # {} => Made(r)

Inv == TypeOK /\ WalkOK /\ ListsOK /\ SiblingsDisjoint

-----------------------------------------------------------------------------
(* Stacks of frames *)

FrameStack == Seq(Frames)

LEMMA TopIsFrame ==
    ASSUME NEW fs \in Seq(Frames), fs # <<>>
    PROVE  /\ Len(fs) \in DOMAIN fs
           /\ Len(fs) \in Nat \ {0}
           /\ fs[Len(fs)] \in Frames
  OBVIOUS

LEMMA FrameFields ==
    ASSUME NEW f \in Frames
    PROVE  /\ f.on \in Regions
           /\ f.todo \subseteq Regions
           /\ \A c : [f EXCEPT !.todo = @ \ {c}] \in Frames
<1>1. f.on \in Regions /\ f.todo \subseteq Regions
  BY DEF Frames
<1>2. ASSUME NEW c PROVE [f EXCEPT !.todo = @ \ {c}] \in Frames
  BY DEF Frames
<1> QED
  BY <1>1, <1>2

\* The stack after one region was taken from the top frame and its own frame
\* was pushed.
Pushed(fs, c, f) == Append([fs EXCEPT ![Len(fs)].todo = @ \ {c}], f)
LEMMA PushedStack ==
    ASSUME NEW fs \in Seq(Frames), fs # <<>>, NEW c, NEW f \in Frames
    PROVE  /\ Pushed(fs, c, f) \in Seq(Frames)
           /\ Pushed(fs, c, f) # <<>>
           /\ DOMAIN Pushed(fs, c, f) = 1 .. (Len(fs) + 1)
           /\ Len(Pushed(fs, c, f)) = Len(fs) + 1
           /\ Pushed(fs, c, f)[Len(fs) + 1] = f
           /\ Pushed(fs, c, f)[Len(fs)].on = fs[Len(fs)].on
           /\ Pushed(fs, c, f)[Len(fs)].kind = fs[Len(fs)].kind
           /\ Pushed(fs, c, f)[Len(fs)].todo = fs[Len(fs)].todo \ {c}
           /\ \A i \in 1 .. Len(fs) - 1 : Pushed(fs, c, f)[i] = fs[i]
<1> DEFINE g == [fs[Len(fs)] EXCEPT !.todo = @ \ {c}]
<1>1. g \in Frames
  BY TopIsFrame, FrameFields
<1>2. Pushed(fs, c, f) = Append([fs EXCEPT ![Len(fs)] = g], f)
  BY DEF Pushed
<1> HIDE DEF g
<1> DEFINE gs == [fs EXCEPT ![Len(fs)] = g]
<1>3. gs \in Seq(Frames) /\ Len(gs) = Len(fs) /\ gs[Len(fs)] = g
        /\ \A i \in 1 .. Len(fs) - 1 : gs[i] = fs[i]
  BY <1>1, TopIsFrame
<1> HIDE DEF gs
<1>4. /\ Append(gs, f) \in Seq(Frames)
      /\ Append(gs, f) # <<>>
      /\ DOMAIN Append(gs, f) = 1 .. (Len(gs) + 1)
      /\ Len(Append(gs, f)) = Len(gs) + 1
      /\ Append(gs, f)[Len(gs) + 1] = f
      /\ \A i \in 1 .. Len(gs) : Append(gs, f)[i] = gs[i]
  BY <1>3
<1>5. Pushed(fs, c, f) = Append(gs, f)
  BY <1>2 DEF gs
<1>6. Len(fs) \in Nat \ {0}
  BY TopIsFrame
<1>7. Pushed(fs, c, f)[Len(fs)] = g
  BY <1>3, <1>4, <1>5, <1>6
<1>8. \A i \in 1 .. Len(fs) - 1 : Pushed(fs, c, f)[i] = fs[i]
  BY <1>3, <1>4, <1>5, <1>6
<1>9. g.on = fs[Len(fs)].on /\ g.kind = fs[Len(fs)].kind
        /\ g.todo = fs[Len(fs)].todo \ {c}
  BY TopIsFrame DEF g, Frames
<1> QED
  BY <1>3, <1>4, <1>5, <1>7, <1>8, <1>9

LEMMA PoppedStack ==
    ASSUME NEW fs \in Seq(Frames), Len(fs) > 1
    PROVE  LET gs == SubSeq(fs, 1, Len(fs) - 1)
           IN  /\ gs \in Seq(Frames)
               /\ gs # <<>>
               /\ DOMAIN gs = 1 .. (Len(fs) - 1)
               /\ Len(gs) = Len(fs) - 1
               /\ \A i \in 1 .. Len(fs) - 1 : gs[i] = fs[i]
<1> DEFINE n == Len(fs) - 1
           gs == SubSeq(fs, 1, n)
<1>1. Len(fs) \in Nat /\ n \in Nat /\ 1 <= n + 1 /\ n <= Len(fs) /\ 1 \in Int
  OBVIOUS
<1>2. /\ gs \in Seq(Frames)
      /\ Len(gs) = IF 1 <= n THEN n - 1 + 1 ELSE 0
      /\ \A i \in 1 .. n - 1 + 1 : gs[i] = fs[1 + i - 1]
  BY <1>1, SubSeqProperties
<1> HIDE DEF gs
<1>3. Len(gs) = n
  BY <1>1, <1>2
<1>4. gs # <<>> /\ DOMAIN gs = 1 .. n
  BY <1>2, <1>3
<1>5. ASSUME NEW i \in 1 .. n PROVE gs[i] = fs[i]
  BY <1>1, <1>2
<1> QED
  BY <1>2, <1>3, <1>4, <1>5 DEF gs

-----------------------------------------------------------------------------
(* The lists and the places on them *)

LEMMA RootIsPlace == Root \in Regions /\ Root \in Places /\ Regions \subseteq Places
                       /\ Mappings \subseteq Places
  BY RootAssumption DEF Places

LEMMA InitInv == Init => Inv
<1> SUFFICES ASSUME Init PROVE Inv
  OBVIOUS
<1> USE DEF Init
<1>1. TypeOK
  <2>1. \A x \in Places : End(x) <= Size
    BY RootIsPlace, SizeAssumption DEF End
  <2>2. addr \in [Places -> Nat] /\ len \in [Places -> Nat]
    BY SizeAssumption
  <2>3. Idle \in [pc : {"idle", "walk", "detach"}, frames : Seq(Frames),
                  on : Regions \cup {None}]
    BY DEF Idle
  <2> QED
    BY <2>1, <2>2, <2>3, RootAssumption DEF TypeOK
<1>2. WalkOK
  BY DEF WalkOK, Idle
<1>3. ListsOK
  BY RootAssumption DEF ListsOK
<1>4. SiblingsDisjoint
  BY DEF SiblingsDisjoint, Members
<1> QED
  BY <1>1, <1>2, <1>3, <1>4 DEF Inv

\* Siblings stay apart when lists only shrink and nothing on them moves.
LEMMA ApartStays ==
    ASSUME TypeOK, SiblingsDisjoint,
           \A r \in Regions : Members(r)' \subseteq Members(r),
           \A r \in Regions : \A x \in Members(r)' :
               /\ addr'[x] = addr[x] /\ len'[x] = len[x]
               /\ addr'[r] = addr[r] /\ len'[r] = len[r]
    PROVE  SiblingsDisjoint'
<1> SUFFICES ASSUME NEW r \in Regions, NEW x \in Members(r)'
             PROVE  /\ Within(x, addr[r], End(r))'
                    /\ \A y \in Members(r)' \ {x} : ~Overlap(x, addr[y], End(y))'
  BY DEF SiblingsDisjoint
<1>1. Within(x, addr[r], End(r))
  BY DEF SiblingsDisjoint
<1>2. Within(x, addr[r], End(r))'
  BY <1>1 DEF Within, End
<1>3. ASSUME NEW y \in Members(r)' \ {x} PROVE ~Overlap(x, addr[y], End(y))'
  <2>1. ~Overlap(x, addr[y], End(y))
    BY DEF SiblingsDisjoint
  <2> QED
    BY <2>1 DEF Overlap, End
<1> QED
  BY <1>2, <1>3

\* Siblings stay apart when a place that was on no list, and has nothing in
\* it, comes to where test_map found room.
LEMMA ApartGrows ==
    ASSUME Inv, NEW r \in Regions, NEW x \in Places, NEW begin \in Nat, NEW n \in Nat,
           Determined(r, begin, n),
           r # x, x \in Regions => Members(x)' = {},
           \A q \in Regions : x \notin Members(q),
           \A q \in Regions : Members(q)' \subseteq Members(q) \cup {x},
           \A q \in Regions \ {r} : Members(q)' \subseteq Members(q),
           addr' = [addr EXCEPT ![x] = begin],
           len' = [len EXCEPT ![x] = n]
    PROVE  SiblingsDisjoint'
<1>t. addr \in [Places -> Nat] /\ len \in [Places -> Nat] /\ Regions \subseteq Places
  BY RootIsPlace DEF Inv, TypeOK
<1>m. \A q \in Regions : Members(q) \subseteq Places
  BY RootIsPlace DEF Inv, TypeOK, Members
<1>1. addr'[x] = begin /\ len'[x] = n /\ End(x)' = begin + n
  BY <1>t DEF End
<1>2. \A y \in Places \ {x} : addr'[y] = addr[y] /\ len'[y] = len[y] /\ End(y)' = End(y)
  BY <1>t DEF End
<1>3. \A y \in Places : End(y) \in Nat /\ End(y) = addr[y] + len[y]
  BY <1>t DEF End
<1> SUFFICES ASSUME NEW q \in Regions, NEW z \in Members(q)'
             PROVE  /\ Within(z, addr[q], End(q))'
                    /\ \A y \in Members(q)' \ {z} : ~Overlap(z, addr[y], End(y))'
  BY DEF SiblingsDisjoint
<1>4. q # x
  OBVIOUS
<1>5. \A y \in Members(q) : y # x /\ y \in Places
  BY <1>m
<1>6. CASE z # x
  <2>1. z \in Members(q)
    BY <1>6
  <2>2. Within(z, addr[q], End(q))'
    <3>1. Within(z, addr[q], End(q))
      BY <2>1 DEF Inv, SiblingsDisjoint
    <3> QED
      BY <3>1, <2>1, <1>2, <1>4, <1>5, <1>t DEF Within
  <2>3. ASSUME NEW y \in Members(q)' \ {z} PROVE ~Overlap(z, addr[y], End(y))'
    <3>1. CASE y # x
      <4>1. ~Overlap(z, addr[y], End(y))
        BY <2>1, <3>1 DEF Inv, SiblingsDisjoint
      <4> QED
        BY <4>1, <2>1, <3>1, <1>2, <1>5 DEF Overlap
    <3>2. CASE y = x
      <4>1. q = r
        BY <3>2
      <4>2. ~Overlap(z, begin, begin + n)
        BY <2>1, <4>1 DEF Determined, TestMap
      <4> QED
        BY <4>2, <3>2, <2>1, <1>1, <1>2, <1>5 DEF Overlap
    <3> QED
      BY <3>1, <3>2
  <2> QED
    BY <2>2, <2>3
<1>7. CASE z = x
  <2>1. q = r
    BY <1>7
  <2>2. Within(z, addr[q], End(q))'
    <3>1. begin >= addr[r] /\ begin + n <= End(r)
      BY DEF Determined, TestMap
    <3> QED
      BY <3>1, <2>1, <1>7, <1>1, <1>2, <1>4, <1>t DEF Within
  <2>3. ASSUME NEW y \in Members(q)' \ {z} PROVE ~Overlap(z, addr[y], End(y))'
    <3>1. y \in Members(r) /\ y # x /\ y \in Places
      BY <1>7, <2>1, <1>5
    <3>2. ~Overlap(y, begin, begin + n)
      BY <3>1 DEF Determined, TestMap
    <3>3. ~(addr[y] >= begin + n \/ End(y) <= begin) => FALSE
      BY <3>2 DEF Overlap
    <3>4. addr[y] \in Nat /\ End(y) \in Nat
      BY <3>1, <1>t, <1>3
    <3>5. ~(addr[z] >= End(y) \/ End(z) <= addr[y])' => FALSE
      BY <3>1, <3>3, <3>4, <1>7, <1>1, <1>2
    <3> QED
      BY <3>5 DEF Overlap
  <2> QED
    BY <2>2, <2>3
<1> QED
  BY <1>6, <1>7

-----------------------------------------------------------------------------
(* The operations on one region *)

\* A region that does not exist is on no list and has nothing in it.
LEMMA UnmadeIsNowhere ==
    ASSUME Inv, NEW c \in Regions, ~Made(c)
    PROVE  /\ Members(c) = {}
           /\ \A q \in Regions : c \notin Members(q)
<1>1. children[c] = {}
  <2>1. ASSUME NEW x \in children[c] PROVE FALSE
    <3>1. x \in Regions /\ parent[x] = c
      BY DEF Inv, TypeOK, ListsOK
    <3> QED
      BY <3>1, NoneAssumption DEF Inv, ListsOK
  <2> QED
    BY <2>1
<1>2. mappings[c] = {}
  BY DEF Inv, ListsOK
<1>3. \A q \in Regions : c \notin children[q]
  BY NoneAssumption DEF Inv, ListsOK, Made
<1>4. \A q \in Regions : c \notin mappings[q]
  BY PoolAssumption DEF Inv, TypeOK
<1> QED
  BY <1>1, <1>2, <1>3, <1>4 DEF Members

\* Where determine_offset finds room is inside the root.
LEMMA RoomIsInside ==
    ASSUME TypeOK, NEW r \in Regions, NEW begin \in Nat, NEW n \in Nat,
           Determined(r, begin, n)
    PROVE  begin + n <= Size
<1>1. begin + n <= End(r)
  BY DEF Determined, TestMap
<1>2. End(r) <= Size /\ End(r) \in Nat
  BY RootIsPlace DEF TypeOK, End
<1> QED
  BY <1>1, <1>2, SizeAssumption

\* A place that comes into being keeps the addresses well formed.
LEMMA PlacesStay ==
    ASSUME TypeOK, NEW x \in Places, NEW begin \in Nat, NEW n \in Nat, begin + n <= Size,
           addr' = [addr EXCEPT ![x] = begin],
           len' = [len EXCEPT ![x] = n]
    PROVE  /\ addr' \in [Places -> Nat] /\ len' \in [Places -> Nat]
           /\ \A y \in Places : End(y)' <= Size
<1>1. addr' \in [Places -> Nat] /\ len' \in [Places -> Nat]
  BY DEF TypeOK
<1>2. ASSUME NEW y \in Places PROVE End(y)' <= Size
  <2>1. End(y) <= Size
    BY DEF TypeOK
  <2>2. CASE y = x
    BY <2>2 DEF TypeOK, End
  <2>3. CASE y # x
    BY <2>1, <2>3 DEF TypeOK, End
  <2> QED
    BY <2>2, <2>3
<1> QED
  BY <1>1, <1>2

LEMMA AllocateInv ==
    ASSUME Inv, NEW a \in Callers, NEW r \in Regions, NEW c \in Regions,
           NEW begin \in Nat, NEW n \in Nat, Allocate(a, r, c, begin, n)
    PROVE  Inv'
<1> USE DEF Inv, Allocate
<1>1. TypeOK'
  <2>1. begin + n <= Size
    BY RoomIsInside
  <2>2. addr' \in [Places -> Nat] /\ len' \in [Places -> Nat]
          /\ \A y \in Places : End(y)' <= Size
    BY <2>1, PlacesStay, RootIsPlace
  <2>3. parent' \in [Regions -> Regions \cup {None}] /\ dead' \in [Regions -> BOOLEAN]
    BY DEF TypeOK
  <2>4. children' \in [Regions -> SUBSET Regions]
    BY DEF TypeOK
  <2> QED
    BY <2>2, <2>3, <2>4 DEF TypeOK
<1>2. WalkOK'
  BY DEF WalkOK
<1>3. ListsOK'
  <2>1. c # Root /\ c # r /\ parent[c] = None
    BY DEF Made
  <2>2. parent' = [parent EXCEPT ![c] = r] /\ parent'[c] = r
          /\ \A x \in Regions \ {c} : parent'[x] = parent[x]
    BY DEF TypeOK
  <2>3. \A x \in Regions : Made(x) => Made(x)'
    BY <2>2, NoneAssumption DEF Made
  <2>4. \A q \in Regions : children'[q] \subseteq children[q] \cup {c}
    BY DEF TypeOK
  <2>4b. \A q \in Regions \ {r} : children'[q] = children[q]
    BY DEF TypeOK
  <2>5. \A q \in Regions : c \notin children[q]
    BY UnmadeIsNowhere DEF Members
  <2>6. \A q \in Regions : \A x \in children'[q] : parent'[x] = q
    BY <2>2, <2>4, <2>4b, <2>5 DEF ListsOK, TypeOK
  <2>7. \A x \in Regions : parent'[x] # None => Made(parent[x])'
    BY <2>2, <2>3 DEF ListsOK, TypeOK
  <2>8. parent'[Root] = None
    BY <2>1, <2>2, RootAssumption DEF ListsOK
  <2>9. \A q \in Regions : mappings'[q] # {} => Made(q)'
    BY <2>3 DEF ListsOK
  <2> QED
    BY <2>6, <2>7, <2>8, <2>9 DEF ListsOK
<1>4. SiblingsDisjoint'
  <2>1. r # c /\ c \in Places
    BY RootIsPlace
  <2>2. Members(c)' = {}
    <3>1. children'[c] = children[c] /\ mappings'[c] = mappings[c]
      BY <2>1 DEF TypeOK
    <3> QED
      BY <3>1, UnmadeIsNowhere DEF Members
  <2>3. \A q \in Regions : c \notin Members(q)
    BY UnmadeIsNowhere
  <2>4. \A q \in Regions : Members(q)' \subseteq Members(q) \cup {c}
    BY DEF TypeOK, Members
  <2>5. \A q \in Regions \ {r} : Members(q)' \subseteq Members(q)
    BY DEF TypeOK, Members
  <2>6. Determined(r, begin, n) /\ addr' = [addr EXCEPT ![c] = begin]
          /\ len' = [len EXCEPT ![c] = n]
    OBVIOUS
  <2> QED
    BY <2>1, <2>2, <2>3, <2>4, <2>5, <2>6, ApartGrows
<1> QED
  BY <1>1, <1>2, <1>3, <1>4

LEMMA MapInv ==
    ASSUME Inv, NEW a \in Callers, NEW r \in Regions, NEW m \in Mappings,
           NEW begin \in Nat, NEW n \in Nat, NEW limits \in Flags, NEW flags \in Flags,
           Map(a, r, m, begin, n, limits, flags)
    PROVE  Inv'
<1> USE DEF Inv, Map
<1>u. \A q \in Regions : m \notin mappings[q]
  BY DEF Mapped
<1>1. TypeOK'
  <2>1. begin + n <= Size
    BY RoomIsInside
  <2>2. addr' \in [Places -> Nat] /\ len' \in [Places -> Nat]
          /\ \A y \in Places : End(y)' <= Size
    BY <2>1, PlacesStay, RootIsPlace
  <2>3. limit' \in [Mappings -> Flags \cup {{}}]
    BY DEF TypeOK
  <2>4. mappings' \in [Regions -> SUBSET Mappings]
    BY DEF TypeOK
  <2>5. table' \in [Page -> Entry \cup {None}]
    <3>1. [by |-> m, flags |-> flags] \in Entry
      BY DEF Entry
    <3> QED
      BY <3>1 DEF TypeOK
  <2> QED
    BY <2>2, <2>3, <2>4, <2>5 DEF TypeOK
<1>2. WalkOK'
  BY DEF WalkOK
<1>3. ListsOK'
  <2>1. \A q \in Regions : mappings'[q] \subseteq mappings[q] \cup {m}
    BY DEF TypeOK
  <2>2. \A q \in Regions \ {r} : mappings'[q] = mappings[q]
    BY DEF TypeOK
  <2>3. \A q, s \in Regions : \A x \in mappings'[q] : x \in mappings'[s] => q = s
    <3> SUFFICES ASSUME NEW q \in Regions, NEW s \in Regions, NEW x \in mappings'[q],
                        x \in mappings'[s], q # s
                 PROVE  FALSE
      OBVIOUS
    <3>1. CASE q = r
      <4>1. x \in mappings[s]
        BY <3>1, <2>2
      <4>2. x \in mappings[q]
        BY <4>1, <1>u, <2>1
      <4> QED
        BY <4>1, <4>2 DEF ListsOK
    <3>2. CASE q # r
      <4>1. x \in mappings[q]
        BY <3>2, <2>2
      <4>2. x \in mappings[s]
        BY <4>1, <1>u, <2>1
      <4> QED
        BY <4>1, <4>2 DEF ListsOK
    <3> QED
      BY <3>1, <3>2
  <2>4. \A q \in Regions : Made(q)' <=> Made(q)
    BY DEF Made
  <2>5. \A q \in Regions : mappings'[q] # {} => Made(q)'
    BY <2>2, <2>4 DEF ListsOK
  <2>6. \A c \in Regions : parent'[c] # None => Made(parent[c])'
    BY <2>4 DEF ListsOK, TypeOK
  <2> QED
    BY <2>3, <2>5, <2>6 DEF ListsOK
<1>4. SiblingsDisjoint'
  <2>1. r # m /\ m \in Places /\ m \notin Regions
    BY RootIsPlace, PoolAssumption
  <2>2. \A q \in Regions : m \notin Members(q)
    BY <1>u, <2>1 DEF Members, TypeOK
  <2>3. \A q \in Regions : Members(q)' \subseteq Members(q) \cup {m}
    BY DEF TypeOK, Members
  <2>4. \A q \in Regions \ {r} : Members(q)' \subseteq Members(q)
    BY DEF TypeOK, Members
  <2>5. Determined(r, begin, n) /\ addr' = [addr EXCEPT ![m] = begin]
          /\ len' = [len EXCEPT ![m] = n]
    OBVIOUS
  <2> QED
    BY <2>1, <2>2, <2>3, <2>4, <2>5, ApartGrows
<1> QED
  BY <1>1, <1>2, <1>3, <1>4

\* Nothing of the shape changes, and no list.
LEMMA ListsSame ==
    ASSUME Inv, UNCHANGED <<parent, addr, len, children, mappings>>
    PROVE  ListsOK' /\ SiblingsDisjoint'
  BY DEF Inv, ListsOK, Made, SiblingsDisjoint, Members, Within, Overlap, End

LEMMA ProtectInv ==
    ASSUME Inv, NEW a \in Callers, NEW r \in Regions, NEW begin \in Nat, NEW n \in Nat,
           NEW flags \in Flags, Protect(a, r, begin, n, flags)
    PROVE  Inv'
<1> USE DEF Inv, Protect, shape
<1>1. TypeOK'
  <2>1. ASSUME NEW e \in Entry PROVE [e EXCEPT !.flags = flags] \in Entry
    BY DEF Entry
  <2>2. table' \in [Page -> Entry \cup {None}]
    BY <2>1 DEF TypeOK
  <2>3. \A y \in Places : End(y)' <= Size
    BY DEF TypeOK, End
  <2> QED
    BY <2>2, <2>3 DEF TypeOK
<1>2. WalkOK'
  BY DEF WalkOK
<1> QED
  BY <1>1, <1>2, ListsSame

-----------------------------------------------------------------------------
(* The operations that go down the tree *)

CallRecord == [pc : {"idle", "walk", "detach"}, frames : Seq(Frames),
               on : Regions \cup {None}]

LEMMA CallFields ==
    ASSUME NEW c \in CallRecord, NEW gs \in Seq(Frames)
    PROVE  /\ c.frames \in Seq(Frames)
           /\ c.pc \in {"idle", "walk", "detach"}
           /\ c.on \in Regions \cup {None}
           /\ [c EXCEPT !.frames = gs] \in CallRecord
  BY DEF CallRecord

LEMMA CallTypes ==
    ASSUME TypeOK, NEW a \in Callers
    PROVE  call[a] \in CallRecord /\ call[a].frames \in Seq(Frames)
<1>1. call \in [Callers -> CallRecord]
  BY DEF TypeOK, CallRecord
<1>2. call[a] \in CallRecord
  BY <1>1
<1>3. <<>> \in Seq(Frames)
  OBVIOUS
<1> QED
  BY <1>2, <1>3, CallFields

\* Lists that only shrink stay well formed.
LEMMA ListsShrink ==
    ASSUME Inv, UNCHANGED parent,
           \A r \in Regions : children'[r] \subseteq children[r],
           \A r \in Regions : mappings'[r] \subseteq mappings[r]
    PROVE  ListsOK'
<1>1. \A r \in Regions : Made(r)' <=> Made(r)
  BY DEF Made
<1>2. \A r \in Regions : mappings'[r] # {} => Made(r)'
  BY <1>1 DEF Inv, ListsOK
<1>3. \A c \in Regions : parent'[c] # None => Made(parent[c])'
  BY <1>1 DEF Inv, ListsOK, TypeOK, Made
<1>4. \A r, q \in Regions : \A m \in mappings'[r] : m \in mappings'[q] => r = q
  BY DEF Inv, ListsOK
<1>5. \A r \in Regions : \A c \in children'[r] : parent'[c] = r
  BY DEF Inv, ListsOK
<1>6. parent'[Root] = None
  BY DEF Inv, ListsOK
<1> QED
  BY <1>2, <1>3, <1>4, <1>5, <1>6 DEF ListsOK

\* What is dropped loses its pages and its place; nothing else does.
LEMMA PlacesGo ==
    ASSUME TypeOK, NEW ms \in SUBSET Mappings, NEW xs \in SUBSET Places,
           table' = Unmapped(ms),
           limit' = Gone(limit, ms, {}),
           addr' = Gone(addr, xs, 0),
           len' = Gone(len, xs, 0)
    PROVE  /\ table' \in [Page -> Entry \cup {None}]
           /\ limit' \in [Mappings -> Flags \cup {{}}]
           /\ addr' \in [Places -> Nat] /\ len' \in [Places -> Nat]
           /\ \A x \in Places : End(x)' <= Size
           /\ \A x \in Places \ xs : addr'[x] = addr[x] /\ len'[x] = len[x]
<1>1. table' \in [Page -> Entry \cup {None}]
  BY DEF TypeOK, Unmapped
<1>2. limit' \in [Mappings -> Flags \cup {{}}]
  BY DEF TypeOK, Gone
<1>3. addr' \in [Places -> Nat] /\ len' \in [Places -> Nat]
  BY DEF TypeOK, Gone
<1>4. \A x \in Places \ xs : addr'[x] = addr[x] /\ len'[x] = len[x]
  BY DEF TypeOK, Gone
<1>5. \A x \in xs : addr'[x] = 0 /\ len'[x] = 0
  BY DEF TypeOK, Gone
<1>6. ASSUME NEW x \in Places PROVE End(x)' <= Size
  <2>1. CASE x \in xs
    BY <2>1, <1>5, SizeAssumption DEF End
  <2>2. CASE x \notin xs
    BY <2>2, <1>4 DEF TypeOK, End
  <2> QED
    BY <2>1, <2>2
<1> QED
  BY <1>1, <1>2, <1>3, <1>4, <1>6

\* Mappings that leave their list and are dropped do not disturb the others.
LEMMA DropKeepsApart ==
    ASSUME Inv, NEW r \in Regions, NEW ms \in SUBSET mappings[r], Drop(ms),
           mappings' = [mappings EXCEPT ![r] = @ \ ms],
           \A q \in Regions : children'[q] \subseteq children[q]
    PROVE  SiblingsDisjoint'
<1>1. ms \in SUBSET Mappings /\ ms \in SUBSET Places
  BY RootIsPlace DEF Inv, TypeOK
<1>2. \A x \in Places \ ms : addr'[x] = addr[x] /\ len'[x] = len[x]
  BY <1>1, PlacesGo DEF Inv, Drop
<1>3. \A q \in Regions : mappings'[q] \subseteq mappings[q] \ ms
  <2> SUFFICES ASSUME NEW q \in Regions, NEW m \in mappings'[q]
               PROVE  m \in mappings[q] /\ m \notin ms
    OBVIOUS
  <2>1. CASE q = r
    BY <2>1 DEF Inv, TypeOK
  <2>2. CASE q # r
    <3>1. m \in mappings[q]
      BY <2>2 DEF Inv, TypeOK
    <3> QED
      BY <3>1, <2>2 DEF Inv, ListsOK
  <2> QED
    BY <2>1, <2>2
<1>4. ASSUME NEW q \in Regions
      PROVE  Members(q)' \subseteq Members(q) /\ Members(q)' \subseteq Places \ ms
  <2>1. children[q] \subseteq Places \ ms /\ mappings[q] \ ms \subseteq Places \ ms
    BY <1>1, RootIsPlace, PoolAssumption DEF Inv, TypeOK
  <2> QED
    BY <2>1, <1>3 DEF Members
<1>5. \A q \in Regions : q \in Places \ ms
  BY <1>1, RootIsPlace, PoolAssumption
<1> QED
  BY <1>2, <1>4, <1>5, ApartStays DEF Inv

\* The start of an operation leaves a call with one frame.
LEMMA GoDownCall ==
    ASSUME Inv, NEW a \in Callers, NEW kind \in {"unmap", "clear", "destroy"},
           NEW r \in Regions, NEW todo \in SUBSET children[r], GoDown(a, kind, r, todo)
    PROVE  /\ call' \in [Callers -> CallRecord]
           /\ lock' \in [Regions -> Callers \cup {None}]
           /\ children' \in [Regions -> SUBSET Regions]
           /\ \A q \in Regions : children'[q] \subseteq children[q]
           /\ WalkOK'
<1> USE DEF GoDown
<1>1. todo \in SUBSET Regions
  BY DEF Inv, TypeOK
<1>2. Frame(kind, r, todo) \in Frames
  BY <1>1 DEF Frame, Frames
<1>3. <<Frame(kind, r, todo)>> \in Seq(Frames) /\ <<Frame(kind, r, todo)>> # <<>>
  BY <1>2
<1>4. [pc |-> "walk", frames |-> <<Frame(kind, r, todo)>>, on |-> None] \in CallRecord
  BY <1>3 DEF CallRecord
<1>5. call' \in [Callers -> CallRecord]
  BY <1>4 DEF Inv, TypeOK, CallRecord
<1>6. lock' \in [Regions -> Callers \cup {None}]
  BY DEF Inv, TypeOK
<1>7. children' \in [Regions -> SUBSET Regions]
  BY DEF Inv, TypeOK
<1>8. \A q \in Regions : children'[q] \subseteq children[q]
  BY DEF Inv, TypeOK
<1>9. WalkOK'
  BY <1>3 DEF Inv, TypeOK, WalkOK
<1> QED
  BY <1>5, <1>6, <1>7, <1>8, <1>9

LEMMA UnmapInv ==
    ASSUME Inv, NEW a \in Callers, NEW r \in Regions, NEW begin \in Nat, NEW n \in Nat,
           Unmap(a, r, begin, n)
    PROVE  Inv'
<1> DEFINE within == {m \in mappings[r] : Within(m, begin, begin + n)}
           todo == {c \in children[r] : Within(c, begin, begin + n)}
<1>1. /\ within \in SUBSET mappings[r]
      /\ todo \in SUBSET children[r]
      /\ GoDown(a, "unmap", r, todo)
      /\ mappings' = [mappings EXCEPT ![r] = @ \ within]
      /\ Drop(within)
      /\ UNCHANGED <<parent, dead, lost>>
  BY DEF Unmap
<1> HIDE DEF within, todo
<1>2. /\ call' \in [Callers -> CallRecord]
      /\ lock' \in [Regions -> Callers \cup {None}]
      /\ children' \in [Regions -> SUBSET Regions]
      /\ \A q \in Regions : children'[q] \subseteq children[q]
      /\ WalkOK'
  BY <1>1, GoDownCall
<1>3. within \in SUBSET Mappings /\ within \in SUBSET Places
  BY <1>1, RootIsPlace DEF Inv, TypeOK
<1>4. mappings' \in [Regions -> SUBSET Mappings]
        /\ \A q \in Regions : mappings'[q] \subseteq mappings[q]
  BY <1>1 DEF Inv, TypeOK
<1>5. TypeOK'
  BY <1>1, <1>2, <1>3, <1>4, PlacesGo DEF Inv, TypeOK, Drop, CallRecord
<1>6. ListsOK'
  BY <1>1, <1>2, <1>4, ListsShrink
<1>7. SiblingsDisjoint'
  BY <1>1, <1>2, DropKeepsApart
<1> QED
  BY <1>2, <1>5, <1>6, <1>7 DEF Inv

LEMMA ClearDestroyInv ==
    ASSUME Inv, NEW a \in Callers, NEW r \in Regions, Clear(a, r) \/ Destroy(a, r)
    PROVE  Inv'
<1>1. PICK kind \in {"unmap", "clear", "destroy"} : GoDown(a, kind, r, children[r])
  BY DEF Clear, Destroy
<1>2. UNCHANGED <<parent, addr, len, limit, dead, mappings, table, lost>>
  BY DEF Clear, Destroy, shape
<1>3. /\ call' \in [Callers -> CallRecord]
      /\ lock' \in [Regions -> Callers \cup {None}]
      /\ children' \in [Regions -> SUBSET Regions]
      /\ \A q \in Regions : children'[q] \subseteq children[q]
      /\ WalkOK'
  BY <1>1, GoDownCall
<1>4. \A x \in Places : End(x)' <= Size
  BY <1>2 DEF Inv, TypeOK, End
<1>5. TypeOK'
  BY <1>2, <1>3, <1>4 DEF Inv, TypeOK, CallRecord
<1>6. ListsOK'
  BY <1>2, <1>3, ListsShrink
<1>7. SiblingsDisjoint'
  BY <1>2, <1>3, ApartStays DEF Inv, Members
<1> QED
  BY <1>3, <1>5, <1>6, <1>7 DEF Inv

\* The frame a walk has come to
LEMMA TopOf ==
    ASSUME Inv, NEW a \in Callers, call[a].pc = "walk"
    PROVE  LET fs == call[a].frames
           IN  /\ fs \in Seq(Frames) /\ fs # <<>>
               /\ Len(fs) \in Nat \ {0} /\ Len(fs) \in DOMAIN fs
               /\ fs[Len(fs)] \in Frames
               /\ fs[Len(fs)].on \in Regions
               /\ fs[Len(fs)].todo \subseteq Regions
<1>1. call[a].frames \in Seq(Frames) /\ call[a].frames # <<>>
  BY CallTypes DEF Inv, WalkOK
<1> QED
  BY <1>1, TopIsFrame, FrameFields

\* Where a walk goes down: the region it takes next, and its stack then
LEMMA DescendTo ==
    ASSUME Inv, NEW a \in Callers, Descend(a)
    PROVE  \E c \in Regions :
        /\ c \in call[a].frames[Len(call[a].frames)].todo
        /\ Free(c) /\ Alive(c)
        /\ lock' = [lock EXCEPT ![c] = a]
        /\ children' = [children EXCEPT ![c] = {}]
        /\ Frame("destroy", c, children[c]) \in Frames
        /\ Pushed(call[a].frames, c, Frame("destroy", c, children[c])) \in Seq(Frames)
        /\ Pushed(call[a].frames, c, Frame("destroy", c, children[c])) # <<>>
        /\ call' = [call EXCEPT ![a].frames =
                        Pushed(call[a].frames, c, Frame("destroy", c, children[c]))]
<1>1. call[a].frames \in Seq(Frames) /\ call[a].frames # <<>>
        /\ call[a].frames[Len(call[a].frames)].todo \subseteq Regions
  BY TopOf DEF Descend
<1>2. PICK c \in call[a].frames[Len(call[a].frames)].todo :
        /\ Free(c) /\ Alive(c)
        /\ lock' = [lock EXCEPT ![c] = a]
        /\ children' = [children EXCEPT ![c] = {}]
        /\ call' = [call EXCEPT ![a].frames =
                        Pushed(call[a].frames, c, Frame("destroy", c, children[c]))]
  BY DEF Descend, Pushed
<1>3. c \in Regions /\ children[c] \subseteq Regions
  BY <1>1, <1>2 DEF Inv, TypeOK
<1>4. Frame("destroy", c, children[c]) \in Frames
  BY <1>3 DEF Frame, Frames
<1>5. PICK fs \in Seq(Frames), f \in Frames :
        fs = call[a].frames /\ fs # <<>> /\ f = Frame("destroy", c, children[c])
  BY <1>1, <1>4
<1>6. Pushed(fs, c, f) \in Seq(Frames) /\ Pushed(fs, c, f) # <<>>
  BY <1>5, PushedStack
<1> QED
  BY <1>2, <1>3, <1>4, <1>5, <1>6

LEMMA DescendInv ==
    ASSUME Inv, NEW a \in Callers, Descend(a)
    PROVE  Inv'
<1>1. PICK c \in Regions : 
        /\ lock' = [lock EXCEPT ![c] = a]
        /\ children' = [children EXCEPT ![c] = {}]
        /\ Pushed(call[a].frames, c, Frame("destroy", c, children[c])) \in Seq(Frames)
        /\ Pushed(call[a].frames, c, Frame("destroy", c, children[c])) # <<>>
        /\ call' = [call EXCEPT ![a].frames =
                        Pushed(call[a].frames, c, Frame("destroy", c, children[c]))]
  BY DescendTo, ZenonT(60)
<1>2. PICK gs \in Seq(Frames) : gs # <<>> /\ call' = [call EXCEPT ![a].frames = gs]
  BY <1>1
<1>3. UNCHANGED <<parent, addr, len, limit, dead, mappings, table, lost>>
  BY DEF Descend, shape
<1>4. call \in [Callers -> CallRecord] /\ [call[a] EXCEPT !.frames = gs] \in CallRecord
  BY CallTypes, CallFields DEF Inv, TypeOK, CallRecord
<1>5. call' \in [Callers -> CallRecord]
  BY <1>2, <1>4
<1>6. lock' \in [Regions -> Callers \cup {None}] /\ children' \in [Regions -> SUBSET Regions]
        /\ \A q \in Regions : children'[q] \subseteq children[q]
  BY <1>1 DEF Inv, TypeOK
<1>7. \A x \in Places : End(x)' <= Size
  BY <1>3 DEF Inv, TypeOK, End
<1>8. TypeOK'
  BY <1>3, <1>5, <1>6, <1>7 DEF Inv, TypeOK, CallRecord
<1>9. WalkOK'
  <2>1. call[a].pc = "walk" /\ call'[a].frames = gs
    BY <1>2, <1>4 DEF Descend, CallRecord
  <2> QED
    BY <1>2, <2>1, <1>4 DEF Inv, WalkOK
<1>10. ListsOK'
  BY <1>3, <1>6, ListsShrink
<1>11. SiblingsDisjoint'
  BY <1>3, <1>6, ApartStays DEF Inv, Members
<1> QED
  BY <1>8, <1>9, <1>10, <1>11 DEF Inv

LEMMA IdleIsCall == Idle \in CallRecord /\ Idle.pc # "walk"
  BY DEF Idle, CallRecord

LEMMA FailInv ==
    ASSUME Inv, NEW a \in Callers, Fail(a)
    PROVE  Inv'
<1>1. UNCHANGED <<parent, addr, len, limit, dead, children, mappings, table>>
  BY DEF Fail, shape
<1>2. call' = [call EXCEPT ![a] = Idle]
        /\ lock' = [r \in Regions |-> IF lock[r] = a THEN None ELSE lock[r]]
  BY DEF Fail
<1>3. lost' \subseteq Regions
  <2>1. PICK c : lost' = lost \cup (Owed(a) \ {c})
    BY DEF Fail
  <2>2. Owed(a) \subseteq Regions
    BY DEF Owed
  <2> QED
    BY <2>1, <2>2 DEF Inv, TypeOK
<1>4. call' \in [Callers -> CallRecord]
  BY <1>2, IdleIsCall DEF Inv, TypeOK, CallRecord
<1>5. lock' \in [Regions -> Callers \cup {None}]
  BY <1>2 DEF Inv, TypeOK
<1>6. \A x \in Places : End(x)' <= Size
  BY <1>1 DEF Inv, TypeOK, End
<1>7. TypeOK'
  BY <1>1, <1>3, <1>4, <1>5, <1>6 DEF Inv, TypeOK, CallRecord
<1>8. WalkOK'
  BY <1>2, IdleIsCall DEF Inv, TypeOK, WalkOK
<1> QED
  BY <1>1, <1>7, <1>8, ListsSame DEF Inv

LEMMA LeaveInv ==
    ASSUME Inv, NEW a \in Callers, Leave(a)
    PROVE  Inv'
<1>1. PICK fs \in Seq(Frames) : fs = call[a].frames /\ fs # <<>>
  BY TopOf DEF Leave
<1>2. PICK r \in Regions : r = fs[Len(fs)].on
  BY <1>1, TopOf DEF Leave
<1>3. PICK ms \in SUBSET mappings[r] : ms = Dropped(fs[Len(fs)])
  BY <1>2 DEF Dropped
<1>4. /\ mappings' = [mappings EXCEPT ![r] = @ \ ms]
      /\ Drop(ms)
      /\ \E b \in BOOLEAN : dead' = [dead EXCEPT ![r] = b]
      /\ lock' = [lock EXCEPT ![r] = None]
      /\ UNCHANGED <<parent, children, lost>>
  <2>1. (dead[r] \/ fs[Len(fs)].kind = "destroy") \in BOOLEAN
    OBVIOUS
  <2> QED
    BY <1>1, <1>2, <1>3, <2>1 DEF Leave, KeepsLock
<1>5. \E c \in CallRecord : (c.pc = "walk" => c.frames # <<>>) /\ call' = [call EXCEPT ![a] = c]
  <2>1. CASE Len(fs) > 1
    <3>1. PICK gs \in Seq(Frames) : gs # <<>> /\ gs = SubSeq(fs, 1, Len(fs) - 1)
      BY <2>1, <1>1, PoppedStack
    <3>2. [call[a] EXCEPT !.frames = gs] \in CallRecord
            /\ [call[a] EXCEPT !.frames = gs].frames = gs
      BY CallTypes, CallFields DEF Inv, CallRecord
    <3>3. call' = [call EXCEPT ![a] = [call[a] EXCEPT !.frames = gs]]
      BY <2>1, <1>1, <3>1 DEF Leave
    <3> QED
      BY <3>1, <3>2, <3>3
  <2>2. CASE ~(Len(fs) > 1)
    <3>1. <<>> \in Seq(Frames)
      OBVIOUS
    <3>2. [pc |-> "detach", frames |-> <<>>, on |-> r] \in CallRecord
      BY <3>1 DEF CallRecord
    <3>3. \/ call' = [call EXCEPT ![a] = [pc |-> "detach", frames |-> <<>>, on |-> r]]
          \/ call' = [call EXCEPT ![a] = Idle]
      BY <2>2, <1>1, <1>2 DEF Leave
    <3> QED
      BY <3>2, <3>3, IdleIsCall
  <2> QED
    BY <2>1, <2>2
<1>6. PICK c \in CallRecord : (c.pc = "walk" => c.frames # <<>>) /\ call' = [call EXCEPT ![a] = c]
  BY <1>5
<1>7. call \in [Callers -> CallRecord]
  BY DEF Inv, TypeOK, CallRecord
<1>8. call' \in [Callers -> CallRecord] /\ WalkOK'
  BY <1>6, <1>7 DEF Inv, WalkOK
<1>9. mappings' \in [Regions -> SUBSET Mappings] /\ dead' \in [Regions -> BOOLEAN]
        /\ lock' \in [Regions -> Callers \cup {None}]
        /\ \A q \in Regions : mappings'[q] \subseteq mappings[q]
  BY <1>4 DEF Inv, TypeOK
<1>10. ms \in SUBSET Mappings /\ ms \in SUBSET Places
  BY RootIsPlace DEF Inv, TypeOK
<1>11. TypeOK'
  BY <1>4, <1>8, <1>9, <1>10, PlacesGo DEF Inv, TypeOK, Drop, CallRecord
<1>12. ListsOK'
  BY <1>4, <1>9, ListsShrink
<1>13. SiblingsDisjoint'
  BY <1>4, DropKeepsApart
<1> QED
  BY <1>8, <1>11, <1>12, <1>13 DEF Inv

LEMMA DetachInv ==
    ASSUME Inv, NEW a \in Callers, Detach(a)
    PROVE  Inv'
<1>1. UNCHANGED <<parent, addr, len, limit, dead, mappings, table, lock, lost>>
        /\ call' = [call EXCEPT ![a] = Idle]
  BY DEF Detach, shape
<1>2. children' \in [Regions -> SUBSET Regions]
        /\ \A q \in Regions : children'[q] \subseteq children[q]
  <2>1. PICK p, r : children' = [children EXCEPT ![p] =
                                    IF dead[p] THEN @ ELSE children[p] \ {r}]
    BY DEF Detach, LeavesList
  <2>2. \A q \in Regions : children'[q] \subseteq children[q]
    BY <2>1 DEF Inv, TypeOK
  <2>3. DOMAIN children' = Regions /\ children' = [q \in Regions |-> children'[q]]
    BY <2>1 DEF Inv, TypeOK
  <2> QED
    BY <2>2, <2>3 DEF Inv, TypeOK
<1>3. call' \in [Callers -> CallRecord] /\ WalkOK'
  BY <1>1, IdleIsCall DEF Inv, TypeOK, CallRecord, WalkOK
<1>4. \A x \in Places : End(x)' <= Size
  BY <1>1 DEF Inv, TypeOK, End
<1>5. TypeOK'
  BY <1>1, <1>2, <1>3, <1>4 DEF Inv, TypeOK, CallRecord
<1>6. ListsOK'
  BY <1>1, <1>2, ListsShrink
<1>7. SiblingsDisjoint'
  BY <1>1, <1>2, ApartStays DEF Inv, Members
<1> QED
  BY <1>3, <1>5, <1>6, <1>7 DEF Inv

LEMMA ForgetInv ==
    ASSUME Inv, NEW r \in Regions, Forget(r)
    PROVE  Inv'
<1> DEFINE ms == mappings[r]
<1>1. /\ r # Root
      /\ \A s \in Regions : r \notin children[s] /\ parent[s] # r
      /\ parent' = [parent EXCEPT ![r] = None]
      /\ dead' = [dead EXCEPT ![r] = TRUE]
      /\ mappings' = [mappings EXCEPT ![r] = {}]
      /\ UNCHANGED <<children, lock, call, lost>>
  BY DEF Forget
<1>2. ms \in SUBSET Mappings /\ ms \cup {r} \in SUBSET Places
  BY RootIsPlace DEF Inv, TypeOK
<1>3. table' = Unmapped(ms) /\ limit' = Gone(limit, ms, {})
        /\ addr' = Gone(addr, ms \cup {r}, 0) /\ len' = Gone(len, ms \cup {r}, 0)
  BY DEF Forget
<1>4. /\ table' \in [Page -> Entry \cup {None}]
      /\ limit' \in [Mappings -> Flags \cup {{}}]
      /\ addr' \in [Places -> Nat] /\ len' \in [Places -> Nat]
      /\ \A x \in Places : End(x)' <= Size
      /\ \A x \in Places \ (ms \cup {r}) : addr'[x] = addr[x] /\ len'[x] = len[x]
  <2> HIDE DEF ms
  <2> QED
    BY <1>2, <1>3, PlacesGo DEF Inv
<1>5. TypeOK'
  BY <1>1, <1>4 DEF Inv, TypeOK
<1>6. WalkOK'
  BY <1>1 DEF Inv, WalkOK
<1>7. children[r] = {}
  BY <1>1 DEF Inv, TypeOK, ListsOK
<1>8. ListsOK'
  <2>1. \A q \in Regions : mappings'[q] \subseteq mappings[q] /\ mappings'[r] = {}
    BY <1>1 DEF Inv, TypeOK
  <2>2. parent'[r] = None /\ \A q \in Regions \ {r} : parent'[q] = parent[q]
    BY <1>1 DEF Inv, TypeOK
  <2>3. \A q \in Regions \ {r} : Made(q)' <=> Made(q)
    BY <2>2 DEF Made
  <2>4. \A c \in Regions : parent'[c] # None => Made(parent[c])'
    BY <1>1, <2>2, <2>3 DEF Inv, TypeOK, ListsOK
  <2>5. \A q \in Regions : mappings'[q] # {} => Made(q)'
    BY <2>1, <2>3 DEF Inv, ListsOK
  <2>6. \A q \in Regions : \A c \in children'[q] : parent'[c] = q
    BY <1>1, <2>2 DEF Inv, TypeOK, ListsOK
  <2>7. \A q, s \in Regions : \A m \in mappings'[q] : m \in mappings'[s] => q = s
    BY <2>1 DEF Inv, ListsOK
  <2>8. parent'[Root] = None
    BY <1>1, <2>2, RootAssumption DEF Inv, ListsOK
  <2> QED
    BY <2>4, <2>5, <2>6, <2>7, <2>8 DEF ListsOK
<1>9. SiblingsDisjoint'
  <2>1. Members(r)' = {}
    BY <1>1, <1>7 DEF Inv, TypeOK, Members
  <2>2. ASSUME NEW q \in Regions, q # r
        PROVE  Members(q)' \subseteq Members(q)
                 /\ Members(q)' \subseteq Places \ (ms \cup {r})
    <3>1. children[q] \subseteq Regions \ {r} /\ mappings'[q] = mappings[q]
      BY <2>2, <1>1 DEF Inv, TypeOK
    <3>2. mappings[q] \cap ms = {}
      BY <2>2 DEF Inv, ListsOK
    <3>3. ms \cap Regions = {} /\ mappings[q] \cap {r} = {}
      BY PoolAssumption DEF Inv, TypeOK
    <3>4. mappings[q] \subseteq Places /\ children[q] \subseteq Places
      BY RootIsPlace DEF Inv, TypeOK
    <3> QED
      BY <1>1, <3>1, <3>2, <3>3, <3>4 DEF Members
  <2>3. ASSUME NEW q \in Regions, q # r PROVE q \in Places \ (ms \cup {r})
    BY <2>3, <1>2, PoolAssumption, RootIsPlace
  <2>4. \A q \in Regions : Members(q)' \subseteq Members(q)
    BY <2>1, <2>2
  <2>5. \A q \in Regions : \A x \in Members(q)' :
            /\ addr'[x] = addr[x] /\ len'[x] = len[x]
            /\ addr'[q] = addr[q] /\ len'[q] = len[q]
    <3> HIDE DEF ms
    <3> QED
      BY <1>4, <2>1, <2>2, <2>3
  <2> QED
    BY <2>4, <2>5, ApartStays DEF Inv
<1> QED
  BY <1>5, <1>6, <1>8, <1>9 DEF Inv

LEMMA NextInv == Inv /\ [Next]_vars => Inv'
<1> SUFFICES ASSUME Inv, [Next]_vars PROVE Inv'
  OBVIOUS
<1>1. ASSUME NEW a \in Callers, Begin(a) PROVE Inv'
  <2>1. CASE \E r \in Regions : Clear(a, r) \/ Destroy(a, r)
    BY <2>1, ClearDestroyInv
  <2>2. CASE \E r \in Regions, n \in Lens, begin \in 0 .. Size :
               \/ \E c \in Regions : Allocate(a, r, c, begin, n)
               \/ \E m \in Mappings : \E limits, flags \in Flags :
                     Map(a, r, m, begin, n, limits, flags)
               \/ \E flags \in Flags : Protect(a, r, begin, n, flags)
               \/ Unmap(a, r, begin, n)
    BY <2>2, SizeAssumption, AllocateInv, MapInv, ProtectInv, UnmapInv
  <2> QED
    BY <1>1, <2>1, <2>2 DEF Begin
<1>2. CASE UNCHANGED vars
  BY <1>2, ListsSame DEF vars, Inv, TypeOK, WalkOK, End
<1> QED
  BY <1>1, <1>2, DescendInv, FailInv, LeaveInv, DetachInv, ForgetInv DEF Next

\* However regions and mappings are made, unmapped, destroyed and dropped, by
\* any number of callers and with any lengths, the members of a region lie
\* inside it and no two share an address.
THEOREM SiblingsApart == Spec => []SiblingsDisjoint
<1>1. Spec => []Inv
  BY InitInv, NextInv, PTL DEF Spec
<1>2. Inv => SiblingsDisjoint
  BY DEF Inv
<1> QED
  BY <1>1, <1>2, PTL

-----------------------------------------------------------------------------
(* Destruction *)

\* What an operation keeps locked is alive, and what it has taken to destroy is
\* on no list; only the first region of its stack may be.
FrameOK(a, i) ==
    /\ lock[call[a].frames[i].on] = a
    /\ ~dead[call[a].frames[i].on]
    /\ Made(call[a].frames[i].on)
    /\ \A c \in call[a].frames[i].todo : Made(c) /\ \A q \in Regions : c \notin children[q]
    /\ call[a].frames[i].kind = "destroy" => children[call[a].frames[i].on] = {}
    /\ i # 1 => /\ call[a].frames[i].kind = "destroy"
                /\ \A q \in Regions : call[a].frames[i].on \notin children[q]

CallOK(a) ==
    /\ call[a].pc # "walk" => call[a].frames = <<>>
    /\ \A i \in DOMAIN call[a].frames : FrameOK(a, i)
    /\ \A i, j \in DOMAIN call[a].frames :
           call[a].frames[i].on = call[a].frames[j].on => i = j
    /\ call[a].pc = "detach" => /\ call[a].on \in Regions \ {Root}
                                /\ Made(call[a].on) /\ dead[call[a].on]

EmptyDead == \A r \in Regions : dead[r] => children[r] = {}

DInv == /\ \A a \in Callers : CallOK(a)
        /\ EmptyDead /\ DeadChildLeaves /\ LiveIsReachable

LEMMA InitDInv == Init => DInv
<1> SUFFICES ASSUME Init PROVE DInv
  OBVIOUS
<1>1. ASSUME NEW a \in Callers PROVE CallOK(a)
  BY DEF Init, CallOK, Idle
<1>2. EmptyDead /\ DeadChildLeaves
  BY DEF Init, EmptyDead, DeadChildLeaves
<1>3. LiveIsReachable
  BY DEF Init, LiveIsReachable, Alive
<1> QED
  BY <1>1, <1>2, <1>3 DEF DInv

\* Frames, as facts about a caller's stack
LEMMA FrameOf ==
    ASSUME Inv, NEW a \in Callers, NEW i \in DOMAIN call[a].frames
    PROVE  /\ call[a].frames[i] \in Frames
           /\ call[a].frames[i].on \in Regions
           /\ call[a].frames[i].todo \subseteq Regions
<1>1. call[a].frames[i] \in Frames
  BY CallTypes DEF Inv
<1> QED
  BY <1>1, FrameFields

\* A call is not disturbed by steps that only shrink lists, lock nothing it
\* keeps and change no region it keeps.
LEMMA CallStays ==
    ASSUME Inv, NEW b \in Callers, CallOK(b), call'[b] = call[b], UNCHANGED parent,
           \A q \in Regions : children'[q] \subseteq children[q],
           \A q \in Regions : lock[q] = b => lock'[q] = b /\ dead'[q] = dead[q],
           \A q \in Regions : dead[q] => dead'[q]
    PROVE  CallOK(b)'
<1>1. \A q : Made(q)' <=> Made(q)
  BY DEF Made
<1>2. ASSUME NEW i \in DOMAIN call[b].frames PROVE FrameOK(b, i)'
  <2>1. call[b].frames[i].on \in Regions
    BY FrameOf
  <2>2. FrameOK(b, i)
    BY DEF CallOK
  <2>3. lock'[call[b].frames[i].on] = b /\ ~dead'[call[b].frames[i].on]
    BY <2>1, <2>2 DEF FrameOK
  <2>4. children[call[b].frames[i].on] = {} => children'[call[b].frames[i].on] = {}
    BY <2>1
  <2> QED
    BY <2>1, <2>2, <2>3, <2>4, <1>1 DEF FrameOK
<1> QED
  BY <1>1, <1>2 DEF CallOK

\* Only the caller itself changes what it owes.
LEMMA OwedStays ==
    ASSUME NEW b, call'[b] = call[b]
    PROVE  Owed(b)' = Owed(b)
  BY DEF Owed

LEMMA AllocateDInv ==
    ASSUME Inv, DInv, NEW a \in Callers, NEW r \in Regions, NEW c \in Regions,
           NEW begin, NEW n, Allocate(a, r, c, begin, n)
    PROVE  DInv'
<1>1. /\ Made(r) /\ lock[r] = None /\ ~dead[r] /\ ~Made(c)
      /\ parent' = [parent EXCEPT ![c] = r]
      /\ dead' = [dead EXCEPT ![c] = FALSE]
      /\ children' = [children EXCEPT ![r] = @ \cup {c}]
      /\ UNCHANGED <<lock, call, lost>>
  BY DEF Allocate, Free, Alive
<1>2. \A q : Made(q) => Made(q)' /\ q # c
  BY <1>1, NoneAssumption DEF Made, Inv, TypeOK
<1>3. /\ \A q \in Regions \ {r} : children'[q] = children[q]
      /\ children'[r] = children[r] \cup {c}
      /\ \A q \in Regions \ {c} : dead'[q] = dead[q] /\ parent'[q] = parent[q]
      /\ ~dead'[c] /\ parent'[c] = r
  BY <1>1 DEF Inv, TypeOK
<1>4. \A q \in Regions : c \notin children[q]
  BY <1>1, UnmadeIsNowhere DEF Members
<1>5. ASSUME NEW b \in Callers PROVE CallOK(b)'
  <2>0. CallOK(b)
    BY DEF DInv
  <2>1. ASSUME NEW i \in DOMAIN call[b].frames PROVE FrameOK(b, i)'
    <3>1. call[b].frames[i].on \in Regions /\ call[b].frames[i].todo \subseteq Regions
      BY FrameOf
    <3>2. FrameOK(b, i)
      BY <2>0 DEF CallOK
    <3>3. call[b].frames[i].on # r
      BY <3>2, <1>1, NoneAssumption DEF FrameOK
    <3>4. call[b].frames[i].on # c /\ c \notin call[b].frames[i].todo
      BY <3>2, <1>2 DEF FrameOK
    <3>5. \A q \in Regions : children'[q] \subseteq children[q] \cup {c}
      BY <1>3
    <3>6. \A x \in call[b].frames[i].todo : Made(x)' /\ \A q \in Regions : x \notin children'[q]
      BY <3>2, <3>4, <3>5, <1>2 DEF FrameOK
    <3>7. \/ i = 1
          \/ /\ call[b].frames[i].kind = "destroy"
             /\ \A q \in Regions : call[b].frames[i].on \notin children'[q]
      BY <3>2, <3>4, <3>5 DEF FrameOK
    <3>8. call'[b] = call[b] /\ lock' = lock
      BY <1>1
    <3>9. lock'[call[b].frames[i].on] = b /\ ~dead'[call[b].frames[i].on]
      BY <3>1, <3>2, <3>4, <3>8, <1>3 DEF FrameOK
    <3>10. PICK o \in Regions, T \in SUBSET Regions :
             o = call[b].frames[i].on /\ T = call[b].frames[i].todo
      BY <3>1
    <3>11. children[o] = {} => children'[o] = {}
      BY <3>3, <3>10, <1>3
    <3>12. Made(o)' /\ \A x \in T : Made(x)'
      BY <3>2, <3>6, <3>10, <1>2 DEF FrameOK
    <3>13. /\ lock'[o] = b /\ ~dead'[o]
           /\ \A x \in T : \A q \in Regions : x \notin children'[q]
           /\ call[b].frames[i].kind = "destroy" => children'[o] = {}
           /\ i # 1 => /\ call[b].frames[i].kind = "destroy"
                       /\ \A q \in Regions : o \notin children'[q]
      BY <3>2, <3>6, <3>7, <3>9, <3>10, <3>11 DEF FrameOK
    <3> QED
      BY <3>8, <3>10, <3>12, <3>13 DEF FrameOK, Made
  <2> QED
    BY <2>0, <2>1, <1>1, <1>2, <1>3 DEF CallOK
<1>6. EmptyDead'
  BY <1>1, <1>2, <1>3, UnmadeIsNowhere DEF EmptyDead, DInv
<1>7. DeadChildLeaves'
  BY <1>1, <1>3, <1>4 DEF DeadChildLeaves, DInv
<1>8. LiveIsReachable'
  <2> SUFFICES ASSUME NEW x \in Regions \ {Root}, Alive(x)'
               PROVE  (\E q \in Regions : x \in children'[q])
                        \/ (\E b \in Callers : x \in Owed(b)') \/ x \in lost'
    BY DEF LiveIsReachable
  <2>1. CASE x = c
    BY <2>1, <1>3
  <2>2. CASE x # c
    <3>1. (\E q \in Regions : x \in children[q]) \/ (\E b \in Callers : x \in Owed(b)) \/ x \in lost
      BY <2>2, <1>3 DEF LiveIsReachable, DInv, Alive
    <3>2. \A q \in Regions : children[q] \subseteq children'[q]
      BY <1>3
    <3>3. \A b \in Callers : Owed(b)' = Owed(b)
      BY <1>1, OwedStays
    <3> QED
      BY <3>1, <3>2, <3>3, <1>1
  <2> QED
    BY <2>1, <2>2
<1> QED
  BY <1>5, <1>6, <1>7, <1>8 DEF DInv

LEMMA SameDInv ==
    ASSUME DInv, UNCHANGED <<parent, dead, children, lock, call, lost>>
    PROVE  DInv'
<1>1. ASSUME NEW b \in Callers PROVE CallOK(b)'
  <2>1. CallOK(b)
    BY <1>1 DEF DInv
  <2>2. /\ parent' = parent /\ dead' = dead /\ children' = children
        /\ lock' = lock /\ call' = call
    OBVIOUS
  <2>3. ASSUME NEW i \in DOMAIN call[b].frames PROVE FrameOK(b, i)'
    <3>1. FrameOK(b, i)
      BY <2>1, <2>3 DEF CallOK
    <3>2. PICK f : f = call[b].frames[i]
      OBVIOUS
    <3>3. call'[b].frames[i] = f
      BY <2>2, <3>2
    <3>4. Made(f.on)' /\ lock'[f.on] = b /\ ~dead'[f.on]
      BY <2>2, <3>1, <3>2 DEF FrameOK, Made
    <3>5. \A c \in f.todo : Made(c)' /\ \A q \in Regions : c \notin children'[q]
      BY <2>2, <3>1, <3>2 DEF FrameOK, Made
    <3>6. /\ f.kind = "destroy" => children'[f.on] = {}
          /\ i # 1 => f.kind = "destroy" /\ \A q \in Regions : f.on \notin children'[q]
      BY <2>2, <3>1, <3>2 DEF FrameOK
    <3> QED
      BY <3>3, <3>4, <3>5, <3>6 DEF FrameOK, Made
  <2> QED
    BY <2>1, <2>2, <2>3 DEF CallOK, Made
<1>2. EmptyDead' /\ DeadChildLeaves'
  BY DEF DInv, EmptyDead, DeadChildLeaves
<1>3. \A b \in Callers : Owed(b)' = Owed(b)
  BY OwedStays
<1>4. LiveIsReachable'
  BY <1>3 DEF DInv, LiveIsReachable, Alive
<1> QED
  BY <1>1, <1>2, <1>4 DEF DInv

LEMMA ForgetDInv ==
    ASSUME Inv, DInv, NEW r \in Regions, Forget(r)
    PROVE  DInv'
<1>1. /\ r # Root
      /\ \A s \in Regions : r \notin children[s] /\ parent[s] # r
      /\ \A b \in Callers : r \notin Handled(b)
      /\ parent' = [parent EXCEPT ![r] = None]
      /\ dead' = [dead EXCEPT ![r] = TRUE]
      /\ UNCHANGED <<children, lock, call, lost>>
  BY DEF Forget
<1>2. /\ \A q \in Regions \ {r} : dead'[q] = dead[q] /\ parent'[q] = parent[q]
      /\ dead'[r]
  BY <1>1 DEF Inv, TypeOK
<1>3. \A q \in Regions \ {r} : Made(q)' <=> Made(q)
  BY <1>2 DEF Made
<1>4. children[r] = {}
  BY <1>1 DEF Inv, TypeOK, ListsOK
<1>5. ASSUME NEW b \in Callers PROVE CallOK(b)'
  <2>0. CallOK(b)
    BY DEF DInv
  <2>1. ASSUME NEW i \in DOMAIN call[b].frames PROVE FrameOK(b, i)'
    <3>1. call[b].frames[i].on \in Regions /\ call[b].frames[i].todo \subseteq Regions
      BY FrameOf
    <3>2. FrameOK(b, i)
      BY <2>0 DEF CallOK
    <3>3. call[b].frames[i].on # r /\ r \notin call[b].frames[i].todo
      BY <1>1 DEF Handled, Owed
    <3> QED
      BY <3>1, <3>2, <3>3, <1>1, <1>2, <1>3 DEF FrameOK
  <2>2. call[b].on # r
    BY <1>1 DEF Handled
  <2> QED
    BY <2>0, <2>1, <2>2, <1>1, <1>2, <1>3 DEF CallOK
<1>6. EmptyDead'
  BY <1>1, <1>2, <1>4 DEF EmptyDead, DInv
<1>7. DeadChildLeaves'
  BY <1>1, <1>2 DEF DeadChildLeaves, DInv, Inv, TypeOK
<1>8. LiveIsReachable'
  <2> SUFFICES ASSUME NEW x \in Regions \ {Root}, Alive(x)'
               PROVE  (\E q \in Regions : x \in children'[q])
                        \/ (\E b \in Callers : x \in Owed(b)') \/ x \in lost'
    BY DEF LiveIsReachable
  <2>1. x # r
    BY <1>2 DEF Alive
  <2>2. (\E q \in Regions : x \in children[q]) \/ (\E b \in Callers : x \in Owed(b)) \/ x \in lost
    BY <2>1, <1>2 DEF LiveIsReachable, DInv, Alive
  <2>3. \A b \in Callers : Owed(b)' = Owed(b)
    BY <1>1, OwedStays
  <2> QED
    BY <2>1, <2>2, <2>3, <1>1, <1>2
<1> QED
  BY <1>5, <1>6, <1>7, <1>8 DEF DInv

\* A region that stays reachable does so, when parents stay, lists lose only
\* what is dead or comes to be owed, and debts are paid by death or lost.
LEMMA ReachStays ==
    ASSUME Inv, DInv, NEW a \in Callers, UNCHANGED parent,
           \A b \in Callers \ {a} : call'[b] = call[b],
           \A q \in Regions : dead[q] => dead'[q],
           lost \subseteq lost',
           \A q \in Regions : \A x \in children[q] \ children'[q] :
               dead'[x] \/ x \in Owed(a)',
           \A x \in Owed(a) : dead'[x] \/ x \in Owed(a)' \/ x \in lost'
    PROVE  LiveIsReachable'
<1> SUFFICES ASSUME NEW x \in Regions \ {Root}, ~dead'[x]
             PROVE  (\E q \in Regions : x \in children'[q])
                      \/ (\E b \in Callers : x \in Owed(b)') \/ x \in lost'
  BY DEF LiveIsReachable, Alive
<1>1. ~dead[x]
  OBVIOUS
<1>2. (\E q \in Regions : x \in children[q]) \/ (\E b \in Callers : x \in Owed(b))
        \/ x \in lost
  BY <1>1 DEF DInv, LiveIsReachable, Alive
<1>3. CASE \E q \in Regions : x \in children[q]
  BY <1>3
<1>4. CASE \E b \in Callers : x \in Owed(b)
  <2>1. PICK b \in Callers : x \in Owed(b)
    BY <1>4
  <2>2. CASE b = a
    BY <2>1, <2>2
  <2>3. CASE b # a
    BY <2>1, <2>3, OwedStays
  <2> QED
    BY <2>2, <2>3
<1>5. CASE x \in lost
  BY <1>5
<1> QED
  BY <1>2, <1>3, <1>4, <1>5

\* Dead regions that are listed stay accounted for when no list grows, what
\* dies is listed nowhere or on its way to be detached, and no other detaching
\* call ends.
LEMMA LeavingStays ==
    ASSUME DInv, NEW a \in Callers,
           \A b \in Callers \ {a} : call'[b] = call[b],
           \A q \in Regions : children'[q] \subseteq children[q],
           call[a].pc = "detach" => \A q \in Regions : call[a].on \notin children'[q],
           \A q \in Regions : \A x \in children'[q] : dead'[x] =>
               dead[x] \/ (call'[a].pc = "detach" /\ call'[a].on = x)
    PROVE  DeadChildLeaves'
<1> SUFFICES ASSUME NEW q \in Regions, NEW x \in children'[q], dead'[x]
             PROVE  \E b \in Callers : call'[b].pc = "detach" /\ call'[b].on = x
  BY DEF DeadChildLeaves
<1>1. CASE call'[a].pc = "detach" /\ call'[a].on = x
  BY <1>1
<1>2. CASE dead[x]
  <2>1. PICK b \in Callers : call[b].pc = "detach" /\ call[b].on = x
    BY <1>2 DEF DInv, DeadChildLeaves
  <2>2. b # a
    BY <2>1
  <2> QED
    BY <2>1, <2>2
<1> QED
  BY <1>1, <1>2

LEMMA GoDownDInv ==
    ASSUME Inv, DInv, NEW a \in Callers, NEW kind \in {"unmap", "clear", "destroy"},
           NEW r \in Regions, NEW todo \in SUBSET children[r], GoDown(a, kind, r, todo),
           kind = "destroy" => todo = children[r],
           UNCHANGED <<parent, dead, lost>>
    PROVE  DInv'
<1>1. /\ call[a] = Idle /\ Made(r) /\ lock[r] = None /\ ~dead[r]
      /\ children' = [children EXCEPT ![r] = @ \ todo]
      /\ lock' = [lock EXCEPT ![r] = a]
      /\ call' = [call EXCEPT ![a] = [pc |-> "walk", frames |-> <<Frame(kind, r, todo)>>,
                                      on |-> None]]
  BY DEF GoDown, Free, Alive
<1>2. /\ call'[a] = [pc |-> "walk", frames |-> <<Frame(kind, r, todo)>>, on |-> None]
      /\ \A b \in Callers \ {a} : call'[b] = call[b]
      /\ lock'[r] = a /\ \A q \in Regions \ {r} : lock'[q] = lock[q]
      /\ children'[r] = children[r] \ todo
      /\ \A q \in Regions \ {r} : children'[q] = children[q]
  BY <1>1 DEF Inv, TypeOK
<1>3. PICK f : f = Frame(kind, r, todo)
  OBVIOUS
<1>4. f.on = r /\ f.todo = todo /\ f.kind = kind
  BY <1>3 DEF Frame
<1>5. call'[a].pc = "walk" /\ call'[a].frames = <<f>> /\ DOMAIN <<f>> = {1} /\ <<f>>[1] = f
  BY <1>2, <1>3
<1>6. \A c \in todo : Made(c) /\ \A q \in Regions : c \notin children'[q]
  <2> SUFFICES ASSUME NEW c \in todo
               PROVE  Made(c) /\ \A q \in Regions : c \notin children'[q]
    OBVIOUS
  <2>1. c \in Regions /\ parent[c] = r
    BY DEF Inv, TypeOK, ListsOK
  <2>2. Made(c)
    BY <2>1, NoneAssumption DEF Made
  <2> QED
    BY <2>1, <2>2, <1>2 DEF Inv, ListsOK
<1>7. CallOK(a)'
  <2>1. FrameOK(a, 1)'
    BY <1>1, <1>2, <1>4, <1>5, <1>6 DEF FrameOK, Made
  <2> QED
    BY <2>1, <1>5 DEF CallOK
<1>8. ASSUME NEW b \in Callers, b # a PROVE CallOK(b)'
  <2>1. CallOK(b) /\ call'[b] = call[b]
    BY <1>8, <1>2 DEF DInv
  <2>2. \A q \in Regions : lock[q] = b => lock'[q] = b /\ dead'[q] = dead[q]
    BY <1>1, <1>2, NoneAssumption
  <2> QED
    BY <2>1, <2>2, <1>2, CallStays
<1>9. EmptyDead'
  BY <1>2 DEF DInv, EmptyDead
<1>10. DeadChildLeaves'
  <2>1. call[a].pc # "detach"
    BY <1>1 DEF Idle
  <2> QED
    BY <2>1, <1>2, LeavingStays
<1>11. LiveIsReachable'
  <2>1. Owed(a) = {}
    BY <1>1 DEF Owed, Idle
  <2>2. todo \subseteq Owed(a)'
    BY <1>4, <1>5 DEF Owed, Inv, TypeOK
  <2> QED
    BY <2>1, <2>2, <1>2, ReachStays
<1> QED
  BY <1>7, <1>8, <1>9, <1>10, <1>11 DEF DInv

LEMMA DescendDInv ==
    ASSUME Inv, DInv, NEW a \in Callers, Descend(a)
    PROVE  DInv'
<1>0. call[a].pc = "walk" /\ UNCHANGED <<parent, dead, lost>>
  BY DEF Descend, shape
<1>1. PICK fs \in Seq(Frames) : fs = call[a].frames /\ fs # <<>> /\ Len(fs) \in Nat \ {0}
                                  /\ Len(fs) \in DOMAIN fs /\ DOMAIN fs = 1 .. Len(fs)
  BY <1>0, TopOf
<1>2. PICK n : n = Len(fs)
  OBVIOUS
<1>3. PICK c \in Regions :
        /\ c \in fs[n].todo
        /\ Free(c) /\ Alive(c)
        /\ lock' = [lock EXCEPT ![c] = a]
        /\ children' = [children EXCEPT ![c] = {}]
        /\ Frame("destroy", c, children[c]) \in Frames
        /\ call' = [call EXCEPT ![a].frames = Pushed(fs, c, Frame("destroy", c, children[c]))]
  <2>1. call[a].frames = fs /\ Len(call[a].frames) = n
    BY <1>1, <1>2
  <2>2. PICK c \in Regions :
          /\ c \in call[a].frames[Len(call[a].frames)].todo
          /\ Free(c) /\ Alive(c)
          /\ lock' = [lock EXCEPT ![c] = a]
          /\ children' = [children EXCEPT ![c] = {}]
          /\ Frame("destroy", c, children[c]) \in Frames
          /\ call' = [call EXCEPT ![a].frames =
                          Pushed(call[a].frames, c, Frame("destroy", c, children[c]))]
    BY DescendTo, ZenonT(60)
  <2>3. /\ c \in fs[n].todo
        /\ call' = [call EXCEPT ![a].frames = Pushed(fs, c, Frame("destroy", c, children[c]))]
    BY <2>1, <2>2
  <2> QED
    BY <2>2, <2>3
<1>4. PICK f \in Frames : f = Frame("destroy", c, children[c])
  BY <1>3
<1>5. f.on = c /\ f.todo = children[c] /\ f.kind = "destroy"
  BY <1>4 DEF Frame
<1>6. PICK gs : gs = Pushed(fs, c, f)
  OBVIOUS
<1>7. /\ DOMAIN gs = 1 .. n + 1
      /\ gs # <<>>
      /\ gs[n + 1] = f
      /\ gs[n].on = fs[n].on /\ gs[n].kind = fs[n].kind /\ gs[n].todo = fs[n].todo \ {c}
      /\ \A i \in 1 .. n - 1 : gs[i] = fs[i]
  BY <1>1, <1>2, <1>6, PushedStack
<1>8. n \in Nat \ {0} /\ DOMAIN fs = 1 .. n
  BY <1>1, <1>2
<1>9. /\ call'[a].frames = gs /\ call'[a].pc = "walk"
      /\ \A b \in Callers \ {a} : call'[b] = call[b]
      /\ lock'[c] = a /\ \A q \in Regions \ {c} : lock'[q] = lock[q]
      /\ children'[c] = {} /\ \A q \in Regions \ {c} : children'[q] = children[q]
      /\ lock[c] = None /\ ~dead[c]
  <2>1. call \in [Callers -> CallRecord] /\ lock \in [Regions -> Callers \cup {None}]
          /\ children \in [Regions -> SUBSET Regions]
    BY DEF Inv, TypeOK, CallRecord
  <2>2. call' = [call EXCEPT ![a].frames = gs]
    BY <1>3, <1>4, <1>6
  <2>3. call'[a].frames = gs /\ call'[a].pc = "walk"
    BY <1>0, <2>1, <2>2 DEF CallRecord
  <2> QED
    BY <1>3, <2>1, <2>2, <2>3 DEF Free, Alive
<1>10. CallOK(a) /\ \A i \in 1 .. n : FrameOK(a, i)
  BY <1>1, <1>8 DEF DInv, CallOK
<1>11. \A q \in Regions : children'[q] \subseteq children[q]
  BY <1>9
<1>12. \A x \in children[c] : Made(x) /\ \A q \in Regions : x \notin children'[q]
  <2> SUFFICES ASSUME NEW x \in children[c]
               PROVE  Made(x) /\ \A q \in Regions : x \notin children'[q]
    OBVIOUS
  <2>1. x \in Regions /\ parent[x] = c
    BY DEF Inv, TypeOK, ListsOK
  <2>2. Made(x)
    BY <2>1, NoneAssumption DEF Made
  <2> QED
    BY <2>1, <2>2, <1>9 DEF Inv, ListsOK
<1>13. Made(c) /\ \A q \in Regions : c \notin children[q]
  BY <1>1, <1>3, <1>8, <1>10 DEF FrameOK
<1>14. ASSUME NEW i \in 1 .. n
       PROVE  /\ gs[i].on = fs[i].on /\ gs[i].kind = fs[i].kind
              /\ gs[i].todo \subseteq fs[i].todo
              /\ fs[i].todo \subseteq gs[i].todo \cup {c}
              /\ fs[i].on \in Regions /\ fs[i].on # c /\ lock[fs[i].on] = a
  <2>1. gs[i].on = fs[i].on /\ gs[i].kind = fs[i].kind /\ gs[i].todo \subseteq fs[i].todo
          /\ fs[i].todo \subseteq gs[i].todo \cup {c}
    BY <1>7, <1>8
  <2>2. fs[i].on \in Regions
    BY <1>1, <1>8, FrameOf
  <2>3. lock[fs[i].on] = a
    BY <1>1, <1>10 DEF FrameOK
  <2> QED
    BY <2>1, <2>2, <2>3, <1>9, NoneAssumption
<1>15. ASSUME NEW i \in 1 .. n PROVE FrameOK(a, i)'
  <2>1. FrameOK(a, i)
    BY <1>10
  <2>2. call[a].frames[i] = fs[i] /\ call'[a].frames[i] = gs[i]
    BY <1>1, <1>9
  <2>3. lock'[fs[i].on] = a /\ ~dead'[fs[i].on] /\ Made(fs[i].on)
    BY <2>1, <2>2, <1>0, <1>9, <1>14 DEF FrameOK
  <2>4. \A x \in gs[i].todo : Made(x) /\ \A q \in Regions : x \notin children'[q]
    BY <2>1, <2>2, <1>11, <1>14 DEF FrameOK
  <2>5. gs[i].kind = "destroy" => children'[gs[i].on] = {}
    BY <2>1, <2>2, <1>11, <1>14 DEF FrameOK
  <2>6. i # 1 => gs[i].kind = "destroy" /\ \A q \in Regions : gs[i].on \notin children'[q]
    BY <2>1, <2>2, <1>11, <1>14 DEF FrameOK
  <2> QED
    BY <2>2, <2>3, <2>4, <2>5, <2>6, <1>0, <1>14 DEF FrameOK, Made
<1>16. FrameOK(a, n + 1)'
  <2>1. call'[a].frames[n + 1] = f
    BY <1>7, <1>9
  <2> QED
    BY <2>1, <1>0, <1>5, <1>9, <1>11, <1>12, <1>13 DEF FrameOK, Made
<1>17. CallOK(a)'
  <2>1. \A i \in 1 .. n + 1 : FrameOK(a, i)'
    <3>1. \A i \in 1 .. n + 1 : i \in 1 .. n \/ i = n + 1
      BY <1>8
    <3> QED
      BY <3>1, <1>15, <1>16
  <2>2. ASSUME NEW i \in 1 .. n + 1, NEW j \in 1 .. n + 1, gs[i].on = gs[j].on
        PROVE  i = j
    <3>1. CASE i \in 1 .. n /\ j \in 1 .. n
      BY <3>1, <2>2, <1>1, <1>8, <1>10, <1>14, SMTT(30) DEF CallOK
    <3>2. CASE i = n + 1 /\ j \in 1 .. n
      BY <3>2, <2>2, <1>5, <1>7, <1>14
    <3>3. CASE i \in 1 .. n /\ j = n + 1
      BY <3>3, <2>2, <1>5, <1>7, <1>14
    <3> QED
      BY <3>1, <3>2, <3>3, <1>8
  <2> QED
    BY <2>1, <2>2, <1>7, <1>9 DEF CallOK
<1>18. ASSUME NEW b \in Callers, b # a PROVE CallOK(b)'
  <2>1. CallOK(b) /\ call'[b] = call[b]
    BY <1>18, <1>9 DEF DInv
  <2>2. \A q \in Regions : lock[q] = b => lock'[q] = b /\ dead'[q] = dead[q]
    BY <1>0, <1>9, NoneAssumption
  <2> QED
    BY <2>1, <2>2, <1>0, <1>11, CallStays
<1>19. EmptyDead'
  BY <1>0, <1>9 DEF DInv, EmptyDead
<1>20. DeadChildLeaves'
  BY <1>0, <1>9, <1>11, LeavingStays
<1>21. LiveIsReachable'
  <2>1. children[c] \subseteq Owed(a)' /\ c \in Owed(a)'
    <3>1. n + 1 \in DOMAIN gs /\ n + 1 # 1
      BY <1>7, <1>8
    <3> QED
      BY <3>1, <1>5, <1>7, <1>9 DEF Owed, Inv, TypeOK
  <2>2. ASSUME NEW x \in Owed(a) PROVE x \in Owed(a)'
    <3>1. x \in Regions
      BY DEF Owed
    <3>2. PICK i \in 1 .. n : x \in fs[i].todo \/ (i # 1 /\ x = fs[i].on)
      BY <1>1, <1>8 DEF Owed
    <3>3. x = c \/ x \in gs[i].todo \/ (i # 1 /\ x = gs[i].on)
      BY <3>2, <1>14
    <3>4. i \in DOMAIN gs
      BY <1>7, <1>8
    <3> QED
      BY <2>1, <3>1, <3>3, <3>4, <1>9 DEF Owed
  <2>3. \A q \in Regions : \A x \in children[q] \ children'[q] : x \in Owed(a)'
    BY <2>1, <1>9
  <2> QED
    BY <2>2, <2>3, <1>0, <1>9, ReachStays
<1> QED
  BY <1>17, <1>18, <1>19, <1>20, <1>21 DEF DInv

\* A call that has come back is in order.
LEMMA IdleCallOK ==
    ASSUME NEW a, call'[a] = Idle
    PROVE  CallOK(a)'
  BY DEF CallOK, Idle

LEMMA FailDInv ==
    ASSUME Inv, DInv, NEW a \in Callers, Fail(a)
    PROVE  DInv'
<1>1. PICK c : /\ dead[c]
               /\ lost' = lost \cup (Owed(a) \ {c})
  BY DEF Fail
<1>2. /\ call[a].pc = "walk"
      /\ UNCHANGED <<parent, dead, children>>
      /\ lock' = [r \in Regions |-> IF lock[r] = a THEN None ELSE lock[r]]
      /\ call' = [call EXCEPT ![a] = Idle]
  BY DEF Fail, shape
<1>3. call'[a] = Idle /\ \A b \in Callers \ {a} : call'[b] = call[b]
  BY <1>2 DEF Inv, TypeOK
<1>4. ASSUME NEW b \in Callers PROVE CallOK(b)'
  <2>1. CASE b = a
    BY <2>1, <1>3, IdleCallOK
  <2>2. CASE b # a
    <3>1. CallOK(b) /\ call'[b] = call[b]
      BY <2>2, <1>3 DEF DInv
    <3>2. \A q \in Regions : lock[q] = b => lock'[q] = b /\ dead'[q] = dead[q]
      BY <2>2, <1>2
    <3> QED
      BY <3>1, <3>2, <1>2, CallStays
  <2> QED
    BY <2>1, <2>2
<1>5. EmptyDead'
  BY <1>2 DEF DInv, EmptyDead
<1>6. DeadChildLeaves'
  BY <1>2, <1>3, LeavingStays
<1>7. LiveIsReachable'
  <2>1. \A x \in Owed(a) : dead'[x] \/ x \in lost'
    BY <1>1, <1>2
  <2>2. \A q \in Regions : children'[q] = children[q] /\ (dead[q] => dead'[q])
    BY <1>2
  <2>3. lost \subseteq lost'
    BY <1>1
  <2> QED
    BY <2>1, <2>2, <2>3, <1>2, <1>3, ReachStays
<1> QED
  BY <1>4, <1>5, <1>6, <1>7 DEF DInv

LEMMA LeaveDInv ==
    ASSUME Inv, DInv, NEW a \in Callers, Leave(a)
    PROVE  DInv'
<1>0. call[a].pc = "walk" /\ UNCHANGED <<parent, children, lost>>
  BY DEF Leave
<1>1. PICK fs \in Seq(Frames) : fs = call[a].frames /\ fs # <<>> /\ Len(fs) \in Nat \ {0}
                                  /\ DOMAIN fs = 1 .. Len(fs)
  BY <1>0, TopOf
<1>2. PICK n \in Nat \ {0} : n = Len(fs)
  BY <1>1
<1>3. PICK r \in Regions : r = fs[n].on
  BY <1>0, <1>1, <1>2, TopOf
<1>4. /\ fs[n].todo = {}
      /\ dead' = [dead EXCEPT ![r] = @ \/ fs[n].kind = "destroy"]
      /\ lock' = [lock EXCEPT ![r] = None]
  BY <1>1, <1>2, <1>3 DEF Leave, KeepsLock
<1>5. /\ dead'[r] = (dead[r] \/ fs[n].kind = "destroy")
      /\ \A q \in Regions \ {r} : dead'[q] = dead[q] /\ lock'[q] = lock[q]
  BY <1>4 DEF Inv, TypeOK
<1>6. CallOK(a) /\ \A i \in 1 .. n : FrameOK(a, i)
  BY <1>1, <1>2 DEF DInv, CallOK
<1>7. lock[r] = a
        /\ (fs[n].kind = "destroy" => children[r] = {})
        /\ (n # 1 => fs[n].kind = "destroy" /\ \A q \in Regions : r \notin children[q])
        /\ Made(r)
  <2>1. FrameOK(a, n) /\ call[a].frames[n] = fs[n]
    BY <1>1, <1>6
  <2> QED
    BY <2>1, <1>3 DEF FrameOK
<1>8. \A b \in Callers \ {a} : call'[b] = call[b]
  BY DEF Leave, Inv, TypeOK
<1>9. \/ n > 1 /\ call' = [call EXCEPT ![a].frames = SubSeq(fs, 1, n - 1)]
      \/ /\ n = 1 /\ fs[n].kind = "destroy" /\ r # Root
         /\ call' = [call EXCEPT ![a] = [pc |-> "detach", frames |-> <<>>, on |-> r]]
      \/ n = 1 /\ (fs[n].kind # "destroy" \/ r = Root) /\ call' = [call EXCEPT ![a] = Idle]
  <2>1. call' = [call EXCEPT ![a] =
            IF n > 1 THEN [call[a] EXCEPT !.frames = SubSeq(fs, 1, n - 1)]
            ELSE IF fs[n].kind = "destroy" /\ r # Root
            THEN [pc |-> "detach", frames |-> <<>>, on |-> r]
            ELSE Idle]
    BY <1>1, <1>2, <1>3 DEF Leave
  <2>2. CASE n > 1
    BY <2>1, <2>2
  <2>3. CASE n = 1 /\ fs[n].kind = "destroy" /\ r # Root
    BY <2>1, <2>3
  <2>4. CASE n = 1 /\ ~(fs[n].kind = "destroy" /\ r # Root)
    BY <2>1, <2>4
  <2> QED
    BY <2>2, <2>3, <2>4
<1>10. /\ n > 1 => /\ call'[a].pc = "walk"
                   /\ call'[a].frames = SubSeq(fs, 1, n - 1)
       /\ n = 1 => \/ /\ fs[n].kind = "destroy" /\ r # Root
                      /\ call'[a] = [pc |-> "detach", frames |-> <<>>, on |-> r]
                   \/ (fs[n].kind # "destroy" \/ r = Root) /\ call'[a] = Idle
  <2>1. call \in [Callers -> CallRecord]
    BY DEF Inv, TypeOK, CallRecord
  <2>2. CASE n > 1
    <3>1. call' = [call EXCEPT ![a] = [call[a] EXCEPT !.frames = SubSeq(fs, 1, n - 1)]]
      BY <2>2, <1>9
    <3>2. call'[a] = [call[a] EXCEPT !.frames = SubSeq(fs, 1, n - 1)]
      BY <2>1, <3>1
    <3>3. call'[a].pc = "walk" /\ call'[a].frames = SubSeq(fs, 1, n - 1)
      BY <3>2, <2>1, <1>0 DEF CallRecord
    <3> QED
      BY <2>2, <3>3
  <2>3. CASE n = 1
    BY <2>3, <1>9, <2>1
  <2> QED
    BY <2>2, <2>3
<1>11. ASSUME n > 1
       PROVE  /\ DOMAIN call'[a].frames = 1 .. n - 1
              /\ \A i \in 1 .. n - 1 : call'[a].frames[i] = fs[i]
  <2>1. Len(fs) > 1 /\ n - 1 = Len(fs) - 1
    BY <1>11, <1>2
  <2> QED
    BY <1>10, <1>11, <2>1, PoppedStack
<1>12. CallOK(a)'
  <2>1. CASE n > 1
    <3>1. ASSUME NEW i \in 1 .. n - 1 PROVE FrameOK(a, i)'
      <4>1. FrameOK(a, i) /\ call[a].frames[i] = fs[i] /\ call'[a].frames[i] = fs[i]
        BY <1>1, <1>6, <1>11, <2>1
      <4>2. i \in DOMAIN call[a].frames /\ n \in DOMAIN call[a].frames /\ i # n
        BY <1>1, <1>2
      <4>3. fs[i].on # r /\ fs[i].on \in Regions
        BY <4>1, <4>2, <1>1, <1>3, <1>6, FrameOf DEF CallOK
      <4> QED
        BY <4>1, <4>3, <1>0, <1>5 DEF FrameOK, Made
    <3>2. \A i, j \in 1 .. n - 1 : fs[i].on = fs[j].on => i = j
      BY <1>1, <1>2, <1>6, SMTT(30) DEF CallOK
    <3>3. call'[a].pc = "walk" /\ DOMAIN call'[a].frames = 1 .. n - 1
            /\ \A i \in 1 .. n - 1 : call'[a].frames[i] = fs[i]
      BY <2>1, <1>10, <1>11
    <3> QED
      BY <3>1, <3>2, <3>3 DEF CallOK
  <2>2. CASE n = 1 /\ call'[a] = Idle
    BY <2>2, IdleCallOK
  <2>3. CASE n = 1 /\ call'[a] # Idle
    <3>1. fs[n].kind = "destroy" /\ r # Root
            /\ call'[a] = [pc |-> "detach", frames |-> <<>>, on |-> r]
      BY <2>3, <1>10
    <3>2. dead'[r]
      BY <3>1, <1>5
    <3>3. Made(r)'
      BY <1>0, <1>7 DEF Made
    <3> QED
      BY <3>1, <3>2, <3>3 DEF CallOK
  <2> QED
    BY <2>1, <2>2, <2>3
<1>13. \A q \in Regions : dead[q] => dead'[q]
  BY <1>5
<1>14. ASSUME NEW b \in Callers, b # a PROVE CallOK(b)'
  <2>1. CallOK(b) /\ call'[b] = call[b]
    BY <1>14, <1>8 DEF DInv
  <2>2. \A q \in Regions : lock[q] = b => lock'[q] = b /\ dead'[q] = dead[q]
    BY <1>5, <1>7, <1>14
  <2>3. \A q \in Regions : children'[q] \subseteq children[q]
    BY <1>0
  <2> QED
    BY <2>1, <2>2, <2>3, <1>0, <1>13, CallStays
<1>15. EmptyDead'
  BY <1>0, <1>5, <1>7 DEF DInv, EmptyDead
<1>16. DeadChildLeaves'
  <2>1. ASSUME NEW q \in Regions, NEW x \in children'[q], dead'[x], ~dead[x]
        PROVE  call'[a].pc = "detach" /\ call'[a].on = x
    <3>1. x \in Regions /\ x \in children[q]
      BY <1>0 DEF Inv, TypeOK
    <3>2. x = r /\ fs[n].kind = "destroy"
      BY <2>1, <3>1, <1>5
    <3>3. n = 1
      BY <3>1, <3>2, <1>7
    <3>4. x # Root
      BY <3>1, NoneAssumption DEF Inv, ListsOK
    <3> QED
      BY <3>2, <3>3, <3>4, <1>10
  <2>2. \A q \in Regions : children'[q] \subseteq children[q]
    BY <1>0
  <2> QED
    BY <2>1, <2>2, <1>0, <1>8, LeavingStays
<1>17. LiveIsReachable'
  <2>1. ASSUME NEW x \in Owed(a) PROVE dead'[x] \/ x \in Owed(a)'
    <3>1. x \in Regions
      BY DEF Owed
    <3>2. PICK i \in 1 .. n : x \in fs[i].todo \/ (i # 1 /\ x = fs[i].on)
      BY <1>1, <1>2 DEF Owed
    <3>3. CASE i = n
      BY <3>2, <3>3, <1>3, <1>4, <1>5, <1>7
    <3>4. CASE i # n
      <4>1. n > 1 /\ i \in 1 .. n - 1
        BY <3>4
      <4>2. i \in DOMAIN call'[a].frames /\ call'[a].frames[i] = fs[i]
        BY <4>1, <1>11
      <4> QED
        BY <3>1, <3>2, <4>2 DEF Owed
    <3> QED
      BY <3>3, <3>4
  <2>2. \A q \in Regions : children[q] \ children'[q] = {}
    BY <1>0
  <2> QED
    BY <2>1, <2>2, <1>0, <1>8, <1>13, ReachStays
<1> QED
  BY <1>12, <1>14, <1>15, <1>16, <1>17 DEF DInv

LEMMA DetachDInv ==
    ASSUME Inv, DInv, NEW a \in Callers, Detach(a)
    PROVE  DInv'
<1>1. /\ call[a].pc = "detach"
      /\ UNCHANGED <<parent, dead, lock, lost>>
      /\ call' = [call EXCEPT ![a] = Idle]
  BY DEF Detach, shape
<1>2. PICK r : r = call[a].on
  OBVIOUS
<1>3. r \in Regions \ {Root} /\ Made(r) /\ dead[r] /\ call[a].frames = <<>>
  BY <1>1, <1>2 DEF DInv, CallOK
<1>4. PICK p \in Regions : p = parent[r]
  BY <1>3 DEF Made, Inv, TypeOK
<1>5. children' = [children EXCEPT ![p] = IF dead[p] THEN @ ELSE @ \ {r}]
  BY <1>2, <1>4 DEF Detach, LeavesList
<1>6. /\ \A q \in Regions \ {p} : children'[q] = children[q]
      /\ children'[p] = IF dead[p] THEN children[p] ELSE children[p] \ {r}
  BY <1>5 DEF Inv, TypeOK
<1>7. children'[p] = children[p] \ {r}
  BY <1>6 DEF DInv, EmptyDead
<1>8. \A q \in Regions : r \notin children'[q]
  BY <1>4, <1>6, <1>7 DEF Inv, ListsOK
<1>9. call'[a] = Idle /\ \A b \in Callers \ {a} : call'[b] = call[b]
  BY <1>1 DEF Inv, TypeOK
<1>10. \A q \in Regions : children'[q] \subseteq children[q]
  BY <1>6, <1>7
<1>11. ASSUME NEW b \in Callers PROVE CallOK(b)'
  <2>1. CASE b = a
    BY <2>1, <1>9, IdleCallOK
  <2>2. CASE b # a
    <3>1. CallOK(b) /\ call'[b] = call[b]
      BY <2>2, <1>9 DEF DInv
    <3> QED
      BY <3>1, <1>1, <1>10, CallStays
  <2> QED
    BY <2>1, <2>2
<1>12. EmptyDead'
  BY <1>1, <1>10 DEF DInv, EmptyDead
<1>13. DeadChildLeaves'
  BY <1>1, <1>2, <1>8, <1>9, <1>10, LeavingStays
<1>14. LiveIsReachable'
  <2>1. Owed(a) = {}
    BY <1>3 DEF Owed
  <2>2. \A q \in Regions : \A x \in children[q] \ children'[q] : dead'[x]
    BY <1>1, <1>3, <1>6, <1>7
  <2> QED
    BY <2>1, <2>2, <1>1, <1>9, ReachStays
<1> QED
  BY <1>11, <1>12, <1>13, <1>14 DEF DInv

LEMMA NextDInv == Inv /\ DInv /\ [Next]_vars => DInv'
<1> SUFFICES ASSUME Inv, DInv, [Next]_vars PROVE DInv'
  OBVIOUS
<1>1. ASSUME NEW a \in Callers, NEW r \in Regions, NEW begin, NEW n, Unmap(a, r, begin, n)
      PROVE  DInv'
  <2> DEFINE todo == {c \in children[r] : Within(c, begin, begin + n)}
  <2>1. todo \in SUBSET children[r] /\ GoDown(a, "unmap", r, todo)
          /\ UNCHANGED <<parent, dead, lost>>
    BY <1>1 DEF Unmap
  <2> HIDE DEF todo
  <2> QED
    BY <2>1, GoDownDInv
<1>2. ASSUME NEW a \in Callers, NEW r \in Regions, Clear(a, r) \/ Destroy(a, r)
      PROVE  DInv'
  <2>1. PICK kind \in {"unmap", "clear", "destroy"} : GoDown(a, kind, r, children[r])
    BY <1>2 DEF Clear, Destroy
  <2>2. UNCHANGED <<parent, dead, lost>>
    BY <1>2 DEF Clear, Destroy, shape
  <2> QED
    BY <2>1, <2>2, GoDownDInv
<1>3. ASSUME NEW a \in Callers, NEW r \in Regions, NEW m, NEW begin, NEW n, NEW limits,
             NEW flags, Map(a, r, m, begin, n, limits, flags)
      PROVE  DInv'
  BY <1>3, SameDInv DEF Map
<1>4. ASSUME NEW a \in Callers, NEW r \in Regions, NEW begin, NEW n, NEW flags,
             Protect(a, r, begin, n, flags)
      PROVE  DInv'
  BY <1>4, SameDInv DEF Protect, shape
<1>5. ASSUME NEW a \in Callers, Begin(a) PROVE DInv'
  <2>1. CASE \E r \in Regions : Clear(a, r) \/ Destroy(a, r)
    BY <2>1, <1>2
  <2>2. CASE \E r \in Regions, n \in Lens, begin \in 0 .. Size :
               \/ \E c \in Regions : Allocate(a, r, c, begin, n)
               \/ \E m \in Mappings : \E limits, flags \in Flags :
                     Map(a, r, m, begin, n, limits, flags)
               \/ \E flags \in Flags : Protect(a, r, begin, n, flags)
               \/ Unmap(a, r, begin, n)
    BY <2>2, <1>1, <1>3, <1>4, AllocateDInv
  <2> QED
    BY <1>5, <2>1, <2>2 DEF Begin
<1>6. CASE UNCHANGED vars
  BY <1>6, SameDInv DEF vars
<1> QED
  BY <1>5, <1>6, DescendDInv, FailDInv, LeaveDInv, DetachDInv, ForgetDInv DEF Next

LEMMA Destruction == Spec => [](Inv /\ DInv)
<1>1. Inv /\ DInv /\ [Next]_vars => (Inv /\ DInv)'
  BY NextInv, NextDInv
<1> QED
  BY <1>1, InitInv, InitDInv, PTL DEF Spec

\* A region that is dead is on its parent's list only until the call that
\* destroyed it takes it off, with any number of calls at once.
THEOREM DeadLeave == Spec => []DeadChildLeaves
<1>1. Inv /\ DInv => DeadChildLeaves
  BY DEF DInv
<1> QED
  BY <1>1, Destruction, PTL

\* No region that is alive is forgotten by its parent, unless a call that had
\* to destroy it still owes that or failed.
THEOREM LiveReachable == Spec => []LiveIsReachable
<1>1. Inv /\ DInv => LiveIsReachable
  BY DEF DInv
<1> QED
  BY <1>1, Destruction, PTL

-----------------------------------------------------------------------------
(* Locks: no set of callers waits for itself *)

\* The regions are a forest: in a set of them one has no child in the set.
Grounded == \A T \in SUBSET Regions : (\A t \in T : \E c \in T : parent[c] = t) => T = {}

\* Who keeps a lock is at work on the region.
LocksHeld ==
    \A r \in Regions : lock[r] # None =>
        \E i \in DOMAIN call[lock[r]].frames : call[lock[r]].frames[i].on = r

\* A stack goes down the tree, and what a frame has to destroy is right below
\* its region.
LinkOK(a, i) ==
    /\ \A c \in call[a].frames[i].todo : parent[c] = call[a].frames[i].on
    /\ i # 1 => parent[call[a].frames[i].on] = call[a].frames[i - 1].on
Chained(a) == \A i \in DOMAIN call[a].frames : LinkOK(a, i)

LInv == Grounded /\ LocksHeld /\ \A a \in Callers : Chained(a)

LEMMA InitLInv == Init => LInv
<1> SUFFICES ASSUME Init PROVE LInv
  OBVIOUS
<1>1. Grounded
  BY NoneAssumption DEF Init, Grounded
<1>2. LocksHeld
  BY DEF Init, LocksHeld
<1>3. ASSUME NEW a \in Callers PROVE Chained(a)
  BY DEF Init, Chained, Idle
<1> QED
  BY <1>1, <1>2, <1>3 DEF LInv

\* A call that stays where it is keeps its links while the parents of the
\* regions it works on stay.
LEMMA ChainStays ==
    ASSUME Inv, DInv, NEW b \in Callers, Chained(b), call'[b] = call[b],
           \A q \in Handled(b) : parent'[q] = parent[q]
    PROVE  Chained(b)'
<1> SUFFICES ASSUME NEW i \in DOMAIN call[b].frames PROVE LinkOK(b, i)'
  BY DEF Chained
<1>1. LinkOK(b, i)
  BY DEF Chained
<1>2. call[b].frames[i].on \in Regions /\ call[b].frames[i].todo \subseteq Regions
  BY FrameOf
<1>3. call[b].frames[i].on \in Handled(b) /\ call[b].frames[i].todo \subseteq Handled(b)
  BY <1>2 DEF Handled, Owed
<1> QED
  BY <1>1, <1>3 DEF LinkOK

\* Steps that leave locks, parents and calls alone
LEMMA SameLInv ==
    ASSUME LInv, UNCHANGED <<parent, lock, call>>
    PROVE  LInv'
<1>1. Grounded' /\ LocksHeld'
  BY DEF LInv, Grounded, LocksHeld
<1>2. \A a \in Callers : Chained(a)'
  BY DEF LInv, Chained, LinkOK
<1> QED
  BY <1>1, <1>2 DEF LInv

LEMMA AllocateLInv ==
    ASSUME Inv, DInv, LInv, NEW a \in Callers, NEW r \in Regions, NEW c \in Regions,
           NEW begin, NEW n, Allocate(a, r, c, begin, n)
    PROVE  LInv'
<1>1. /\ Made(r) /\ ~Made(c)
      /\ parent' = [parent EXCEPT ![c] = r]
      /\ UNCHANGED <<lock, call>>
  BY DEF Allocate
<1>2. r # c /\ parent'[c] = r /\ \A q \in Regions \ {c} : parent'[q] = parent[q]
  BY <1>1 DEF Inv, TypeOK
<1>3. \A q \in Regions : parent[q] # c
  BY <1>1, NoneAssumption DEF Inv, ListsOK
<1>4. ASSUME NEW T \in SUBSET Regions, \A t \in T : \E d \in T : parent'[d] = t
      PROVE  T = {}
  <2>1. c \notin T
    BY <1>2, <1>3, <1>4
  <2>2. \A t \in T : \E d \in T : parent[d] = t
    BY <1>2, <1>4, <2>1
  <2> QED
    BY <2>2 DEF LInv, Grounded
<1>5. LocksHeld'
  BY <1>1 DEF LInv, LocksHeld
<1>6. ASSUME NEW b \in Callers PROVE Chained(b)'
  <2>1. Chained(b) /\ CallOK(b)
    BY DEF LInv, DInv
  <2>2. ASSUME NEW i \in DOMAIN call[b].frames PROVE LinkOK(b, i)'
    <3>1. LinkOK(b, i) /\ FrameOK(b, i)
      BY <2>1 DEF Chained, CallOK
    <3>2. call[b].frames[i].on \in Regions /\ call[b].frames[i].todo \subseteq Regions
      BY FrameOf
    <3>3. call[b].frames[i].on # c /\ c \notin call[b].frames[i].todo
      BY <3>1, <1>1 DEF FrameOK
    <3> QED
      BY <3>1, <3>2, <3>3, <1>1, <1>2 DEF LinkOK
  <2> QED
    BY <2>2, <1>1 DEF Chained
<1> QED
  BY <1>4, <1>5, <1>6 DEF LInv, Grounded

LEMMA ForgetLInv ==
    ASSUME Inv, DInv, LInv, NEW r \in Regions, Forget(r)
    PROVE  LInv'
<1>1. /\ \A s \in Regions : parent[s] # r
      /\ \A b \in Callers : r \notin Handled(b)
      /\ parent' = [parent EXCEPT ![r] = None]
      /\ UNCHANGED <<lock, call>>
  BY DEF Forget
<1>2. parent'[r] = None /\ \A q \in Regions \ {r} : parent'[q] = parent[q]
  BY <1>1 DEF Inv, TypeOK
<1>3. ASSUME NEW T \in SUBSET Regions, \A t \in T : \E d \in T : parent'[d] = t
      PROVE  T = {}
  <2>1. r \notin T
    BY <1>1, <1>2, <1>3, NoneAssumption
  <2>2. \A t \in T : \E d \in T : parent[d] = t
    BY <1>2, <1>3, <2>1
  <2> QED
    BY <2>2 DEF LInv, Grounded
<1>4. LocksHeld'
  BY <1>1 DEF LInv, LocksHeld
<1>5. ASSUME NEW b \in Callers PROVE Chained(b)'
  <2>1. \A q \in Handled(b) : q \in Regions \ {r}
    BY <1>1 DEF Handled
  <2> QED
    BY <2>1, <1>1, <1>2, ChainStays DEF LInv
<1> QED
  BY <1>3, <1>4, <1>5 DEF LInv, Grounded

LEMMA GoDownLInv ==
    ASSUME Inv, DInv, LInv, NEW a \in Callers, NEW kind \in {"unmap", "clear", "destroy"},
           NEW r \in Regions, NEW todo \in SUBSET children[r], GoDown(a, kind, r, todo),
           UNCHANGED parent
    PROVE  LInv'
<1>1. /\ call[a] = Idle /\ lock[r] = None
      /\ lock' = [lock EXCEPT ![r] = a]
      /\ call' = [call EXCEPT ![a] = [pc |-> "walk", frames |-> <<Frame(kind, r, todo)>>,
                                      on |-> None]]
  BY DEF GoDown, Free
<1>2. PICK f : f = Frame(kind, r, todo)
  OBVIOUS
<1>3. f.on = r /\ f.todo = todo
  BY <1>2 DEF Frame
<1>4. /\ call'[a].frames = <<f>> /\ DOMAIN <<f>> = {1} /\ <<f>>[1] = f
      /\ \A b \in Callers \ {a} : call'[b] = call[b]
      /\ lock'[r] = a /\ \A q \in Regions \ {r} : lock'[q] = lock[q]
  BY <1>1, <1>2 DEF Inv, TypeOK
<1>5. \A c \in todo : parent[c] = r
  BY DEF Inv, ListsOK
<1>6. Grounded'
  BY DEF LInv, Grounded
<1>7. LocksHeld'
  <2> SUFFICES ASSUME NEW q \in Regions, lock'[q] # None
               PROVE  \E i \in DOMAIN call'[lock'[q]].frames : call'[lock'[q]].frames[i].on = q
    BY DEF LocksHeld
  <2>1. CASE q = r
    BY <2>1, <1>3, <1>4
  <2>2. CASE q # r
    <3>1. lock'[q] = lock[q] /\ lock[q] \in Callers
      BY <2>2, <1>4 DEF Inv, TypeOK
    <3>2. \E i \in DOMAIN call[lock[q]].frames : call[lock[q]].frames[i].on = q
      BY <3>1 DEF LInv, LocksHeld
    <3>3. lock[q] # a
      BY <3>2, <1>1 DEF Idle
    <3> QED
      BY <3>1, <3>2, <3>3, <1>4
  <2> QED
    BY <2>1, <2>2
<1>8. ASSUME NEW b \in Callers PROVE Chained(b)'
  <2>1. CASE b = a
    BY <2>1, <1>3, <1>4, <1>5 DEF Chained, LinkOK
  <2>2. CASE b # a
    BY <2>2, <1>4, ChainStays DEF LInv
  <2> QED
    BY <2>1, <2>2
<1> QED
  BY <1>6, <1>7, <1>8 DEF LInv

LEMMA DescendLInv ==
    ASSUME Inv, DInv, LInv, NEW a \in Callers, Descend(a)
    PROVE  LInv'
<1>0. call[a].pc = "walk" /\ UNCHANGED parent
  BY DEF Descend, shape
<1>1. PICK fs \in Seq(Frames) : fs = call[a].frames /\ fs # <<>> /\ Len(fs) \in Nat \ {0}
                                  /\ DOMAIN fs = 1 .. Len(fs)
  BY <1>0, TopOf
<1>2. PICK n : n = Len(fs)
  OBVIOUS
<1>3. PICK c \in Regions :
        /\ c \in fs[n].todo
        /\ Free(c)
        /\ lock' = [lock EXCEPT ![c] = a]
        /\ Frame("destroy", c, children[c]) \in Frames
        /\ call' = [call EXCEPT ![a].frames = Pushed(fs, c, Frame("destroy", c, children[c]))]
  <2>1. call[a].frames = fs /\ Len(call[a].frames) = n
    BY <1>1, <1>2
  <2>2. PICK c \in Regions :
          /\ c \in call[a].frames[Len(call[a].frames)].todo
          /\ Free(c) /\ Alive(c)
          /\ lock' = [lock EXCEPT ![c] = a]
          /\ children' = [children EXCEPT ![c] = {}]
          /\ Frame("destroy", c, children[c]) \in Frames
          /\ call' = [call EXCEPT ![a].frames =
                          Pushed(call[a].frames, c, Frame("destroy", c, children[c]))]
    BY DescendTo, ZenonT(60)
  <2>3. /\ c \in fs[n].todo
        /\ call' = [call EXCEPT ![a].frames = Pushed(fs, c, Frame("destroy", c, children[c]))]
    BY <2>1, <2>2
  <2> QED
    BY <2>2, <2>3
<1>4. PICK f \in Frames : f = Frame("destroy", c, children[c])
  BY <1>3
<1>5. f.on = c /\ f.todo = children[c]
  BY <1>4 DEF Frame
<1>6. PICK gs : gs = Pushed(fs, c, f)
  OBVIOUS
<1>7. /\ DOMAIN gs = 1 .. n + 1
      /\ gs[n + 1] = f
      /\ gs[n].on = fs[n].on /\ gs[n].todo = fs[n].todo \ {c}
      /\ \A i \in 1 .. n - 1 : gs[i] = fs[i]
  BY <1>1, <1>2, <1>6, PushedStack, SMTT(30)
<1>8. n \in Nat \ {0} /\ DOMAIN fs = 1 .. n
  BY <1>1, <1>2
<1>9. /\ call'[a].frames = gs
      /\ \A b \in Callers \ {a} : call'[b] = call[b]
      /\ lock'[c] = a /\ \A q \in Regions \ {c} : lock'[q] = lock[q]
  <2>1. call \in [Callers -> CallRecord] /\ lock \in [Regions -> Callers \cup {None}]
    BY DEF Inv, TypeOK, CallRecord
  <2>2. call' = [call EXCEPT ![a].frames = gs]
    BY <1>3, <1>4, <1>6
  <2>3. call'[a].frames = gs
    BY <2>1, <2>2 DEF CallRecord
  <2> QED
    BY <1>3, <2>1, <2>2, <2>3
<1>10. \A i \in 1 .. n : gs[i].on = fs[i].on /\ gs[i].todo \subseteq fs[i].todo
  BY <1>7, <1>8
<1>11. \A i \in 1 .. n : LinkOK(a, i)
  BY <1>1, <1>8 DEF LInv, Chained
<1>12. ASSUME NEW i \in 1 .. n PROVE LinkOK(a, i)'
  <2>1. call[a].frames[i] = fs[i] /\ call'[a].frames[i] = gs[i] /\ LinkOK(a, i)
    BY <1>1, <1>9, <1>11
  <2>2. i # 1 => call[a].frames[i - 1] = fs[i - 1] /\ call'[a].frames[i - 1] = gs[i - 1]
                   /\ gs[i - 1].on = fs[i - 1].on
    BY <1>1, <1>8, <1>9, <1>10
  <2> QED
    BY <2>1, <2>2, <1>0, <1>10 DEF LinkOK
<1>13. LinkOK(a, n + 1)'
  <2>1. PICK j \in Nat : j = n + 1
    BY <1>8
  <2>1a. call'[a].frames[j] = f /\ call'[a].frames[j - 1] = gs[n] /\ j - 1 = n
    BY <2>1, <1>7, <1>8, <1>9
  <2>2. parent[c] = fs[n].on
    BY <1>1, <1>3, <1>8, <1>11 DEF LinkOK
  <2>3. \A x \in children[c] : parent[x] = c
    BY DEF Inv, ListsOK
  <2>4. LinkOK(a, j)'
    BY <2>1a, <2>2, <2>3, <1>0, <1>5, <1>7 DEF LinkOK
  <2> QED
    BY <2>1, <2>4
<1>14. ASSUME NEW b \in Callers PROVE Chained(b)'
  <2>1. CASE b = a
    <3>1. \A i \in 1 .. n + 1 : i \in 1 .. n \/ i = n + 1
      BY <1>8
    <3> QED
      BY <2>1, <3>1, <1>7, <1>9, <1>12, <1>13 DEF Chained
  <2>2. CASE b # a
    BY <2>2, <1>0, <1>9, ChainStays DEF LInv
  <2> QED
    BY <2>1, <2>2
<1>15. LocksHeld'
  <2> SUFFICES ASSUME NEW q \in Regions, lock'[q] # None
               PROVE  \E i \in DOMAIN call'[lock'[q]].frames : call'[lock'[q]].frames[i].on = q
    BY DEF LocksHeld
  <2>1. CASE q = c
    <3>1. n + 1 \in DOMAIN gs
      BY <1>7, <1>8
    <3> QED
      BY <2>1, <3>1, <1>5, <1>7, <1>9
  <2>2. CASE q # c
    <3>1. lock'[q] = lock[q] /\ lock[q] \in Callers
      BY <2>2, <1>9 DEF Inv, TypeOK
    <3>2. PICK i \in DOMAIN call[lock[q]].frames : call[lock[q]].frames[i].on = q
      BY <3>1 DEF LInv, LocksHeld
    <3>3. CASE lock[q] = a
      <4>1. i \in 1 .. n /\ i \in DOMAIN gs /\ fs[i].on = q
        BY <3>2, <3>3, <1>1, <1>7, <1>8
      <4> QED
        BY <4>1, <3>1, <3>3, <1>9, <1>10
    <3>4. CASE lock[q] # a
      BY <3>1, <3>2, <3>4, <1>9
    <3> QED
      BY <3>3, <3>4
  <2> QED
    BY <2>1, <2>2
<1>16. Grounded'
  BY <1>0 DEF LInv, Grounded
<1> QED
  BY <1>14, <1>15, <1>16 DEF LInv

\* A call that has come back has no links.
LEMMA EndedChain ==
    ASSUME NEW a, call'[a].frames = <<>>
    PROVE  Chained(a)'
  BY DEF Chained

LEMMA FailLInv ==
    ASSUME Inv, DInv, LInv, NEW a \in Callers, Fail(a)
    PROVE  LInv'
<1>1. /\ UNCHANGED parent
      /\ lock' = [r \in Regions |-> IF lock[r] = a THEN None ELSE lock[r]]
      /\ call' = [call EXCEPT ![a] = Idle]
  BY DEF Fail, shape
<1>2. call'[a] = Idle /\ \A b \in Callers \ {a} : call'[b] = call[b]
  BY <1>1 DEF Inv, TypeOK
<1>3. ASSUME NEW b \in Callers PROVE Chained(b)'
  <2>1. CASE b = a
    BY <2>1, <1>2, EndedChain DEF Idle
  <2>2. CASE b # a
    BY <2>2, <1>1, <1>2, ChainStays DEF LInv
  <2> QED
    BY <2>1, <2>2
<1>4. LocksHeld'
  <2> SUFFICES ASSUME NEW q \in Regions, lock'[q] # None
               PROVE  \E i \in DOMAIN call'[lock'[q]].frames : call'[lock'[q]].frames[i].on = q
    BY DEF LocksHeld
  <2>1. lock'[q] = lock[q] /\ lock[q] # a /\ lock[q] \in Callers
    BY <1>1 DEF Inv, TypeOK
  <2> QED
    BY <2>1, <1>2 DEF LInv, LocksHeld
<1>5. Grounded'
  BY <1>1 DEF LInv, Grounded
<1> QED
  BY <1>3, <1>4, <1>5 DEF LInv

LEMMA LeaveLInv ==
    ASSUME Inv, DInv, LInv, NEW a \in Callers, Leave(a)
    PROVE  LInv'
<1>0. call[a].pc = "walk" /\ UNCHANGED parent
  BY DEF Leave
<1>1. PICK fs \in Seq(Frames) : fs = call[a].frames /\ fs # <<>> /\ Len(fs) \in Nat \ {0}
                                  /\ DOMAIN fs = 1 .. Len(fs)
  BY <1>0, TopOf
<1>2. PICK n \in Nat \ {0} : n = Len(fs)
  BY <1>1
<1>3. PICK r \in Regions : r = fs[n].on
  BY <1>0, <1>1, <1>2, TopOf
<1>4. lock' = [lock EXCEPT ![r] = None]
  BY <1>1, <1>2, <1>3 DEF Leave, KeepsLock
<1>5. lock'[r] = None /\ \A q \in Regions \ {r} : lock'[q] = lock[q]
  BY <1>4 DEF Inv, TypeOK
<1>6. \A b \in Callers \ {a} : call'[b] = call[b]
  BY DEF Leave, Inv, TypeOK
<1>7. CASE n > 1
  <2>1. call' = [call EXCEPT ![a] = [call[a] EXCEPT !.frames = SubSeq(fs, 1, n - 1)]]
    BY <1>1, <1>2, <1>7 DEF Leave
  <2>2. call \in [Callers -> CallRecord]
    BY DEF Inv, TypeOK, CallRecord
  <2>3. call'[a] = [call[a] EXCEPT !.frames = SubSeq(fs, 1, n - 1)]
    BY <2>1, <2>2
  <2>4. call'[a].frames = SubSeq(fs, 1, n - 1)
    BY <2>2, <2>3 DEF CallRecord
  <2>5. DOMAIN call'[a].frames = 1 .. n - 1 /\ \A i \in 1 .. n - 1 : call'[a].frames[i] = fs[i]
    BY <2>4, <1>1, <1>2, <1>7, PoppedStack
  <2>6. ASSUME NEW i \in 1 .. n - 1 PROVE LinkOK(a, i)'
    <3>1. i \in 1 .. n /\ (i # 1 => i - 1 \in 1 .. n - 1)
      OBVIOUS
    <3>2. LinkOK(a, i)
      BY <3>1, <1>1, <1>2 DEF LInv, Chained
    <3> QED
      BY <3>1, <3>2, <2>5, <1>0, <1>1 DEF LinkOK
  <2>7. ASSUME NEW b \in Callers PROVE Chained(b)'
    <3>1. CASE b = a
      BY <3>1, <2>5, <2>6 DEF Chained
    <3>2. CASE b # a
      BY <3>2, <1>0, <1>6, ChainStays DEF LInv
    <3> QED
      BY <3>1, <3>2
  <2>8. LocksHeld'
    <3> SUFFICES ASSUME NEW q \in Regions, lock'[q] # None
                 PROVE  \E i \in DOMAIN call'[lock'[q]].frames : call'[lock'[q]].frames[i].on = q
      BY DEF LocksHeld
    <3>1. q # r /\ lock'[q] = lock[q] /\ lock[q] \in Callers
      BY <1>5 DEF Inv, TypeOK
    <3>2. PICK i \in DOMAIN call[lock[q]].frames : call[lock[q]].frames[i].on = q
      BY <3>1 DEF LInv, LocksHeld
    <3>3. CASE lock[q] = a
      <4>1. i \in 1 .. n /\ i # n /\ fs[i].on = q
        BY <3>1, <3>2, <3>3, <1>1, <1>2, <1>3
      <4>2. i \in 1 .. n - 1
        BY <4>1
      <4> QED
        BY <4>1, <4>2, <3>1, <3>3, <2>5
    <3>4. CASE lock[q] # a
      BY <3>1, <3>2, <3>4, <1>6
    <3> QED
      BY <3>3, <3>4
  <2>9. Grounded'
    BY <1>0 DEF LInv, Grounded
  <2> QED
    BY <2>7, <2>8, <2>9 DEF LInv
<1>8. CASE n = 1
  <2>1. \/ call' = [call EXCEPT ![a] = [pc |-> "detach", frames |-> <<>>, on |-> r]]
        \/ call' = [call EXCEPT ![a] = Idle]
    <3>1. ~(Len(fs) > 1) /\ r = fs[Len(fs)].on
      BY <1>2, <1>3, <1>8
    <3> QED
      BY <3>1, <1>1 DEF Leave
  <2>2. call'[a].frames = <<>>
    BY <2>1 DEF Idle, Inv, TypeOK
  <2>3. ASSUME NEW b \in Callers PROVE Chained(b)'
    <3>1. CASE b = a
      BY <3>1, <2>2, EndedChain
    <3>2. CASE b # a
      BY <3>2, <1>0, <1>6, ChainStays DEF LInv
    <3> QED
      BY <3>1, <3>2
  <2>4. LocksHeld'
    <3> SUFFICES ASSUME NEW q \in Regions, lock'[q] # None
                 PROVE  \E i \in DOMAIN call'[lock'[q]].frames : call'[lock'[q]].frames[i].on = q
      BY DEF LocksHeld
    <3>1. q # r /\ lock'[q] = lock[q] /\ lock[q] \in Callers
      BY <1>5 DEF Inv, TypeOK
    <3>2. PICK i \in DOMAIN call[lock[q]].frames : call[lock[q]].frames[i].on = q
      BY <3>1 DEF LInv, LocksHeld
    <3>3. lock[q] # a
      BY <3>1, <3>2, <1>1, <1>2, <1>3, <1>8
    <3> QED
      BY <3>1, <3>2, <3>3, <1>6
  <2>5. Grounded'
    BY <1>0 DEF LInv, Grounded
  <2> QED
    BY <2>3, <2>4, <2>5 DEF LInv
<1> QED
  BY <1>7, <1>8

LEMMA DetachLInv ==
    ASSUME Inv, DInv, LInv, NEW a \in Callers, Detach(a)
    PROVE  LInv'
<1>1. /\ call[a].pc = "detach"
      /\ UNCHANGED <<parent, lock>>
      /\ call' = [call EXCEPT ![a] = Idle]
  BY DEF Detach, shape
<1>2. call[a].frames = <<>>
  BY <1>1 DEF DInv, CallOK
<1>3. call'[a] = Idle /\ \A b \in Callers \ {a} : call'[b] = call[b]
  BY <1>1 DEF Inv, TypeOK
<1>4. ASSUME NEW b \in Callers PROVE Chained(b)'
  <2>1. CASE b = a
    BY <2>1, <1>3, EndedChain DEF Idle
  <2>2. CASE b # a
    BY <2>2, <1>1, <1>3, ChainStays DEF LInv
  <2> QED
    BY <2>1, <2>2
<1>5. LocksHeld'
  <2> SUFFICES ASSUME NEW q \in Regions, lock[q] # None
               PROVE  \E i \in DOMAIN call'[lock[q]].frames : call'[lock[q]].frames[i].on = q
    BY <1>1 DEF LocksHeld
  <2>1. lock[q] \in Callers
    BY DEF Inv, TypeOK
  <2>2. \E i \in DOMAIN call[lock[q]].frames : call[lock[q]].frames[i].on = q
    BY DEF LInv, LocksHeld
  <2>3. lock[q] # a
    BY <2>2, <1>2
  <2> QED
    BY <2>1, <2>2, <2>3, <1>3
<1>6. Grounded'
  BY <1>1 DEF LInv, Grounded
<1> QED
  BY <1>4, <1>5, <1>6 DEF LInv

LEMMA NextLInv == Inv /\ DInv /\ LInv /\ [Next]_vars => LInv'
<1> SUFFICES ASSUME Inv, DInv, LInv, [Next]_vars PROVE LInv'
  OBVIOUS
<1>1. ASSUME NEW a \in Callers, NEW r \in Regions, NEW begin, NEW n, Unmap(a, r, begin, n)
      PROVE  LInv'
  <2> DEFINE todo == {c \in children[r] : Within(c, begin, begin + n)}
  <2>1. todo \in SUBSET children[r] /\ GoDown(a, "unmap", r, todo) /\ UNCHANGED parent
    BY <1>1 DEF Unmap
  <2> HIDE DEF todo
  <2> QED
    BY <2>1, GoDownLInv
<1>2. ASSUME NEW a \in Callers, NEW r \in Regions, Clear(a, r) \/ Destroy(a, r)
      PROVE  LInv'
  <2>1. PICK kind \in {"unmap", "clear", "destroy"} : GoDown(a, kind, r, children[r])
    BY <1>2 DEF Clear, Destroy
  <2>2. UNCHANGED parent
    BY <1>2 DEF Clear, Destroy, shape
  <2> QED
    BY <2>1, <2>2, GoDownLInv
<1>3. ASSUME NEW a \in Callers, NEW r \in Regions, NEW m, NEW begin, NEW n, NEW limits,
             NEW flags, Map(a, r, m, begin, n, limits, flags)
      PROVE  LInv'
  BY <1>3, SameLInv DEF Map
<1>4. ASSUME NEW a \in Callers, NEW r \in Regions, NEW begin, NEW n, NEW flags,
             Protect(a, r, begin, n, flags)
      PROVE  LInv'
  BY <1>4, SameLInv DEF Protect, shape
<1>5. ASSUME NEW a \in Callers, Begin(a) PROVE LInv'
  <2>1. CASE \E r \in Regions : Clear(a, r) \/ Destroy(a, r)
    BY <2>1, <1>2
  <2>2. CASE \E r \in Regions, n \in Lens, begin \in 0 .. Size :
               \/ \E c \in Regions : Allocate(a, r, c, begin, n)
               \/ \E m \in Mappings : \E limits, flags \in Flags :
                     Map(a, r, m, begin, n, limits, flags)
               \/ \E flags \in Flags : Protect(a, r, begin, n, flags)
               \/ Unmap(a, r, begin, n)
    BY <2>2, <1>1, <1>3, <1>4, AllocateLInv
  <2> QED
    BY <1>5, <2>1, <2>2 DEF Begin
<1>6. CASE UNCHANGED vars
  BY <1>6, SameLInv DEF vars
<1> QED
  BY <1>5, <1>6, DescendLInv, FailLInv, LeaveLInv, DetachLInv, ForgetLInv DEF Next

LEMMA Locking == Spec => [](Inv /\ DInv /\ LInv)
<1>1. Inv /\ DInv /\ LInv /\ [Next]_vars => (Inv /\ DInv /\ LInv)'
  BY NextInv, NextDInv, NextLInv
<1> QED
  BY <1>1, InitInv, InitDInv, InitLInv, PTL DEF Spec

\* A caller in a set that waits only for itself wants a lock that the set keeps.
LEMMA WantedIsRegion ==
    ASSUME Inv, DInv, NEW a \in Callers, NEW w \in Wanted(a)
    PROVE  w \in Regions
<1>1. CASE call[a].pc = "walk"
  <2>1. Wanted(a) = call[a].frames[Len(call[a].frames)].todo
    BY <1>1 DEF Wanted
  <2> QED
    BY <2>1, <1>1, TopOf
<1>2. CASE call[a].pc = "detach"
  <2>1. call[a].on \in Regions \ {Root} /\ Made(call[a].on)
    BY <1>2 DEF DInv, CallOK
  <2>2. w = parent[call[a].on]
    BY <1>2 DEF Wanted
  <2> QED
    BY <2>1, <2>2 DEF Made, Inv, TypeOK
<1>3. CASE call[a].pc \notin {"walk", "detach"}
  BY <1>3 DEF Wanted
<1> QED
  BY <1>1, <1>2, <1>3

\* Locks are taken from a region to its child, and a detaching call keeps none:
\* below a region that a waiting set keeps there is another.
LEMMA NobodyWaitsForAll == Inv /\ DInv /\ LInv => NoDeadlock
<1> SUFFICES ASSUME Inv, DInv, LInv,
                    NEW D \in (SUBSET Callers) \ {{}},
                    \A a \in D : Wanted(a) # {} /\ \A r \in Wanted(a) : lock[r] \in D
             PROVE  FALSE
  BY DEF NoDeadlock
<1> DEFINE T == {r \in Regions : lock[r] \in D}
<1>1. T # {}
  <2>1. PICK a \in D : TRUE
    OBVIOUS
  <2>2. PICK w \in Wanted(a) : lock[w] \in D
    BY <2>1
  <2> QED
    BY <2>1, <2>2, WantedIsRegion
<1>2. ASSUME NEW t \in T PROVE \E c \in T : parent[c] = t
  <2>1. PICK b \in D : b = lock[t]
    BY <1>2
  <2>2. b \in Callers /\ lock[t] # None /\ t \in Regions
    BY <2>1, <1>2, NoneAssumption
  <2>3. PICK i \in DOMAIN call[b].frames : call[b].frames[i].on = t
    BY <2>1, <2>2 DEF LInv, LocksHeld
  <2>4. CallOK(b) /\ Chained(b)
    BY <2>2 DEF DInv, LInv
  <2>5. call[b].pc = "walk"
    BY <2>3, <2>4 DEF CallOK
  <2>6. PICK fs \in Seq(Frames) : fs = call[b].frames /\ Len(fs) \in Nat \ {0}
                                    /\ DOMAIN fs = 1 .. Len(fs)
    BY <2>2, <2>5, TopOf
  <2>7. PICK n \in Nat \ {0} : n = Len(fs)
    BY <2>6
  <2>8. i \in 1 .. n
    BY <2>3, <2>6, <2>7
  <2>9. CASE i = n
    <3>1. Wanted(b) = fs[n].todo
      BY <2>5, <2>6, <2>7 DEF Wanted
    <3>2. PICK c \in fs[n].todo : lock[c] \in D
      BY <3>1, <2>1
    <3>3. c \in Regions
      BY <3>1, <3>2, <2>2, WantedIsRegion
    <3>4. parent[c] = t
      BY <3>2, <2>3, <2>4, <2>6, <2>9 DEF Chained, LinkOK
    <3> QED
      BY <3>2, <3>3, <3>4
  <2>10. CASE i # n
    <3>1. i + 1 \in DOMAIN call[b].frames /\ i + 1 # 1 /\ (i + 1) - 1 = i
      BY <2>6, <2>7, <2>8, <2>10
    <3>2. PICK j \in DOMAIN call[b].frames : j # 1 /\ j - 1 = i
      BY <3>1
    <3>3. PICK c : c = call[b].frames[j].on
      OBVIOUS
    <3>4. c \in Regions
      BY <3>2, <3>3, <2>2, FrameOf
    <3>5. lock[c] = b
      BY <3>2, <3>3, <2>4 DEF CallOK, FrameOK
    <3>6. parent[c] = t
      BY <3>2, <3>3, <2>3, <2>4 DEF Chained, LinkOK
    <3> QED
      BY <3>4, <3>5, <3>6, <2>1
  <2> QED
    BY <2>9, <2>10
<1>3. T \in SUBSET Regions
  OBVIOUS
<1> QED
  BY <1>1, <1>2, <1>3 DEF LInv, Grounded

\* However many callers unmap, clear and destroy at once, and whatever the tree:
\* no set of them waits only for locks its own members keep.
THEOREM RegionsFree == Spec => []NoDeadlock
BY Locking, NobodyWaitsForAll, PTL

-----------------------------------------------------------------------------
(* The page table *)

\* What a region has in it: also the children that a call has taken off its
\* list and has still to destroy.
Kids(r) == {c \in Regions : parent[c] = r /\ ~dead[c]}
Inside(r) == Kids(r) \cup mappings[r]

\* From every region one comes up to the root.
UpClosed(S) == \A x \in S : parent[x] \in Regions => parent[x] \in S
Rooted ==
    \A S \in SUBSET Regions : S # {} /\ (\A x \in S : Made(x)) /\ UpClosed(S) => Root \in S

DeadUnmapped == \A r \in Regions : dead[r] => mappings[r] = {}
AliveMade == \A r \in Regions : ~dead[r] => Made(r)

\* While no unmap or clear has failed, the tree of the live regions nests, and
\* the page table is that of the mappings.
KidsApart ==
    \A r \in Regions : ~dead[r] => \A x \in Inside(r) :
        /\ PagesOf(x) \subseteq PagesOf(r)
        /\ \A y \in Inside(r) \ {x} : PagesOf(x) \cap PagesOf(y) = {}
ParentAlive == \A c \in Regions \ {Root} : ~dead[c] => ~dead[parent[c]]
EntryOK(p) ==
    IF table[p] = None THEN \A m \in Mapped : p \notin PagesOf(m)
    ELSE /\ table[p].by \in Mapped
         /\ p \in PagesOf(table[p].by)
         /\ table[p].flags \subseteq limit[table[p].by]
Nested == KidsApart /\ ParentAlive
TableOK == \A p \in Page : EntryOK(p)

PInv == /\ Rooted /\ DeadUnmapped /\ AliveMade
        /\ lost = {} => Nested /\ TableOK

LEMMA InitPInv == Init => PInv
<1> SUFFICES ASSUME Init PROVE PInv
  OBVIOUS
<1>0. /\ \A r \in Regions : parent[r] = None /\ mappings[r] = {} /\ dead[r] = (r # Root)
      /\ \A p \in Page : table[p] = None
  BY DEF Init
<1>1. Rooted
  BY <1>0 DEF Rooted, Made
<1>2. DeadUnmapped /\ AliveMade
  BY <1>0 DEF DeadUnmapped, AliveMade, Made
<1>3. \A r \in Regions : Inside(r) = {}
  BY <1>0, NoneAssumption DEF Inside, Kids
<1>4. KidsApart
  BY <1>3 DEF KidsApart
<1>5. ParentAlive
  BY <1>0 DEF ParentAlive
<1>6. TableOK
  BY <1>0 DEF TableOK, EntryOK, Mapped
<1> QED
  BY <1>1, <1>2, <1>4, <1>5, <1>6 DEF PInv, Nested

\* The pages of a place, by their numbers
LEMMA SpanPages ==
    ASSUME NEW begin \in Nat, NEW n \in Nat, NEW p
    PROVE  p \in Span(begin, n) <=> p \in Nat /\ begin <= p /\ p < begin + n
  BY DEF Span

LEMMA PlacePages ==
    ASSUME Inv, NEW x \in Places, NEW p
    PROVE  p \in PagesOf(x) <=> p \in Nat /\ addr[x] <= p /\ p < End(x)
<1>1. addr[x] \in Nat /\ len[x] \in Nat
  BY DEF Inv, TypeOK
<1> QED
  BY <1>1, SpanPages DEF PagesOf, End

\* What is inside a region is a place.
LEMMA InsidePlaces ==
    ASSUME Inv, NEW r \in Regions
    PROVE  Inside(r) \subseteq Places /\ mappings[r] \cap Regions = {}
             /\ Kids(r) \subseteq Regions
  BY RootIsPlace, PoolAssumption DEF Inv, TypeOK, Inside, Kids

-----------------------------------------------------------------------------
(* Mappings of different regions are apart *)

\* A region and what one comes to from it on the way up
Anc(x) == {z \in Regions : \A S \in SUBSET Regions : x \in S /\ UpClosed(S) => z \in S}

LEMMA AncSelf ==
    ASSUME NEW x \in Regions
    PROVE  x \in Anc(x) /\ UpClosed(Anc(x)) /\ Anc(x) \subseteq Regions
  BY DEF Anc, UpClosed

LEMMA AncLeast ==
    ASSUME NEW x \in Regions, NEW S \in SUBSET Regions, x \in S, UpClosed(S)
    PROVE  Anc(x) \subseteq S
  BY DEF Anc

LEMMA AncDown ==
    ASSUME NEW r \in Regions, NEW y \in Anc(r), y # r
    PROVE  \E k \in Anc(r) : parent[k] = y
<1> SUFFICES ASSUME \A k \in Anc(r) : parent[k] # y PROVE FALSE
  OBVIOUS
<1> DEFINE S == Anc(r) \ {y}
<1>1. S \in SUBSET Regions /\ r \in S
  BY AncSelf
<1>2. UpClosed(S)
  BY AncSelf DEF UpClosed
<1>3. Anc(r) \subseteq S
  BY <1>1, <1>2, AncLeast
<1> QED
  BY <1>3

\* All that is above a live region is alive and has its pages.
LEMMA AncContains ==
    ASSUME Inv, Nested, NEW r \in Regions, ~dead[r], NEW z \in Anc(r)
    PROVE  ~dead[z] /\ PagesOf(r) \subseteq PagesOf(z)
<1> DEFINE S == {x \in Regions : ~dead[x] /\ PagesOf(r) \subseteq PagesOf(x)}
<1>1. S \in SUBSET Regions /\ r \in S
  OBVIOUS
<1>2. ASSUME NEW x \in S, parent[x] \in Regions PROVE parent[x] \in S
  <2>1. PICK y \in Regions : y = parent[x]
    BY <1>2
  <2>2. x # Root
    BY <1>2, NoneAssumption DEF Inv, ListsOK
  <2>3. ~dead[y]
    BY <2>1, <2>2 DEF Nested, ParentAlive
  <2>4. x \in Inside(y)
    BY <2>1 DEF Inside, Kids
  <2>5. PagesOf(x) \subseteq PagesOf(y)
    BY <2>3, <2>4 DEF Nested, KidsApart
  <2> QED
    BY <2>1, <2>3, <2>5
<1>3. UpClosed(S)
  BY <1>2 DEF UpClosed
<1>4. z \in S
  BY <1>1, <1>3, AncLeast
<1> QED
  BY <1>4

\* Below a region lie the pages of a live one, apart from what is mapped there.
LEMMA ApartBelow ==
    ASSUME Inv, Nested, NEW r \in Regions, ~dead[r], NEW s \in Regions, ~dead[s],
           r # s, r \in Anc(s), NEW m \in mappings[r]
    PROVE  PagesOf(m) \cap PagesOf(s) = {}
<1>1. PICK k \in Anc(s) : parent[k] = r
  BY AncDown
<1>2. k \in Regions /\ ~dead[k] /\ PagesOf(s) \subseteq PagesOf(k)
  BY AncSelf, AncContains
<1>3. k \in Inside(r) /\ m \in Inside(r) /\ m # k
  BY <1>1, <1>2, InsidePlaces DEF Inside, Kids
<1>4. PagesOf(m) \cap PagesOf(k) = {}
  BY <1>3 DEF Nested, KidsApart
<1> QED
  BY <1>2, <1>4

\* Two live regions of which neither is above the other are apart.
LEMMA ApartAside ==
    ASSUME Inv, PInv, Nested, NEW r \in Regions, ~dead[r], NEW s \in Regions, ~dead[s],
           r \notin Anc(s), s \notin Anc(r)
    PROVE  PagesOf(r) \cap PagesOf(s) = {}
<1> DEFINE S == Anc(r) \ Anc(s)
<1>1. \A x \in Anc(r) : x \in Regions /\ ~dead[x] /\ Made(x) /\ PagesOf(r) \subseteq PagesOf(x)
  BY AncSelf, AncContains DEF PInv, AliveMade
<1>2. \A x \in Anc(s) : x \in Regions /\ ~dead[x] /\ Made(x) /\ PagesOf(s) \subseteq PagesOf(x)
  BY AncSelf, AncContains DEF PInv, AliveMade
<1>3. Root \in Anc(s)
  <2>1. Anc(s) # {} /\ Anc(s) \in SUBSET Regions /\ UpClosed(Anc(s))
    BY AncSelf
  <2> QED
    BY <2>1, <1>2 DEF PInv, Rooted
<1>4. S # {} /\ S \in SUBSET Regions /\ (\A x \in S : Made(x)) /\ Root \notin S
  BY <1>1, <1>3, AncSelf
<1>5. ~UpClosed(S)
  BY <1>4 DEF PInv, Rooted
<1>6. PICK x \in S : parent[x] \in Regions /\ parent[x] \notin S
  BY <1>5 DEF UpClosed
<1>7. PICK y \in Regions : y = parent[x]
  BY <1>6
<1>8. y \in Anc(r) /\ y \in Anc(s)
  BY <1>6, <1>7, AncSelf DEF UpClosed
<1>9. PICK k \in Anc(s) : parent[k] = y
  BY <1>8, AncDown
<1>10. x \in Inside(y) /\ k \in Inside(y) /\ x # k
  BY <1>1, <1>2, <1>6, <1>7, <1>9 DEF Inside, Kids
<1>11. PagesOf(x) \cap PagesOf(k) = {}
  BY <1>1, <1>8, <1>10 DEF Nested, KidsApart
<1> QED
  BY <1>1, <1>2, <1>6, <1>9, <1>11

LEMMA MappedApart ==
    ASSUME Inv, PInv, Nested, NEW m \in Mapped, NEW o \in Mapped, m # o
    PROVE  PagesOf(m) \cap PagesOf(o) = {}
<1>1. PICK r \in Regions : m \in mappings[r]
  BY DEF Mapped
<1>2. PICK s \in Regions : o \in mappings[s]
  BY DEF Mapped
<1>3. ~dead[r] /\ ~dead[s]
  BY <1>1, <1>2 DEF PInv, DeadUnmapped
<1>4. PagesOf(m) \subseteq PagesOf(r) /\ PagesOf(o) \subseteq PagesOf(s)
  BY <1>1, <1>2, <1>3 DEF Nested, KidsApart, Inside
<1>5. CASE r = s
  BY <1>1, <1>2, <1>3, <1>5 DEF Nested, KidsApart, Inside
<1>6. CASE r # s /\ r \in Anc(s)
  <2>1. PagesOf(m) \cap PagesOf(s) = {}
    BY <1>1, <1>3, <1>6, ApartBelow
  <2> QED
    BY <2>1, <1>4
<1>7. CASE r # s /\ s \in Anc(r)
  <2>1. PagesOf(o) \cap PagesOf(r) = {}
    BY <1>2, <1>3, <1>7, ApartBelow
  <2> QED
    BY <2>1, <1>4
<1>8. CASE r \notin Anc(s) /\ s \notin Anc(r)
  <2>1. PagesOf(r) \cap PagesOf(s) = {}
    BY <1>3, <1>8, ApartAside
  <2> QED
    BY <2>1, <1>4
<1> QED
  BY <1>5, <1>6, <1>7, <1>8

-----------------------------------------------------------------------------
(* The children that are not on a list *)

\* A live child is on its parent's list, or a call works on the parent and has
\* it in hand.
LEMMA KidsReach ==
    ASSUME Inv, DInv, LInv, lost = {}, NEW r \in Regions, NEW c \in Kids(r)
    PROVE  \/ c \in children[r]
           \/ \E b \in Callers : \E i \in DOMAIN call[b].frames :
                /\ call[b].frames[i].on = r
                /\ \/ c \in call[b].frames[i].todo
                   \/ i + 1 \in DOMAIN call[b].frames
<1>1. c \in Regions /\ parent[c] = r /\ ~dead[c]
  BY DEF Kids
<1>2. c # Root
  BY <1>1, NoneAssumption DEF Inv, ListsOK
<1>3. (\E q \in Regions : c \in children[q]) \/ \E b \in Callers : c \in Owed(b)
  BY <1>1, <1>2 DEF DInv, LiveIsReachable, Alive
<1>4. CASE \E q \in Regions : c \in children[q]
  BY <1>1, <1>4 DEF Inv, ListsOK
<1>5. CASE \E b \in Callers : c \in Owed(b)
  <2>1. PICK b \in Callers : c \in Owed(b)
    BY <1>5
  <2>2. PICK i \in DOMAIN call[b].frames :
            c \in call[b].frames[i].todo \/ (i # 1 /\ c = call[b].frames[i].on)
    BY <2>1 DEF Owed
  <2>3. LinkOK(b, i)
    BY DEF LInv, Chained
  <2>4. CASE c \in call[b].frames[i].todo
    BY <2>3, <2>4, <1>1 DEF LinkOK
  <2>5. CASE i # 1 /\ c = call[b].frames[i].on
    <3>1. call[b].frames \in Seq(Frames)
      BY CallTypes DEF Inv
    <3>2. PICK j \in DOMAIN call[b].frames : j = i - 1
      BY <3>1, <2>5
    <3>3. j + 1 \in DOMAIN call[b].frames
      BY <3>1, <3>2
    <3>4. call[b].frames[j].on = r
      BY <2>3, <2>5, <3>2, <1>1 DEF LinkOK
    <3> QED
      BY <3>3, <3>4
  <2> QED
    BY <2>2, <2>4, <2>5
<1> QED
  BY <1>3, <1>4, <1>5

\* Who has the lock of a region finds all its children on the list.
LEMMA FreeKids ==
    ASSUME Inv, DInv, LInv, lost = {}, NEW r \in Regions, Free(r)
    PROVE  Inside(r) \subseteq Members(r)
<1>1. ASSUME NEW c \in Kids(r) PROVE c \in children[r]
  <2>1. ASSUME NEW b \in Callers, NEW i \in DOMAIN call[b].frames, call[b].frames[i].on = r
        PROVE  FALSE
    <3>1. lock[r] = b
      BY <2>1 DEF DInv, CallOK, FrameOK
    <3> QED
      BY <3>1, NoneAssumption DEF Free
  <2> QED
    BY <2>1, KidsReach
<1> QED
  BY <1>1 DEF Inside, Members

\* When the loop of destroy_internal ends, no live child is left.
LEMMA NoKidsLeft ==
    ASSUME Inv, DInv, LInv, lost = {}, NEW a \in Callers, NEW n \in DOMAIN call[a].frames,
           n + 1 \notin DOMAIN call[a].frames,
           call[a].frames[n].kind = "destroy", call[a].frames[n].todo = {}
    PROVE  Kids(call[a].frames[n].on) = {}
<1>1. PICK r \in Regions : r = call[a].frames[n].on
  BY FrameOf
<1>2. CallOK(a) /\ FrameOK(a, n)
  BY DEF DInv, CallOK
<1>3. lock[r] = a /\ children[r] = {}
  BY <1>1, <1>2 DEF FrameOK
<1>4. ASSUME NEW b \in Callers, NEW i \in DOMAIN call[b].frames, call[b].frames[i].on = r
      PROVE  b = a /\ i = n
  <2>1. lock[r] = b
    BY <1>4 DEF DInv, CallOK, FrameOK
  <2>2. b = a
    BY <2>1, <1>3
  <2> QED
    BY <2>2, <1>1, <1>2, <1>4 DEF CallOK
<1>5. ASSUME NEW c \in Kids(r) PROVE FALSE
  <2>1. \E b \in Callers : \E i \in DOMAIN call[b].frames :
                /\ call[b].frames[i].on = r
                /\ \/ c \in call[b].frames[i].todo
                   \/ i + 1 \in DOMAIN call[b].frames
    BY <1>3, <1>5, KidsReach
  <2> QED
    BY <2>1, <1>4
<1> QED
  BY <1>1, <1>5

-----------------------------------------------------------------------------
(* The steps *)

\* Steps that leave the tree, the places and the table alone; a call may fail.
LEMMA SamePInv ==
    ASSUME PInv, UNCHANGED <<parent, addr, len, dead, mappings, limit, table>>,
           lost \subseteq lost'
    PROVE  PInv'
<1>0. Made(Root)' = Made(Root) /\ Mapped' = Mapped /\ (\A x : Made(x)' = Made(x))
        /\ (\A x : PagesOf(x)' = PagesOf(x)) /\ (\A r : Inside(r)' = Inside(r))
  BY DEF Made, Mapped, PagesOf, Inside, Kids
<1>1. Rooted' /\ DeadUnmapped' /\ AliveMade'
  BY <1>0 DEF PInv, Rooted, DeadUnmapped, AliveMade, UpClosed
<1>2. ASSUME lost' = {} PROVE KidsApart' /\ ParentAlive' /\ TableOK'
  <2>1. Nested /\ TableOK
    BY <1>2 DEF PInv
  <2> QED
    BY <2>1, <1>0 DEF Nested, KidsApart, ParentAlive, TableOK, EntryOK
<1> QED
  BY <1>1, <1>2 DEF PInv, Nested

\* The pages of a region nest and keep apart when a place comes into it.
LEMMA KidsGrow ==
    ASSUME Inv, DInv, LInv, KidsApart, lost = {},
           NEW r \in Regions, NEW x \in Places, NEW begin \in Nat, NEW n \in Nat,
           Free(r), Determined(r, begin, n), r # x,
           x \in Regions => Inside(x)' = {},
           \A q \in Regions : x \notin Inside(q),
           \A q \in Regions \ {x} : dead'[q] = dead[q],
           \A q \in Regions \ {r, x} : Inside(q)' \subseteq Inside(q),
           Inside(r)' \subseteq Inside(r) \cup {x},
           addr' = [addr EXCEPT ![x] = begin],
           len' = [len EXCEPT ![x] = n]
    PROVE  KidsApart'
<1>t. addr \in [Places -> Nat] /\ len \in [Places -> Nat] /\ Regions \subseteq Places
  BY RootIsPlace DEF Inv, TypeOK
<1>1. addr'[x] = begin /\ len'[x] = n
        /\ \A y \in Places \ {x} : addr'[y] = addr[y] /\ len'[y] = len[y]
  BY <1>t
<1>2. PagesOf(x)' = Span(begin, n)
  BY <1>1 DEF PagesOf, Span
<1>3. \A y \in Places \ {x} : PagesOf(y)' = PagesOf(y)
  BY <1>1 DEF PagesOf, Span
<1>4. Span(begin, n) \subseteq PagesOf(r)
  <2>1. begin >= addr[r] /\ begin + n <= End(r)
    BY DEF Determined, TestMap
  <2>2. addr[r] \in Nat /\ End(r) \in Nat
    BY <1>t DEF End
  <2>3. ASSUME NEW p \in Span(begin, n) PROVE p \in PagesOf(r)
    BY <2>1, <2>2, <1>t, SpanPages, PlacePages, SMTT(30)
  <2> QED
    BY <2>3
<1>5. ASSUME NEW y \in Inside(r) PROVE Span(begin, n) \cap PagesOf(y) = {}
  <2>1. y \in Members(r) /\ y \in Places
    BY FreeKids, InsidePlaces
  <2>2. ~Overlap(y, begin, begin + n)
    BY <2>1 DEF Determined, TestMap
  <2>3. addr[y] >= begin + n \/ End(y) <= begin
    BY <2>2 DEF Overlap
  <2>4. addr[y] \in Nat /\ End(y) \in Nat
    BY <2>1, <1>t DEF End
  <2>5. ASSUME NEW p \in Span(begin, n), p \in PagesOf(y) PROVE FALSE
    BY <2>1, <2>3, <2>4, <2>5, SpanPages, PlacePages
  <2> QED
    BY <2>5
<1>6. \A q \in Regions : Inside(q) \subseteq Places \ {x}
  BY InsidePlaces
<1> SUFFICES ASSUME NEW q \in Regions, ~dead'[q], NEW y \in Inside(q)'
             PROVE  /\ PagesOf(y)' \subseteq PagesOf(q)'
                    /\ \A z \in Inside(q)' \ {y} : PagesOf(y)' \cap PagesOf(z)' = {}
  BY DEF KidsApart
<1>7. q # x /\ ~dead[q] /\ PagesOf(q)' = PagesOf(q)
  BY <1>3, <1>t
<1>8. /\ y \in Inside(q) \/ (q = r /\ y = x)
      /\ \A z \in Inside(q)' : z \in Inside(q) \/ (q = r /\ z = x)
  BY <1>7
<1>9. CASE y \in Inside(q)
  <2>1. PagesOf(y) \subseteq PagesOf(q) /\ PagesOf(y)' = PagesOf(y)
    BY <1>3, <1>6, <1>7, <1>9 DEF KidsApart
  <2>2. ASSUME NEW z \in Inside(q)' \ {y} PROVE PagesOf(y)' \cap PagesOf(z)' = {}
    <3>1. CASE z \in Inside(q)
      BY <3>1, <2>1, <1>3, <1>6, <1>7, <1>9 DEF KidsApart
    <3>2. CASE q = r /\ z = x
      BY <3>2, <2>1, <1>2, <1>5, <1>9
    <3> QED
      BY <3>1, <3>2, <1>8
  <2> QED
    BY <2>1, <2>2, <1>7
<1>10. CASE q = r /\ y = x
  <2>1. PagesOf(y)' \subseteq PagesOf(q)'
    BY <1>2, <1>4, <1>7, <1>10
  <2>2. ASSUME NEW z \in Inside(q)' \ {y} PROVE PagesOf(y)' \cap PagesOf(z)' = {}
    <3>1. z \in Inside(r) /\ PagesOf(z)' = PagesOf(z)
      BY <1>3, <1>6, <1>8, <1>10
    <3> QED
      BY <3>1, <1>2, <1>5, <1>10
  <2> QED
    BY <2>1, <2>2
<1> QED
  BY <1>8, <1>9, <1>10

LEMMA AllocatePInv ==
    ASSUME Inv, DInv, LInv, PInv, NEW a \in Callers, NEW r \in Regions, NEW c \in Regions,
           NEW begin \in Nat, NEW n \in Nat, Allocate(a, r, c, begin, n)
    PROVE  PInv'
<1>1. /\ Made(r) /\ Free(r) /\ ~dead[r] /\ ~Made(c) /\ Determined(r, begin, n)
      /\ parent' = [parent EXCEPT ![c] = r]
      /\ addr' = [addr EXCEPT ![c] = begin]
      /\ len' = [len EXCEPT ![c] = n]
      /\ dead' = [dead EXCEPT ![c] = FALSE]
      /\ UNCHANGED <<mappings, limit, table, lost>>
  BY DEF Allocate, Alive
<1>2. /\ r # c /\ c # Root /\ parent'[c] = r /\ ~dead'[c] /\ parent[c] = None
      /\ \A q \in Regions \ {c} : parent'[q] = parent[q] /\ dead'[q] = dead[q]
  BY <1>1 DEF Inv, TypeOK, Made
<1>3. \A q \in Regions : parent[q] # c
  BY <1>1, NoneAssumption DEF Inv, ListsOK
<1>4. mappings[c] = {} /\ dead[c]
  BY <1>1 DEF Inv, ListsOK, PInv, AliveMade
<1>5. Rooted'
  <2> SUFFICES ASSUME NEW S \in SUBSET Regions, S # {}, \A x \in S : Made(x)', UpClosed(S)'
               PROVE  Root \in S
    BY DEF Rooted
  <2> DEFINE R == S \ {c}
  <2>1. c \in S => r \in S
    BY <1>2 DEF UpClosed
  <2>2. R # {} /\ R \in SUBSET Regions /\ \A x \in R : Made(x)
    BY <2>1, <1>2 DEF Made
  <2>3. UpClosed(R)
    BY <1>2, <1>3 DEF UpClosed
  <2> QED
    BY <2>2, <2>3 DEF PInv, Rooted
<1>6. DeadUnmapped'
  BY <1>1, <1>2 DEF PInv, DeadUnmapped
<1>7. AliveMade'
  BY <1>2, NoneAssumption DEF PInv, AliveMade, Made
<1>8. ASSUME lost' = {} PROVE KidsApart' /\ ParentAlive' /\ TableOK'
  <2>1. lost = {} /\ KidsApart /\ ParentAlive /\ TableOK
    BY <1>1, <1>8 DEF PInv, Nested
  <2>2. Inside(c)' = {}
    BY <1>1, <1>2, <1>3, <1>4 DEF Inside, Kids
  <2>3. \A q \in Regions : c \notin Inside(q)
    BY <1>2, <1>3, NoneAssumption, InsidePlaces DEF Inside, Kids
  <2>4. \A q \in Regions \ {r, c} : Inside(q)' \subseteq Inside(q)
    BY <1>1, <1>2 DEF Inside, Kids
  <2>5. Inside(r)' \subseteq Inside(r) \cup {c}
    BY <1>1, <1>2 DEF Inside, Kids
  <2>6. KidsApart'
    BY <2>1, <2>2, <2>3, <2>4, <2>5, <1>1, <1>2, KidsGrow, RootIsPlace
  <2>7. ParentAlive'
    <3> SUFFICES ASSUME NEW x \in Regions \ {Root}, ~dead'[x] PROVE ~dead'[parent'[x]]
      BY DEF ParentAlive
    <3>1. CASE x = c
      BY <3>1, <1>1, <1>2
    <3>2. CASE x # c
      <4>1. Made(x) /\ ~dead[x]
        BY <3>2, <1>2 DEF PInv, AliveMade
      <4>2. parent[x] \in Regions \ {c} /\ parent'[x] = parent[x]
        BY <4>1, <3>2, <1>2, <1>3 DEF Made, Inv, TypeOK
      <4> QED
        BY <4>1, <4>2, <2>1, <1>2 DEF ParentAlive
    <3> QED
      BY <3>1, <3>2
  <2>8. \A m \in Mapped : PagesOf(m)' = PagesOf(m)
    <3>1. Mapped \subseteq Places \ {c}
      BY InsidePlaces, RootIsPlace DEF Mapped, Inside
    <3>2. \A y \in Places \ {c} : addr'[y] = addr[y] /\ len'[y] = len[y]
      BY <1>1 DEF Inv, TypeOK
    <3> QED
      BY <3>1, <3>2 DEF PagesOf, Span
  <2>9. TableOK'
    <3>1. Mapped' = Mapped
      BY <1>1 DEF Mapped
    <3> QED
      BY <3>1, <2>1, <2>8, <1>1 DEF TableOK, EntryOK
  <2> QED
    BY <2>6, <2>7, <2>9
<1> QED
  BY <1>5, <1>6, <1>7, <1>8 DEF PInv, Nested

LEMMA MapPInv ==
    ASSUME Inv, DInv, LInv, PInv, NEW a \in Callers, NEW r \in Regions, NEW m \in Mappings,
           NEW begin \in Nat, NEW n \in Nat, NEW limits, NEW flags \in Flags,
           Map(a, r, m, begin, n, limits, flags)
    PROVE  PInv'
<1>1. /\ Free(r) /\ ~dead[r] /\ Determined(r, begin, n) /\ m \notin Mapped
      /\ flags \subseteq limits
      /\ addr' = [addr EXCEPT ![m] = begin]
      /\ len' = [len EXCEPT ![m] = n]
      /\ limit' = [limit EXCEPT ![m] = limits]
      /\ mappings' = [mappings EXCEPT ![r] = @ \cup {m}]
      /\ table' = [p \in Page |-> IF p \in Span(begin, n)
                                  THEN [by |-> m, flags |-> flags] ELSE table[p]]
      /\ UNCHANGED <<parent, dead, lost>>
  BY DEF Map, Alive, Permits
<1>2. /\ mappings'[r] = mappings[r] \cup {m}
      /\ \A q \in Regions \ {r} : mappings'[q] = mappings[q]
  BY <1>1 DEF Inv, TypeOK
<1>3. Mapped' = Mapped \cup {m}
  BY <1>2 DEF Mapped
<1>4. Rooted' /\ AliveMade'
  BY <1>1 DEF PInv, Rooted, AliveMade, UpClosed, Made
<1>5. DeadUnmapped'
  BY <1>1, <1>2 DEF PInv, DeadUnmapped
<1>6. ASSUME lost' = {} PROVE KidsApart' /\ ParentAlive' /\ TableOK'
  <2>1. lost = {} /\ KidsApart /\ ParentAlive /\ TableOK
    BY <1>1, <1>6 DEF PInv, Nested
  <2>2. m \notin Regions /\ m \in Places /\ r # m
    BY PoolAssumption, RootIsPlace
  <2>3. \A q \in Regions : m \notin Inside(q)
    BY <2>2, <1>1 DEF Inside, Kids, Mapped
  <2>4. \A q \in Regions : Kids(q)' = Kids(q)
    BY <1>1 DEF Kids
  <2>5. /\ \A q \in Regions \ {r, m} : Inside(q)' \subseteq Inside(q)
        /\ Inside(r)' \subseteq Inside(r) \cup {m}
    BY <2>4, <1>2 DEF Inside
  <2>6. KidsApart'
    BY <2>1, <2>2, <2>3, <2>5, <1>1, KidsGrow
  <2>7. ParentAlive'
    BY <2>1, <1>1 DEF ParentAlive
  <2>8. Mapped \subseteq Places \ {m} /\ Mapped \subseteq Mappings
    BY <1>1, RootIsPlace, SMTT(30) DEF Mapped, Inv, TypeOK
  <2>9. \A o \in Mapped : PagesOf(o)' = PagesOf(o) /\ limit'[o] = limit[o] /\ o # m
    BY <2>8, <1>1 DEF PagesOf, Span, Inv, TypeOK
  <2>10. PagesOf(m)' = Span(begin, n) /\ limit'[m] = limits
    BY <2>2, <1>1 DEF PagesOf, Span, Inv, TypeOK
  <2>11. ASSUME NEW p \in Page PROVE EntryOK(p)'
    <3>0. EntryOK(p)
      BY <2>1 DEF TableOK
    <3>1. CASE p \in Span(begin, n)
      <4>1. table'[p] = [by |-> m, flags |-> flags]
        BY <3>1, <1>1
      <4>2. table'[p].by = m /\ table'[p].flags = flags
        BY <4>1
      <4>3. [by |-> m, flags |-> flags] \in [by : Mappings, flags : Flags]
        OBVIOUS
      <4>4. table'[p] # None
        BY <4>1, <4>3, NoneAssumption
      <4> QED
        BY <4>2, <4>4, <3>1, <1>1, <1>3, <2>10 DEF EntryOK
    <3>2. CASE p \notin Span(begin, n)
      <4>1. table'[p] = table[p]
        BY <3>2, <1>1
      <4>2. CASE table[p] = None
        BY <4>1, <4>2, <3>0, <3>2, <1>3, <2>9, <2>10 DEF EntryOK
      <4>3. CASE table[p] # None
        BY <4>1, <4>3, <3>0, <1>3, <2>9 DEF EntryOK
      <4> QED
        BY <4>2, <4>3
    <3> QED
      BY <3>1, <3>2
  <2> QED
    BY <2>6, <2>7, <2>11 DEF TableOK
<1> QED
  BY <1>4, <1>5, <1>6 DEF PInv, Nested

\* A region that is forgotten while no call has failed was destroyed before.
LEMMA ForgetPInv ==
    ASSUME Inv, DInv, LInv, PInv, NEW r \in Regions, Forget(r)
    PROVE  PInv'
<1>1. /\ r # Root
      /\ \A s \in Regions : r \notin children[s] /\ parent[s] # r
      /\ \A b \in Callers : r \notin Handled(b)
      /\ parent' = [parent EXCEPT ![r] = None]
      /\ dead' = [dead EXCEPT ![r] = TRUE]
      /\ mappings' = [mappings EXCEPT ![r] = {}]
      /\ table' = Unmapped(mappings[r])
      /\ limit' = Gone(limit, mappings[r], {})
      /\ addr' = Gone(addr, mappings[r] \cup {r}, 0)
      /\ len' = Gone(len, mappings[r] \cup {r}, 0)
      /\ UNCHANGED lost
  BY DEF Forget
<1>2. /\ dead'[r] /\ parent'[r] = None /\ mappings'[r] = {}
      /\ \A q \in Regions \ {r} : /\ parent'[q] = parent[q] /\ dead'[q] = dead[q]
                                  /\ mappings'[q] = mappings[q]
  BY <1>1 DEF Inv, TypeOK
<1>3. Rooted'
  <2> SUFFICES ASSUME NEW S \in SUBSET Regions, S # {}, \A x \in S : Made(x)', UpClosed(S)'
               PROVE  Root \in S
    BY DEF Rooted
  <2>1. r \notin S
    BY <1>1, <1>2 DEF Made
  <2>2. (\A x \in S : Made(x)) /\ UpClosed(S)
    BY <2>1, <1>2 DEF Made, UpClosed
  <2> QED
    BY <2>2 DEF PInv, Rooted
<1>4. DeadUnmapped' /\ AliveMade'
  BY <1>2 DEF PInv, DeadUnmapped, AliveMade, Made
<1>5. ASSUME lost' = {} PROVE KidsApart' /\ ParentAlive' /\ TableOK'
  <2>1. lost = {} /\ KidsApart /\ ParentAlive /\ TableOK
    BY <1>1, <1>5 DEF PInv, Nested
  <2>2. dead[r]
    <3>1. \A b \in Callers : r \notin Owed(b)
      BY <1>1 DEF Handled
    <3> QED
      BY <3>1, <2>1, <1>1 DEF DInv, LiveIsReachable, Alive
  <2>3. mappings[r] = {}
    BY <2>2 DEF PInv, DeadUnmapped
  <2>4. table' = table
    BY <2>3, <1>1 DEF Unmapped, Inv, TypeOK
  <2>5. \A m \in Mappings : limit'[m] = limit[m]
    BY <2>3, <1>1 DEF Gone, Inv, TypeOK
  <2>6. \A x \in Places \ {r} : PagesOf(x)' = PagesOf(x)
    BY <2>3, <1>1 DEF Gone, Inv, TypeOK, PagesOf, Span
  <2>7. \A q \in Regions \ {r} : Inside(q)' \subseteq Inside(q) /\ Inside(q)' \subseteq Places \ {r}
    BY <1>2, InsidePlaces DEF Inside, Kids
  <2>8. KidsApart'
    <3> SUFFICES ASSUME NEW q \in Regions, ~dead'[q], NEW x \in Inside(q)'
                 PROVE  /\ PagesOf(x)' \subseteq PagesOf(q)'
                        /\ \A y \in Inside(q)' \ {x} : PagesOf(x)' \cap PagesOf(y)' = {}
      BY DEF KidsApart
    <3>1. q # r /\ ~dead[q] /\ q \in Places
      BY <1>2, RootIsPlace
    <3>2. PagesOf(q)' = PagesOf(q) /\ \A y \in Inside(q)' : PagesOf(y)' = PagesOf(y)
      BY <3>1, <2>6, <2>7
    <3>3. /\ PagesOf(x) \subseteq PagesOf(q)
          /\ \A y \in Inside(q)' \ {x} : PagesOf(x) \cap PagesOf(y) = {}
      BY <3>1, <2>1, <2>7 DEF KidsApart
    <3> QED
      BY <3>2, <3>3
  <2>9. ParentAlive'
    <3> SUFFICES ASSUME NEW x \in Regions \ {Root}, ~dead'[x] PROVE ~dead'[parent'[x]]
      BY DEF ParentAlive
    <3>1. x # r /\ ~dead[x] /\ parent'[x] = parent[x] /\ parent[x] # r
      BY <1>1, <1>2
    <3>2. parent[x] \in Regions
      BY <3>1 DEF PInv, AliveMade, Made, Inv, TypeOK
    <3> QED
      BY <3>1, <3>2, <2>1, <1>2 DEF ParentAlive
  <2>10. Mapped' = Mapped
    BY <2>3, <1>2 DEF Mapped
  <2>11. \A m \in Mapped : m \in Mappings /\ PagesOf(m)' = PagesOf(m)
    <3>1. \A m \in Mapped : m \in Mappings /\ m \in Places \ {r}
      BY PoolAssumption, RootIsPlace DEF Mapped, Inv, TypeOK
    <3> QED
      BY <3>1, <2>6
  <2>12. TableOK'
    BY <2>1, <2>4, <2>5, <2>10, <2>11 DEF TableOK, EntryOK
  <2> QED
    BY <2>8, <2>9, <2>12
<1> QED
  BY <1>3, <1>4, <1>5 DEF PInv, Nested

\* Mappings that are dropped take their pages with them and nobody else's.
LEMMA DropPInv ==
    ASSUME Inv, PInv, NEW r \in Regions, NEW ms \in SUBSET mappings[r], Drop(ms),
           mappings' = [mappings EXCEPT ![r] = @ \ ms],
           \A q \in Regions \ {r} : dead'[q] = dead[q],
           dead[r] => dead'[r],
           dead'[r] => mappings[r] \ ms = {},
           dead'[r] /\ ~dead[r] /\ lost = {} => Kids(r) = {},
           UNCHANGED <<parent, lost>>
    PROVE  PInv'
<1>1. ms \in SUBSET Mappings /\ ms \in SUBSET Places /\ ms \cap Regions = {}
  BY RootIsPlace, PoolAssumption DEF Inv, TypeOK
<1>2. /\ mappings'[r] = mappings[r] \ ms
      /\ \A q \in Regions \ {r} : mappings'[q] = mappings[q] /\ mappings[q] \cap ms = {}
  BY DEF Inv, TypeOK, ListsOK
<1>3. \A q \in Regions : dead[q] => dead'[q]
  OBVIOUS
<1>4. Rooted'
  BY DEF PInv, Rooted, UpClosed, Made
<1>5. DeadUnmapped'
  BY <1>2 DEF PInv, DeadUnmapped
<1>6. AliveMade'
  BY <1>3 DEF PInv, AliveMade, Made
<1>7. ASSUME lost' = {} PROVE KidsApart' /\ ParentAlive' /\ TableOK'
  <2>1. lost = {} /\ Nested /\ KidsApart /\ ParentAlive /\ TableOK
    BY <1>7 DEF PInv, Nested
  <2>2. \A x \in Places \ ms : PagesOf(x)' = PagesOf(x)
    BY <1>1, PlacesGo DEF Inv, Drop, PagesOf, Span
  <2>3. \A q \in Regions : Inside(q)' \subseteq Inside(q) /\ Inside(q)' \subseteq Places \ ms
    <3> SUFFICES ASSUME NEW q \in Regions
                 PROVE  Inside(q)' \subseteq Inside(q) /\ Inside(q)' \subseteq Places \ ms
      OBVIOUS
    <3>1. Kids(q)' \subseteq Kids(q) /\ Kids(q) \subseteq Regions
      BY <1>3 DEF Kids
    <3>2. mappings'[q] \subseteq mappings[q] \ ms
      BY <1>2
    <3>3. Inside(q) \subseteq Places
      BY InsidePlaces
    <3> QED
      BY <3>1, <3>2, <3>3, <1>1 DEF Inside
  <2>4. KidsApart'
    <3> SUFFICES ASSUME NEW q \in Regions, ~dead'[q], NEW x \in Inside(q)'
                 PROVE  /\ PagesOf(x)' \subseteq PagesOf(q)'
                        /\ \A y \in Inside(q)' \ {x} : PagesOf(x)' \cap PagesOf(y)' = {}
      BY DEF KidsApart
    <3>1. q \in Places \ ms /\ ~dead[q]
      BY <1>1, <1>3, RootIsPlace
    <3>2. PagesOf(q)' = PagesOf(q) /\ \A y \in Inside(q)' : PagesOf(y)' = PagesOf(y)
      BY <3>1, <2>2, <2>3
    <3>3. /\ PagesOf(x) \subseteq PagesOf(q)
          /\ \A y \in Inside(q)' \ {x} : PagesOf(x) \cap PagesOf(y) = {}
      BY <3>1, <2>1, <2>3 DEF KidsApart
    <3> QED
      BY <3>2, <3>3
  <2>5. ParentAlive'
    <3> SUFFICES ASSUME NEW x \in Regions \ {Root}, ~dead'[x] PROVE ~dead'[parent[x]]
      BY DEF ParentAlive
    <3>1. ~dead[x] /\ ~dead[parent[x]]
      BY <2>1, <1>3 DEF ParentAlive
    <3>2. parent[x] \in Regions
      BY <3>1 DEF PInv, AliveMade, Made, Inv, TypeOK
    <3>3. CASE parent[x] = r
      BY <3>1, <3>3, <2>1 DEF Kids
    <3>4. CASE parent[x] # r
      BY <3>1, <3>2, <3>4
    <3> QED
      BY <3>3, <3>4
  <2>6. Mapped' = Mapped \ ms
    BY <1>2 DEF Mapped
  <2>7. \A m \in Mapped \ ms : PagesOf(m)' = PagesOf(m) /\ limit'[m] = limit[m]
    <3>1. \A m \in Mapped \ ms : m \in Mappings /\ m \in Places \ ms
      BY RootIsPlace DEF Mapped, Inv, TypeOK
    <3>2. \A m \in Mappings \ ms : limit'[m] = limit[m]
      BY DEF Drop, Gone, Inv, TypeOK
    <3> QED
      BY <3>1, <3>2, <2>2
  <2>8. ASSUME NEW p \in Page PROVE EntryOK(p)'
    <3>0. EntryOK(p)
      BY <2>1 DEF TableOK
    <3>1. CASE \E m \in ms : p \in PagesOf(m)
      <4>1. table'[p] = None
        BY <3>1 DEF Drop, Unmapped
      <4>2. PICK m \in ms : p \in PagesOf(m)
        BY <3>1
      <4>3. m \in Mapped
        BY DEF Mapped
      <4>4. \A o \in Mapped \ ms : p \notin PagesOf(o)
        BY <4>2, <4>3, <2>1, MappedApart
      <4> QED
        BY <4>1, <4>4, <2>6, <2>7 DEF EntryOK
    <3>2. CASE ~\E m \in ms : p \in PagesOf(m)
      <4>1. table'[p] = table[p]
        BY <3>2 DEF Drop, Unmapped
      <4>2. CASE table[p] = None
        BY <4>1, <4>2, <3>0, <2>6, <2>7 DEF EntryOK
      <4>3. CASE table[p] # None
        BY <4>1, <4>3, <3>0, <3>2, <2>6, <2>7 DEF EntryOK
      <4> QED
        BY <4>2, <4>3
    <3> QED
      BY <3>1, <3>2
  <2> QED
    BY <2>4, <2>5, <2>8 DEF TableOK
<1> QED
  BY <1>4, <1>5, <1>6, <1>7 DEF PInv, Nested

LEMMA UnmapPInv ==
    ASSUME Inv, PInv, NEW a \in Callers, NEW r \in Regions, NEW begin \in Nat, NEW n \in Nat,
           Unmap(a, r, begin, n)
    PROVE  PInv'
<1> DEFINE within == {m \in mappings[r] : Within(m, begin, begin + n)}
<1>1. /\ within \in SUBSET mappings[r]
      /\ mappings' = [mappings EXCEPT ![r] = @ \ within]
      /\ Drop(within)
      /\ ~dead[r]
      /\ UNCHANGED <<parent, dead, lost>>
  BY DEF Unmap, GoDown, Alive
<1> HIDE DEF within
<1> QED
  BY <1>1, DropPInv

LEMMA LeavePInv ==
    ASSUME Inv, DInv, LInv, PInv, NEW a \in Callers, Leave(a)
    PROVE  PInv'
<1>0. call[a].pc = "walk" /\ UNCHANGED <<parent, children, lost>>
  BY DEF Leave
<1>1. PICK fs \in Seq(Frames) : fs = call[a].frames /\ fs # <<>> /\ Len(fs) \in Nat \ {0}
                                  /\ DOMAIN fs = 1 .. Len(fs)
  BY <1>0, TopOf
<1>2. PICK n \in Nat \ {0} : n = Len(fs)
  BY <1>1
<1>3. PICK r \in Regions : r = fs[n].on
  BY <1>0, <1>1, <1>2, TopOf
<1>4. PICK ms \in SUBSET mappings[r] : ms = Dropped(fs[n])
  BY <1>3 DEF Dropped
<1>5. /\ fs[n].todo = {}
      /\ mappings' = [mappings EXCEPT ![r] = @ \ ms]
      /\ Drop(ms)
      /\ dead' = [dead EXCEPT ![r] = @ \/ fs[n].kind = "destroy"]
  BY <1>1, <1>2, <1>3, <1>4 DEF Leave
<1>6. /\ dead'[r] = (dead[r] \/ fs[n].kind = "destroy")
      /\ \A q \in Regions \ {r} : dead'[q] = dead[q]
  BY <1>5 DEF Inv, TypeOK
<1>7. n \in DOMAIN call[a].frames /\ n + 1 \notin DOMAIN call[a].frames
  BY <1>1, <1>2
<1>8. ~dead[r]
  BY <1>1, <1>3, <1>7 DEF DInv, CallOK, FrameOK
<1>9. dead'[r] => mappings[r] \ ms = {}
  BY <1>3, <1>4, <1>6, <1>8 DEF Dropped
<1>10. dead'[r] /\ lost = {} => Kids(r) = {}
  BY <1>1, <1>3, <1>5, <1>6, <1>7, <1>8, NoKidsLeft
<1> QED
  BY <1>0, <1>5, <1>6, <1>9, <1>10, DropPInv

LEMMA ProtectPInv ==
    ASSUME Inv, PInv, NEW a \in Callers, NEW r \in Regions, NEW begin \in Nat, NEW n \in Nat,
           NEW flags \in Flags, Protect(a, r, begin, n, flags)
    PROVE  PInv'
<1> DEFINE touched == {m \in mappings[r] : Overlap(m, begin, begin + n)}
           range == Span(begin, n)
<1>1. /\ \A p \in range : \E m \in touched : p \in PagesOf(m)
      /\ \A m \in touched : flags \subseteq limit[m]
      /\ table' = [p \in Page |->
             IF p \in range /\ table[p] # None THEN [table[p] EXCEPT !.flags = flags]
             ELSE table[p]]
      /\ UNCHANGED <<parent, addr, len, limit, dead, children, mappings, lost>>
  BY DEF Protect, Permits, shape
<1>2. touched \subseteq Mapped
  BY DEF Mapped
<1> HIDE DEF touched, range
<1>3. Rooted' /\ DeadUnmapped' /\ AliveMade'
  BY <1>1 DEF PInv, Rooted, DeadUnmapped, AliveMade, UpClosed, Made
<1>4. Mapped' = Mapped /\ \A x : PagesOf(x)' = PagesOf(x)
  BY <1>1 DEF Mapped, PagesOf, Span
<1>5. ASSUME lost' = {} PROVE KidsApart' /\ ParentAlive' /\ TableOK'
  <2>1. Nested /\ TableOK
    BY <1>1, <1>5 DEF PInv
  <2>2. KidsApart' /\ ParentAlive'
    BY <2>1, <1>1, <1>4 DEF Nested, KidsApart, ParentAlive, Inside, Kids
  <2>3. ASSUME NEW p \in Page PROVE EntryOK(p)'
    <3>0. EntryOK(p)
      BY <2>1 DEF TableOK
    <3>1. CASE p \in range /\ table[p] # None
      <4>1. PICK m \in touched : p \in PagesOf(m)
        BY <3>1, <1>1
      <4>2. table[p].by \in Mapped /\ p \in PagesOf(table[p].by)
        BY <3>0, <3>1 DEF EntryOK
      <4>3. m = table[p].by
        BY <4>1, <4>2, <1>2, <2>1, MappedApart
      <4>4. table[p] \in Entry
        BY <3>1 DEF Inv, TypeOK
      <4>5. PICK e \in Entry : e = table[p]
        BY <4>4
      <4>6. [e EXCEPT !.flags = flags] \in Entry /\ [e EXCEPT !.flags = flags].by = e.by
              /\ [e EXCEPT !.flags = flags].flags = flags
        BY DEF Entry
      <4>7. table'[p] = [e EXCEPT !.flags = flags]
        BY <3>1, <4>5, <1>1
      <4>8. table'[p] # None /\ table'[p].by = m /\ table'[p].flags = flags
        BY <4>3, <4>5, <4>6, <4>7, NoneAssumption DEF Entry
      <4> QED
        BY <4>1, <4>8, <1>1, <1>2, <1>4 DEF EntryOK
    <3>2. CASE ~(p \in range /\ table[p] # None)
      <4>1. table'[p] = table[p]
        BY <3>2, <1>1
      <4> QED
        BY <4>1, <3>0, <1>1, <1>4 DEF EntryOK
    <3> QED
      BY <3>1, <3>2
  <2> QED
    BY <2>2, <2>3 DEF TableOK
<1> QED
  BY <1>3, <1>5 DEF PInv, Nested

LEMMA NextPInv == Inv /\ DInv /\ LInv /\ PInv /\ [Next]_vars => PInv'
<1> SUFFICES ASSUME Inv, DInv, LInv, PInv, [Next]_vars PROVE PInv'
  OBVIOUS
<1>1. ASSUME NEW a \in Callers, NEW r \in Regions, Clear(a, r) \/ Destroy(a, r)
      PROVE  PInv'
  BY <1>1, SamePInv DEF Clear, Destroy, shape
<1>2. ASSUME NEW a \in Callers, Begin(a) PROVE PInv'
  <2>1. CASE \E r \in Regions : Clear(a, r) \/ Destroy(a, r)
    BY <2>1, <1>1
  <2>2. CASE \E r \in Regions, n \in Lens, begin \in 0 .. Size :
               \/ \E c \in Regions : Allocate(a, r, c, begin, n)
               \/ \E m \in Mappings : \E limits, flags \in Flags :
                     Map(a, r, m, begin, n, limits, flags)
               \/ \E flags \in Flags : Protect(a, r, begin, n, flags)
               \/ Unmap(a, r, begin, n)
    BY <2>2, SizeAssumption, AllocatePInv, MapPInv, ProtectPInv, UnmapPInv
  <2> QED
    BY <1>2, <2>1, <2>2 DEF Begin
<1>3. ASSUME NEW a \in Callers, Descend(a) \/ Fail(a) \/ Detach(a) PROVE PInv'
  BY <1>3, SamePInv DEF Descend, Fail, Detach, shape
<1>4. CASE UNCHANGED vars
  BY <1>4, SamePInv DEF vars
<1> QED
  BY <1>2, <1>3, <1>4, LeavePInv, ForgetPInv DEF Next

\* However regions and mappings are made, protected, unmapped and destroyed, by
\* any number of callers: as long as no unmap or clear has failed, the page
\* table holds the pages of the mappings that exist and nothing else, each for
\* its own mapping and within its limit.
THEOREM TableTrue == Spec => []PageTableOK
<1>1. Inv /\ DInv /\ LInv /\ PInv /\ [Next]_vars => (Inv /\ DInv /\ LInv /\ PInv)'
  BY NextInv, NextDInv, NextLInv, NextPInv
<1>2. PInv => PageTableOK
  BY DEF PInv, PageTableOK, TableOK, EntryOK
<1> QED
  BY <1>1, <1>2, InitInv, InitDInv, InitLInv, InitPInv, PTL DEF Spec

-----------------------------------------------------------------------------
(* The earlier chapters.  Their regions are those of ch04-03, so what is   *)
(* proved above holds of each of them.                                     *)

\* The calls of VmarChapters are those of Begin.
LEMMA VmarParts ==
    ASSUME NEW a \in Callers
    PROVE  Begin(a) \/ Detach(a) <=>
           \/ Allocating(a) \/ Mapping(a) \/ Protecting(a) \/ Unmapping(a)
           \/ Clearing(a) \/ Destroying(a)
BY DEF Begin, Allocating, Mapping, Protecting, Unmapping, Clearing, Destroying

\* The regions of ch03-04 are those of ch04-03.
THEOREM RegionsOf_03_04 == Spec_03_04 <=> Spec
<1>1. Next_03_04 <=> Next
  BY VmarParts
  DEF Next_03_04, Next, GoingDown, Allocating_03_04, Mapping_03_04, Protecting_03_04,
      Unmapping_03_04, Clearing_03_04, Destroying_03_04, GoingDown_03_04, Forget_03_04
<1> QED
  BY <1>1, PTL DEF Spec_03_04, Spec, vars_03_04, Beginning_03_04, Beginning

\* The regions of ch04-01 are those of ch04-03.
THEOREM RegionsOf_04_01 == Spec_04_01 <=> Spec
<1>1. Next_04_01 <=> Next
  BY VmarParts
  DEF Next_04_01, Next, GoingDown, Allocating_04_01, Mapping_04_01, Protecting_04_01,
      Unmapping_04_01, Clearing_04_01, Destroying_04_01, GoingDown_04_01, Forget_04_01
<1> QED
  BY <1>1, PTL DEF Spec_04_01, Spec, vars_04_01, Beginning_04_01, Beginning
=============================================================================
