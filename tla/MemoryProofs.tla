---------------------------- MODULE MemoryProofs ----------------------------
(* Theorems of Memory for any number of frames, VMOs and mappings, any size *)
(* of pages and any lengths: no frame has two owners, and pages show the    *)
(* frames of their VMO unless a slice or set_len made them stray, a child   *)
(* is a copy of its parent, and all of it implements MemoryObjects.         *)
EXTENDS MemoryChapters, MemoryView, SequenceTheorems, FiniteSetTheorems, TLAPS

Slices == [of : Vmos, at : Nat, len : Nat]
Places == [vmo : Vmos, at : Nat, len : Nat, addr : Nat]

Types ==
    /\ free \in Seq(Frames) /\ frames \in [Vmos -> Seq(Frames)]
    /\ held \subseteq Vmos /\ resizable \in [Vmos -> BOOLEAN]
    /\ slice \in [Vmos -> Slices \cup {None}]
    /\ mapping \in [Mappings -> Places \cup {None}]
    /\ table \in [Pages -> Frames \cup {None}] /\ stray \subseteq Pages

\* A slice was cut from an object of paged frames that keeps its length, and
\* lies inside it.  Frames belong to what somebody holds.
Cut(v) ==
    /\ v \in held /\ slice[slice[v].of] = None
    /\ ~resizable[slice[v].of]
    /\ slice[v].at + slice[v].len <= Len(frames[slice[v].of])
Kept ==
    /\ \A v \in Vmos : IsSlice(v) => Cut(v)
    /\ \A v \in Vmos : (\A s \in held : Base(s) # v) => frames[v] = <<>> /\ ~resizable[v]

Inv == Types /\ Kept /\ FramesOwnedOnce

\* Mappings hold their VMOs and lie apart.
Apart ==
    /\ \A m \in Mappings : mapping[m] # None => mapping[m].vmo \in held
    /\ \A m \in Mappings : mapping[m] # None => \A p \in Span(mapping[m]) : table[p] # None
    /\ \A m, k \in Mappings : mapping[m] # None /\ mapping[k] # None /\ m # k =>
          Span(mapping[m]) \cap Span(mapping[k]) = {}

PageInv == Apart /\ PagesShowTheirVmo

-----------------------------------------------------------------------------
(* Frames that move between two owners *)

LEMMA OwnedTypes ==
    ASSUME Types, NEW o \in Owners
    PROVE  Owned(o) \in Seq(Frames)
  BY NoneAssumption DEF Types, Owners, Owned

LEMMA OnceByPlace ==
    ASSUME Types
    PROVE  FramesOwnedOnce <=>
             /\ \A o, w \in Owners : \A i \in 1 .. Len(Owned(o)), j \in 1 .. Len(Owned(w)) :
                   Owned(o)[i] = Owned(w)[j] => o = w /\ i = j
             /\ \A f \in Frames : \E o \in Owners : \E i \in 1 .. Len(Owned(o)) : Owned(o)[i] = f
<1>1. \A o \in Owners : DOMAIN Owned(o) = 1 .. Len(Owned(o))
  BY OwnedTypes, LenProperties
<1> QED
  BY <1>1 DEF FramesOwnedOnce, Range

LEMMA Concatenated ==
    ASSUME NEW S, NEW s \in Seq(S), NEW t \in Seq(S)
    PROVE  /\ Len(s \o t) = Len(s) + Len(t)
           /\ \A i \in 1 .. Len(s) + Len(t) :
                 (s \o t)[i] = IF i <= Len(s) THEN s[i] ELSE t[i - Len(s)]
BY ConcatProperties

\* A VMO takes n frames from the head of the queue.
LEMMA TakeOnce ==
    ASSUME Types, FramesOwnedOnce, NEW v \in Vmos, NEW n \in Nat, n <= Len(free),
           frames' = [frames EXCEPT ![v] = frames[v] \o Taken(n)],
           free' = LeftAfter(n), Types'
    PROVE  FramesOwnedOnce'
<1> DEFINE L == Len(frames[v])
<1>1. L \in Nat /\ v # None /\ v \in Owners /\ None \in Owners /\ frames[v] \in Seq(Frames)
      /\ free \in Seq(Frames)
  BY NoneAssumption, LenProperties DEF Types, Owners
<1>2. /\ Len(free') = Len(free) - n
      /\ \A i \in 1 .. Len(free') : i + n \in 1 .. Len(free) /\ free'[i] = free[i + n]
  BY <1>1 DEF LeftAfter
<1>3. /\ Len(frames'[v]) = L + n
      /\ \A i \in 1 .. L : frames'[v][i] = frames[v][i]
      /\ \A i \in 1 .. n : i \in 1 .. Len(free) /\ frames'[v][i + L] = free[i]
  <2>1. Len(Taken(n)) = n /\ Taken(n) \in Seq(Frames) /\ \A i \in 1 .. n : Taken(n)[i] = free[i]
    BY <1>1 DEF Taken
  <2>2. frames'[v] = frames[v] \o Taken(n)
    BY DEF Types
  <2>3. /\ Len(frames'[v]) = L + n
        /\ \A i \in 1 .. L + n : frames'[v][i] = IF i <= L THEN frames[v][i] ELSE Taken(n)[i - L]
    <3> DEFINE s == frames[v]
               new == Taken(n)
    <3>1. s \in Seq(Frames) /\ new \in Seq(Frames) /\ Len(new) = n /\ Len(s) = L
      BY <1>1, <2>1
    <3>2. frames'[v] = s \o new
      BY <2>2
    <3> HIDE DEF s, new
    <3>3. Len(s \o new) = Len(s) + Len(new)
          /\ \A i \in 1 .. Len(s) + Len(new) : (s \o new)[i] =
                IF i <= Len(s) THEN s[i] ELSE new[i - Len(s)]
      BY <3>1, Concatenated
    <3>4. /\ Len(frames'[v]) = L + n
          /\ \A i \in 1 .. L + n : frames'[v][i] = IF i <= L THEN s[i] ELSE new[i - L]
      BY <3>1, <3>2, <3>3
    <3> QED
      BY <3>4 DEF s, new
  <2>4. ASSUME NEW i \in 1 .. n PROVE i \in 1 .. Len(free) /\ frames'[v][i + L] = free[i]
    <3>1. i + L \in 1 .. L + n /\ ~(i + L <= L) /\ (i + L) - L = i
      BY <1>1
    <3> QED
      BY <1>1, <2>1, <2>3, <3>1
  <2> QED
    BY <1>1, <2>3, <2>4
<1>4. \A o \in Owners : o # v /\ o # None => Owned(o)' = Owned(o)
  BY DEF Types, Owners, Owned
<1>5. Owned(None) = free /\ Owned(None)' = free' /\ Owned(v) = frames[v] /\ Owned(v)' = frames'[v]
  BY <1>1 DEF Owned
<1> DEFINE Src(o, i) == IF o = None \/ (o = v /\ i > L) THEN None ELSE o
           Idx(o, i) == IF o = None THEN i + n ELSE IF o = v /\ i > L THEN i - L ELSE i
<1>6. ASSUME NEW o \in Owners, NEW i \in 1 .. Len(Owned(o)')
      PROVE  /\ Src(o, i) \in Owners /\ Idx(o, i) \in 1 .. Len(Owned(Src(o, i)))
             /\ Owned(o)'[i] = Owned(Src(o, i))[Idx(o, i)]
  <2>1. CASE o = None
    BY <1>1, <1>2, <1>5, <1>6, <2>1
  <2>2. CASE o = v /\ i > L
    <3>1. i - L \in 1 .. n /\ i = (i - L) + L
      BY <1>1, <1>3, <1>5, <1>6, <2>2
    <3> QED
      BY <1>1, <1>3, <1>5, <2>2, <3>1
  <2>3. CASE o = v /\ ~(i > L)
    BY <1>1, <1>3, <1>5, <1>6, <2>3, SMTT(30)
  <2>4. CASE o # v /\ o # None
    BY <1>4, <1>6, <2>4
  <2> QED
    BY <2>1, <2>2, <2>3, <2>4
<1>7. ASSUME NEW o \in Owners, NEW w \in Owners,
             NEW i \in 1 .. Len(Owned(o)'), NEW j \in 1 .. Len(Owned(w)'),
             Owned(o)'[i] = Owned(w)'[j]
      PROVE  o = w /\ i = j
  <2>1. Src(o, i) = Src(w, j) /\ Idx(o, i) = Idx(w, j)
    <3> HIDE DEF Src, Idx
    <3>1. /\ Src(o, i) \in Owners /\ Idx(o, i) \in 1 .. Len(Owned(Src(o, i)))
          /\ Owned(o)'[i] = Owned(Src(o, i))[Idx(o, i)]
      BY <1>6, <1>7
    <3>2. /\ Src(w, j) \in Owners /\ Idx(w, j) \in 1 .. Len(Owned(Src(w, j)))
          /\ Owned(w)'[j] = Owned(Src(w, j))[Idx(w, j)]
      BY <1>6, <1>7
    <3>3. Owned(Src(o, i))[Idx(o, i)] = Owned(Src(w, j))[Idx(w, j)]
      BY <1>7, <3>1, <3>2
    <3> QED
      BY <3>1, <3>2, <3>3, OnceByPlace, SMTT(30)
  <2>2. o = None => i + n > n
    BY <1>1, <1>2, <1>5, <1>7
  <2>3. w = None => j + n > n
    BY <1>1, <1>2, <1>5, <1>7
  <2>4. o = v => i \in Nat /\ i - L <= n
    BY <1>1, <1>3, <1>5, <1>7
  <2>5. w = v => j \in Nat /\ j - L <= n
    BY <1>1, <1>3, <1>5, <1>7
  <2>6. i \in Int /\ j \in Int
    BY <1>7
  <2> HIDE DEF L
  <2> QED
    BY <1>1, <2>1, <2>2, <2>3, <2>4, <2>5, <2>6
<1>8. ASSUME NEW f \in Frames
      PROVE  \E o \in Owners : \E i \in 1 .. Len(Owned(o)') : Owned(o)'[i] = f
  <2>1. PICK w \in Owners : \E j \in 1 .. Len(Owned(w)) : Owned(w)[j] = f
    BY OnceByPlace
  <2>2. PICK j \in 1 .. Len(Owned(w)) : Owned(w)[j] = f
    BY <2>1
  <2>3. CASE w = None /\ j <= n
    <3>1. j \in 1 .. n /\ j + L \in 1 .. L + n
      BY <1>1, <2>2, <2>3
    <3>2. frames'[v][j + L] = free[j] /\ Len(frames'[v]) = L + n
      BY <1>3, <3>1
    <3>3. free[j] = f
      BY <1>5, <2>2, <2>3
    <3>4. j + L \in 1 .. Len(Owned(v)') /\ Owned(v)'[j + L] = f
      BY <1>5, <3>1, <3>2, <3>3
    <3> HIDE DEF Src, Idx, L
    <3> QED
      BY <1>1, <3>4
  <2>4. CASE w = None /\ j > n
    <3>1. j - n \in 1 .. Len(free') /\ j = (j - n) + n
      BY <1>1, <1>2, <1>5, <2>2, <2>4
    <3> QED
      BY <1>1, <1>2, <1>5, <2>2, <2>4, <3>1
  <2>5. CASE w = v
    BY <1>1, <1>3, <1>5, <2>2, <2>5
  <2>6. CASE w # None /\ w # v
    BY <1>4, <2>2, <2>6
  <2> QED
    BY <2>2, <2>3, <2>4, <2>5, <2>6, <1>1
<1> QED
  <2>1. /\ \A o, w \in Owners : \A i \in 1 .. Len(Owned(o)'), j \in 1 .. Len(Owned(w)') :
                   Owned(o)'[i] = Owned(w)'[j] => o = w /\ i = j
        /\ \A f \in Frames : \E o \in Owners : \E i \in 1 .. Len(Owned(o)') : Owned(o)'[i] = f
    BY <1>7, <1>8
  <2>2. \A o \in Owners : DOMAIN (Owned(o)') = 1 .. Len(Owned(o)')
    BY NoneAssumption, LenProperties DEF Types, Owners, Owned
  <2>3. \A o, w \in Owners : \A i \in DOMAIN (Owned(o)'), j \in DOMAIN (Owned(w)') :
                   Owned(o)'[i] = Owned(w)'[j] => o = w /\ i = j
    BY <2>1, <2>2
  <2>4. \A f \in Frames : \E o \in Owners : f \in Range(Owned(o)')
    BY <2>1, <2>2 DEF Range
  <2> QED
    BY <2>3, <2>4, ZenonT(60) DEF FramesOwnedOnce

\* A VMO keeps n frames and gives the others back at the tail of the queue.
LEMMA GiveOnce ==
    ASSUME Types, FramesOwnedOnce, NEW v \in Vmos, NEW n \in Nat, n <= Len(frames[v]),
           frames' = [frames EXCEPT ![v] = SubSeq(frames[v], 1, n)],
           free' = free \o SubSeq(frames[v], n + 1, Len(frames[v])), Types'
    PROVE  FramesOwnedOnce'
<1> DEFINE L == Len(frames[v])
           F == Len(free)
<1>1. L \in Nat /\ F \in Nat /\ n <= L /\ L - n \in Nat /\ v # None /\ v \in Owners /\ None \in Owners
      /\ frames[v] \in Seq(Frames) /\ free \in Seq(Frames)
  BY NoneAssumption, LenProperties DEF Types, Owners
<1>2. /\ Len(frames'[v]) = n
      /\ \A i \in 1 .. n : i \in 1 .. L /\ frames'[v][i] = frames[v][i]
  <2>1. frames'[v] = SubSeq(frames[v], 1, n)
    BY DEF Types
  <2> QED
    BY <1>1, <2>1
<1>3. /\ Len(free') = F + (L - n)
      /\ \A i \in 1 .. F : free'[i] = free[i]
      /\ \A i \in 1 .. L - n : i + n \in 1 .. L /\ free'[i + F] = frames[v][i + n]
  <2> DEFINE new == SubSeq(frames[v], n + 1, L)
  <2>1. Len(new) = L - n /\ new \in Seq(Frames) /\ \A i \in 1 .. L - n : new[i] = frames[v][i + n]
    <3> DEFINE s == frames[v]
    <3>1. s \in Seq(Frames) /\ Len(s) = L /\ n + 1 \in Int /\ L \in Int
      BY <1>1
    <3> HIDE DEF s, L
    <3>2. \A i \in n + 1 .. L : s[i] \in Frames
      BY <3>1, <1>1
    <3>3. /\ SubSeq(s, n + 1, L) \in Seq(Frames)
          /\ Len(SubSeq(s, n + 1, L)) = IF n + 1 <= L THEN L - (n + 1) + 1 ELSE 0
          /\ \A i \in 1 .. L - (n + 1) + 1 : SubSeq(s, n + 1, L)[i] = s[(n + 1) + i - 1]
      BY <3>1, <3>2, SubSeqProperties
    <3>4. /\ SubSeq(s, n + 1, L) \in Seq(Frames) /\ Len(SubSeq(s, n + 1, L)) = L - n
          /\ \A i \in 1 .. L - n : SubSeq(s, n + 1, L)[i] = s[i + n]
      BY <3>3, <1>1
    <3> QED
      BY <3>4 DEF s
  <2>2. free' = free \o new
    OBVIOUS
  <2> HIDE DEF new, L, F
  <2>3. Len(free \o new) = Len(free) + Len(new)
        /\ \A i \in 1 .. Len(free) + Len(new) : (free \o new)[i] =
                IF i <= Len(free) THEN free[i] ELSE new[i - Len(free)]
    BY <1>1, <2>1, ConcatProperties, SMTT(30)
  <2>4. Len(free') = F + (L - n)
        /\ \A i \in 1 .. F + (L - n) : free'[i] = IF i <= F THEN free[i] ELSE new[i - F]
    BY <1>1, <2>1, <2>2, <2>3 DEF F
  <2>5. ASSUME NEW i \in 1 .. L - n PROVE i + n \in 1 .. L /\ free'[i + F] = frames[v][i + n]
    <3>1. i + F \in 1 .. F + (L - n) /\ ~(i + F <= F) /\ (i + F) - F = i /\ i + n \in 1 .. L
      BY <1>1
    <3> QED
      BY <2>1, <2>4, <3>1
  <2>6. \A i \in 1 .. F : i \in 1 .. F + (L - n) /\ i <= F
    BY <1>1
  <2>7. \A i \in 1 .. F : free'[i] = free[i]
    BY <2>4, <2>6
  <2> QED
    BY <2>4, <2>5, <2>7
<1>4. \A o \in Owners : o # v /\ o # None => Owned(o)' = Owned(o)
  BY DEF Types, Owners, Owned
<1>5. Owned(None) = free /\ Owned(None)' = free' /\ Owned(v) = frames[v] /\ Owned(v)' = frames'[v]
  BY <1>1 DEF Owned
<1> DEFINE Src(o, i) == IF o = None /\ i > F THEN v ELSE o
           Idx(o, i) == IF o = None /\ i > F THEN (i - F) + n ELSE i
<1>6. ASSUME NEW o \in Owners, NEW i \in 1 .. Len(Owned(o)')
      PROVE  /\ Src(o, i) \in Owners /\ Idx(o, i) \in 1 .. Len(Owned(Src(o, i)))
             /\ Owned(o)'[i] = Owned(Src(o, i))[Idx(o, i)]
  <2>1. CASE o = None /\ i > F
    <3>1. i - F \in 1 .. L - n /\ i = (i - F) + F
      BY <1>1, <1>3, <1>5, <1>6, <2>1
    <3> QED
      BY <1>1, <1>3, <1>5, <2>1, <3>1
  <2>2. CASE o = None /\ ~(i > F)
    <3>1. i \in 1 .. F /\ Src(o, i) = o /\ Idx(o, i) = i
      BY <1>1, <1>3, <1>5, <1>6, <2>2
    <3> QED
      BY <1>1, <1>3, <1>5, <1>6, <2>2, <3>1
  <2>3. CASE o = v
    BY <1>1, <1>2, <1>5, <1>6, <2>3
  <2>4. CASE o # v /\ o # None
    BY <1>4, <1>6, <2>4
  <2> QED
    BY <2>1, <2>2, <2>3, <2>4
<1>7. ASSUME NEW o \in Owners, NEW w \in Owners,
             NEW i \in 1 .. Len(Owned(o)'), NEW j \in 1 .. Len(Owned(w)'),
             Owned(o)'[i] = Owned(w)'[j]
      PROVE  o = w /\ i = j
  <2>1. Src(o, i) = Src(w, j) /\ Idx(o, i) = Idx(w, j)
    <3> HIDE DEF Src, Idx
    <3>1. Owned(Src(o, i))[Idx(o, i)] = Owned(Src(w, j))[Idx(w, j)]
      BY <1>6, <1>7
    <3> QED
      BY <1>6, <1>7, <3>1, OnceByPlace, SMTT(30)
  <2>2. o = v => i \in Nat /\ i <= n
    BY <1>1, <1>2, <1>5, <1>7
  <2>3. w = v => j \in Nat /\ j <= n
    BY <1>1, <1>2, <1>5, <1>7
  <2>4. i \in Int /\ j \in Int
    BY <1>7
  <2> HIDE DEF L, F
  <2> QED
    BY <1>1, <2>1, <2>2, <2>3, <2>4
<1>8. ASSUME NEW f \in Frames
      PROVE  \E o \in Owners : \E i \in 1 .. Len(Owned(o)') : Owned(o)'[i] = f
  <2>1. PICK w \in Owners : \E j \in 1 .. Len(Owned(w)) : Owned(w)[j] = f
    BY OnceByPlace
  <2>2. PICK j \in 1 .. Len(Owned(w)) : Owned(w)[j] = f
    BY <2>1
  <2>3. CASE w = v /\ j > n
    <3>1. j - n \in 1 .. L - n /\ (j - n) + n = j /\ (j - n) + F \in 1 .. F + (L - n)
      BY <1>1, <1>5, <2>2, <2>3
    <3>2. free'[(j - n) + F] = f
      BY <1>3, <1>5, <2>2, <2>3, <3>1
    <3>3. (j - n) + F \in 1 .. Len(Owned(None)') /\ Owned(None)'[(j - n) + F] = f
      BY <1>3, <1>5, <3>1, <3>2
    <3> QED
      BY <1>1, <3>3
  <2>4. CASE w = v /\ ~(j > n)
    <3>1. j \in 1 .. Len(Owned(v)') /\ Owned(v)'[j] = f
      BY <1>1, <1>2, <1>5, <2>2, <2>4
    <3> QED
      BY <1>1, <3>1
  <2>5. CASE w = None
    <3>1. j \in 1 .. F /\ free[j] = f
      BY <1>5, <2>2, <2>5
    <3>2. j \in 1 .. F + (L - n)
      BY <1>1, <3>1
    <3>3. j \in 1 .. Len(Owned(None)') /\ Owned(None)'[j] = f
      BY <1>3, <1>5, <3>1, <3>2
    <3> QED
      BY <1>1, <3>3
  <2>6. CASE w # None /\ w # v
    BY <1>4, <2>2, <2>6
  <2> QED
    BY <2>3, <2>4, <2>5, <2>6
<1> QED
  <2>1. /\ \A o, w \in Owners : \A i \in 1 .. Len(Owned(o)'), j \in 1 .. Len(Owned(w)') :
                   Owned(o)'[i] = Owned(w)'[j] => o = w /\ i = j
        /\ \A f \in Frames : \E o \in Owners : \E i \in 1 .. Len(Owned(o)') : Owned(o)'[i] = f
    BY <1>7, <1>8
  <2>2. \A o \in Owners : DOMAIN (Owned(o)') = 1 .. Len(Owned(o)')
    BY NoneAssumption, LenProperties DEF Types, Owners, Owned
  <2>3. \A o, w \in Owners : \A i \in DOMAIN (Owned(o)'), j \in DOMAIN (Owned(w)') :
                   Owned(o)'[i] = Owned(w)'[j] => o = w /\ i = j
    BY <2>1, <2>2
  <2>4. \A f \in Frames : \E o \in Owners : f \in Range(Owned(o)')
    BY <2>1, <2>2, SMTT(30) DEF Range
  <2> QED
    BY <2>3, <2>4, ZenonT(60) DEF FramesOwnedOnce

-----------------------------------------------------------------------------
(* Steps that give frames to a VMO or take them away *)

LEMMA BaseTypes ==
    ASSUME Types, Kept, NEW v \in Vmos
    PROVE  /\ Base(v) \in Vmos /\ slice[Base(v)] = None
           /\ From(v) \in Nat /\ Length(v) \in Nat
           /\ From(v) + Length(v) <= Len(frames[Base(v)])
<1>1. CASE slice[v] = None
  BY <1>1, LenProperties DEF Types, Base, From, Length, IsSlice
<1>2. CASE slice[v] # None
  <2>1. slice[v] \in Slices /\ Cut(v)
    BY <1>2 DEF Types, Kept, IsSlice
  <2> QED
    BY <1>2, <2>1 DEF Cut, Base, From, Length, IsSlice, Slices
<1> QED
  BY <1>1, <1>2

\* A VMO nobody holds and no slice uses has nothing.
LEMMA Absent ==
    ASSUME Types, Kept, NEW c \in Vmos, ~Exists(c)
    PROVE  /\ c \notin held /\ frames[c] = <<>> /\ ~resizable[c] /\ slice[c] = None
           /\ \A s \in held : Base(s) # c
  BY DEF Types, Kept, Exists, IsSlice, Cut

LEMMA SpanTypes ==
    ASSUME NEW m \in Places, NEW p \in Span(m)
    PROVE  /\ m.vmo \in Vmos /\ m.at \in Nat /\ m.addr \in Nat /\ p \in Nat /\ p \in Pages
           /\ m.at + p - m.addr \in Nat /\ m.at + p - m.addr < m.at + m.len
  BY PageAssumption DEF Span, Places

\* Where neither the mapping nor the frames behind it change, nor the table, a
\* page shows what it showed.
Same(w) == /\ slice'[w] = slice[w] /\ Base(w)' = Base(w)
           /\ frames'[Base(w)] = frames[Base(w)]
LEMMA PagesStay ==
    ASSUME Types, Types', PageInv, held \subseteq held' \/ \A m \in Mappings :
                mapping[m] # None => mapping[m].vmo \in held',
           UNCHANGED <<mapping, table>>, stray \subseteq stray',
           \A w \in held : (\E m \in Mappings : mapping[m] # None /\ mapping[m].vmo = w) => Same(w)
    PROVE  PageInv'
<1>1. Apart'
  BY DEF PageInv, Apart, Span
<1>2. ASSUME NEW m \in Mappings, mapping[m] # None, NEW p \in Span(mapping[m]), p \notin stray'
      PROVE  LET i == mapping[m].at + p - mapping[m].addr
             IN  i < Length(mapping[m].vmo)' /\ table[p] = FrameOf(frames, mapping[m].vmo, i)'
  <2> DEFINE w == mapping[m].vmo
  <2>1. w \in held /\ Same(w)
    BY <1>2 DEF PageInv, Apart
  <2>2. IsSlice(w)' = IsSlice(w) /\ From(w)' = From(w)
    BY <2>1 DEF Same, IsSlice, From
  <2>3. Length(w)' = Length(w)
    BY <2>1, <2>2 DEF Same, Length, IsSlice, Base
  <2>4. \A i : FrameOf(frames, w, i)' = FrameOf(frames, w, i)
    BY <2>1, <2>2 DEF Same, FrameOf
  <2> QED
    BY <1>2, <2>3, <2>4 DEF PageInv, PagesShowTheirVmo
<1>3. PagesShowTheirVmo'
  BY <1>2 DEF PagesShowTheirVmo, Span
<1> QED
  BY <1>1, <1>3 DEF PageInv

Comes(c, r, n) ==
    /\ ~Exists(c)
    /\ n <= Len(free)
    /\ held' = held \cup {c}
    /\ resizable' = [resizable EXCEPT ![c] = r]
    /\ frames' = [frames EXCEPT ![c] = Taken(n)]
    /\ free' = LeftAfter(n)
    /\ UNCHANGED <<slice, mapping, table, stray>>

LEMMA ComesInv ==
    ASSUME Inv, NEW c \in Vmos, NEW r \in BOOLEAN, NEW n \in Nat, Comes(c, r, n)
    PROVE  Inv' /\ (PageInv => PageInv')
<1>1. /\ c \notin held /\ frames[c] = <<>> /\ ~resizable[c] /\ slice[c] = None
      /\ \A s \in held : Base(s) # c
  BY Absent DEF Inv, Comes
<1>2. Taken(n) \in Seq(Frames) /\ LeftAfter(n) \in Seq(Frames)
  BY DEF Inv, Types, Comes, Taken, LeftAfter
<1>3. Types'
  BY <1>2 DEF Inv, Types, Comes
<1>4. FramesOwnedOnce'
  <2>1. frames[c] \o Taken(n) = Taken(n)
    BY <1>1, <1>2, ConcatEmptySeq
  <2>2. frames' = [frames EXCEPT ![c] = frames[c] \o Taken(n)] /\ free' = LeftAfter(n)
    BY <2>1 DEF Comes
  <2> QED
    BY <1>3, <2>2, TakeOnce DEF Inv, Comes
<1>5. \A x \in Vmos : Base(x)' = Base(x) /\ IsSlice(x)' = IsSlice(x)
  BY DEF Comes, Base, IsSlice
<1>6. \A x \in Vmos : x # c => frames'[x] = frames[x] /\ resizable'[x] = resizable[x]
  BY DEF Inv, Types, Comes
<1>7. Kept'
  <2>1. ASSUME NEW x \in Vmos, IsSlice(x)' PROVE Cut(x)'
    <3>1. Cut(x) /\ IsSlice(x)
      BY <1>5, <2>1 DEF Inv, Kept
    <3>2. slice[x].of # c /\ slice[x].of \in Vmos
      BY <1>1, <3>1, BaseTypes DEF Cut, Base, Inv
    <3> QED
      BY <1>6, <3>1, <3>2 DEF Cut, Comes
  <2>2. ASSUME NEW x \in Vmos, \A s \in held' : Base(s)' # x
        PROVE  frames'[x] = <<>> /\ ~resizable'[x]
    <3>1. x # c
      BY <1>1, <2>2 DEF Comes, Base, IsSlice
    <3>2. \A s \in held : Base(s) # x
      BY <1>5, <2>2 DEF Comes, Inv, Types
    <3> QED
      BY <1>6, <3>1, <3>2 DEF Inv, Kept
  <2> QED
    BY <2>1, <2>2 DEF Kept
<1>8. ASSUME PageInv PROVE PageInv'
  <2>1. \A w \in held : Same(w)
    BY <1>1, <1>5, <1>6, BaseTypes DEF Same, Inv, Types, Comes
  <2> QED
    BY <1>3, <1>8, <2>1, PagesStay DEF Inv, Comes
<1> QED
  BY <1>3, <1>4, <1>7, <1>8 DEF Inv

LEMMA SliceInv ==
    ASSUME Inv, NEW v \in Vmos, NEW c \in Vmos, NEW at \in Nat, NEW n \in Nat,
           CreateSlice(v, c, at, n)
    PROVE  Inv' /\ (PageInv => PageInv')
<1>1. /\ c \notin held /\ frames[c] = <<>> /\ ~resizable[c] /\ slice[c] = None
      /\ \A s \in held : Base(s) # c
  BY Absent DEF Inv, CreateSlice
<1>2. /\ v \in held /\ ~resizable[v] /\ at + n <= Length(v)
      /\ held' = held \cup {c} /\ UNCHANGED <<free, resizable, frames, mapping, table, stray>>
      /\ slice' = [slice EXCEPT ![c] = [of |-> Base(v), at |-> From(v) + at, len |-> n]]
  BY DEF CreateSlice
<1>3. /\ Base(v) \in Vmos /\ Base(v) # c /\ slice[Base(v)] = None /\ From(v) \in Nat
      /\ Length(v) \in Nat /\ From(v) + Length(v) <= Len(frames[Base(v)]) /\ ~resizable[Base(v)]
  <2>1. ~resizable[Base(v)]
    BY <1>2 DEF Inv, Kept, Cut, Base, IsSlice
  <2> QED
    BY <1>1, <1>2, <2>1, BaseTypes DEF Inv
<1>4. Types'
  <2>1. [of |-> Base(v), at |-> From(v) + at, len |-> n] \in Slices
    BY <1>3 DEF Slices
  <2> QED
    BY <1>2, <2>1 DEF Inv, Types
<1>5. FramesOwnedOnce'
  BY <1>2 DEF Inv, FramesOwnedOnce, Owned
<1>6. \A x \in Vmos : x # c => slice'[x] = slice[x] /\ Base(x)' = Base(x) /\ IsSlice(x)' = IsSlice(x)
  BY <1>2 DEF Base, IsSlice, Inv, Types
<1>7. slice'[c] = [of |-> Base(v), at |-> From(v) + at, len |-> n] /\ Base(c)' = Base(v)
  BY <1>2, <1>3, <1>4, NoneAssumption, SMTT(30) DEF Base, IsSlice, Inv, Types, Slices
<1>8. Kept'
  <2>1. ASSUME NEW x \in Vmos, IsSlice(x)' PROVE Cut(x)'
    <3>1. CASE x = c
      <4>1. slice'[Base(v)] = None
        BY <1>3, <1>6
      <4>2. (From(v) + at) + n <= Len(frames[Base(v)])
        <5>1. Len(frames[Base(v)]) \in Nat
          BY <1>3, LenProperties DEF Inv, Types
        <5> QED
          BY <1>2, <1>3, <5>1
      <4> QED
        BY <1>2, <1>3, <1>7, <3>1, <4>1, <4>2 DEF Cut
    <3>2. CASE x # c
      <4>1. Cut(x) /\ IsSlice(x)
        BY <1>6, <2>1, <3>2 DEF Inv, Kept
      <4>2. slice[x].of # c /\ slice[x].of \in Vmos
        BY <1>1, <4>1, BaseTypes DEF Cut, Base, Inv
      <4> QED
        BY <1>2, <1>6, <3>2, <4>1, <4>2 DEF Cut
    <3> QED
      BY <3>1, <3>2
  <2>2. ASSUME NEW x \in Vmos, \A s \in held' : Base(s)' # x
        PROVE  frames'[x] = <<>> /\ ~resizable'[x]
    <3>1. \A s \in held : Base(s) # x
      BY <1>1, <1>2, <1>6, <2>2 DEF Inv, Types
    <3> QED
      BY <1>2, <3>1 DEF Inv, Kept
  <2> QED
    BY <2>1, <2>2 DEF Kept
<1>9. ASSUME PageInv PROVE PageInv'
  <2>1. \A w \in held : Same(w)
    BY <1>1, <1>2, <1>6 DEF Same, Inv, Types
  <2> QED
    BY <1>2, <1>4, <1>9, <2>1, PagesStay DEF Inv
<1> QED
  BY <1>4, <1>5, <1>8, <1>9 DEF Inv

LEMMA Shorter ==
    ASSUME NEW s \in Seq(Frames), NEW n \in Nat, n <= Len(s)
    PROVE  /\ SubSeq(s, 1, n) \in Seq(Frames) /\ SubSeq(s, n + 1, Len(s)) \in Seq(Frames)
           /\ Len(SubSeq(s, 1, n)) = n
           /\ \A i \in 1 .. n : SubSeq(s, 1, n)[i] = s[i]
<1>1. Len(s) \in Nat /\ \A i \in 1 .. Len(s) : s[i] \in Frames
  BY LenProperties
<1>2. (\A i \in 1 .. n : s[i] \in Frames) /\ (\A i \in n + 1 .. Len(s) : s[i] \in Frames)
  BY <1>1
<1>3. /\ SubSeq(s, 1, n) \in Seq(Frames)
      /\ Len(SubSeq(s, 1, n)) = IF 1 <= n THEN n - 1 + 1 ELSE 0
      /\ \A i \in 1 .. n - 1 + 1 : SubSeq(s, 1, n)[i] = s[1 + i - 1]
  BY <1>2, SubSeqProperties
<1>4. SubSeq(s, n + 1, Len(s)) \in Seq(Frames)
  BY <1>1, <1>2, SubSeqProperties
<1> QED
  BY <1>3, <1>4

LEMMA Longer ==
    ASSUME NEW s \in Seq(Frames), free \in Seq(Frames), NEW k \in Nat, k <= Len(free)
    PROVE  /\ LeftAfter(k) \in Seq(Frames)
           /\ s \o Taken(k) \in Seq(Frames) /\ Len(s \o Taken(k)) = Len(s) + k
           /\ \A i \in 1 .. Len(s) : (s \o Taken(k))[i] = s[i]
<1>1. Taken(k) \in Seq(Frames) /\ Len(Taken(k)) = k /\ LeftAfter(k) \in Seq(Frames)
  BY Shorter DEF Taken, LeftAfter
<1> DEFINE new == Taken(k)
<1> HIDE DEF new
<1>2. new \in Seq(Frames) /\ Len(new) = k
  BY <1>1 DEF new
<1>3. /\ s \o new \in Seq(Frames) /\ Len(s \o new) = Len(s) + Len(new)
      /\ \A i \in 1 .. Len(s) + Len(new) : (s \o new)[i] =
            IF i <= Len(s) THEN s[i] ELSE new[i - Len(s)]
  BY <1>2, ConcatProperties
<1>4. \A i \in 1 .. Len(s) : i \in 1 .. Len(s) + k /\ i <= Len(s)
  BY LenProperties
<1>5. \A i \in 1 .. Len(s) : (s \o new)[i] = s[i]
  BY <1>2, <1>3, <1>4
<1> QED
  BY <1>1, <1>2, <1>3, <1>5 DEF new

\* Only VMOs without slices are resizable, so nobody else's frames change.
LEMMA ResizedInv ==
    ASSUME Inv, NEW v \in held, resizable[v], NEW n \in Nat, Resized(v, n),
           UNCHANGED <<held, resizable, slice, mapping, table>>
    PROVE  Inv' /\ (PageInv => PageInv')
<1> DEFINE L == Len(frames[v])
<1>1. v \in Vmos /\ frames[v] \in Seq(Frames) /\ L \in Nat /\ free \in Seq(Frames) /\ Len(free) \in Nat
  BY LenProperties DEF Inv, Types
<1>2. slice[v] = None
  <2>1. ASSUME slice[v] # None PROVE FALSE
    <3>1. Cut(v)
      BY <1>1, <2>1 DEF Inv, Kept, IsSlice
    <3>2. PICK s \in held : Base(s) = v
      BY <1>1 DEF Inv, Kept
    <3>3. s \in Vmos /\ slice[Base(s)] = None
      BY BaseTypes DEF Inv, Types
    <3> QED
      BY <2>1, <3>2, <3>3
  <2> QED
    BY <2>1
<1>3. \A s \in Vmos : s # v => Base(s) # v
  BY DEF Inv, Kept, Cut, Base, IsSlice
<1>4. /\ Types' /\ FramesOwnedOnce' /\ Len(frames'[v]) = n
      /\ \A i \in 1 .. n : i <= L => frames'[v][i] = frames[v][i]
  <2>1. CASE n <= L
    <3>1. frames' = [frames EXCEPT ![v] = SubSeq(frames[v], 1, n)]
          /\ free' = free \o SubSeq(frames[v], n + 1, L)
      BY <1>1, <2>1 DEF Resized, GivenBack
    <3>2. /\ SubSeq(frames[v], 1, n) \in Seq(Frames) /\ SubSeq(frames[v], n + 1, L) \in Seq(Frames)
          /\ Len(SubSeq(frames[v], 1, n)) = n
          /\ \A i \in 1 .. n : SubSeq(frames[v], 1, n)[i] = frames[v][i]
      BY <1>1, <2>1, Shorter
    <3>3. free' \in Seq(Frames)
      BY <1>1, <3>1, <3>2, ConcatProperties
    <3>4. frames' \in [Vmos -> Seq(Frames)] /\ frames'[v] = SubSeq(frames[v], 1, n)
      BY <1>1, <3>1, <3>2 DEF Inv, Types
    <3>5. Types'
      BY <3>3, <3>4 DEF Inv, Types, Resized
    <3>6. FramesOwnedOnce'
      BY <1>1, <2>1, <3>1, <3>5, GiveOnce DEF Inv
    <3> QED
      BY <3>2, <3>4, <3>5, <3>6
  <2>2. CASE ~(n <= L)
    <3> DEFINE k == n - L
    <3>1. /\ frames' = [frames EXCEPT ![v] = frames[v] \o Taken(k)]
          /\ free' = LeftAfter(k)
      BY <1>1, <2>2 DEF Resized
    <3>2. k \in Nat /\ k <= Len(free) /\ L + k = n
      BY <1>1, <2>2 DEF Resized
    <3> HIDE DEF k
    <3>3. /\ LeftAfter(k) \in Seq(Frames)
          /\ frames[v] \o Taken(k) \in Seq(Frames) /\ Len(frames[v] \o Taken(k)) = L + k
          /\ \A i \in 1 .. L : (frames[v] \o Taken(k))[i] = frames[v][i]
      BY <1>1, <3>2, Longer
    <3>4. frames' \in [Vmos -> Seq(Frames)] /\ frames'[v] = frames[v] \o Taken(k)
      BY <1>1, <3>1, <3>3 DEF Inv, Types
    <3>5. Types'
      BY <3>1, <3>3, <3>4 DEF Inv, Types, Resized
    <3>6. FramesOwnedOnce'
      BY <1>1, <3>1, <3>2, <3>5, TakeOnce DEF Inv
    <3>7. \A i \in 1 .. n : i <= L => frames'[v][i] = frames[v][i]
      BY <1>1, <3>3, <3>4
    <3>8. Len(frames'[v]) = n
      BY <3>2, <3>3, <3>4
    <3> QED
      BY <3>5, <3>6, <3>7, <3>8
  <2> QED
    BY <2>1, <2>2
<1>5. \A x \in Vmos : Base(x)' = Base(x) /\ IsSlice(x)' = IsSlice(x)
                      /\ (x # v => frames'[x] = frames[x])
  <2>1. \A x \in Vmos : x # v => frames'[x] = frames[x]
    BY <1>1 DEF Resized, Inv, Types
  <2> QED
    BY <2>1 DEF Base, IsSlice
<1>6. Kept'
  <2>1. ASSUME NEW x \in Vmos, IsSlice(x)' PROVE Cut(x)'
    <3>1. Cut(x) /\ IsSlice(x)
      BY <1>5, <2>1 DEF Inv, Kept
    <3>2. slice[x].of # v /\ slice[x].of \in Vmos
      BY <3>1, BaseTypes DEF Cut, Base, Inv
    <3> QED
      BY <1>5, <3>1, <3>2 DEF Cut
  <2>2. ASSUME NEW x \in Vmos, \A s \in held' : Base(s)' # x
        PROVE  frames'[x] = <<>> /\ ~resizable'[x]
    <3>1. \A s \in held : Base(s) # x
      BY <1>5, <2>2 DEF Inv, Types
    <3>2. x # v
      BY <1>1, <1>2, <3>1 DEF Base, IsSlice
    <3> QED
      BY <1>5, <3>1, <3>2 DEF Inv, Kept
  <2> QED
    BY <2>1, <2>2 DEF Kept
<1>7. ASSUME PageInv PROVE PageInv'
  <2>1. Apart'
    BY <1>7 DEF PageInv, Apart, Span
  <2>2. ASSUME NEW m \in Mappings, mapping[m] # None, NEW q \in Span(mapping[m]), q \notin stray'
        PROVE  LET i == mapping[m].at + q - mapping[m].addr
               IN  i < Length(mapping[m].vmo)' /\ table[q] = FrameOf(frames, mapping[m].vmo, i)'
    <3> DEFINE w == mapping[m].vmo
               i == mapping[m].at + q - mapping[m].addr
    <3>1. w \in held /\ w \in Vmos /\ mapping[m] \in Places
      BY <1>7, <2>2 DEF PageInv, Apart, Inv, Types
    <3>2. i \in Nat /\ q \in Pages
      BY <2>2, <3>1, SpanTypes
    <3>3. /\ q \notin stray
          /\ ~ \E k \in n + 1 .. L : table[q] = frames[v][k]
      BY <2>2, <3>2 DEF Resized
    <3>4. i < Length(w) /\ table[q] = FrameOf(frames, w, i)
      BY <1>7, <2>2, <3>3 DEF PageInv, PagesShowTheirVmo
    <3>5. CASE w # v
      <4>1. Base(w) \in Vmos /\ Base(w) # v
        BY <1>3, <3>1, <3>5, BaseTypes DEF Inv
      <4>2. frames'[Base(w)] = frames[Base(w)] /\ slice'[w] = slice[w] /\ Base(w)' = Base(w)
        BY <1>5, <3>1, <4>1
      <4>3. IsSlice(w)' = IsSlice(w) /\ From(w)' = From(w)
        BY <4>2 DEF IsSlice, From
      <4>4. Length(w)' = Length(w)
        BY <1>5, <3>1, <3>5, <4>2, <4>3 DEF Length
      <4>5. FrameOf(frames, w, i)' = FrameOf(frames, w, i)
        BY <4>2, <4>3 DEF FrameOf
      <4> QED
        BY <3>4, <4>4, <4>5
    <3>6. CASE w = v
      <4>1. ~IsSlice(v) /\ Base(v) = v /\ From(v) = 0 /\ Length(v) = L
        BY <1>2 DEF Length, From, Base, IsSlice
      <4>2. ~IsSlice(v)' /\ Base(v)' = v /\ From(v)' = 0 /\ Length(v)' = Len(frames'[v])
        BY <1>2 DEF Length, From, Base, IsSlice
      <4>0. i' = i /\ w' = w
        OBVIOUS
      <4> HIDE DEF L, i, w
      <4>3. i < L /\ table[q] = frames[v][i + 1]
        BY <3>2, <3>4, <3>6, <4>1 DEF FrameOf
      <4>4. i + 1 \in 1 .. n
        <5>1. ~ (i + 1 \in n + 1 .. L)
          BY <3>3, <4>3
        <5> QED
          BY <1>1, <3>2, <4>3, <5>1
      <4>5. frames'[v][i + 1] = frames[v][i + 1]
        BY <1>1, <1>4, <3>2, <4>3, <4>4
      <4>6. i < Length(v)'
        BY <1>4, <3>2, <4>2, <4>4
      <4>7. FrameOf(frames, v, i)' = frames'[v][i + 1]
        BY <3>2, <4>0, <4>2 DEF FrameOf
      <4>8. i < Length(w)' /\ table[q] = FrameOf(frames, w, i)'
        BY <3>6, <4>0, <4>3, <4>5, <4>6, <4>7
      <4> QED
        BY <4>8 DEF i, w
    <3> QED
      BY <3>5, <3>6
  <2> QED
    BY <2>1, <2>2 DEF PageInv, PagesShowTheirVmo, Span
<1> QED
  BY <1>4, <1>6, <1>7 DEF Inv

\* The frames of what is dropped go back only with its last slice.
LEMMA DropInv ==
    ASSUME Inv, NEW v \in Vmos, Drop(v)
    PROVE  Inv' /\ (PageInv => PageInv')
<1> DEFINE b == Base(v)
<1>1. /\ v \in held /\ held' = held \ {v} /\ slice' = [slice EXCEPT ![v] = None]
      /\ UNCHANGED <<mapping, table, stray>>
      /\ \A m \in Mappings : mapping[m] # None => mapping[m].vmo # v
  BY DEF Drop, Mapped
<1>2. b \in Vmos /\ slice[b] = None /\ frames[b] \in Seq(Frames)
  BY BaseTypes DEF Inv, Types
<1>3. \A x \in Vmos : x # v => /\ slice'[x] = slice[x] /\ IsSlice(x)' = IsSlice(x)
                               /\ Base(x)' = Base(x)
  BY <1>1 DEF Inv, Types, IsSlice, Base
<1>4. slice'[v] = None /\ ~IsSlice(v)'
  BY <1>1 DEF Inv, Types, IsSlice
<1>5. CASE Gone(v)
  <2>1. /\ frames' = [frames EXCEPT ![b] = <<>>] /\ free' = free \o frames[b]
        /\ resizable' = [resizable EXCEPT ![b] = FALSE]
    BY <1>5 DEF Drop, GivenBack
  <2>2. Types'
    <3>1. <<>> \in Seq(Frames) /\ free' \in Seq(Frames)
      BY <1>2, <2>1, ConcatProperties DEF Inv, Types
    <3> QED
      BY <1>1, <2>1, <3>1 DEF Inv, Types
  <2>3. FramesOwnedOnce'
    <3>1. SubSeq(frames[b], 1, 0) = <<>> /\ SubSeq(frames[b], 0 + 1, Len(frames[b])) = frames[b]
      <4> DEFINE s == frames[b]
      <4> HIDE DEF s
      <4>1. s \in Seq(Frames)
        BY <1>2 DEF s
      <4>2. SubSeq(s, 1, 0) = <<>> /\ SubSeq(s, 1, Len(s)) = s
        BY <4>1, SubSeqFull, SubSeqEmpty
      <4> QED
        BY <4>2 DEF s
    <3>2. 0 \in Nat /\ 0 <= Len(frames[b])
      BY <1>2, LenProperties
    <3>3. /\ frames' = [frames EXCEPT ![b] = SubSeq(frames[b], 1, 0)]
          /\ free' = free \o SubSeq(frames[b], 0 + 1, Len(frames[b]))
      BY <2>1, <3>1
    <3> HIDE DEF b
    <3> QED
      BY <1>2, <2>2, <3>2, <3>3, GiveOnce DEF Inv
  <2>4. \A s \in held' : Base(s) # b
    BY <1>1, <1>5 DEF Gone
  <2>5. Kept'
    <3>1. ASSUME NEW x \in Vmos, IsSlice(x)' PROVE Cut(x)'
      <4>1. x # v /\ IsSlice(x) /\ Cut(x) /\ x \in held'
        BY <1>1, <1>3, <1>4, <3>1 DEF Inv, Kept, Cut
      <4>2. slice[x].of # b /\ slice[x].of \in Vmos
        BY <2>4, <4>1, BaseTypes DEF Base, Inv
      <4>3. /\ frames'[slice[x].of] = frames[slice[x].of]
            /\ resizable'[slice[x].of] = resizable[slice[x].of]
        BY <2>1, <4>2 DEF Inv, Types
      <4>4. slice'[slice[x].of] = None /\ slice'[x] = slice[x]
        BY <1>3, <1>4, <4>1, <4>2 DEF Cut
      <4> QED
        BY <4>1, <4>3, <4>4 DEF Cut
    <3>2. ASSUME NEW x \in Vmos, \A s \in held' : Base(s)' # x
          PROVE  frames'[x] = <<>> /\ ~resizable'[x]
      <4>1. CASE x = b
        BY <1>2, <2>1, <4>1 DEF Inv, Types
      <4>2. CASE x # b
        <5>1. \A s \in held : Base(s) # x
          BY <1>1, <1>3, <3>2, <4>2 DEF Inv, Types
        <5> QED
          BY <2>1, <4>2, <5>1 DEF Inv, Types, Kept
      <4> QED
        BY <4>1, <4>2
    <3> QED
      BY <3>1, <3>2 DEF Kept
  <2>6. ASSUME PageInv PROVE PageInv'
    <3>1. ASSUME NEW w \in held, \E m \in Mappings : mapping[m] # None /\ mapping[m].vmo = w
          PROVE  Same(w)
      <4>1. w # v /\ w \in Vmos /\ w \in held'
        BY <1>1, <3>1 DEF Inv, Types
      <4>2. Base(w) # b /\ Base(w) \in Vmos
        BY <2>4, <4>1, BaseTypes DEF Inv
      <4>3. frames'[Base(w)] = frames[Base(w)]
        BY <2>1, <4>2 DEF Inv, Types
      <4> QED
        BY <1>3, <4>1, <4>3 DEF Same
    <3>2. \A m \in Mappings : mapping[m] # None => mapping[m].vmo \in held'
      BY <1>1, <2>6 DEF PageInv, Apart
    <3> QED
      BY <1>1, <2>2, <2>6, <3>1, <3>2, PagesStay DEF Inv
  <2> QED
    BY <2>2, <2>3, <2>5, <2>6 DEF Inv
<1>6. CASE ~Gone(v)
  <2>1. UNCHANGED <<free, frames, resizable>>
    BY <1>6 DEF Drop
  <2>2. Types'
    BY <1>1, <2>1 DEF Inv, Types
  <2>3. FramesOwnedOnce'
    BY <2>1 DEF Inv, FramesOwnedOnce, Owned
  <2>4. Kept'
    <3>1. ASSUME NEW x \in Vmos, IsSlice(x)' PROVE Cut(x)'
      <4>1. x # v /\ IsSlice(x) /\ Cut(x) /\ x \in held'
        BY <1>1, <1>3, <1>4, <3>1 DEF Inv, Kept, Cut
      <4>2. slice[x].of \in Vmos
        BY <4>1, BaseTypes DEF Base, Inv
      <4>3. slice'[slice[x].of] = None /\ slice'[x] = slice[x]
        BY <1>3, <1>4, <4>1, <4>2 DEF Cut
      <4> QED
        BY <2>1, <4>1, <4>3 DEF Cut
    <3>2. ASSUME NEW x \in Vmos, \A s \in held' : Base(s)' # x
          PROVE  frames'[x] = <<>> /\ ~resizable'[x]
      <4>1. PICK s \in held \ {v} : Base(s) = b
        BY <1>6 DEF Gone
      <4>2. x # b
        BY <1>1, <1>3, <3>2, <4>1 DEF Inv, Types
      <4>3. \A y \in held : Base(y) # x
        BY <1>1, <1>3, <3>2, <4>2 DEF Inv, Types
      <4> QED
        BY <2>1, <4>3 DEF Inv, Kept
    <3> QED
      BY <3>1, <3>2 DEF Kept
  <2>5. ASSUME PageInv PROVE PageInv'
    <3>1. ASSUME NEW w \in held, \E m \in Mappings : mapping[m] # None /\ mapping[m].vmo = w
          PROVE  Same(w)
      BY <1>1, <1>3, <2>1, <3>1 DEF Same, Inv, Types
    <3>2. \A m \in Mappings : mapping[m] # None => mapping[m].vmo \in held'
      BY <1>1, <2>5 DEF PageInv, Apart
    <3> QED
      BY <1>1, <2>2, <2>5, <3>1, <3>2, PagesStay DEF Inv
  <2> QED
    BY <2>2, <2>3, <2>4, <2>5 DEF Inv
<1> QED
  BY <1>5, <1>6

-----------------------------------------------------------------------------
(* Mappings come and go *)

LEMMA MapInv ==
    ASSUME Inv, NEW m \in Mappings, NEW v \in Vmos, NEW at \in Nat, NEW n \in Nat, NEW addr \in Pages,
           Map(m, v, at, n, addr)
    PROVE  Inv' /\ (PageInv => PageInv')
<1> DEFINE new == [vmo |-> v, at |-> at, len |-> n, addr |-> addr]
<1>1. /\ mapping[m] = None /\ v \in held /\ at + n <= Length(v)
      /\ \A p \in Span(new) : table[p] = None
      /\ mapping' = [mapping EXCEPT ![m] = new]
      /\ table' = [p \in Pages |-> IF p \in Span(new) THEN Committed(v, at + p - addr) ELSE table[p]]
      /\ stray' = stray \cup {p \in Span(new) : Committed(v, at + p - addr)
                                                  # FrameOf(frames, v, at + p - addr)}
      /\ UNCHANGED <<free, held, resizable, frames, slice>>
  BY DEF Map
<1>2. new \in Places
  BY PageAssumption DEF Places
<1>3. Span(new) \subseteq Pages
  BY DEF Span
<1>4. ASSUME NEW p \in Span(new)
      PROVE  /\ at + p - addr \in Nat /\ at + p - addr < Length(v)
             /\ Committed(v, at + p - addr) \in Frames
  <2>1. p \in Nat /\ addr \in Nat /\ at + p - addr \in Nat /\ at + p - addr < at + n
    BY <1>2, SpanTypes
  <2>2. /\ Base(v) \in Vmos /\ frames[Base(v)] \in Seq(Frames) /\ From(v) \in Nat /\ Length(v) \in Nat
        /\ From(v) + Length(v) <= Len(frames[Base(v)]) /\ Len(frames[Base(v)]) \in Nat
    BY BaseTypes, LenProperties DEF Inv, Types
  <2> DEFINE i == at + p - addr
             s == frames[Base(v)]
  <2>3. i < Length(v)
    BY <1>1, <2>1, <2>2
  <2> HIDE DEF i, s
  <2>4. i + 1 \in 1 .. Len(s) /\ s \in Seq(Frames)
    BY <2>1, <2>2, <2>3 DEF i, s
  <2>5. s[i + 1] \in Frames
    BY <2>4, ElementOfSeq
  <2> QED
    BY <2>1, <2>3, <2>5 DEF i, s, Committed
<1>5. Types'
  <2>1. table' \in [Pages -> Frames \cup {None}]
    BY <1>1, <1>4 DEF Inv, Types
  <2>2. mapping' \in [Mappings -> Places \cup {None}]
    BY <1>1, <1>2 DEF Inv, Types
  <2> QED
    BY <1>1, <1>3, <2>1, <2>2 DEF Inv, Types
<1>6. Kept' /\ FramesOwnedOnce'
  BY <1>1 DEF Inv, Kept, Cut, Base, IsSlice, FramesOwnedOnce, Owned
<1>7. ASSUME PageInv PROVE PageInv'
  <2>1. mapping'[m] = new /\ \A k \in Mappings : k # m => mapping'[k] = mapping[k]
    BY <1>1 DEF Inv, Types
  <2>2. ASSUME NEW k \in Mappings, k # m, mapping[k] # None
        PROVE  /\ Span(mapping[k]) \cap Span(new) = {}
               /\ \A p \in Span(mapping[k]) : p \in Pages /\ table'[p] = table[p]
    <3>1. \A p \in Span(mapping[k]) : table[p] # None /\ p \in Pages
      BY <1>7, <2>2 DEF PageInv, Apart, Span
    <3> QED
      BY <1>1, <3>1
  <2>3. \A p \in Span(new) : p \in Pages /\ table'[p] = Committed(v, at + p - addr) /\ table'[p] # None
    BY <1>1, <1>3, <1>4, NoneAssumption
  <2>4. new # None
    BY <1>2, NoneAssumption DEF Places
  <2>5. new.vmo = v /\ new.at = at /\ new.addr = addr
    OBVIOUS
  <2>6. Apart'
    <3>1. ASSUME NEW k \in Mappings, mapping'[k] # None
          PROVE  mapping'[k].vmo \in held' /\ \A p \in Span(mapping'[k]) : table'[p] # None
      <4>1. CASE k = m
        <5>1. mapping'[k] = new /\ v \in held'
          BY <1>1, <2>1, <4>1
        <5> HIDE DEF new
        <5> QED
          BY <2>3, <2>5, <5>1
      <4>2. CASE k # m
        BY <1>1, <1>7, <2>1, <2>2, <3>1, <4>2 DEF PageInv, Apart
      <4> QED
        BY <4>1, <4>2
    <3>2. ASSUME NEW k \in Mappings, NEW l \in Mappings, mapping'[k] # None, mapping'[l] # None, k # l
          PROVE  Span(mapping'[k]) \cap Span(mapping'[l]) = {}
      <4>1. CASE k = m
        BY <2>1, <2>2, <3>2, <4>1
      <4>2. CASE l = m
        BY <2>1, <2>2, <3>2, <4>2
      <4>3. CASE k # m /\ l # m
        BY <1>7, <2>1, <3>2, <4>3 DEF PageInv, Apart
      <4> QED
        BY <4>1, <4>2, <4>3
    <3> QED
      BY <3>1, <3>2 DEF Apart, Span
  <2>8. ASSUME NEW k \in Mappings, mapping'[k] # None, NEW p \in Span(mapping'[k]), p \notin stray'
        PROVE  LET i == mapping'[k].at + p - mapping'[k].addr
               IN  /\ i < Length(mapping'[k].vmo)
                   /\ table'[p] = FrameOf(frames, mapping'[k].vmo, i)
    <3>1. CASE k = m
      <4>1. mapping'[k] = new /\ p \in Span(new)
        BY <2>1, <2>8, <3>1
      <4>2. Committed(v, at + p - addr) = FrameOf(frames, v, at + p - addr)
        BY <1>1, <2>8, <4>1
      <4> QED
        BY <1>4, <2>3, <2>5, <4>1, <4>2
    <3>2. CASE k # m
      BY <1>1, <1>7, <2>1, <2>2, <2>8, <3>2 DEF PageInv, PagesShowTheirVmo
    <3> QED
      BY <3>1, <3>2
  <2>9. PagesShowTheirVmo'
    <3>1. slice' = slice /\ frames' = frames
      BY <1>1
    <3> SUFFICES ASSUME NEW k \in Mappings, (mapping[k] # None)', NEW p \in (Span(mapping[k]) \ stray)'
                 PROVE  (LET i == mapping[k].at + p - mapping[k].addr
                         IN  /\ i < Length(mapping[k].vmo)
                             /\ table[p] = FrameOf(frames, mapping[k].vmo, i))'
      BY DEF PagesShowTheirVmo
    <3>2. mapping'[k] # None /\ p \in Span(mapping'[k]) /\ p \notin stray'
      BY DEF Span
    <3> QED
      BY <2>8, <3>1, <3>2 DEF Length, FrameOf, Base, From, IsSlice
  <2> QED
    BY <2>6, <2>9 DEF PageInv
<1> QED
  BY <1>5, <1>6, <1>7 DEF Inv

LEMMA UnmapInv ==
    ASSUME Inv, NEW m \in Mappings, Unmap(m)
    PROVE  Inv' /\ (PageInv => PageInv')
<1>1. /\ mapping[m] # None /\ mapping' = [mapping EXCEPT ![m] = None]
      /\ table' = [p \in Pages |-> IF p \in Span(mapping[m]) THEN None ELSE table[p]]
      /\ stray' = stray \ Span(mapping[m])
      /\ UNCHANGED <<free, held, resizable, frames, slice>>
  BY DEF Unmap
<1>2. Types'
  BY <1>1 DEF Inv, Types
<1>3. Kept' /\ FramesOwnedOnce'
  BY <1>1 DEF Inv, Kept, Cut, Base, IsSlice, FramesOwnedOnce, Owned
<1>4. ASSUME PageInv PROVE PageInv'
  <2>1. mapping'[m] = None /\ \A k \in Mappings : k # m => mapping'[k] = mapping[k]
    BY <1>1 DEF Inv, Types
  <2>2. ASSUME NEW k \in Mappings, k # m, mapping[k] # None, NEW p \in Span(mapping[k])
        PROVE  p \in Pages /\ p \notin Span(mapping[m]) /\ table'[p] = table[p]
    BY <1>1, <1>4, <2>2 DEF PageInv, Apart, Span
  <2>3. Apart'
    <3>1. ASSUME NEW k \in Mappings, mapping'[k] # None
          PROVE  mapping'[k].vmo \in held' /\ \A p \in Span(mapping'[k]) : table'[p] # None
      BY <1>1, <1>4, <2>1, <2>2, <3>1 DEF PageInv, Apart
    <3>2. ASSUME NEW k \in Mappings, NEW l \in Mappings, mapping'[k] # None, mapping'[l] # None, k # l
          PROVE  Span(mapping'[k]) \cap Span(mapping'[l]) = {}
      BY <1>4, <2>1, <3>2 DEF PageInv, Apart
    <3> QED
      BY <3>1, <3>2 DEF Apart, Span
  <2>4. ASSUME NEW k \in Mappings, mapping'[k] # None, NEW p \in Span(mapping'[k]), p \notin stray'
        PROVE  LET i == mapping'[k].at + p - mapping'[k].addr
               IN  /\ i < Length(mapping'[k].vmo)
                   /\ table'[p] = FrameOf(frames, mapping'[k].vmo, i)
    BY <1>1, <1>4, <2>1, <2>2, <2>4 DEF PageInv, PagesShowTheirVmo
  <2>5. PagesShowTheirVmo'
    <3>1. slice' = slice /\ frames' = frames
      BY <1>1
    <3> SUFFICES ASSUME NEW k \in Mappings, (mapping[k] # None)', NEW p \in (Span(mapping[k]) \ stray)'
                 PROVE  (LET i == mapping[k].at + p - mapping[k].addr
                         IN  /\ i < Length(mapping[k].vmo)
                             /\ table[p] = FrameOf(frames, mapping[k].vmo, i))'
      BY DEF PagesShowTheirVmo
    <3>2. mapping'[k] # None /\ p \in Span(mapping'[k]) /\ p \notin stray'
      BY DEF Span
    <3> QED
      BY <2>4, <3>1, <3>2 DEF Length, FrameOf, Base, From, IsSlice
  <2> QED
    BY <2>3, <2>5 DEF PageInv
<1> QED
  BY <1>2, <1>3, <1>4 DEF Inv

-----------------------------------------------------------------------------
(* All steps *)

Quiet == UNCHANGED <<free, held, resizable, frames, slice, mapping, table, stray>>
LEMMA QuietInv ==
    ASSUME Inv, Quiet
    PROVE  Inv' /\ (PageInv => PageInv')
<1>1. Types' /\ Kept' /\ FramesOwnedOnce'
  BY DEF Quiet, Inv, Types, Kept, Cut, Base, IsSlice, FramesOwnedOnce, Owned
<1>2. PageInv => PageInv'
  BY ZenonT(60) DEF Quiet, PageInv, Apart, PagesShowTheirVmo, Span, Length, FrameOf, Base, From, IsSlice
<1> QED
  BY <1>1, <1>2 DEF Inv

LEMMA NeededTypes ==
    ASSUME NEW s \in Nat
    PROVE  Needed(s) \in Nat
  BY PageAssumption DEF Needed

LEMMA StepInv ==
    ASSUME Inv, [Next]_vars
    PROVE  Inv' /\ (PageInv => PageInv')
<1> USE BoundAssumption, ValueAssumption, PageAssumption
<1>1. ASSUME NEW v \in Vmos, NEW n \in 0 .. MaxLen, NEW r \in BOOLEAN, NewPaged(v, r, n)
      PROVE  Inv' /\ (PageInv => PageInv')
  <2>1. Comes(v, r, n) /\ n \in Nat
    BY <1>1 DEF NewPaged, Comes
  <2> QED
    BY <2>1, ComesInv
<1>2. ASSUME NEW v \in Vmos, NEW n \in 0 .. MaxLen, SetLen(v, n)
      PROVE  Inv' /\ (PageInv => PageInv')
  BY <1>2, ResizedInv DEF SetLen
<1>3. ASSUME NEW v \in Vmos, NEW n \in 0 .. MaxLen, NEW c \in Vmos, NEW at \in 0 .. MaxLen,
             NEW r \in BOOLEAN, CreateChild(v, c, r, at, n)
      PROVE  Inv' /\ (PageInv => PageInv')
  <2>1. Comes(c, r, n) /\ n \in Nat
    BY <1>3 DEF CreateChild, Comes
  <2> QED
    BY <2>1, ComesInv
<1>4. ASSUME NEW v \in Vmos, NEW n \in 0 .. MaxLen, NEW c \in Vmos, NEW at \in 0 .. MaxLen,
             CreateSlice(v, c, at, n)
      PROVE  Inv' /\ (PageInv => PageInv')
  BY <1>4, SliceInv
<1>5. ASSUME NEW v \in Vmos, NEW n \in 0 .. MaxLen, NEW m \in Mappings, NEW at \in 0 .. MaxLen,
             NEW addr \in Pages, Map(m, v, at, n, addr)
      PROVE  Inv' /\ (PageInv => PageInv')
  BY <1>5, MapInv
<1>6. ASSUME NEW v, NEW offset, NEW buf, Write(v, offset, buf)
      PROVE  Inv' /\ (PageInv => PageInv')
  BY <1>6, QuietInv DEF Write, Quiet
<1>7. ASSUME NEW v, NEW offset, NEW n, Zero(v, offset, n)
      PROVE  Inv' /\ (PageInv => PageInv')
  BY <1>6, <1>7 DEF Zero
<1>8. ASSUME NEW v, NEW s, SetContentSize(v, s)
      PROVE  Inv' /\ (PageInv => PageInv')
  BY <1>8, QuietInv DEF SetContentSize, Quiet
<1>9. ASSUME NEW v \in Vmos, NEW s \in Sizes, NEW z \in Sizes, SetContentSizeAndResize(v, s, z)
      PROVE  Inv' /\ (PageInv => PageInv')
  <2>1. CASE Needed(s) > Length(v) /\ resizable[v]
    <3>1. v \in held /\ Resized(v, Needed(s)) /\ UNCHANGED <<held, resizable, slice, mapping, table>>
      BY <1>9, <2>1 DEF SetContentSizeAndResize
    <3>2. Needed(s) \in Nat
      BY NeededTypes
    <3> QED
      BY <2>1, <3>1, <3>2, ResizedInv
  <2>2. CASE ~(Needed(s) > Length(v) /\ resizable[v])
    BY <1>9, <2>2, QuietInv DEF SetContentSizeAndResize, Quiet
  <2> QED
    BY <2>1, <2>2
<1>10. ASSUME NEW v \in Vmos, Drop(v)
       PROVE  Inv' /\ (PageInv => PageInv')
  BY <1>10, DropInv
<1>11. ASSUME NEW m \in Mappings, Unmap(m)
       PROVE  Inv' /\ (PageInv => PageInv')
  BY <1>11, UnmapInv
<1>12. ASSUME NEW p, NEW u, NEW x, Store(p, u, x)
       PROVE  Inv' /\ (PageInv => PageInv')
  BY <1>12, QuietInv DEF Store, Quiet
<1>13. CASE UNCHANGED vars
  BY <1>13, QuietInv DEF vars, Quiet
<1> QED
  BY <1>1, <1>2, <1>3, <1>4, <1>5, <1>6, <1>7, <1>8, <1>9, <1>10, <1>11, <1>12, <1>13 DEF Next

LEMMA InitInv ==
    ASSUME Init
    PROVE  Inv /\ PageInv
<1> DEFINE N == Cardinality(Frames)
           D == 1 .. N
<1>1. N \in Nat /\ IsFiniteSet(D) /\ Cardinality(D) = N
  BY FrameAssumption, FS_CardinalityType, FS_Interval
<1>2. free \in [D -> Frames] /\ \A i, j \in D : i # j => free[i] # free[j]
  BY DEF Init, SetToSeqs
<1>3. free \in Seq(Frames) /\ DOMAIN free = D
  <2>1. Seq(Frames) = UNION {[1 .. n -> Frames] : n \in Nat}
    BY SeqDef
  <2> QED
    BY <1>1, <1>2, <2>1
<1>4. \A f \in Frames : \E i \in D : free[i] = f
  <2>1. free \in Injection(D, Frames)
    BY <1>2 DEF Injection, IsInjective
  <2>2. free \in Surjection(D, Frames)
    <3> HIDE DEF D
    <3> QED
      BY <1>1, <2>1, FrameAssumption, FS_Injection
  <2> QED
    BY <2>2 DEF Surjection
<1>5. /\ frames = [v \in Vmos |-> <<>>] /\ held = {} /\ resizable = [v \in Vmos |-> FALSE]
      /\ slice = [v \in Vmos |-> None] /\ mapping = [m \in Mappings |-> None]
      /\ table = [p \in Pages |-> None] /\ stray = {}
  BY DEF Init
<1>6. Types
  BY <1>3, <1>5 DEF Types
<1>7. Kept
  BY <1>5 DEF Kept, IsSlice
<1>8. FramesOwnedOnce
  <2>1. Owned(None) = free /\ None \in Owners
    BY DEF Owned, Owners
  <2>2. \A o \in Owners : o # None => Owned(o) = <<>> /\ DOMAIN Owned(o) = {}
    BY <1>5 DEF Owned, Owners
  <2>3. \A o, w \in Owners : \A i \in DOMAIN Owned(o), j \in DOMAIN Owned(w) :
          Owned(o)[i] = Owned(w)[j] => o = w /\ i = j
    BY <1>2, <1>3, <2>1, <2>2
  <2>4. \A f \in Frames : f \in Range(free)
    BY <1>3, <1>4 DEF Range
  <2> QED
    BY <2>1, <2>3, <2>4 DEF FramesOwnedOnce
<1>9. PageInv
  BY <1>5 DEF PageInv, Apart, PagesShowTheirVmo
<1> QED
  BY <1>6, <1>7, <1>8, <1>9 DEF Inv

-----------------------------------------------------------------------------
(* The theorems *)

\* A physical frame always has exactly one owner, the queue of
\* kernel-hal-unix or one page of one paged VMO, whatever is created,
\* resized, cut, copied and dropped.
THEOREM FramesOnce == Spec => []FramesOwnedOnce
<1>1. Init => Inv
  BY InitInv
<1>2. Inv /\ [Next]_vars => Inv'
  BY StepInv
<1>3. Inv => FramesOwnedOnce
  BY DEF Inv
<1> QED
  BY <1>1, <1>2, <1>3, PTL DEF Spec

\* A page that no mapped slice and no set_len made stray always shows the
\* frame its VMO has for it.
THEOREM PagesShow == Spec => []PagesShowTheirVmo
<1>1. Init => Inv /\ PageInv
  BY InitInv
<1>2. Inv /\ PageInv /\ [Next]_vars => Inv' /\ PageInv'
  BY StepInv
<1>3. PageInv => PagesShowTheirVmo
  BY DEF PageInv
<1> QED
  BY <1>1, <1>2, <1>3, PTL DEF Spec

-----------------------------------------------------------------------------
(* Bytes and pages: numbers *)

LEMMA Positive == PageSize \in Nat /\ PageSize >= 1 /\ 0 * PageSize = 0 /\ 1 * PageSize = PageSize
  BY PageAssumption

LEMMA Scale ==
    ASSUME NEW a \in Nat, NEW b \in Nat
    PROVE  /\ a * PageSize \in Nat
           /\ (a + b) * PageSize = a * PageSize + b * PageSize
           /\ (a + 1) * PageSize = a * PageSize + PageSize
           /\ a <= b => a * PageSize <= b * PageSize
           /\ a < b => a * PageSize + PageSize <= b * PageSize
<1>1. \A c \in Nat, d \in Nat : c * PageSize \in Nat
         /\ (c + d) * PageSize = c * PageSize + d * PageSize
  BY Positive
<1>2. a <= b => a * PageSize <= b * PageSize
  <2> SUFFICES ASSUME a <= b PROVE a * PageSize <= b * PageSize
    OBVIOUS
  <2>1. PICK d \in Nat : b = a + d
    <3>1. b - a \in Nat /\ b = a + (b - a)
      OBVIOUS
    <3> QED
      BY <3>1
  <2>2. PICK e \in Nat : e = d * PageSize
    BY <1>1
  <2>3. PICK c \in Nat : c = a * PageSize
    BY <1>1
  <2>4. b * PageSize = a * PageSize + d * PageSize
    BY <1>1, <2>1
  <2> QED
    BY <2>2, <2>3, <2>4
<1>3. (a + 1) * PageSize = a * PageSize + PageSize
  BY <1>1, Positive
<1>4. a < b => a * PageSize + PageSize <= b * PageSize
  <2> SUFFICES ASSUME a < b PROVE a * PageSize + PageSize <= b * PageSize
    OBVIOUS
  <2>1. PICK d \in Nat : b = (a + 1) + d
    <3>1. b - (a + 1) \in Nat /\ b = (a + 1) + (b - (a + 1))
      OBVIOUS
    <3> QED
      BY <3>1
  <2>2. b * PageSize = (a + 1) * PageSize + d * PageSize /\ d * PageSize \in Nat
    BY <1>1, <2>1
  <2> QED
    BY <1>1, <1>3, <2>2, Positive
<1> QED
  BY <1>1, <1>2, <1>3, <1>4

\* Every byte is at one place of one page.
LEMMA PlaceOf ==
    ASSUME NEW x \in Nat
    PROVE  /\ x \div PageSize \in Nat /\ x % PageSize \in Units /\ x % PageSize \in Nat
           /\ x % PageSize < PageSize
           /\ x = (x \div PageSize) * PageSize + (x % PageSize)
  BY Positive DEF Units

LEMMA PlaceIs ==
    ASSUME NEW k \in Nat, NEW u \in Units
    PROVE  /\ k * PageSize + u \in Nat
           /\ (k * PageSize + u) \div PageSize = k
           /\ (k * PageSize + u) % PageSize = u
<1> DEFINE x == k * PageSize + u
           q == x \div PageSize
           r == x % PageSize
<1>1. u \in Nat /\ u < PageSize /\ x \in Nat
  <2>1. u \in Nat /\ u < PageSize /\ k * PageSize \in Nat
    BY Positive, Scale DEF Units
  <2> QED
    BY <2>1
<1>2. q \in Nat /\ r \in Nat /\ r < PageSize /\ q * PageSize + r = k * PageSize + u
  BY <1>1, PlaceOf
<1> HIDE DEF x, q, r
<1> PICK a \in Nat, b \in Nat : a = q * PageSize /\ b = k * PageSize
  BY <1>2, Scale
<1>3. ~(q < k)
  <2>1. q < k => a + PageSize <= b
    BY <1>2, Scale
  <2> QED
    BY <1>1, <1>2, <2>1, Positive
<1>4. ~(k < q)
  <2>1. k < q => b + PageSize <= a
    BY <1>2, Scale
  <2> QED
    BY <1>1, <1>2, <2>1, Positive
<1>5. q = k
  BY <1>2, <1>3, <1>4
<1>6. r = u
  BY <1>1, <1>2, <1>5
<1> QED
  BY <1>1, <1>5, <1>6 DEF x, q, r

-----------------------------------------------------------------------------
(* BlockIter: the recursion over a range of bytes *)

\* Where the blocks of b .. end - 1 begin
Starts(b, end) == {b} \cup {c \in b + 1 .. end - 1 : c % PageSize = 0}
Blocks(b, end) == IF b >= end THEN {} ELSE {Block(c, end) : c \in Starts(b, end)}
After(b, end) == b + Block(b, end).end - Block(b, end).begin

LEMMA BlockEnds ==
    ASSUME NEW b \in Nat, NEW end \in Nat, b < end
    PROVE  /\ After(b, end) \in Nat /\ b < After(b, end) /\ After(b, end) <= end
           /\ After(b, end) # end => After(b, end) % PageSize = 0
           /\ \A c \in b + 1 .. end - 1 : c % PageSize = 0 => After(b, end) <= c
           /\ After(b, end) = (b \div PageSize) * PageSize + Block(b, end).end
           /\ Block(b, end).end \in Nat /\ Block(b, end).end <= PageSize
<1> DEFINE k == b \div PageSize
           r == b % PageSize
           j == end \div PageSize
           e == end % PageSize
           n == After(b, end)
<1>1. /\ k \in Nat /\ r \in Nat /\ r < PageSize /\ b = k * PageSize + r
      /\ j \in Nat /\ e \in Nat /\ e < PageSize /\ end = j * PageSize + e
  BY PlaceOf
<1>2. n = b + (IF k = j THEN e ELSE PageSize) - r /\ Block(b, end).end = IF k = j THEN e ELSE PageSize
  BY DEF After, Block
<1>3. PICK a \in Nat : a = k * PageSize
  BY <1>1, Scale
<1>4. ASSUME NEW c \in b + 1 .. end - 1, c % PageSize = 0
      PROVE  a + PageSize <= c /\ k # j
  <2> DEFINE q == c \div PageSize
  <2>1. q \in Nat /\ c = q * PageSize /\ c \in Nat /\ b < c /\ c < end
    <3>1. c \in Nat /\ b < c /\ c < end
      OBVIOUS
    <3>2. q \in Nat /\ c = q * PageSize + (c % PageSize) /\ q * PageSize \in Nat
      BY <3>1, PlaceOf, Scale
    <3> QED
      BY <3>1, <3>2, <1>4
  <2> HIDE DEF q, k, r, j, e
  <2>2. ~(q <= k)
    <3>1. q <= k => q * PageSize <= a
      BY <1>1, <1>3, <2>1, Scale
    <3> QED
      BY <1>1, <1>3, <2>1, <3>1
  <2>3. a + PageSize <= c
    BY <1>1, <1>3, <2>1, <2>2, Scale
  <2>4. k # j
    BY <1>1, <1>3, <2>1, <2>3, Positive
  <2> QED
    BY <2>3, <2>4
<1> DEFINE Ends(m, t) ==
             /\ m \in Nat /\ b < m /\ m <= end
             /\ m # end => m % PageSize = 0
             /\ \A c \in b + 1 .. end - 1 : c % PageSize = 0 => m <= c
             /\ m = a + t /\ t \in Nat /\ t <= PageSize
<1> HIDE DEF n, k, r, j, e
<1>5. ASSUME k = j PROVE Ends(n, Block(b, end).end)
  <2>1. n = end /\ n = a + e
    BY <1>1, <1>2, <1>3, <1>5
  <2>2. \A c \in b + 1 .. end - 1 : c % PageSize # 0
    BY <1>4, <1>5
  <2>3. Block(b, end).end = e
    BY <1>2, <1>5
  <2>4. Ends(n, e)
    <3>1. n \in Nat /\ b < n /\ n <= end /\ n = end
      BY <2>1
    <3>2. e \in Nat /\ e <= PageSize /\ n = a + e
      BY <1>1, <2>1, Positive
    <3>3. \A c \in b + 1 .. end - 1 : c % PageSize = 0 => n <= c
      BY <2>2
    <3> QED
      BY <3>1, <3>2, <3>3
  <2> QED
    BY <2>3, <2>4
<1>6. ASSUME k # j PROVE Ends(n, Block(b, end).end)
  <2>1. n = a + PageSize
    BY <1>1, <1>2, <1>3, <1>6, Positive
  <2>2. ~(j < k)
    <3>1. j < k => j * PageSize + PageSize <= a
      BY <1>1, <1>3, Scale
    <3>2. j * PageSize \in Nat
      BY <1>1, Scale
    <3> QED
      BY <1>1, <1>3, <3>1, <3>2, Positive
  <2>3. a + PageSize <= j * PageSize /\ j * PageSize \in Nat
    BY <1>1, <1>3, <1>6, <2>2, Scale
  <2>4. n <= end /\ b < n /\ n \in Nat
    BY <1>1, <1>3, <2>1, <2>3, Positive
  <2>5. n % PageSize = 0
    <3>1. (k + 1) * PageSize + 0 = n /\ 0 \in Units /\ k + 1 \in Nat
      BY <1>1, <1>3, <2>1, Scale, Positive DEF Units
    <3> QED
      BY <3>1, PlaceIs
  <2> QED
    BY <1>2, <1>4, <1>6, <2>1, <2>4, <2>5, Positive
<1>7. Ends(n, Block(b, end).end)
  BY <1>5, <1>6
<1> QED
  BY <1>3, <1>7 DEF n, k

\* The closed form obeys the recursion.
LEMMA BlocksStep ==
    ASSUME NEW b \in Nat, NEW end \in Nat, b < end
    PROVE  Blocks(b, end) = {Block(b, end)} \cup Blocks(After(b, end), end)
<1> DEFINE n == After(b, end)
<1>1. /\ n \in Nat /\ b < n /\ n <= end
      /\ n # end => n % PageSize = 0
      /\ \A c \in b + 1 .. end - 1 : c % PageSize = 0 => n <= c
  BY BlockEnds
<1> HIDE DEF n
<1>2. CASE n = end
  <2>1. Starts(b, end) = {b}
    BY <1>1, <1>2 DEF Starts
  <2>2. Blocks(n, end) = {}
    BY <1>2 DEF Blocks
  <2>3. Blocks(b, end) = {Block(b, end)}
    BY <2>1 DEF Blocks
  <2> QED
    BY <2>2, <2>3 DEF n
<1>3. CASE n # end
  <2>1. Starts(b, end) = {b} \cup Starts(n, end)
    <3>1. ASSUME NEW c \in b + 1 .. end - 1, c % PageSize = 0, c # n PROVE c \in n + 1 .. end - 1
      BY <3>1, <1>1
    <3>2. n \in b + 1 .. end - 1 /\ n + 1 .. end - 1 \subseteq b + 1 .. end - 1
      BY <1>1, <1>3
    <3> QED
      BY <3>1, <3>2, <1>1, <1>3 DEF Starts
  <2>2. Blocks(n, end) = {Block(c, end) : c \in Starts(n, end)}
    BY <1>1, <1>3 DEF Blocks
  <2>3. Blocks(b, end) = {Block(c, end) : c \in Starts(b, end)}
    BY DEF Blocks
  <2>4. Blocks(b, end) = {Block(b, end)} \cup Blocks(n, end)
    BY <2>1, <2>2, <2>3
  <2> QED
    BY <2>4 DEF n
<1> QED
  BY <1>2, <1>3

LEMMA BlocksClosed ==
    ASSUME NEW begin \in Nat, NEW end \in Nat, begin <= end
    PROVE  BlocksOf(begin, end) = Blocks(begin, end)
<1> DEFINE S == begin .. end + PageSize
           G(f) == [b \in S |-> IF b >= end THEN {}
                                ELSE {Block(b, end)} \cup f[b + Block(b, end).end - Block(b, end).begin]]
           w == [b \in S |-> Blocks(b, end)]
<1>1. ASSUME NEW b \in S, b < end
      PROVE  b \in Nat /\ After(b, end) \in S /\ After(b, end) > b
  <2>1. b \in Nat /\ b >= begin
    OBVIOUS
  <2>2. After(b, end) \in Nat /\ b < After(b, end) /\ After(b, end) <= end
    BY <2>1, <1>1, BlockEnds
  <2> QED
    BY <2>1, <2>2, Positive
<1>2. ASSUME NEW b \in S
      PROVE  Blocks(b, end) = IF b >= end THEN {} ELSE {Block(b, end)} \cup w[After(b, end)]
  <2>1. CASE b >= end
    BY <2>1 DEF Blocks
  <2>2. CASE ~(b >= end)
    <3>1. b \in Nat /\ b < end
      BY <2>2
    <3>2. Blocks(b, end) = {Block(b, end)} \cup Blocks(After(b, end), end)
      BY <3>1, BlocksStep
    <3>3. w[After(b, end)] = Blocks(After(b, end), end)
      BY <3>1, <1>1
    <3> QED
      BY <2>2, <3>2, <3>3
  <2> QED
    BY <2>1, <2>2
<1>3. w = G(w)
  BY <1>2 DEF After
<1>4. PICK f : f = G(f) /\ BlocksOf(begin, end) = f[begin]
  BY <1>3 DEF BlocksOf
<1>5. ASSUME NEW b \in S
      PROVE  f[b] = IF b >= end THEN {} ELSE {Block(b, end)} \cup f[After(b, end)]
  BY <1>4 DEF After
<1> HIDE DEF G
\* Where they differed last, they would differ again behind it.
<1>6. \A b \in S : f[b] = w[b]
  <2> DEFINE D == {b \in S : f[b] # w[b]}
             Tails == {b .. end + PageSize : b \in D}
             R == StrictSubsetOrdering(Nat)
  <2> SUFFICES ASSUME D # {} PROVE FALSE
    OBVIOUS
  <2>1. ASSUME NEW b \in S
        PROVE  b \in Nat /\ b .. end + PageSize \in FiniteSubsetsOf(Nat)
               /\ b .. end + PageSize \in SUBSET Nat /\ b \in b .. end + PageSize
    <3>1. b \in Nat /\ end + PageSize \in Nat /\ b <= end + PageSize
      BY Positive
    <3>2. IsFiniteSet(b .. end + PageSize)
      BY <3>1, FS_Interval
    <3>3. b .. end + PageSize \in SUBSET Nat
      BY <3>1
    <3> QED
      BY <3>1, <3>2, <3>3 DEF FiniteSubsetsOf
  <2>2. Tails \subseteq FiniteSubsetsOf(Nat) /\ Tails # {}
    BY <2>1
  <2>3. IsWellFoundedOn(R, FiniteSubsetsOf(Nat))
    BY FS_StrictSubsetOrderingWellFounded
  <2> HIDE DEF R, Tails
  <2>4. PICK T \in Tails : \A U \in Tails : ~(<<U, T>> \in R)
    BY <2>2, <2>3, WFMin
  <2>5. PICK b \in D : T = b .. end + PageSize
    BY DEF Tails
  <2>6. b < end /\ f[After(b, end)] # w[After(b, end)]
    <3>1. b \in S /\ f[b] # w[b] /\ w[b] = Blocks(b, end)
      OBVIOUS
    <3>2. ~(b >= end) /\ b \in Nat
      BY <2>1, <3>1, <1>2, <1>5
    <3>3. /\ f[b] = {Block(b, end)} \cup f[After(b, end)]
          /\ w[b] = {Block(b, end)} \cup w[After(b, end)]
      BY <3>1, <3>2, <1>2, <1>5
    <3> QED
      BY <3>1, <3>2, <3>3
  <2>7. After(b, end) \in D /\ After(b, end) > b
    BY <1>1, <2>6
  <2>8. After(b, end) .. end + PageSize \in Tails
    BY <2>7 DEF Tails
  <2>9. After(b, end) \in Nat /\ b \in Nat
    BY <2>1, <2>7
  <2>10. /\ After(b, end) .. end + PageSize \subseteq T
         /\ b \in T /\ b \notin After(b, end) .. end + PageSize
    BY <2>1, <2>5, <2>7, <2>9
  <2>11. T \in SUBSET Nat /\ After(b, end) .. end + PageSize \in SUBSET Nat
    BY <2>1, <2>5, <2>7
  <2>12. <<After(b, end) .. end + PageSize, T>> \in R
    BY <2>10, <2>11 DEF R, StrictSubsetOrdering
  <2> QED
    BY <2>4, <2>8, <2>12
<1>7. begin \in S /\ w[begin] = Blocks(begin, end)
  <2>1. begin \in S
    BY Positive
  <2> QED
    BY <2>1
<1> HIDE DEF S, w
<1> QED
  BY <1>4, <1>6, <1>7

\* The blocks are the bytes of the range, each once.
LEMMA BytesOfBlocks ==
    ASSUME NEW begin \in Nat, NEW end \in Nat, begin <= end
    PROVE  /\ \A b \in Blocks(begin, end) : \A u \in b.begin .. b.end - 1 :
                b.block \in Nat /\ u \in Units /\ b.block * PageSize + u \in begin .. end - 1
           /\ \A x \in begin .. end - 1 : \E b \in Blocks(begin, end) :
                b.block = x \div PageSize /\ x % PageSize \in b.begin .. b.end - 1
<1>1. ASSUME NEW b \in Blocks(begin, end), NEW u \in b.begin .. b.end - 1
      PROVE  b.block \in Nat /\ u \in Units /\ b.block * PageSize + u \in begin .. end - 1
  <2>1. PICK c \in Nat : c >= begin /\ c < end /\ b = Block(c, end)
    BY DEF Blocks, Starts
  <2>2. /\ b.block = c \div PageSize /\ b.begin = c % PageSize
        /\ b.block \in Nat /\ b.begin \in Nat /\ c = b.block * PageSize + b.begin
    BY <2>1, PlaceOf DEF Block
  <2>3. PICK a \in Nat : a = b.block * PageSize
    BY <2>2, Scale
  <2>4. b.end \in Nat /\ b.end <= PageSize /\ a + b.end <= end
    <3>1. /\ b.end \in Nat /\ b.end <= PageSize /\ After(c, end) <= end
          /\ After(c, end) = (c \div PageSize) * PageSize + b.end
      BY <2>1, BlockEnds
    <3>2. (c \div PageSize) * PageSize = a
      BY <2>2, <2>3
    <3> QED
      BY <3>1, <3>2
  <2>5. u \in Nat /\ u >= b.begin /\ u < b.end
    BY <2>2, <2>4
  <2>6. u \in Units
    BY <2>4, <2>5, Positive DEF Units
  <2>7. a + u \in begin .. end - 1
    <3>1. c = a + b.begin /\ b.begin \in Nat
      BY <2>2, <2>3
    <3>2. a + u >= c /\ a + u < end /\ a + u \in Nat
      BY <3>1, <2>4, <2>5
    <3> QED
      BY <2>1, <3>2
  <2> QED
    BY <2>2, <2>3, <2>6, <2>7
<1>2. ASSUME NEW x \in begin .. end - 1
      PROVE  \E b \in Blocks(begin, end) :
                b.block = x \div PageSize /\ x % PageSize \in b.begin .. b.end - 1
  <2> DEFINE q == x \div PageSize
             r == x % PageSize
  <2>1. x \in Nat /\ begin <= x /\ x < end /\ q \in Nat /\ r \in Nat /\ r < PageSize
        /\ x = q * PageSize + r
    <3>1. x \in Nat /\ begin <= x /\ x < end
      OBVIOUS
    <3> QED
      BY <3>1, PlaceOf
  <2>2. PICK a \in Nat : a = q * PageSize
    BY <2>1, Scale
  <2>3. ASSUME NEW c \in Starts(begin, end), c \in Nat, c \div PageSize = q, c % PageSize <= r
        PROVE  \E b \in Blocks(begin, end) : b.block = q /\ r \in b.begin .. b.end - 1
    <3>1. Block(c, end) \in Blocks(begin, end)
      BY <2>1, <2>3 DEF Blocks
    <3>2. Block(c, end).block = q /\ Block(c, end).begin = c % PageSize
          /\ Block(c, end).end = IF q = end \div PageSize THEN end % PageSize ELSE PageSize
      BY <2>3 DEF Block
    <3>3. end = (end \div PageSize) * PageSize + (end % PageSize) /\ end % PageSize \in Nat
      BY PlaceOf
    <3>4. r < Block(c, end).end /\ Block(c, end).end \in Nat
      <4>1. CASE q = end \div PageSize
        BY <4>1, <2>1, <2>2, <3>2, <3>3
      <4>2. CASE q # end \div PageSize
        BY <4>2, <2>1, <3>2, Positive
      <4> QED
        BY <4>1, <4>2
    <3>5. c % PageSize \in Nat
      BY <2>3, PlaceOf
    <3>6. r \in Block(c, end).begin .. Block(c, end).end - 1
      BY <2>1, <2>3, <3>2, <3>4, <3>5
    <3> QED
      BY <3>1, <3>2, <3>6
  <2> DEFINE k == begin \div PageSize
             s == begin % PageSize
  <2>4. k \in Nat /\ s \in Nat /\ s < PageSize /\ begin = k * PageSize + s
    BY PlaceOf
  <2>5. PICK d \in Nat : d = k * PageSize
    BY <2>4, Scale
  <2>6. CASE k = q
    <3>1. s <= r
      BY <2>1, <2>2, <2>4, <2>5, <2>6
    <3>2. begin \in Starts(begin, end)
      BY DEF Starts
    <3> QED
      BY <2>3, <2>6, <3>1, <3>2
  <2>7. CASE k # q
    <3> HIDE DEF k, s
    <3>1. ~(q < k)
      <4>1. q < k => a + PageSize <= d
        BY <2>1, <2>2, <2>4, <2>5, Scale
      <4>2. x = a + r /\ begin = d + s
        BY <2>1, <2>2, <2>4, <2>5
      <4> QED
        BY <2>1, <2>4, <4>1, <4>2, Positive
    <3>2. d + PageSize <= a
      <4>1. k < q => d + PageSize <= a
        BY <2>1, <2>2, <2>4, <2>5, Scale
      <4> QED
        BY <2>1, <2>4, <2>7, <3>1, <4>1
    <3>3. begin < a /\ a < end
      <4>1. x = a + r /\ begin = d + s
        BY <2>1, <2>2, <2>4, <2>5
      <4> QED
        BY <2>1, <2>4, <4>1, <3>2, Positive
    <3>4. a \div PageSize = q /\ a % PageSize = 0
      <4>1. 0 \in Units /\ q * PageSize + 0 = a
        BY <2>2, Positive DEF Units
      <4> QED
        BY <2>1, <4>1, PlaceIs
    <3>5. a \in Starts(begin, end)
      BY <3>3, <3>4 DEF Starts
    <3> QED
      BY <2>1, <2>3, <3>4, <3>5
  <2> QED
    BY <2>6, <2>7
<1> QED
  BY <1>1, <1>2

\* What for_each_page hands on for the byte x of the VMO
PassOf(fs, v, offset, x) ==
    [frame |-> FrameOf(fs, v, x \div PageSize), unit |-> x % PageSize, pos |-> x - offset]

\* for_each_page hands on each byte of the range, in its frame and with its place
\* in the buffer, and nothing else: BlockIter cuts any range into pieces that
\* stay in one page and miss no byte, wherever it begins and ends.
THEOREM PagesOfRange ==
    ASSUME NEW fs, NEW v, NEW offset \in Nat, NEW n \in Nat
    PROVE  \A h : h \in ForEachPage(fs, v, offset, n) <=>
                    \E x \in offset .. offset + n - 1 : h = PassOf(fs, v, offset, x)
<1> DEFINE end == offset + n
           Rec(k, u, p) == [frame |-> FrameOf(fs, v, k), unit |-> u, pos |-> p]
           Hit(k, u) == Rec(k, u, k * PageSize + u - offset)
           F == UNION {{Hit(b.block, u) : u \in b.begin .. b.end - 1} : b \in Blocks(offset, end)}
           H(x) == Rec(x \div PageSize, x % PageSize, x - offset)
<1>1. end \in Nat /\ offset <= end
  OBVIOUS
<1>2. ForEachPage(fs, v, offset, n) = F
  BY <1>1, BlocksClosed DEF ForEachPage
<1> HIDE DEF Rec
<1>3. ASSUME NEW b \in Blocks(offset, end), NEW u \in b.begin .. b.end - 1
      PROVE  b.block * PageSize + u \in offset .. end - 1
             /\ Hit(b.block, u) = H(b.block * PageSize + u)
  <2>1. b.block \in Nat /\ u \in Units /\ b.block * PageSize + u \in offset .. end - 1
    BY <1>1, BytesOfBlocks
  <2>2. PICK k \in Nat : k = b.block
    BY <2>1
  <2>3. (k * PageSize + u) \div PageSize = k /\ (k * PageSize + u) % PageSize = u
    BY <2>1, PlaceIs
  <2>4. PICK y : y = k * PageSize + u
    OBVIOUS
  <2>5. y \div PageSize = k /\ y % PageSize = u
    BY <2>3, <2>4
  <2>6. H(y) = Hit(k, u)
    <3>1. H(y) = Rec(k, u, y - offset)
      BY <2>5
    <3>2. k * PageSize + u - offset = y - offset
      <4>1. k * PageSize \in Nat /\ u \in Nat
        BY <2>1, Scale, Positive DEF Units
      <4> QED
        BY <2>4, <4>1
    <3>3. Hit(k, u) = Rec(k, u, y - offset)
      BY <3>2
    <3> QED
      BY <3>1, <3>3
  <2> QED
    BY <2>1, <2>2, <2>4, <2>6
<1>4. ASSUME NEW x \in offset .. end - 1
      PROVE  \E b \in Blocks(offset, end) : \E u \in b.begin .. b.end - 1 : H(x) = Hit(b.block, u)
  <2>1. PICK b \in Blocks(offset, end) :
           b.block = x \div PageSize /\ x % PageSize \in b.begin .. b.end - 1
    BY <1>1, BytesOfBlocks
  <2>2. x = (x \div PageSize) * PageSize + (x % PageSize)
    <3>1. x \in Nat
      BY <1>1
    <3> QED
      BY <3>1, PlaceOf
  <2>3. PICK k, u : k = x \div PageSize /\ u = x % PageSize
    OBVIOUS
  <2>4. H(x) = Hit(k, u)
    <3>1. x = k * PageSize + u
      BY <2>2, <2>3
    <3>2. H(x) = Rec(k, u, x - offset)
      BY <2>3
    <3>3. k * PageSize + u - offset = x - offset
      <4>1. x \in Nat /\ k \in Nat /\ u \in Nat /\ k * PageSize \in Nat
        BY <1>1, <2>3, PlaceOf, Scale
      <4> QED
        BY <3>1, <4>1
    <3>4. Hit(k, u) = Rec(k, u, x - offset)
      BY <3>3
    <3> QED
      BY <3>2, <3>4
  <2>5. b.block = k /\ u \in b.begin .. b.end - 1
    BY <2>1, <2>3
  <2> QED
    BY <2>4, <2>5
<1> HIDE DEF H, Hit, end
<1>5. \A h : h \in F <=> \E b \in Blocks(offset, end) : \E u \in b.begin .. b.end - 1 : h = Hit(b.block, u)
  OBVIOUS
<1>6. F = {H(x) : x \in offset .. end - 1}
  <2>1. \A h \in F : \E x \in offset .. end - 1 : h = H(x)
    BY <1>3, <1>5
  <2>2. \A x \in offset .. end - 1 : H(x) \in F
    BY <1>4, <1>5
  <2> QED
    BY <2>1, <2>2
<1> QED
  BY <1>2, <1>6 DEF H, Rec, end, PassOf

\* In the frames of s, the bytes from start on are now those of the buffer, and
\* no others changed.
Filled == [Frames -> [Units -> Values]]
Once(s) == \A i, j \in 1 .. Len(s) : s[i] = s[j] => i = j
Written(new, s, start, buf) ==
    /\ new \in Filled
    /\ \A f \in Frames : (\A i \in 1 .. Len(s) : s[i] # f) => new[f] = byte[f]
    /\ \A i \in 1 .. Len(s), u \in Units, y \in Int :
          ((i - 1) * PageSize) + u = start + y =>
          new[s[i]][u] = IF 0 <= y /\ y < Len(buf) THEN buf[y + 1] ELSE byte[s[i]][u]

LEMMA StoredBytes ==
    ASSUME Types, byte \in Filled,
           NEW fs \in [Vmos -> Seq(Frames)], NEW v \in Vmos, NEW b \in Vmos, b = Base(v),
           NEW w \in Nat, w = From(v),
           NEW offset \in Nat, NEW buf \in Seq(Values),
           Once(fs[b]),
           Len(buf) = 0 \/ (w * PageSize) + offset + Len(buf) <= Len(fs[b]) * PageSize
    PROVE  Written(Stored(fs, v, offset, buf), fs[b], (w * PageSize) + offset, buf)
<1> USE DEF Filled, Once
<1> DEFINE n == Len(buf)
           R == offset .. offset + n - 1
           hit == ForEachPage(fs, v, offset, n)
           Is(h, f, u) == h.frame = f /\ h.unit = u
           Hit(f, u) == CHOOSE h \in hit : Is(h, f, u)
           new == Stored(fs, v, offset, buf)
           L == Len(fs[b])
           Rec(x) == PassOf(fs, v, offset, x)
<1>1. n \in Nat /\ L \in Nat /\ buf \in [1 .. n -> Values] /\ fs[b] \in [1 .. L -> Frames]
  BY LenProperties
<1>2. new = [f \in Frames |-> [u \in Units |->
                IF \E h \in hit : Is(h, f, u) THEN buf[Hit(f, u).pos + 1] ELSE byte[f][u]]]
  BY DEF Stored
<1>3. \A h : h \in hit <=> \E x \in R : h = Rec(x)
  <2>1. n \in Nat
    BY <1>1
  <2> HIDE DEF n
  <2> QED
    BY <2>1, PagesOfRange
<1> HIDE DEF n, R, hit, new, L
<1>4. ASSUME NEW x \in R
      PROVE  /\ x \in Nat /\ x >= offset /\ x < offset + n /\ n # 0
             /\ x \div PageSize \in Nat /\ x % PageSize \in Units
             /\ x = ((x \div PageSize) * PageSize) + (x % PageSize)
             /\ w + (x \div PageSize) + 1 \in 1 .. L
             /\ Rec(x).frame = fs[b][w + (x \div PageSize) + 1]
             /\ Rec(x).unit = x % PageSize /\ Rec(x).pos = x - offset
  <2> DEFINE q == x \div PageSize
  <2>1. x \in Nat /\ x >= offset /\ x < offset + n /\ n # 0
    BY <1>1 DEF R
  <2>2. q \in Nat /\ x % PageSize \in Units /\ x % PageSize \in Nat
          /\ x = (q * PageSize) + (x % PageSize)
    BY <2>1, PlaceOf
  <2> HIDE DEF q
  <2>3. w + q < L
    <3>1. PICK a \in Nat : a = w * PageSize
      BY Scale
    <3>2. PICK c \in Nat : c = q * PageSize
      BY <2>2, Scale
    <3>3. PICK d \in Nat : d = L * PageSize
      BY <1>1, Scale
    <3>4. (w + q) * PageSize = a + c
      BY <2>2, <3>1, <3>2, Scale
    <3>5. L <= w + q => d <= a + c
      <4>1. w + q \in Nat
        BY <2>2
      <4> QED
        BY <1>1, <3>3, <3>4, <4>1, Scale
    <3>6. a + offset + n <= d
      BY <2>1, <3>1, <3>3 DEF n, L
    <3> QED
      BY <1>1, <2>1, <2>2, <3>2, <3>5, <3>6, SMTT(30)
  <2>4. w + q + 1 \in 1 .. L
    BY <1>1, <2>2, <2>3, SMTT(30)
  <2>5. FrameOf(fs, v, q) = fs[b][w + q + 1]
    BY DEF FrameOf
  <2>6. Rec(x).frame = FrameOf(fs, v, q) /\ Rec(x).unit = x % PageSize /\ Rec(x).pos = x - offset
    BY DEF PassOf, q
  <2> QED
    BY <2>1, <2>2, <2>4, <2>5, <2>6 DEF q
<1> HIDE DEF Rec
<1>5. ASSUME NEW f \in Frames, NEW u \in Units, \E h \in hit : Is(h, f, u)
      PROVE  \E x \in R : Hit(f, u) = Rec(x) /\ f = fs[b][w + (x \div PageSize) + 1] /\ u = x % PageSize
  <2>1. Hit(f, u) \in hit /\ Is(Hit(f, u), f, u)
    BY <1>5
  <2>2. PICK x \in R : Hit(f, u) = Rec(x)
    BY <2>1, <1>3
  <2> HIDE DEF Hit
  <2>3. Hit(f, u).frame = f /\ Hit(f, u).unit = u
    BY <2>1
  <2>4. Rec(x).frame = fs[b][w + (x \div PageSize) + 1] /\ Rec(x).unit = x % PageSize
    BY <1>4
  <2> QED
    BY <2>2, <2>3, <2>4
<1> HIDE DEF Hit
<1>6. new \in [Frames -> [Units -> Values]]
  <2>1. ASSUME NEW f \in Frames, NEW u \in Units, \E h \in hit : Is(h, f, u)
        PROVE  buf[Hit(f, u).pos + 1] \in Values
    <3>1. PICK x \in R : Hit(f, u) = Rec(x)
      BY <1>5, <2>1, SMTT(30)
    <3>2. Hit(f, u).pos + 1 \in 1 .. n
      BY <1>1, <1>4, <3>1, SMTT(30)
    <3> QED
      BY <1>1, <3>2
  <2> HIDE DEF Is
  <2> QED
    BY <1>2, <2>1
<1>7. ASSUME NEW f \in Frames, \A i \in 1 .. L : fs[b][i] # f
      PROVE  new[f] = byte[f]
  <2>1. ASSUME NEW u \in Units PROVE ~(\E h \in hit : Is(h, f, u))
    <3> SUFFICES ASSUME \E h \in hit : Is(h, f, u) PROVE FALSE
      OBVIOUS
    <3>1. PICK x \in R : f = fs[b][w + (x \div PageSize) + 1]
      BY <1>5
    <3>2. w + (x \div PageSize) + 1 \in 1 .. L
      BY <1>4
    <3> QED
      BY <1>7, <3>1, <3>2
  <2> HIDE DEF Is
  <2>2. new[f] = [u \in Units |-> byte[f][u]]
    BY <1>2, <2>1
  <2> QED
    BY <2>2
<1>8. ASSUME NEW i \in 1 .. L, NEW u \in Units, NEW y \in Int,
             ((i - 1) * PageSize) + u = (w * PageSize) + offset + y
      PROVE  new[fs[b][i]][u] = IF 0 <= y /\ y < n THEN buf[y + 1] ELSE byte[fs[b][i]][u]
  <2> DEFINE f == fs[b][i]
  <2>1. f \in Frames /\ i \in Nat /\ i - 1 \in Nat /\ u \in Nat
    BY <1>1, Positive DEF Units
  <2>2. ASSUME NEW x \in R, f = fs[b][w + (x \div PageSize) + 1], u = x % PageSize
        PROVE  x = offset + y
    <3> DEFINE q == x \div PageSize
    <3>1. q \in Nat /\ x \in Nat /\ x = (q * PageSize) + u /\ w + q + 1 \in 1 .. L
      BY <1>4, <2>2
    <3>2. i - 1 = w + q
      BY <1>1, <2>1, <2>2, <3>1, SMTT(30) DEF L
    <3> HIDE DEF q
    <3>3. (i - 1) * PageSize = (w * PageSize) + (q * PageSize)
      BY <3>1, <3>2, Scale
    <3>4. PICK a \in Nat, c \in Nat : a = w * PageSize /\ c = q * PageSize
      BY <3>1, Scale
    <3>5. a + c + u = a + offset + y
      BY <1>8, <3>3, <3>4
    <3>6. c + u = x
      BY <3>1, <3>4
    <3>7. \A k, l, m, o \in Nat : k + l + m = k + o + y => l + m = o + y
      OBVIOUS
    <3>8. offset \in Nat /\ u \in Nat /\ a \in Nat /\ c \in Nat
      BY <2>1
    <3>9. c + u = offset + y
      BY <3>5, <3>7, <3>8
    <3> QED
      BY <3>6, <3>9
  <2>3. CASE 0 <= y /\ y < n
    <3>1. offset + y \in R /\ offset + y \in Nat
      BY <1>1, <2>3 DEF R
    <3> DEFINE x == offset + y
               q == x \div PageSize
    <3>2. q \in Nat /\ x % PageSize \in Units /\ x = (q * PageSize) + (x % PageSize)
      BY <3>1, PlaceOf
    <3> HIDE DEF x, q
    <3>3. (w + q) * PageSize = (w * PageSize) + (q * PageSize) /\ w + q \in Nat
      <4>1. q \in Nat /\ w + q \in Nat
        BY <3>2
      <4>2. (w + q) * PageSize = (w * PageSize) + (q * PageSize)
        BY <4>1, Scale
      <4> QED
        BY <4>1, <4>2
    <3>4. PICK a \in Nat, c \in Nat, d \in Nat :
             a = w * PageSize /\ c = q * PageSize /\ d = (i - 1) * PageSize
      BY <2>1, <3>2, Scale
    <3>5. PICK r \in Units : r = x % PageSize
      BY <3>2
    <3>6. d + u = a + c + r /\ r \in Nat
      <4>1. r \in Nat
        BY <3>5, Positive DEF Units
      <4>2. d + u = a + offset + y
        BY <1>8, <3>4
      <4>3. offset + y = c + r
        BY <3>2, <3>4, <3>5 DEF x
      <4> QED
        BY <2>1, <4>1, <4>2, <4>3
    <3>7. w + q = i - 1 /\ r = u
      <4>1. PICK k : k = (i - 1) * PageSize + u
        OBVIOUS
      <4>2. k \div PageSize = i - 1 /\ k % PageSize = u
        BY <2>1, <4>1, PlaceIs
      <4>3. (w + q) * PageSize + r = k
        BY <2>1, <3>3, <3>4, <3>6, <4>1
      <4>4. k \div PageSize = w + q /\ k % PageSize = r
        BY <3>3, <4>3, PlaceIs
      <4> QED
        BY <4>2, <4>4
    <3>8. x \in R /\ Rec(x) \in hit /\ Is(Rec(x), f, u)
      <4>1. x \in R /\ Rec(x) \in hit
        BY <1>3, <3>1 DEF x
      <4>2. Rec(x).frame = fs[b][w + q + 1] /\ Rec(x).unit = r
        BY <1>4, <3>5, <4>1 DEF q
      <4>3. w + q + 1 = i
        BY <2>1, <3>3, <3>7
      <4> QED
        BY <3>7, <4>1, <4>2, <4>3
    <3>9. PICK z \in R : Hit(f, u) = Rec(z) /\ z = x
      <4>1. \E h \in hit : Is(h, f, u)
        BY <3>8
      <4> HIDE DEF Is
      <4>2. PICK z \in R : Hit(f, u) = Rec(z)
               /\ f = fs[b][w + (z \div PageSize) + 1] /\ u = z % PageSize
        BY <1>5, <2>1, <4>1
      <4>3. z = offset + y
        BY <2>2, <4>2
      <4> QED
        BY <4>2, <4>3 DEF x
    <3>10. Hit(f, u).pos + 1 = y + 1
      <4>1. Rec(z).pos = z - offset
        BY <1>4
      <4> QED
        BY <3>9, <4>1 DEF x
    <3>11. new[f][u] = buf[Hit(f, u).pos + 1]
      BY <1>2, <2>1, <3>8
    <3> QED
      BY <2>3, <3>10, <3>11
  <2>4. CASE ~(0 <= y /\ y < n)
    <3>1. ~(\E h \in hit : Is(h, f, u))
      <4> SUFFICES ASSUME \E h \in hit : Is(h, f, u) PROVE FALSE
        OBVIOUS
      <4> HIDE DEF Is
      <4>1. PICK z \in R : f = fs[b][w + (z \div PageSize) + 1] /\ u = z % PageSize
        BY <1>5, <2>1, ZenonT(60)
      <4>2. z = offset + y /\ z >= offset /\ z < offset + n
        BY <1>4, <2>2, <4>1
      <4> QED
        BY <1>1, <2>4, <4>2
    <3> HIDE DEF Is
    <3>2. new[f][u] = byte[f][u]
      BY <1>2, <2>1, <3>1
    <3> QED
      BY <2>4, <3>2
  <2> QED
    BY <2>3, <2>4
<1> QED
  BY <1>6, <1>7, <1>8 DEF new, n, L, Written

-----------------------------------------------------------------------------
(* The bytes of frames in a row *)

BytesOf(fs, by) == [i \in 1 .. Len(fs) * PageSize |->
                        by[fs[((i - 1) \div PageSize) + 1]][(i - 1) % PageSize]]
\* The place of byte u of page i
Place(i, u) == ((i - 1) * PageSize) + u + 1

LEMMA PlaceIn ==
    ASSUME NEW n \in Nat, NEW i \in 1 .. n, NEW u \in Units
    PROVE  /\ i \in Nat /\ i - 1 \in Nat /\ u \in Nat /\ (i - 1) * PageSize \in Nat
           /\ Place(i, u) \in 1 .. n * PageSize
           /\ (Place(i, u) - 1) \div PageSize = i - 1 /\ (Place(i, u) - 1) % PageSize = u
<1>1. i \in Nat /\ i - 1 \in Nat /\ i - 1 < n /\ u \in Nat /\ u < PageSize
  BY Positive DEF Units
<1>2. PICK a : a = (i - 1) * PageSize
  OBVIOUS
<1>3. PICK c : c = n * PageSize
  OBVIOUS
<1>4. a \in Nat /\ c \in Nat /\ a + PageSize <= c
  BY <1>1, <1>2, <1>3, Scale
<1>5. Place(i, u) = a + u + 1 /\ Place(i, u) - 1 = a + u
  BY <1>1, <1>2, <1>4 DEF Place
<1>6. (a + u) \div PageSize = i - 1 /\ (a + u) % PageSize = u
  BY <1>1, <1>2, PlaceIs
<1>7. a + u + 1 \in 1 .. c
  BY <1>1, <1>4, Positive
<1> QED
  BY <1>1, <1>2, <1>3, <1>4, <1>5, <1>6, <1>7

LEMMA EveryPlace ==
    ASSUME NEW n \in Nat, NEW k \in 1 .. n * PageSize
    PROVE  \E i \in 1 .. n, u \in Units : k = Place(i, u)
<1>1. k \in Nat /\ k - 1 \in Nat /\ k <= n * PageSize /\ n * PageSize \in Nat
  BY Scale
<1> DEFINE q == (k - 1) \div PageSize
           r == (k - 1) % PageSize
<1>2. q \in Nat /\ r \in Units /\ r \in Nat /\ k - 1 = (q * PageSize) + r
  BY <1>1, PlaceOf
<1> HIDE DEF q, r
<1>3. PICK a \in Nat : a = q * PageSize
  BY <1>2, Scale
<1>4. q < n
  <2>1. n <= q => n * PageSize <= a
    BY <1>2, <1>3, Scale
  <2> QED
    BY <1>1, <1>2, <1>3, <2>1
<1>5. q + 1 \in 1 .. n /\ (q + 1) - 1 = q
  BY <1>2, <1>4
<1>6. k = Place(q + 1, r)
  BY <1>1, <1>2, <1>3, <1>5 DEF Place
<1> QED
  BY <1>2, <1>5, <1>6

Row(s, n) == s = [k \in 1 .. n * PageSize |-> s[k]]
LEMMA BytesAre ==
    ASSUME NEW fs \in Seq(Frames), NEW by \in Filled
    PROVE  /\ BytesOf(fs, by) \in Seq(Values) /\ BytesOf(fs, by) # None
           /\ Len(BytesOf(fs, by)) = Len(fs) * PageSize /\ Len(fs) * PageSize \in Nat
           /\ DOMAIN BytesOf(fs, by) = 1 .. Len(fs) * PageSize /\ Row(BytesOf(fs, by), Len(fs))
           /\ \A i \in 1 .. Len(fs), u \in Units : BytesOf(fs, by)[Place(i, u)] = by[fs[i]][u]
<1> DEFINE n == Len(fs)
           N == n * PageSize
           B == BytesOf(fs, by)
<1>1. n \in Nat /\ fs \in [1 .. n -> Frames] /\ N \in Nat
  BY LenProperties, Scale
<1>2. ASSUME NEW i \in 1 .. n, NEW u \in Units
      PROVE  Place(i, u) \in 1 .. N /\ B[Place(i, u)] = by[fs[i]][u] /\ by[fs[i]][u] \in Values
  <2>1. /\ Place(i, u) \in 1 .. N /\ i \in Nat
        /\ (Place(i, u) - 1) \div PageSize = i - 1 /\ (Place(i, u) - 1) % PageSize = u
    BY <1>1, PlaceIn
  <2>2. (i - 1) + 1 = i
    BY <2>1
  <2>3. B[Place(i, u)] = by[fs[i]][u]
    BY <2>1, <2>2 DEF BytesOf
  <2>4. by[fs[i]] \in [Units -> Values]
    BY <1>1 DEF Filled
  <2> QED
    BY <2>1, <2>3, <2>4
<1>3. DOMAIN B = 1 .. N /\ B = [k \in 1 .. N |-> B[k]]
  BY DEF BytesOf
<1> HIDE DEF N, B, n
<1>4. \A k \in 1 .. N : B[k] \in Values
  <2> TAKE k \in 1 .. N
  <2>1. PICK i \in 1 .. n, u \in Units : k = Place(i, u)
    BY <1>1, EveryPlace DEF N
  <2> QED
    BY <1>2, <2>1
<1>5. B \in [1 .. N -> Values]
  BY <1>3, <1>4
<1>6. B \in Seq(Values) /\ Len(B) = N
  BY <1>1, <1>5
<1>7. B # None
  BY <1>6, NoneAssumption
<1>8. Row(B, n)
  BY <1>3 DEF Row, N
<1> QED
  BY <1>1, <1>2, <1>3, <1>6, <1>7, <1>8 DEF N, B, n

\* Bytes are told by their places.
LEMMA BytesEqual ==
    ASSUME NEW fs \in Seq(Frames), NEW by \in Filled, NEW s, Row(s, Len(fs)),
           \A i \in 1 .. Len(fs), u \in Units : s[Place(i, u)] = by[fs[i]][u]
    PROVE  BytesOf(fs, by) = s
<1> DEFINE N == Len(fs) * PageSize
           B == BytesOf(fs, by)
<1>1. Len(fs) \in Nat /\ \A i \in 1 .. Len(fs), u \in Units : B[Place(i, u)] = by[fs[i]][u]
  BY BytesAre, LenProperties
<1>2. B = [k \in 1 .. N |-> B[k]]
  BY DEF BytesOf
<1> HIDE DEF N, B
<1>3. \A k \in 1 .. N : B[k] = s[k]
  <2> TAKE k \in 1 .. N
  <2>1. PICK i \in 1 .. Len(fs), u \in Units : k = Place(i, u)
    BY <1>1, EveryPlace DEF N
  <2> QED
    BY <1>1, <2>1
<1>4. s = [k \in 1 .. N |-> s[k]]
  BY DEF N, Row
<1>5. B = s
  BY <1>2, <1>3, <1>4
<1> QED
  BY <1>5 DEF B

-----------------------------------------------------------------------------
(* Bytes are bytes, and lengths stay in their bounds *)

Lengths ==
    /\ byte \in Filled
    /\ size \in [Vmos -> 0 .. MaxLen * PageSize]
    /\ \A v \in Vmos : Len(frames[v]) <= MaxLen
\* A page is filled by a mapping.
Covered == \A p \in Pages : table[p] # None =>
               \E m \in Mappings : mapping[m] # None /\ p \in Span(mapping[m])
BytesInv == Lengths /\ Covered

LEMMA Distinct ==
    ASSUME Inv, NEW v \in Vmos, NEW w \in Vmos, NEW i \in 1 .. Len(frames[v]),
           NEW j \in 1 .. Len(frames[w]), frames[v][i] = frames[w][j]
    PROVE  v = w /\ i = j
<1>1. v \in Owners /\ w \in Owners /\ Owned(v) = frames[v] /\ Owned(w) = frames[w]
  BY NoneAssumption DEF Owners, Owned
<1> QED
  BY <1>1, OnceByPlace DEF Inv

LEMMA ZeroedFilled ==
    ASSUME byte \in Filled, NEW fs
    PROVE  Zeroed(fs) \in Filled
<1>1. Blank \in [Units -> Values]
  BY ValueAssumption DEF Blank
<1> QED
  BY <1>1 DEF Zeroed, Filled

LEMMA CopiedFilled ==
    ASSUME Types, byte \in Filled, NEW v \in Vmos, NEW at \in Nat, NEW fs \in Seq(Frames)
    PROVE  Copied(v, at, fs) \in Filled
<1>1. Blank \in [Units -> Values]
  BY ValueAssumption DEF Blank
<1>2. DOMAIN fs = 1 .. Len(fs) /\ Len(fs) \in Nat
      /\ frames[v] \in [1 .. Len(frames[v]) -> Frames] /\ Len(frames[v]) \in Nat
  BY LenProperties DEF Types
<1> DEFINE Nth(f) == CHOOSE i \in DOMAIN fs : fs[i] = f
<1>3. ASSUME NEW f \in Frames, \E i \in DOMAIN fs : fs[i] = f, at + Nth(f) <= Len(frames[v])
      PROVE  byte[frames[v][at + Nth(f)]] \in [Units -> Values]
  <2>1. Nth(f) \in DOMAIN fs
    BY <1>3
  <2> HIDE DEF Nth
  <2>2. at + Nth(f) \in 1 .. Len(frames[v])
    BY <1>2, <1>3, <2>1
  <2> QED
    BY <1>2, <2>2 DEF Filled
<1> HIDE DEF Nth
<1>4. Copied(v, at, fs) = [f \in Frames |->
        IF \E i \in DOMAIN fs : fs[i] = f
        THEN IF at + Nth(f) <= Len(frames[v]) THEN byte[frames[v][at + Nth(f)]] ELSE Blank
        ELSE byte[f]]
  BY DEF Copied, Nth
<1> QED
  BY <1>1, <1>3, <1>4 DEF Filled

\* What is in the range of a VMO is in the bytes of its object.
LEMMA RangeInside ==
    ASSUME Types, Kept, NEW v \in Vmos, NEW offset \in Nat, NEW n \in Nat,
           InRange(v, offset, n)
    PROVE  n = 0 \/ (From(v) * PageSize) + offset + n <= Len(frames[Base(v)]) * PageSize
<1>1. /\ Base(v) \in Vmos /\ From(v) \in Nat /\ Length(v) \in Nat
      /\ From(v) + Length(v) <= Len(frames[Base(v)]) /\ Len(frames[Base(v)]) \in Nat
  BY BaseTypes, LenProperties DEF Types
<1> DEFINE a == From(v) * PageSize
           c == Length(v) * PageSize
           d == Len(frames[Base(v)]) * PageSize
<1>2. a \in Nat /\ c \in Nat /\ d \in Nat /\ a + c <= d
  <2>1. a \in Nat /\ c \in Nat /\ d \in Nat /\ (From(v) + Length(v)) * PageSize = a + c
    BY <1>1, Scale
  <2>2. From(v) + Length(v) \in Nat
    BY <1>1
  <2>3. (From(v) + Length(v)) * PageSize <= d
    BY <1>1, <2>2, Scale
  <2> QED
    BY <2>1, <2>3
<1>3. n = 0 \/ offset + n <= c
  <2>1. c \in Nat
    BY <1>2
  <2> HIDE DEF c
  <2>2. IsSlice(v) => offset + n < c
    BY DEF InRange, c
  <2>3. ~IsSlice(v) => n = 0 \/ offset + n <= c
    BY DEF InRange, c
  <2> QED
    BY <2>1, <2>2, <2>3
<1> HIDE DEF a, c, d
<1>4. n = 0 \/ a + offset + n <= d
  BY <1>2, <1>3
<1> QED
  BY <1>4 DEF a, d

LEMMA ZerosTypes ==
    ASSUME NEW n \in Nat
    PROVE  Zeros(n) \in Seq(Values) /\ Len(Zeros(n)) = n /\ \A i \in 1 .. n : Zeros(n)[i] = 0
  BY ValueAssumption DEF Zeros

\* A VMO that is cut from another is not resizable.
LEMMA SlicesStay ==
    ASSUME Types, Kept, NEW v \in Vmos, IsSlice(v)
    PROVE  ~resizable[v] /\ frames[v] = <<>> /\ \A s \in held : Base(s) # v
  BY BaseTypes DEF Types, Kept, IsSlice

\* The pages that are needed are enough, and not one too many.
LEMMA NeededPages ==
    ASSUME NEW s \in Nat
    PROVE  /\ Needed(s) \in Nat /\ s <= Needed(s) * PageSize
           /\ \A m \in Nat : s <= m * PageSize => Needed(s) <= m
<1> DEFINE q == Needed(s)
           x == s + (PageSize - 1)
<1>1. x \in Nat /\ PageSize \in Nat /\ PageSize >= 1
  BY Positive
<1>2. q = x \div PageSize
  BY DEF Needed
<1> HIDE DEF q
<1>3. PICK r \in Nat : q \in Nat /\ r < PageSize /\ x = (q * PageSize) + r
  <2>1. x \div PageSize \in Nat /\ x % PageSize \in Nat /\ x % PageSize < PageSize
        /\ x = ((x \div PageSize) * PageSize) + (x % PageSize)
    BY <1>1, PlaceOf
  <2> QED
    BY <1>2, <2>1
<1>4. PICK a \in Nat : a = q * PageSize
  BY <1>3, Scale
<1>5. s <= a
  BY <1>1, <1>3, <1>4
<1>6. ASSUME NEW m \in Nat, s <= m * PageSize PROVE q <= m
  <2>1. PICK c \in Nat : c = m * PageSize
    BY Scale
  <2>2. m < q => c + PageSize <= a
    BY <1>3, <1>4, <2>1, Scale
  <2> QED
    BY <1>1, <1>3, <1>4, <1>6, <2>1, <2>2
<1> QED
  BY <1>3, <1>4, <1>5, <1>6 DEF q

LEMMA SizesBound ==
    ASSUME NEW s \in Sizes
    PROVE  s \in 0 .. MaxLen * PageSize /\ s \in Nat /\ MaxLen * PageSize \in Nat /\ MaxLen \in Nat
<1>1. MaxLen * PageSize \in Nat /\ MaxLen \in Nat
  BY BoundAssumption, Scale
<1> QED
  BY <1>1, BoundAssumption

LEMMA ResizedInvOf ==
    ASSUME Inv, NEW v \in Vmos, NEW s \in Sizes, NEW z \in Sizes, SetContentSizeAndResize(v, s, z)
    PROVE  Inv'
<1>1. v \in held /\ UNCHANGED <<held, resizable, slice, mapping, table>> /\ s \in Nat
  BY SizesBound DEF SetContentSizeAndResize
<1>2. CASE Needed(s) > Length(v) /\ resizable[v]
  <2>1. Resized(v, Needed(s)) /\ Needed(s) \in Nat
    BY <1>1, <1>2, NeededPages DEF SetContentSizeAndResize
  <2> QED
    BY <1>1, <1>2, <2>1, ResizedInv
<1>3. CASE ~(Needed(s) > Length(v) /\ resizable[v])
  BY <1>1, <1>3, QuietInv DEF SetContentSizeAndResize, Quiet
<1> QED
  BY <1>2, <1>3

LEMMA ResizedLength ==
    ASSUME Types, NEW v \in Vmos, NEW n \in Nat, Resized(v, n)
    PROVE  /\ Len(frames'[v]) = n /\ \A x \in Vmos : x # v => frames'[x] = frames[x]
           /\ \A i \in 1 .. n : i <= Len(frames[v]) => frames'[v][i] = frames[v][i]
<1>1. frames \in [Vmos -> Seq(Frames)] /\ free \in Seq(Frames) /\ frames[v] \in Seq(Frames)
      /\ Len(frames[v]) \in Nat /\ Len(free) \in Nat
  BY LenProperties DEF Types
<1>2. CASE n <= Len(frames[v])
  <2>1. frames' = [frames EXCEPT ![v] = SubSeq(frames[v], 1, n)]
    BY <1>2 DEF Resized
  <2>2. Len(SubSeq(frames[v], 1, n)) = n
        /\ \A i \in 1 .. n : SubSeq(frames[v], 1, n)[i] = frames[v][i]
    BY <1>1, <1>2, Shorter
  <2> QED
    BY <1>1, <2>1, <2>2
<1>3. CASE ~(n <= Len(frames[v]))
  <2>1. frames' = [frames EXCEPT ![v] = frames[v] \o Taken(n - Len(frames[v]))]
    BY <1>1, <1>3 DEF Resized
  <2>2. n - Len(frames[v]) \in Nat /\ n - Len(frames[v]) <= Len(free)
    BY <1>1, <1>3 DEF Resized
  <2>3. /\ Len(frames[v] \o Taken(n - Len(frames[v]))) = Len(frames[v]) + (n - Len(frames[v]))
        /\ \A i \in 1 .. Len(frames[v]) : (frames[v] \o Taken(n - Len(frames[v])))[i] = frames[v][i]
    BY <1>1, <2>2, Longer
  <2>4. Len(frames'[v]) = n
    BY <1>1, <2>1, <2>3
  <2>5. \A i \in 1 .. n : i <= Len(frames[v]) => i \in 1 .. Len(frames[v])
    BY <1>1
  <2>6. \A i \in 1 .. n : i <= Len(frames[v]) => frames'[v][i] = frames[v][i]
    BY <1>1, <2>1, <2>3, <2>5
  <2> QED
    BY <1>1, <2>1, <2>4, <2>6
<1> QED
  BY <1>2, <1>3

\* The content that set_content_size_and_resize zeroes is inside the VMO.
LEMMA GrowthInside ==
    ASSUME Inv, Lengths, NEW v \in Vmos, NEW s \in Sizes, NEW z \in Sizes,
           SetContentSizeAndResize(v, s, z),
           NEW until, until = Min({z, NewSize(v, s)})
    PROVE  /\ until \in 0 .. MaxLen * PageSize /\ NewSize(v, s) \in 0 .. MaxLen * PageSize
           /\ size[v] \in Nat /\ until \in Nat /\ Needed(s) \in 0 .. MaxLen
           /\ size[v] \in 0 .. MaxLen * PageSize
           /\ Base(v)' = Base(v) /\ From(v)' = From(v)
           /\ ~IsSlice(v) => NewSize(v, s) <= Len(frames'[v]) * PageSize
           /\ until > size[v] /\ (IsSlice(v) => InRange(v, size[v], until - size[v])) =>
                (From(v) * PageSize) + size[v] + (until - size[v]) <= Len(frames'[Base(v)]) * PageSize
<1> DEFINE N == NewSize(v, s)
           M == MaxLen * PageSize
<1>1. s \in 0 .. M /\ z \in 0 .. M /\ M \in Nat /\ MaxLen \in Nat
  BY SizesBound
<1>2. size[v] \in 0 .. M
  BY DEF Lengths
<1>3. Needed(s) \in 0 .. MaxLen /\ Needed(s) \in Nat /\ s <= Needed(s) * PageSize /\ s \in Nat
  <2>1. s \in Nat /\ s <= M
    BY <1>1
  <2> QED
    BY <1>1, <2>1, NeededPages
<1>4. /\ Base(v) \in Vmos /\ From(v) \in Nat /\ Length(v) \in Nat
      /\ From(v) + Length(v) <= Len(frames[Base(v)]) /\ Len(frames[Base(v)]) \in Nat
  BY BaseTypes, LenProperties DEF Inv, Types
<1>5. Len(frames[Base(v)]) <= MaxLen
  BY <1>4 DEF Lengths
<1>6. PICK c \in Nat : c = Length(v) * PageSize
  BY <1>4, Scale
<1>7. c <= M
  <2>1. Length(v) <= MaxLen
    BY <1>1, <1>4, <1>5
  <2> QED
    BY <1>1, <1>4, <1>6, <2>1, Scale
<1>8. N \in 0 .. M
  <2>1. N = s \/ N = c
    BY <1>6 DEF NewSize
  <2> HIDE DEF N, M
  <2> QED
    BY <1>1, <1>6, <1>7, <2>1
<1>9. until \in 0 .. M /\ until <= N
  <2> HIDE DEF N, M
  <2>1. z \in Nat /\ N \in Nat
    BY <1>1, <1>8
  <2>2. until = Min({z, N})
    BY DEF N
  <2>3. until \in {z, N} /\ \A y \in {z, N} : until <= y
    <3>1. \E x \in {z, N} : \A y \in {z, N} : x <= y
      <4>1. z <= N \/ N <= z
        BY <2>1
      <4>2. z <= z /\ N <= N
        BY <2>1
      <4> QED
        BY <4>1, <4>2
    <3> QED
      BY <2>2, <3>1 DEF Min
  <2> QED
    BY <1>1, <1>8, <2>3
<1>10. slice' = slice
  BY DEF SetContentSizeAndResize
<1>11. Base(v)' = Base(v) /\ From(v)' = From(v)
  BY <1>10 DEF Base, From, IsSlice
<1>12. ASSUME ~IsSlice(v) PROVE N <= Len(frames'[v]) * PageSize
  <2>1. Length(v) = Len(frames[v])
    BY <1>12 DEF Length
  <2>2. CASE Needed(s) > Length(v) /\ resizable[v]
    <3>1. Resized(v, Needed(s)) /\ N = s
      BY <2>2 DEF SetContentSizeAndResize, NewSize
    <3>2. Len(frames'[v]) = Needed(s)
      BY <1>3, <3>1, ResizedLength DEF Inv
    <3> QED
      BY <1>3, <3>1, <3>2
  <2>3. CASE ~(Needed(s) > Length(v) /\ resizable[v])
    <3>1. frames' = frames
      BY <2>3 DEF SetContentSizeAndResize
    <3>2. CASE Needed(s) > Length(v)
      <4>1. N = c
        BY <1>6, <2>3, <3>2 DEF NewSize
      <4> HIDE DEF N
      <4> QED
        BY <1>6, <2>1, <3>1, <4>1
    <3>3. CASE ~(Needed(s) > Length(v))
      <4>1. N = s /\ Needed(s) <= Length(v)
        BY <1>3, <1>4, <3>3 DEF NewSize
      <4>2. Needed(s) * PageSize <= c
        BY <1>3, <1>4, <1>6, <4>1, Scale
      <4>3. PICK e \in Nat : e = Needed(s) * PageSize
        BY <1>3, Scale
      <4>4. s <= c
        BY <1>3, <1>6, <4>2, <4>3
      <4> HIDE DEF N
      <4> QED
        BY <1>6, <2>1, <3>1, <4>1, <4>4
    <3> QED
      BY <3>2, <3>3
  <2> QED
    BY <2>2, <2>3
<1>13. ASSUME until > size[v], IsSlice(v) => InRange(v, size[v], until - size[v])
       PROVE  (From(v) * PageSize) + size[v] + (until - size[v]) <= Len(frames'[Base(v)]) * PageSize
  <2> HIDE DEF N, M
  <2>0. until \in Nat /\ size[v] \in Nat /\ until - size[v] \in Nat /\ until - size[v] # 0
        /\ size[v] + (until - size[v]) = until /\ N \in Nat
    BY <1>2, <1>8, <1>9, <1>13
  <2>1. CASE IsSlice(v)
    <3>1. (From(v) * PageSize) + size[v] + (until - size[v]) <= Len(frames[Base(v)]) * PageSize
      BY <1>13, <2>0, <2>1, RangeInside DEF Inv
    <3>2. ~resizable[v]
      BY <2>1, SlicesStay DEF Inv
    <3>3. frames' = frames
      BY <3>2 DEF SetContentSizeAndResize
    <3> QED
      BY <3>1, <3>3
  <2>2. CASE ~IsSlice(v)
    <3>1. From(v) = 0 /\ Base(v) = v
      BY <2>2 DEF From, Base
    <3>2. PICK d \in Nat : d = Len(frames'[v]) * PageSize
      <4>1. Len(frames'[v]) \in Nat
        BY ResizedInvOf, LenProperties DEF Inv, Types
      <4> QED
        BY <4>1, Scale
    <3>3. until <= d
      BY <1>9, <1>12, <2>0, <2>2, <3>2
    <3>4. From(v) * PageSize = 0
      BY <3>1, Positive
    <3>5. 0 + size[v] + (until - size[v]) <= d
      BY <2>0, <3>3
    <3> QED
      BY <3>1, <3>2, <3>4, <3>5
  <2> QED
    BY <2>1, <2>2
<1> QED
  BY <1>1, <1>2, <1>3, <1>8, <1>9, <1>11, <1>12, <1>13

\* What a write does, with the bytes of the object it goes to.
LEMMA WriteBytes ==
    ASSUME Inv, byte \in Filled, NEW v \in Vmos, NEW offset \in Nat, NEW buf \in Seq(Values),
           Write(v, offset, buf),
           NEW b \in Vmos, b = Base(v), NEW w \in Nat, w = From(v)
    PROVE  Written(byte', frames[b], (w * PageSize) + offset, buf)
<1>1. byte' = Stored(frames, v, offset, buf) /\ InRange(v, offset, Len(buf))
  BY DEF Write
<1>2. Types /\ Kept /\ frames \in [Vmos -> Seq(Frames)] /\ Len(buf) \in Nat
  BY LenProperties DEF Inv, Types
<1>3. Len(buf) = 0 \/ (w * PageSize) + offset + Len(buf) <= Len(frames[b]) * PageSize
  BY <1>1, <1>2, RangeInside
<1>4. Once(frames[b])
  BY Distinct DEF Once
<1> QED
  BY <1>1, <1>2, <1>3, <1>4, StoredBytes

\* The same of the content that becomes zero.
LEMMA GrowthBytes ==
    ASSUME Inv, Lengths, NEW v \in Vmos, NEW s \in Sizes, NEW z \in Sizes,
           SetContentSizeAndResize(v, s, z),
           NEW until \in Nat, until = Min({z, NewSize(v, s)}), until > size[v],
           NEW n \in Nat, n = until - size[v], IsSlice(v) => InRange(v, size[v], n),
           byte' = Stored(frames', v, size[v], Zeros(n)),
           NEW b \in Vmos, b = Base(v), NEW w \in Nat, w = From(v)
    PROVE  Written(byte', frames'[b], (w * PageSize) + size[v], Zeros(n))
<1>1. /\ size[v] \in Nat
      /\ (w * PageSize) + size[v] + n <= Len(frames'[b]) * PageSize
  BY GrowthInside
<1>2. Inv'
  BY ResizedInvOf
<1>3. Once(frames'[b])
  <2>1. b # None /\ b \in Owners /\ Owned(b)' = frames'[b]
    BY NoneAssumption DEF Owners, Owned
  <2>2. DOMAIN frames'[b] = 1 .. Len(frames'[b])
    BY <1>2, LenProperties DEF Inv, Types
  <2>3. FramesOwnedOnce'
    BY <1>2 DEF Inv
  <2> QED
    BY <2>1, <2>2, <2>3 DEF FramesOwnedOnce, Once
<1>4. Zeros(n) \in Seq(Values) /\ Len(Zeros(n)) = n
  BY ZerosTypes
<1>5. frames' \in [Vmos -> Seq(Frames)] /\ Types /\ byte \in Filled
  BY <1>2 DEF Inv, Types, Lengths
<1> DEFINE g == frames'
<1> HIDE DEF g
<1>6. Once(g[b]) /\ g \in [Vmos -> Seq(Frames)]
      /\ (w * PageSize) + size[v] + Len(Zeros(n)) <= Len(g[b]) * PageSize
  BY <1>1, <1>3, <1>4, <1>5 DEF g
<1>7. Written(Stored(g, v, size[v], Zeros(n)), g[b], (w * PageSize) + size[v], Zeros(n))
  BY <1>1, <1>4, <1>5, <1>6, StoredBytes
<1> QED
  BY <1>7 DEF g

LEMMA TakenLength ==
    ASSUME Types, NEW n \in Nat, n <= Len(free)
    PROVE  Taken(n) \in Seq(Frames) /\ Len(Taken(n)) = n
  BY Shorter DEF Taken, Types

\* The store of a byte
LEMMA StoreFilled ==
    ASSUME byte \in Filled, NEW p \in Pages, NEW u \in Units, NEW x \in Values, Store(p, u, x),
           Types
    PROVE  /\ byte' \in Filled /\ table[p] \in Frames
           /\ \A f \in Frames, w \in Units :
                byte'[f][w] = IF f = table[p] /\ w = u THEN x ELSE byte[f][w]
<1>1. table[p] \in Frames
  BY DEF Store, Types
<1>2. byte' = [byte EXCEPT ![table[p]][u] = x]
  BY DEF Store
<1> QED
  BY <1>1, <1>2 DEF Filled

LEMMA StepLengths ==
    ASSUME Inv, Lengths, [Next]_vars
    PROVE  Lengths'
<1>0. /\ Types /\ byte \in Filled /\ MaxLen \in Nat
      /\ MaxLen * PageSize \in Nat /\ 0 \in 0 .. MaxLen * PageSize
  <2>1. MaxLen * PageSize \in Nat
    BY BoundAssumption, Scale
  <2> QED
    BY <2>1, BoundAssumption DEF Inv, Lengths
<1>1. ASSUME NEW c \in Vmos, NEW n \in 0 .. MaxLen, n <= Len(free),
             frames' = [frames EXCEPT ![c] = Taken(n)], byte' \in Filled, size' = size
      PROVE  Lengths'
  BY <1>0, <1>1, TakenLength DEF Types, Lengths
<1>2. ASSUME NEW v \in Vmos, NEW n \in 0 .. MaxLen, Resized(v, n) PROVE
             \A x \in Vmos : Len(frames'[x]) <= MaxLen
  <2>1. n \in Nat /\ n <= MaxLen
    BY <1>0
  <2>2. Len(frames'[v]) = n /\ \A x \in Vmos : x # v => frames'[x] = frames[x]
    BY <1>0, <1>2, <2>1, ResizedLength
  <2> QED
    BY <2>1, <2>2 DEF Lengths
<1>3. ASSUME NEW v \in Vmos, NEW offset \in 0 .. MaxLen * PageSize, NEW buf \in Seq(Values),
             Write(v, offset, buf)
      PROVE  Lengths'
  <2>1. PICK b \in Vmos, w \in Nat : b = Base(v) /\ w = From(v)
    BY BaseTypes DEF Inv
  <2>2. offset \in Nat
    BY <1>0
  <2>3. byte' \in Filled
    BY <1>0, <1>3, <2>1, <2>2, WriteBytes DEF Written
  <2> QED
    BY <1>3, <2>3 DEF Write, Lengths
<1>4. ASSUME NEW v \in Vmos, NEW n \in 0 .. MaxLen, NEW r \in BOOLEAN, NewPaged(v, r, n)
      PROVE  Lengths'
  BY <1>0, <1>1, <1>4, ZeroedFilled DEF NewPaged
<1>5. ASSUME NEW v \in Vmos, NEW n \in 0 .. MaxLen, SetLen(v, n)
      PROVE  Lengths'
  BY <1>2, <1>5 DEF SetLen, Lengths
<1>6. ASSUME NEW v \in Vmos, NEW n \in 0 .. MaxLen, NEW c \in Vmos, NEW at \in 0 .. MaxLen,
             NEW r \in BOOLEAN, CreateChild(v, c, r, at, n)
      PROVE  Lengths'
  <2>1. /\ n <= Len(free) /\ byte' = Copied(v, at, Taken(n)) /\ size' = size
        /\ frames' = [frames EXCEPT ![c] = Taken(n)]
    BY <1>6 DEF CreateChild
  <2>2. n \in Nat /\ at \in Nat
    BY <1>0
  <2>3. byte' \in Filled
    BY <1>0, <2>1, <2>2, TakenLength, CopiedFilled
  <2> QED
    BY <1>1, <2>1, <2>3
<1>7. ASSUME NEW v, NEW c, NEW at, NEW n, CreateSlice(v, c, at, n)
      PROVE  Lengths'
  BY <1>7 DEF CreateSlice, Lengths
<1>8. ASSUME NEW m, NEW v, NEW at, NEW n, NEW addr, Map(m, v, at, n, addr)
      PROVE  Lengths'
  BY <1>8 DEF Map, Lengths
<1>9. ASSUME NEW v \in Vmos, NEW offset \in 0 .. MaxLen * PageSize, NEW buf \in Buffers,
             Write(v, offset, buf)
      PROVE  Lengths'
  BY <1>3, <1>9, ValueAssumption
<1>10. ASSUME NEW v \in Vmos, NEW offset \in 0 .. MaxLen * PageSize, NEW n \in Sizes,
              Zero(v, offset, n)
       PROVE  Lengths'
  BY <1>3, <1>10, SizesBound, ZerosTypes DEF Zero
<1>11. ASSUME NEW v \in Vmos, NEW s \in Sizes, SetContentSize(v, s)
       PROVE  Lengths'
  BY <1>11, SizesBound DEF SetContentSize, Lengths
<1>12. ASSUME NEW v \in Vmos, NEW s \in Sizes, NEW z \in Sizes, SetContentSizeAndResize(v, s, z)
       PROVE  Lengths'
  <2>1. PICK until : until = Min({z, NewSize(v, s)})
    OBVIOUS
  <2>2. /\ until \in Nat /\ NewSize(v, s) \in 0 .. MaxLen * PageSize /\ size[v] \in Nat
        /\ Needed(s) \in 0 .. MaxLen
    BY <1>12, <2>1, GrowthInside
  <2>3. \A x \in Vmos : Len(frames'[x]) <= MaxLen
    <3>1. Resized(v, Needed(s)) \/ frames' = frames
      BY <1>12 DEF SetContentSizeAndResize
    <3> QED
      BY <1>2, <2>2, <3>1 DEF Lengths
  <2>4. size' = size \/ size' = [size EXCEPT ![v] = NewSize(v, s)]
    BY <1>12 DEF SetContentSizeAndResize
  <2>5. size' \in [Vmos -> 0 .. MaxLen * PageSize]
    BY <2>2, <2>4 DEF Lengths
  <2>6. byte' \in Filled
    <3>1. PICK n \in Int : n = until - size[v]
      BY <2>2
    <3>2. \/ byte' = byte
          \/ /\ until > size[v] /\ (IsSlice(v) => InRange(v, size[v], n))
             /\ byte' = Stored(frames', v, size[v], Zeros(n))
      BY <1>12, <2>1, <3>1 DEF SetContentSizeAndResize
    <3>3. until > size[v] => n \in Nat
      BY <2>2, <3>1
    <3>4. PICK b \in Vmos, w \in Nat : b = Base(v) /\ w = From(v)
      BY BaseTypes DEF Inv
    <3> QED
      BY <1>0, <1>12, <2>1, <2>2, <3>1, <3>2, <3>3, <3>4, GrowthBytes DEF Written
  <2> QED
    BY <2>3, <2>5, <2>6 DEF Lengths
<1>13. ASSUME NEW v \in Vmos, Drop(v)
       PROVE  Lengths'
  <2>1. /\ byte' = byte /\ size' = [size EXCEPT ![v] = 0]
        /\ frames' = frames \/ frames' = [frames EXCEPT ![Base(v)] = <<>>]
    BY <1>13 DEF Drop
  <2>2. Len(<<>>) = 0 /\ 0 <= MaxLen
    BY <1>0
  <2>3. \A x \in Vmos : frames'[x] = frames[x] \/ frames'[x] = <<>>
    BY <1>0, <2>1 DEF Types
  <2> QED
    BY <1>0, <2>1, <2>2, <2>3 DEF Lengths
<1>14. ASSUME NEW m, Unmap(m)
       PROVE  Lengths'
  BY <1>14 DEF Unmap, Lengths
<1>15. ASSUME NEW p \in Pages, NEW u \in Units, NEW x \in Values, Store(p, u, x)
       PROVE  Lengths'
  <2>1. byte' \in Filled
    BY <1>0, <1>15, StoreFilled
  <2> QED
    BY <1>15, <2>1 DEF Store, Lengths
<1>16. CASE UNCHANGED vars
  BY <1>16 DEF vars, Lengths
<1> QED
  BY <1>4, <1>5, <1>6, <1>7, <1>8, <1>9, <1>10, <1>11, <1>12, <1>13, <1>14, <1>15, <1>16 DEF Next

LEMMA StepCovered ==
    ASSUME Inv, Covered, [Next]_vars
    PROVE  Covered'
<1>1. CASE UNCHANGED <<mapping, table>>
  BY <1>1 DEF Covered, Span
<1>2. ASSUME NEW v \in Vmos, NEW n \in 0 .. MaxLen, NEW m \in Mappings, NEW at \in 0 .. MaxLen,
             NEW addr \in Pages, Map(m, v, at, n, addr)
      PROVE  Covered'
  <2> DEFINE new == [vmo |-> v, at |-> at, len |-> n, addr |-> addr]
  <2>1. /\ mapping[m] = None /\ mapping' = [mapping EXCEPT ![m] = new]
        /\ \A p \in Pages : p \notin Span(new) => table'[p] = table[p]
    BY <1>2 DEF Map
  <2>2. new \in Places /\ new # None
    <3>1. new \in Places
      BY BoundAssumption, PageAssumption DEF Places
    <3> QED
      BY <3>1, NoneAssumption DEF Places
  <2> HIDE DEF new
  <2>3. mapping'[m] = new /\ \A k \in Mappings : k # m => mapping'[k] = mapping[k]
    BY <2>1 DEF Inv, Types
  <2>4. ASSUME NEW p \in Pages, table'[p] # None
        PROVE  \E k \in Mappings : mapping'[k] # None /\ p \in Span(mapping'[k])
    <3>1. CASE p \in Span(new)
      BY <2>2, <2>3, <3>1
    <3>2. CASE p \notin Span(new)
      <4>1. PICK k \in Mappings : mapping[k] # None /\ p \in Span(mapping[k])
        BY <2>1, <2>4, <3>2 DEF Covered
      <4> QED
        BY <2>1, <2>3, <4>1
    <3> QED
      BY <3>1, <3>2
  <2> QED
    BY <2>4 DEF Covered, Span
<1>3. ASSUME NEW m \in Mappings, Unmap(m)
      PROVE  Covered'
  <2>1. /\ mapping' = [mapping EXCEPT ![m] = None]
        /\ table' = [p \in Pages |-> IF p \in Span(mapping[m]) THEN None ELSE table[p]]
    BY <1>3 DEF Unmap
  <2>2. \A k \in Mappings : k # m => mapping'[k] = mapping[k]
    BY <2>1 DEF Inv, Types
  <2>3. ASSUME NEW p \in Pages, table'[p] # None
        PROVE  \E k \in Mappings : mapping'[k] # None /\ p \in Span(mapping'[k])
    <3>1. table[p] # None /\ p \notin Span(mapping[m])
      BY <2>1, <2>3
    <3>2. PICK k \in Mappings : mapping[k] # None /\ p \in Span(mapping[k])
      BY <3>1 DEF Covered
    <3> QED
      BY <2>2, <3>1, <3>2
  <2> QED
    BY <2>3 DEF Covered, Span
<1>4. CASE UNCHANGED vars
  BY <1>1, <1>4 DEF vars
<1>5. \A v, r, n : NewPaged(v, r, n) => UNCHANGED <<mapping, table>>
  BY DEF NewPaged
<1>6. \A v, n : SetLen(v, n) => UNCHANGED <<mapping, table>>
  BY DEF SetLen
<1>7. \A v, c, r, at, n : CreateChild(v, c, r, at, n) => UNCHANGED <<mapping, table>>
  BY DEF CreateChild
<1>8. \A v, c, at, n : CreateSlice(v, c, at, n) => UNCHANGED <<mapping, table>>
  BY DEF CreateSlice
<1>9. \A v, offset, buf : Write(v, offset, buf) => UNCHANGED <<mapping, table>>
  BY DEF Write
<1>10. \A v, offset, n : Zero(v, offset, n) => UNCHANGED <<mapping, table>>
  BY <1>9 DEF Zero
<1>11. \A v, s : SetContentSize(v, s) => UNCHANGED <<mapping, table>>
  BY DEF SetContentSize
<1>12. \A v, s, z : SetContentSizeAndResize(v, s, z) => UNCHANGED <<mapping, table>>
  BY DEF SetContentSizeAndResize
<1>13. \A v : Drop(v) => UNCHANGED <<mapping, table>>
  BY DEF Drop
<1>14. \A p, u, x : Store(p, u, x) => UNCHANGED <<mapping, table>>
  BY DEF Store
<1> QED
  BY <1>1, <1>2, <1>3, <1>4, <1>5, <1>6, <1>7, <1>8, <1>9, <1>10, <1>11, <1>12, <1>13, <1>14
  DEF Next

LEMMA InitBytes ==
    ASSUME Init
    PROVE  BytesInv
<1>1. Blank \in [Units -> Values]
  BY ValueAssumption DEF Blank
<1>2. MaxLen * PageSize \in Nat /\ MaxLen \in Nat
  BY BoundAssumption, Scale
<1>3. 0 \in 0 .. MaxLen * PageSize
  BY <1>2
<1> QED
  BY <1>1, <1>2, <1>3 DEF Init, BytesInv, Lengths, Covered, Filled

-----------------------------------------------------------------------------
(* The bytes of VMOs, as MemoryObjects has them *)

Bytes == [v \in Vmos |-> IF Exists(v) /\ ~IsSlice(v) THEN Contents(v) ELSE None]
Growable == {v \in Vmos : resizable[v]}

LEMMA ContentsAre ==
    /\ \A v \in Vmos : Contents(v) = BytesOf(frames[v], byte)
    /\ (\A v \in Vmos : Contents(v) = BytesOf(frames[v], byte))'
BY DEF Contents, BytesOf

\* Frames that hold what they held
LEMMA BytesStay ==
    ASSUME NEW fs \in Seq(Frames), NEW by, NEW new,
           \A i \in 1 .. Len(fs) : new[fs[i]] = by[fs[i]]
    PROVE  BytesOf(fs, new) = BytesOf(fs, by)
<1> DEFINE n == Len(fs)
<1>1. n \in Nat
  BY LenProperties
<1>2. ASSUME NEW k \in 1 .. n * PageSize
      PROVE  ((k - 1) \div PageSize) + 1 \in 1 .. n
  <2>1. PICK i \in 1 .. n, u \in Units : k = Place(i, u)
    BY <1>1, EveryPlace
  <2>2. (k - 1) \div PageSize = i - 1 /\ i \in Nat
    BY <1>1, <2>1, PlaceIn
  <2>3. ((k - 1) \div PageSize) + 1 = i
    BY <2>2
  <2> QED
    BY <2>3
<1> DEFINE At(k) == fs[((k - 1) \div PageSize) + 1]
           K == 1 .. n * PageSize
<1> HIDE DEF n
<1>3. \A k \in K : new[At(k)] = by[At(k)]
  BY <1>2 DEF n
<1>4. \A x : BytesOf(fs, x) = [k \in K |-> x[At(k)][(k - 1) % PageSize]]
  BY DEF BytesOf, n
<1> HIDE DEF At, K
<1>5. [k \in K |-> new[At(k)][(k - 1) % PageSize]] = [k \in K |-> by[At(k)][(k - 1) % PageSize]]
  BY <1>3
<1> QED
  BY <1>4, <1>5

LEMMA TakenFree ==
    ASSUME Inv, NEW n \in Nat, n <= Len(free)
    PROVE  /\ Taken(n) \in Seq(Frames) /\ Len(Taken(n)) = n /\ Once(Taken(n))
           /\ \A x \in Vmos : \A i \in 1 .. Len(frames[x]), j \in 1 .. n :
                frames[x][i] # Taken(n)[j]
<1>1. Taken(n) \in Seq(Frames) /\ Len(Taken(n)) = n /\ free \in Seq(Frames) /\ Len(free) \in Nat
  BY TakenLength, LenProperties DEF Inv, Types
<1>2. \A j \in 1 .. n : j \in 1 .. Len(free) /\ Taken(n)[j] = free[j]
  <2>1. \A j \in 1 .. n : Taken(n)[j] = free[j]
    BY <1>1, Shorter DEF Taken
  <2> QED
    BY <1>1, <2>1
<1>3. None \in Owners /\ Owned(None) = free
      /\ \A x \in Vmos : x \in Owners /\ x # None /\ Owned(x) = frames[x]
  BY NoneAssumption DEF Owners, Owned
<1>4. Once(Taken(n))
  <2>1. \A i, j \in 1 .. Len(free) : free[i] = free[j] => i = j
    BY <1>3, OnceByPlace DEF Inv
  <2>2. \A i, j \in 1 .. n : Taken(n)[i] = Taken(n)[j] => i = j
    BY <1>2, <2>1
  <2> QED
    BY <1>1, <2>2 DEF Once
<1>5. \A x \in Vmos : \A i \in 1 .. Len(frames[x]), j \in 1 .. n : frames[x][i] # Taken(n)[j]
  BY <1>2, <1>3, OnceByPlace DEF Inv
<1> QED
  BY <1>1, <1>4, <1>5

\* A VMO comes with the bytes of the frames it takes.
LEMMA ComesBytes ==
    ASSUME Inv, Lengths, NEW c \in Vmos, NEW r \in BOOLEAN, NEW n \in Nat, Comes(c, r, n),
           byte' \in Filled,
           \A f \in Frames : (\A j \in 1 .. n : Taken(n)[j] # f) => byte'[f] = byte[f],
           NEW new, Row(new, n),
           \A i \in 1 .. n, u \in Units : new[Place(i, u)] = byte'[Taken(n)[i]][u]
    PROVE  Bytes[c] = None /\ Bytes' = [Bytes EXCEPT ![c] = new]
           /\ Growable' \in {Growable, Growable \cup {c}}
<1>1. /\ c \notin held /\ frames[c] = <<>> /\ ~resizable[c] /\ slice[c] = None
      /\ \A s \in held : Base(s) # c
  BY Absent DEF Inv, Comes
<1>2. /\ n <= Len(free) /\ held' = held \cup {c} /\ resizable' = [resizable EXCEPT ![c] = r]
      /\ frames' = [frames EXCEPT ![c] = Taken(n)] /\ slice' = slice
  BY DEF Comes
<1>3. /\ Taken(n) \in Seq(Frames) /\ Len(Taken(n)) = n
      /\ \A x \in Vmos : \A i \in 1 .. Len(frames[x]), j \in 1 .. n : frames[x][i] # Taken(n)[j]
  BY <1>2, TakenFree
<1>4. frames'[c] = Taken(n) /\ \A x \in Vmos : x # c => frames'[x] = frames[x]
  BY <1>2 DEF Inv, Types
<1>5. \A x \in Vmos : IsSlice(x)' = IsSlice(x) /\ Base(x)' = Base(x)
  BY <1>2 DEF IsSlice, Base
<1>6. Base(c) = c
  BY <1>1 DEF Base, IsSlice
<1>7. \A x \in Vmos : x # c => Exists(x)' = Exists(x)
  BY <1>2, <1>5, <1>6 DEF Exists, Inv, Types
<1>8. ASSUME NEW x \in Vmos, x # c PROVE Contents(x)' = Contents(x)
  <2>1. frames[x] \in Seq(Frames) /\ \A i \in 1 .. Len(frames[x]) : frames[x][i] \in Frames
    BY LenProperties DEF Inv, Types
  <2>2. \A i \in 1 .. Len(frames[x]) : byte'[frames[x][i]] = byte[frames[x][i]]
    BY <1>3, <2>1
  <2>3. BytesOf(frames[x], byte') = BytesOf(frames[x], byte)
    BY <2>1, <2>2, BytesStay
  <2> QED
    BY <1>4, <1>8, <2>3, ContentsAre
<1>9. Contents(c)' = new
  <2>1. PICK t \in Seq(Frames) : t = Taken(n)
    BY <1>3
  <2>2. /\ Row(new, Len(t))
        /\ \A i \in 1 .. Len(t), u \in Units : new[Place(i, u)] = byte'[t[i]][u]
    BY <1>3, <2>1
  <2>3. BytesOf(t, byte') = new
    BY <2>2, BytesEqual
  <2> QED
    BY <1>4, <2>1, <2>3, ContentsAre
<1>10. Exists(c)' /\ ~IsSlice(c)' /\ ~Exists(c)
  BY <1>1, <1>2, <1>5 DEF Exists, IsSlice
<1>11. Bytes[c] = None
  BY <1>10 DEF Bytes
<1>12. Bytes' = [Bytes EXCEPT ![c] = new]
  BY <1>5, <1>7, <1>8, <1>9, <1>10 DEF Bytes
<1>13. Growable' \in {Growable, Growable \cup {c}}
  <2>1. \A x \in Vmos : resizable'[x] <=> IF x = c THEN r ELSE resizable[x]
    BY <1>2 DEF Inv, Types
  <2>2. CASE r
    <3>1. Growable' = Growable \cup {c}
      BY <2>1, <2>2 DEF Growable
    <3> QED
      BY <3>1
  <2>3. CASE ~r
    <3>1. Growable' = Growable
      BY <1>1, <2>1, <2>3 DEF Growable
    <3> QED
      BY <3>1
  <2> QED
    BY <2>2, <2>3
<1> QED
  BY <1>11, <1>12, <1>13

\* What a VMO that somebody holds has
LEMMA HeldBytes ==
    ASSUME Inv, Lengths, NEW v \in held
    PROVE  /\ v \in Vmos /\ Base(v) \in Vmos /\ Exists(Base(v)) /\ ~IsSlice(Base(v))
           /\ Bytes[Base(v)] = BytesOf(frames[Base(v)], byte) /\ Bytes[Base(v)] # None
           /\ Len(Bytes[Base(v)]) = Len(frames[Base(v)]) * PageSize
           /\ DOMAIN Bytes[Base(v)] = 1 .. Len(frames[Base(v)]) * PageSize
           /\ Row(Bytes[Base(v)], Len(frames[Base(v)]))
           /\ frames[Base(v)] \in Seq(Frames) /\ Len(frames[Base(v)]) \in Nat
           /\ \A i \in 1 .. Len(frames[Base(v)]), u \in Units :
                Bytes[Base(v)][Place(i, u)] = byte[frames[Base(v)][i]][u]
<1>1. v \in Vmos
  BY DEF Inv, Types
<1>2. Base(v) \in Vmos /\ slice[Base(v)] = None /\ frames[Base(v)] \in Seq(Frames)
      /\ Len(frames[Base(v)]) \in Nat
  BY <1>1, BaseTypes, LenProperties DEF Inv, Types
<1>3. Exists(Base(v)) /\ ~IsSlice(Base(v))
  BY <1>1, <1>2 DEF Exists, IsSlice
<1>4. Bytes[Base(v)] = BytesOf(frames[Base(v)], byte)
  BY <1>2, <1>3, ContentsAre DEF Bytes
<1>5. byte \in Filled
  BY DEF Lengths
<1> QED
  BY <1>1, <1>2, <1>3, <1>4, <1>5, BytesAre

-----------------------------------------------------------------------------
(* New VMOs *)

LEMMA MakeStep ==
    ASSUME Inv, Lengths, NEW v \in Vmos, NEW r \in BOOLEAN, NEW n \in Nat, NewPaged(v, r, n)
    PROVE  Objects!Make(v, n)
<1> DEFINE new == [k \in 1 .. n * PageSize |-> 0]
<1>1. Comes(v, r, n) /\ byte' = Zeroed(Taken(n)) /\ n <= Len(free)
      /\ UNCHANGED <<slice, mapping, stray>>
  BY DEF NewPaged, Comes
<1>2. Taken(n) \in Seq(Frames) /\ Len(Taken(n)) = n /\ DOMAIN Taken(n) = 1 .. n
  BY <1>1, TakenFree, LenProperties
<1>3. byte' \in Filled
  BY <1>1, ZeroedFilled DEF Lengths
<1>4. \A f \in Frames : byte'[f] = IF \E j \in 1 .. n : Taken(n)[j] = f THEN Blank ELSE byte[f]
  BY <1>1, <1>2 DEF Zeroed, Range
<1>5. ASSUME NEW i \in 1 .. n, NEW u \in Units
      PROVE  new[Place(i, u)] = byte'[Taken(n)[i]][u]
  <2>1. Place(i, u) \in 1 .. n * PageSize
    BY PlaceIn
  <2>2. Taken(n)[i] \in Frames
    BY <1>2
  <2>3. byte'[Taken(n)[i]] = Blank /\ Blank[u] = 0
    BY <1>4, <2>2 DEF Blank
  <2> QED
    BY <2>1, <2>3
<1>6. Row(new, n)
  BY DEF Row
<1> HIDE DEF new
<1>7. Bytes[v] = None /\ Bytes' = [Bytes EXCEPT ![v] = new]
      /\ Growable' \in {Growable, Growable \cup {v}}
  BY <1>1, <1>3, <1>4, <1>5, <1>6, ComesBytes
<1> QED
  BY <1>1, <1>7 DEF Objects!Make, Objects!New, Objects!Zeros, Bytes, Growable, new

LEMMA SnapshotStep ==
    ASSUME Inv, Lengths, NEW v \in Vmos, NEW c \in Vmos, NEW r \in BOOLEAN,
           NEW at \in Nat, NEW n \in Nat, CreateChild(v, c, r, at, n)
    PROVE  Objects!Snapshot(v, c, at, n)
<1> DEFINE N == n * PageSize
           A == at * PageSize
           L == Len(frames[v])
           old == Bytes[v]
           new == [k \in 1 .. N |-> IF k + A <= Len(old) THEN old[k + A] ELSE 0]
<1>1. /\ v \in held /\ ~IsSlice(v) /\ Base(v) = v
      /\ Comes(c, r, n) /\ byte' = Copied(v, at, Taken(n)) /\ n <= Len(free)
      /\ UNCHANGED <<slice, mapping, stray>>
  BY DEF CreateChild, Comes, Base
<1>2. /\ Taken(n) \in Seq(Frames) /\ Len(Taken(n)) = n /\ DOMAIN Taken(n) = 1 .. n
      /\ Once(Taken(n))
  BY <1>1, TakenFree, LenProperties
<1>3. byte' \in Filled
  BY <1>1, <1>2, CopiedFilled DEF Lengths, Inv
<1>4. /\ old # None /\ Len(old) = L * PageSize /\ L \in Nat /\ frames[v] \in Seq(Frames)
      /\ \A i \in 1 .. L, u \in Units : old[Place(i, u)] = byte[frames[v][i]][u]
  BY <1>1, HeldBytes
<1>5. \A f \in Frames : (\A j \in 1 .. n : Taken(n)[j] # f) => byte'[f] = byte[f]
  BY <1>1, <1>2 DEF Copied
<1>6. ASSUME NEW i \in 1 .. n
      PROVE  byte'[Taken(n)[i]] = IF at + i <= L THEN byte[frames[v][at + i]] ELSE Blank
  <2>1. Taken(n)[i] \in Frames
    BY <1>2
  <2>2. (CHOOSE j \in DOMAIN Taken(n) : Taken(n)[j] = Taken(n)[i]) = i
    BY <1>2 DEF Once
  <2> QED
    BY <1>1, <1>2, <2>1, <2>2 DEF Copied
<1>7. ASSUME NEW i \in 1 .. n, NEW u \in Units
      PROVE  new[Place(i, u)] = byte'[Taken(n)[i]][u]
  <2>1. Place(i, u) \in 1 .. N /\ i \in Nat /\ Place(i, u) \in Nat /\ u \in Nat /\ i - 1 \in Nat
        /\ (i - 1) * PageSize \in Nat
    <3>1. Place(i, u) \in 1 .. n * PageSize /\ i \in Nat /\ u \in Nat /\ i - 1 \in Nat
          /\ (i - 1) * PageSize \in Nat
      BY PlaceIn
    <3>2. Place(i, u) \in Nat
      BY <3>1 DEF Place
    <3> QED
      BY <3>1, <3>2
  <2>2. Place(i, u) + A = Place(at + i, u) /\ A \in Nat
    <3>1. ((i - 1) + at) * PageSize = ((i - 1) * PageSize) + A /\ A \in Nat
      BY <2>1, Scale
    <3>2. (at + i) - 1 = (i - 1) + at
      BY <2>1
    <3>3. Place(at + i, u) = ((i - 1) * PageSize) + A + u + 1
      BY <3>1, <3>2 DEF Place
    <3> HIDE DEF A
    <3>4. PICK d \in Nat : d = (i - 1) * PageSize
      BY <2>1
    <3>5. Place(i, u) = d + u + 1 /\ Place(at + i, u) = d + A + u + 1
      BY <3>3, <3>4 DEF Place
    <3> QED
      BY <2>1, <3>1, <3>5 DEF A
  <2>3. new[Place(i, u)] = IF Place(at + i, u) <= Len(old) THEN old[Place(at + i, u)] ELSE 0
    BY <2>1, <2>2
  <2> HIDE DEF new, old, A, L
  <2>4. CASE at + i <= L
    <3>1. at + i \in 1 .. L
      BY <2>1, <2>4
    <3>2. Place(at + i, u) \in 1 .. L * PageSize
      BY <1>4, <3>1, PlaceIn
    <3>3. Place(at + i, u) <= Len(old)
      BY <1>4, <3>2
    <3>4. new[Place(i, u)] = byte[frames[v][at + i]][u]
      BY <1>4, <2>3, <3>1, <3>3
    <3> QED
      BY <1>6, <2>4, <3>4
  <2>5. CASE ~(at + i <= L)
    <3>1. L * PageSize <= (at + i - 1) * PageSize
      <4>1. at + i - 1 \in Nat /\ L <= at + i - 1
        BY <1>4, <2>1, <2>5
      <4> QED
        BY <1>4, <4>1, Scale
    <3>2. PICK d \in Nat, e \in Nat : d = (at + i - 1) * PageSize /\ e = L * PageSize
      <4>1. at + i - 1 \in Nat
        BY <2>1
      <4> QED
        BY <1>4, <4>1, Scale
    <3>3. Place(at + i, u) = d + u + 1
      <4>1. at + i - 1 = (at + i) - 1
        BY <2>1
      <4> QED
        BY <3>2, <4>1 DEF Place
    <3>4. ~(Place(at + i, u) <= Len(old))
      BY <1>4, <2>1, <3>1, <3>2, <3>3, SMTT(30)
    <3>5. Blank[u] = 0
      BY DEF Blank
    <3> QED
      BY <1>6, <2>3, <2>5, <3>4, <3>5
  <2> QED
    BY <2>4, <2>5
<1>8. Row(new, n)
  BY DEF Row
<1> HIDE DEF new, old
<1>9. Bytes[c] = None /\ Bytes' = [Bytes EXCEPT ![c] = new]
      /\ Growable' \in {Growable, Growable \cup {c}}
  BY <1>1, <1>3, <1>5, <1>7, <1>8, ComesBytes
<1> QED
  BY <1>1, <1>4, <1>9 DEF Objects!Snapshot, Objects!New, Bytes, Growable, new, old

-----------------------------------------------------------------------------
\* A child has what its parent showed: no frame that is taken for it is one
\* the parent has, and each gets the bytes of the page it stands for.
THEOREM ChildIsCopy == Spec => ChildIsSnapshot
<1>1. Init => Inv /\ BytesInv
  BY InitInv, InitBytes
<1>2. Inv /\ BytesInv /\ [Next]_vars => Inv' /\ BytesInv'
  BY StepInv, StepLengths, StepCovered DEF BytesInv
<1>3. Inv /\ BytesInv /\ [Next]_vars =>
         [\A v, c \in Vmos, r \in BOOLEAN, at, n \in 0 .. MaxLen :
             CreateChild(v, c, r, at, n) => Objects!Snapshot(v, c, at, n)]_vars
  <2>1. \A at \in 0 .. MaxLen : at \in Nat
    BY BoundAssumption
  <2> QED
    BY <2>1, SnapshotStep DEF BytesInv
<1> QED
  BY <1>1, <1>2, <1>3, PTL DEF Spec, ChildIsSnapshot

-----------------------------------------------------------------------------
(* Bytes that are written *)

LEMMA ZerosSame == \A n \in Nat : Objects!Zeros(n) = Zeros(n) /\ Zeros(0) = <<>>
<1>1. Zeros(0) = <<>>
  BY DEF Zeros
<1> QED
  BY <1>1 DEF Objects!Zeros, Zeros

\* Frames that were written show what Over says.
LEMMA OverIs ==
    ASSUME NEW s \in Seq(Frames), NEW new, NEW start \in Nat, NEW buf \in Seq(Values),
           Written(new, s, start, buf), NEW row, Row(row, Len(s)),
           NEW i \in 1 .. Len(s), NEW u \in Units,
           row[Place(i, u)] = byte[s[i]][u] \/ row[Place(i, u)] = new[s[i]][u]
    PROVE  Objects!Over(row, start, buf)[Place(i, u)] = new[s[i]][u]
<1> DEFINE k == Place(i, u)
           d == (i - 1) * PageSize
           y == k - 1 - start
<1>1. Len(s) \in Nat /\ Len(buf) \in Nat
  BY LenProperties
<1>2. k \in 1 .. Len(s) * PageSize /\ d \in Nat /\ u \in Nat /\ k = d + u + 1 /\ k \in Nat
  <2>1. k \in 1 .. Len(s) * PageSize /\ d \in Nat /\ u \in Nat
    BY <1>1, PlaceIn
  <2>2. k = d + u + 1
    BY DEF Place
  <2> HIDE DEF k, d
  <2> QED
    BY <2>1, <2>2
<1> HIDE DEF k, d
<1>3. y \in Int /\ d + u = start + y /\ y + 1 = k - start
      /\ (0 <= y /\ y < Len(buf) <=> k > start /\ k <= start + Len(buf))
  BY <1>1, <1>2
<1> HIDE DEF y
<1>4. new[s[i]][u] = IF 0 <= y /\ y < Len(buf) THEN buf[y + 1] ELSE byte[s[i]][u]
  BY <1>3 DEF Written, d
<1>5. Objects!Over(row, start, buf)[k] =
        IF k > start /\ k <= start + Len(buf) THEN buf[k - start] ELSE row[k]
  BY <1>2 DEF Objects!Over, Row
<1> QED
  BY <1>3, <1>4, <1>5 DEF k

\* Each byte is as before the write or as after it.
Mixed(row, s, new) ==
    \A i \in 1 .. Len(s), u \in Units :
        row[Place(i, u)] = byte[s[i]][u] \/ row[Place(i, u)] = new[s[i]][u]
LEMMA OverAll ==
    ASSUME NEW s \in Seq(Frames), NEW new, NEW start \in Nat, NEW buf \in Seq(Values),
           Written(new, s, start, buf), NEW row, Row(row, Len(s)), Mixed(row, s, new)
    PROVE  BytesOf(s, new) = Objects!Over(row, start, buf)
<1>1. \A i \in 1 .. Len(s), u \in Units :
         Objects!Over(row, start, buf)[Place(i, u)] = new[s[i]][u]
  BY OverIs DEF Mixed
<1>2. Row(Objects!Over(row, start, buf), Len(s))
  BY DEF Row, Objects!Over
<1>3. new \in Filled
  BY DEF Written
<1> QED
  BY <1>1, <1>2, <1>3, BytesEqual

\* Where VMOs keep their frames and only the bytes of one object are written,
\* the others keep their bytes.
LEMMA ChangedBytes ==
    ASSUME Inv, Lengths, NEW v \in held, NEW b, b = Base(v), NEW start \in Nat,
           NEW buf \in Seq(Values), Written(byte', frames[b], start, buf),
           UNCHANGED <<held, frames, slice>>
    PROVE  Bytes' = [Bytes EXCEPT ![b] = Objects!Over(@, start, buf)]
<1> DEFINE row == Bytes[b]
           new == Objects!Over(row, start, buf)
<1>1. /\ b \in Vmos /\ Exists(b) /\ ~IsSlice(b) /\ frames[b] \in Seq(Frames)
      /\ DOMAIN row = 1 .. Len(frames[b]) * PageSize /\ Row(row, Len(frames[b]))
      /\ \A i \in 1 .. Len(frames[b]), u \in Units : row[Place(i, u)] = byte[frames[b][i]][u]
  BY HeldBytes
<1>2. byte' \in Filled
  BY DEF Written
<1>3. PICK t \in Seq(Frames) : t = frames[b]
  BY <1>1
<1>4. PICK r, g : r = row /\ g = byte'
  OBVIOUS
<1>5. BytesOf(t, g) = Objects!Over(r, start, buf)
  <2>1. /\ Written(g, t, start, buf) /\ Row(r, Len(t)) /\ Mixed(r, t, g)
    BY <1>1, <1>3, <1>4 DEF Mixed
  <2> QED
    BY <2>1, OverAll
<1> HIDE DEF new
<1>6. ASSUME NEW x \in Vmos, x # b PROVE Contents(x)' = Contents(x)
  <2>1. frames[x] \in Seq(Frames) /\ \A i \in 1 .. Len(frames[x]) : frames[x][i] \in Frames
    BY LenProperties DEF Inv, Types
  <2>2. \A i \in 1 .. Len(frames[x]), j \in 1 .. Len(frames[b]) : frames[b][j] # frames[x][i]
    BY <1>1, <1>6, Distinct
  <2>3. \A i \in 1 .. Len(frames[x]) : byte'[frames[x][i]] = byte[frames[x][i]]
    BY <2>1, <2>2 DEF Written
  <2>4. BytesOf(frames[x], byte') = BytesOf(frames[x], byte)
    BY <2>1, <2>3, BytesStay
  <2> QED
    BY <2>4, ContentsAre
<1>7. Contents(b)' = new
  BY <1>1, <1>3, <1>4, <1>5, ContentsAre DEF new
<1>8. \A x \in Vmos : Exists(x)' = Exists(x) /\ IsSlice(x)' = IsSlice(x)
  BY DEF Exists, IsSlice, Base
<1>9. Bytes' = [Bytes EXCEPT ![b] = new]
  BY <1>1, <1>6, <1>7, <1>8 DEF Bytes
<1> QED
  BY <1>9 DEF new

LEMMA SameNames ==
    \A v \in Vmos : Objects!Owner(v) = Base(v) /\ Objects!From(v) = From(v)
BY DEF Objects!Owner, Objects!From, Base, From, IsSlice

LEMMA WriteStep ==
    ASSUME Inv, Lengths, NEW v \in Vmos, NEW offset \in Nat, NEW buf \in Seq(Values),
           NEW b, b = Base(v), NEW w \in Nat, w = From(v), v \in held,
           Written(byte', frames[b], (w * PageSize) + offset, buf),
           UNCHANGED <<held, resizable, frames, slice, mapping, stray>>
    PROVE  Objects!Write(v, offset, buf)
<1>1. (w * PageSize) + offset \in Nat
  <2>1. w * PageSize \in Nat
    BY Scale
  <2> QED
    BY <2>1
<1>2. Bytes' = [Bytes EXCEPT ![b] = Objects!Over(@, (w * PageSize) + offset, buf)]
  BY <1>1, ChangedBytes
<1>3. Bytes[b] # None /\ Objects!Owner(v) = b /\ Objects!From(v) = w
  BY HeldBytes, SameNames
<1>4. Growable' = Growable
  BY DEF Growable
<1> QED
  BY <1>2, <1>3, <1>4 DEF Objects!Write, Bytes, Growable

-----------------------------------------------------------------------------
(* VMOs that are resized *)

\* The pages whose bytes set_len takes away are those that some mapping fills
\* from behind the new end.
LEMMA PagesBehind ==
    ASSUME Inv, PageInv, Covered, NEW v \in held, resizable[v], NEW n \in Nat, NEW p \in Pages,
           p \notin stray
    PROVE  (\E i \in n + 1 .. Len(frames[v]) : table[p] = frames[v][i]) <=>
             \E m \in Mappings :
                /\ mapping[m] # None /\ mapping[m].vmo = v /\ p \in Objects!Shown(mapping[m])
                /\ mapping[m].at + p - mapping[m].addr >= n
<1> DEFINE L == Len(frames[v])
<1>1. v \in Vmos /\ frames[v] \in [1 .. L -> Frames] /\ L \in Nat
  BY LenProperties DEF Inv, Types
<1>2. ~IsSlice(v) /\ Base(v) = v /\ From(v) = 0 /\ Length(v) = L
  BY <1>1, SlicesStay DEF Inv, Base, From, Length
<1>3. \A w \in Vmos : Base(w) = v => w = v
  BY DEF Inv, Kept, Cut, Base, IsSlice
<1>4. ASSUME NEW i \in n + 1 .. L, table[p] = frames[v][i]
      PROVE  \E m \in Mappings :
                /\ mapping[m] # None /\ mapping[m].vmo = v /\ p \in Objects!Shown(mapping[m])
                /\ mapping[m].at + p - mapping[m].addr >= n
  <2>1. i \in 1 .. L /\ i >= n + 1 /\ table[p] \in Frames /\ table[p] # None
    <3>1. i \in 1 .. L /\ i >= n + 1
      BY <1>1
    <3> QED
      BY <1>1, <1>4, <3>1, NoneAssumption
  <2>2. PICK m \in Mappings : mapping[m] # None /\ p \in Span(mapping[m])
    BY <2>1 DEF Covered
  <2>3. PICK w \in held : w = mapping[m].vmo
    BY <2>2 DEF PageInv, Apart
  <2>4. mapping[m] \in Places /\ w \in Vmos
    BY <2>2 DEF Inv, Types
  <2>5. PICK k \in Nat : k = mapping[m].at + p - mapping[m].addr
    BY <2>2, <2>4, SpanTypes
  <2>6. k < Length(w) /\ table[p] = FrameOf(frames, w, k)
    BY <2>2, <2>3, <2>5 DEF PageInv, PagesShowTheirVmo
  <2>7. PICK b \in Vmos, f \in Nat : b = Base(w) /\ f = From(w) /\ f + Length(w) <= Len(frames[b])
                                      /\ Length(w) \in Nat
    BY <2>4, BaseTypes DEF Inv
  <2>8. Len(frames[b]) \in Nat
    BY LenProperties DEF Inv, Types
  <2>9. f + k + 1 \in 1 .. Len(frames[b]) /\ frames[b][f + k + 1] = frames[v][i]
    BY <1>4, <2>6, <2>7, <2>8 DEF FrameOf
  <2>10. b = v /\ f + k + 1 = i
    BY <1>1, <2>1, <2>9, Distinct
  <2>11. w = v /\ f = 0
    BY <1>2, <1>3, <2>4, <2>7, <2>10
  <2>12. k >= n
    BY <2>1, <2>10, <2>11
  <2>13. p \in Objects!Shown(mapping[m])
    <3>1. p \in Nat /\ mapping[m].addr \in Nat /\ mapping[m].len \in Nat
      BY <2>2, <2>4, SpanTypes DEF Places
    <3>2. mapping[m].addr <= p /\ p < mapping[m].addr + mapping[m].len
      BY <2>2 DEF Span
    <3> QED
      BY <3>1, <3>2 DEF Objects!Shown
  <2> QED
    BY <2>2, <2>3, <2>5, <2>11, <2>12, <2>13
<1>5. ASSUME NEW m \in Mappings, mapping[m] # None, mapping[m].vmo = v,
             p \in Objects!Shown(mapping[m]), mapping[m].at + p - mapping[m].addr >= n
      PROVE  \E i \in n + 1 .. L : table[p] = frames[v][i]
  <2>1. mapping[m] \in Places
    BY <1>5 DEF Inv, Types
  <2>2. p \in Span(mapping[m])
    <3>1. p \in Nat /\ mapping[m].addr \in Nat /\ mapping[m].len \in Nat
      BY <2>1, PageAssumption DEF Places
    <3>2. mapping[m].addr <= p /\ p < mapping[m].addr + mapping[m].len
      BY <1>5, <3>1 DEF Objects!Shown
    <3> QED
      BY <3>2 DEF Span
  <2>3. PICK k \in Nat : k = mapping[m].at + p - mapping[m].addr
    BY <2>1, <2>2, SpanTypes
  <2>4. k < L /\ table[p] = FrameOf(frames, v, k)
    BY <1>2, <1>5, <2>2, <2>3 DEF PageInv, PagesShowTheirVmo
  <2>5. k >= n
    BY <1>5, <2>3
  <2> HIDE DEF L
  <2>6. k + 1 \in n + 1 .. L /\ 0 + k + 1 = k + 1
    BY <1>1, <2>4, <2>5
  <2>7. table[p] = frames[v][k + 1]
    BY <1>2, <2>4, <2>6 DEF FrameOf
  <2> QED
    BY <2>6, <2>7
<1> QED
  BY <1>4, <1>5

Join(a, b, k) == SubSeq(a, 1, k) \o SubSeq(b, k + 1, Len(b))
LEMMA Joined ==
    ASSUME NEW a \in Seq(Values), NEW b \in Seq(Values), NEW k \in Nat, k <= Len(a), k <= Len(b)
    PROVE  /\ Join(a, b, k) \in Seq(Values) /\ Len(Join(a, b, k)) = Len(b)
           /\ \A i \in 1 .. Len(b) : Join(a, b, k)[i] = IF i <= k THEN a[i] ELSE b[i]
<1>1. Len(a) \in Nat /\ Len(b) \in Nat
      /\ (\A i \in 1 .. Len(a) : a[i] \in Values) /\ (\A i \in 1 .. Len(b) : b[i] \in Values)
  BY LenProperties
<1>2. PICK c \in Seq(Values) : c = SubSeq(a, 1, k) /\ Len(c) = k /\ \A i \in 1 .. k : c[i] = a[i]
  <2>1. \A i \in 1 .. k : a[i] \in Values
    BY <1>1
  <2>2. /\ SubSeq(a, 1, k) \in Seq(Values)
        /\ Len(SubSeq(a, 1, k)) = IF 1 <= k THEN k - 1 + 1 ELSE 0
        /\ \A i \in 1 .. k - 1 + 1 : SubSeq(a, 1, k)[i] = a[1 + i - 1]
    BY <2>1, SubSeqProperties
  <2>3. Len(SubSeq(a, 1, k)) = k /\ \A i \in 1 .. k : SubSeq(a, 1, k)[i] = a[i]
    BY <2>2
  <2> QED
    BY <2>2, <2>3
<1>3. PICK d \in Seq(Values) : /\ d = SubSeq(b, k + 1, Len(b)) /\ Len(d) = Len(b) - k
                               /\ \A i \in 1 .. Len(b) - k : d[i] = b[i + k]
  <2> DEFINE n == Len(b)
  <2>1. \A i \in k + 1 .. n : b[i] \in Values
    BY <1>1
  <2>2. k + 1 \in Int /\ n \in Int
    BY <1>1
  <2> HIDE DEF n
  <2>3. /\ SubSeq(b, k + 1, n) \in Seq(Values)
        /\ Len(SubSeq(b, k + 1, n)) = IF k + 1 <= n THEN n - (k + 1) + 1 ELSE 0
        /\ \A i \in 1 .. n - (k + 1) + 1 : SubSeq(b, k + 1, n)[i] = b[(k + 1) + i - 1]
    BY <2>1, <2>2, SubSeqProperties
  <2>4. n - k \in Nat
    BY <1>1 DEF n
  <2>5. Len(SubSeq(b, k + 1, n)) = n - k /\ \A i \in 1 .. n - k : SubSeq(b, k + 1, n)[i] = b[i + k]
    BY <2>2, <2>3, <2>4
  <2> QED
    BY <2>3, <2>5 DEF n
<1>4. /\ c \o d \in Seq(Values) /\ Len(c \o d) = Len(c) + Len(d)
      /\ \A i \in 1 .. Len(c) + Len(d) : (c \o d)[i] = IF i <= Len(c) THEN c[i] ELSE d[i - Len(c)]
  <2>1. c \in Seq(Values) /\ d \in Seq(Values)
    OBVIOUS
  <2> QED
    BY <2>1, ConcatProperties, Zenon
<1>5. Len(c) + Len(d) = Len(b)
  <2>1. \A x, y \in Nat : x + (y - x) = y
    OBVIOUS
  <2>2. Len(c) = k /\ Len(d) = Len(b) - k
    BY <1>2, <1>3
  <2> QED
    BY <1>1, <2>1, <2>2
<1>6. ASSUME NEW i \in 1 .. Len(b)
      PROVE  (c \o d)[i] = IF i <= k THEN a[i] ELSE b[i]
  <2>1. CASE i <= k
    BY <1>1, <1>2, <1>4, <1>5, <2>1
  <2>2. CASE ~(i <= k)
    <3>1. i - k \in 1 .. Len(b) - k /\ (i - k) + k = i
      BY <1>1, <2>2
    <3>2. d[i - k] = b[i]
      BY <1>3, <3>1
    <3> QED
      BY <1>2, <1>4, <1>5, <2>2, <3>2
  <2> QED
    BY <2>1, <2>2
<1> QED
  BY <1>2, <1>3, <1>4, <1>5, <1>6 DEF Join

Extra(from, until) == IF until > from THEN Zeros(until - from) ELSE <<>>

\* The bytes of a VMO that is resized: what both lengths have, then what the
\* frames hold that come, and zeros where they are asked for.
LEMMA ResizeStep ==
    ASSUME Inv, Inv', Lengths, PageInv, Covered, NEW v \in held, resizable[v], NEW n \in Nat,
           Resized(v, n), UNCHANGED <<held, resizable, slice, mapping, table>>,
           NEW from \in Nat, NEW until \in Nat, NEW more \in Seq(Values),
           more = Extra(from, until),
           Written(byte', frames'[v], from, more)
    PROVE  Objects!Resize(v, n, from, until)
<1> DEFINE old == Bytes[v]
           new == BytesOf(frames'[v], byte')
           L == Len(frames[v])
           N == n * PageSize
           kept == Min({N, Len(old)})
<1>1. v \in Vmos /\ ~IsSlice(v) /\ Base(v) = v /\ Exists(v)
  BY SlicesStay DEF Inv, Types, Base, Exists
<1>2. /\ old = BytesOf(frames[v], byte) /\ Len(old) = L * PageSize /\ L \in Nat
      /\ old \in Seq(Values) /\ L * PageSize \in Nat
      /\ \A i \in 1 .. L, u \in Units : old[Place(i, u)] = byte[frames[v][i]][u]
  <2>1. byte \in Filled /\ frames[v] \in Seq(Frames) /\ L \in Nat
    BY <1>1, LenProperties DEF Inv, Types, Lengths
  <2>2. old = BytesOf(frames[v], byte)
    BY <1>1, HeldBytes
  <2> QED
    BY <2>1, <2>2, BytesAre
<1>3. /\ Len(frames'[v]) = n /\ \A x \in Vmos : x # v => frames'[x] = frames[x]
      /\ \A i \in 1 .. n : i <= L => frames'[v][i] = frames[v][i]
  BY <1>1, ResizedLength DEF Inv
<1>4. byte' \in Filled /\ frames'[v] \in Seq(Frames)
  BY <1>1 DEF Written, Inv, Types
<1>5. /\ new \in Seq(Values) /\ Len(new) = N /\ N \in Nat /\ Row(new, n)
      /\ \A i \in 1 .. n, u \in Units : new[Place(i, u)] = byte'[frames'[v][i]][u]
  BY <1>3, <1>4, BytesAre
<1>6. kept \in Nat /\ kept <= Len(old) /\ kept <= N /\ (kept = N \/ kept = L * PageSize)
  <2> HIDE DEF N, old
  <2>1. Len(old) \in Nat
    BY <1>2
  <2>2. \E x \in {N, Len(old)} : \A y \in {N, Len(old)} : x <= y
    <3>1. N <= Len(old) \/ Len(old) <= N
      BY <1>5, <2>1
    <3>2. N <= N /\ Len(old) <= Len(old)
      BY <1>5, <2>1
    <3> QED
      BY <3>1, <3>2
  <2>3. kept \in {N, Len(old)} /\ \A y \in {N, Len(old)} : kept <= y
    BY <2>2 DEF Min
  <2> QED
    BY <1>2, <1>5, <2>1, <2>3
<1> DEFINE both == SubSeq(old, 1, kept) \o SubSeq(new, kept + 1, N)
<1> HIDE DEF kept, new, old, N
<1>7. /\ both \in Seq(Values) /\ Len(both) = N
      /\ \A i \in 1 .. N : both[i] = IF i <= kept THEN old[i] ELSE new[i]
  <2>1. PICK a \in Seq(Values), b \in Seq(Values) : a = old /\ b = new
    BY <1>2, <1>5
  <2>2. PICK k \in Nat : k = kept
    BY <1>6
  <2>3. k <= Len(a) /\ k <= Len(b) /\ N = Len(b)
    BY <1>5, <1>6, <2>1, <2>2
  <2>4. PICK x : x = Join(a, b, k)
    OBVIOUS
  <2>5. x \in Seq(Values) /\ Len(x) = Len(b)
        /\ \A i \in 1 .. Len(b) : x[i] = IF i <= k THEN a[i] ELSE b[i]
    BY <2>3, <2>4, Joined
  <2>6. both = x
    BY <2>1, <2>2, <2>3, <2>4 DEF Join
  <2> QED
    BY <2>1, <2>2, <2>3, <2>5, <2>6
<1> HIDE DEF both
<1>8. Row(both, n)
  <2>1. DOMAIN both = 1 .. N /\ both = [k \in DOMAIN both |-> both[k]]
    BY <1>7, LenProperties
  <2> QED
    BY <2>1 DEF Row, N
<1>9. ASSUME NEW i \in 1 .. n, NEW u \in Units
      PROVE  both[Place(i, u)] = byte[frames'[v][i]][u] \/ both[Place(i, u)] = byte'[frames'[v][i]][u]
  <2>1. Place(i, u) \in 1 .. N /\ Place(i, u) \in Nat
    <3>1. Place(i, u) \in 1 .. n * PageSize
      BY PlaceIn
    <3> QED
      BY <1>5, <3>1 DEF N
  <2>2. CASE Place(i, u) <= kept
    <3>1. i <= L
      <4>1. PICK k \in Nat, d \in Nat, e \in Nat :
              i = k + 1 /\ d = k * PageSize /\ e = L * PageSize /\ Place(i, u) = d + u + 1
        <5>1. i - 1 \in Nat /\ i \in Nat /\ (i - 1) * PageSize \in Nat
              /\ Place(i, u) \in 1 .. n * PageSize
          BY PlaceIn
        <5> QED
          BY <1>2, <5>1 DEF Place
      <4>2. L <= k => e <= d
        BY <1>2, <4>1, Scale
      <4>3. u \in Nat
        BY Positive DEF Units
      <4>5. kept \in Nat /\ kept <= e
        BY <1>2, <1>6, <4>1
      <4>6. d + u + 1 <= kept
        BY <2>2, <4>1
      <4>7. d \in Nat /\ e \in Nat
        BY <4>1
      <4>8. ~(e <= d)
        BY <4>3, <4>5, <4>6, <4>7
      <4>4. ~(L <= k)
        BY <4>2, <4>8
      <4> QED
        BY <1>2, <4>1, <4>4
    <3>2. i \in 1 .. L /\ frames'[v][i] = frames[v][i]
      BY <1>2, <1>3, <3>1
    <3> QED
      BY <1>2, <1>7, <2>1, <2>2, <3>2
  <2>3. CASE ~(Place(i, u) <= kept)
    BY <1>5, <1>7, <2>1, <2>3
  <2> QED
    BY <2>2, <2>3
<1>10. new = Objects!Over(both, from, more)
  <2>1. PICK t \in Seq(Frames) : t = frames'[v]
    BY <1>4
  <2>2. PICK g, r : g = byte' /\ r = both
    OBVIOUS
  <2>3. /\ Written(g, t, from, more) /\ Row(r, Len(t)) /\ Mixed(r, t, g)
    BY <1>3, <1>8, <1>9, <2>1, <2>2 DEF Mixed
  <2>4. BytesOf(t, g) = Objects!Over(r, from, more)
    BY <2>3, OverAll
  <2> QED
    BY <2>1, <2>2, <2>4 DEF new
<1>11. ASSUME NEW x \in Vmos, x # v PROVE Contents(x)' = Contents(x)
  <2>1. frames[x] \in Seq(Frames) /\ frames'[x] = frames[x]
        /\ \A i \in 1 .. Len(frames[x]) : frames[x][i] \in Frames
    BY <1>3, <1>11, LenProperties DEF Inv, Types
  <2>2. \A i \in 1 .. Len(frames'[x]), j \in 1 .. Len(frames'[v]) : frames'[v][j] # frames'[x][i]
    <3>1. x # None /\ v # None /\ x \in Owners /\ v \in Owners
          /\ Owned(x)' = frames'[x] /\ Owned(v)' = frames'[v]
      BY <1>1, NoneAssumption DEF Owners, Owned
    <3>2. DOMAIN frames'[x] = 1 .. Len(frames'[x]) /\ DOMAIN frames'[v] = 1 .. Len(frames'[v])
      BY <1>1, LenProperties DEF Inv, Types
    <3>3. FramesOwnedOnce'
      BY DEF Inv
    <3> QED
      BY <1>11, <3>1, <3>2, <3>3 DEF FramesOwnedOnce
  <2>3. \A i \in 1 .. Len(frames[x]) : byte'[frames[x][i]] = byte[frames[x][i]]
    BY <2>1, <2>2, SMTT(30) DEF Written
  <2>4. BytesOf(frames[x], byte') = BytesOf(frames[x], byte)
    BY <2>1, <2>3, BytesStay
  <2> QED
    BY <2>1, <2>4, ContentsAre
<1>12. \A x \in Vmos : Exists(x)' = Exists(x) /\ IsSlice(x)' = IsSlice(x)
  BY DEF Exists, IsSlice, Base
<1>13. Contents(v)' = new
  BY <1>1, ContentsAre DEF new
<1>14. Bytes'[v] = new /\ Bytes' = [Bytes EXCEPT ![v] = new]
  BY <1>1, <1>11, <1>12, <1>13 DEF Bytes
<1>15. stray' = stray \cup
          {p \in Pages : \E m \in Mappings :
              /\ mapping[m] # None /\ mapping[m].vmo = v /\ p \in Objects!Shown(mapping[m])
              /\ mapping[m].at + p - mapping[m].addr >= n}
  <2>1. stray' = stray \cup {p \in Pages : \E i \in n + 1 .. Len(frames[v]) : table[p] = frames[v][i]}
    BY DEF Resized
  <2> QED
    BY <2>1, PagesBehind
<1>16. Growable' = Growable /\ v \in Growable
  BY <1>1 DEF Growable
<1>17. more = IF until > from THEN Objects!Zeros(until - from) ELSE <<>>
  BY ZerosSame DEF Extra
<1>18. Len(Bytes'[v]) = N
       /\ Bytes' = [Bytes EXCEPT ![v] =
                      Objects!Over(SubSeq(@, 1, kept) \o SubSeq(Bytes'[v], kept + 1, N), from, more)]
  BY <1>5, <1>10, <1>14 DEF both, old
<1> QED
  BY <1>15, <1>16, <1>17, <1>18 DEF Objects!Resize, Bytes, Growable, kept, N, old, Min, Objects!Min

-----------------------------------------------------------------------------
(* Steps of Memory are steps of MemoryObjects *)

Unseen == UNCHANGED <<Bytes, Growable, slice, mapping, stray>>

LEMMA StayUnseen ==
    ASSUME UNCHANGED <<byte, held, resizable, frames, slice, mapping, stray>>
    PROVE  Unseen
<1>1. Growable' = Growable
  BY DEF Growable
<1>2. \A v \in Vmos : Exists(v)' = Exists(v) /\ IsSlice(v)' = IsSlice(v) /\ Contents(v)' = Contents(v)
  BY DEF Exists, IsSlice, Base, Contents
<1>3. Bytes' = Bytes
  BY <1>2 DEF Bytes
<1> QED
  BY <1>1, <1>3 DEF Unseen

LEMMA NotWritten ==
    ASSUME byte \in Filled, NEW s, NEW start
    PROVE  Written(byte, s, start, <<>>)
<1>1. Len(<<>>) = 0
  OBVIOUS
<1>2. \A y \in Int : ~(0 <= y /\ y < 0)
  OBVIOUS
<1> QED
  BY <1>1, <1>2 DEF Written

LEMMA SetLenStep ==
    ASSUME Inv, Lengths, PageInv, Covered, NEW v \in Vmos, NEW n \in Nat, SetLen(v, n)
    PROVE  Objects!Resize(v, n, 0, 0)
<1>1. /\ v \in held /\ resizable[v] /\ Resized(v, n) /\ byte' = byte
      /\ UNCHANGED <<held, resizable, slice, mapping, table>>
  BY DEF SetLen
<1>2. Inv'
  BY <1>1, ResizedInv
<1>3. Extra(0, 0) = <<>> /\ <<>> \in Seq(Values)
  BY DEF Extra
<1>4. Written(byte', frames'[v], 0, <<>>)
  BY <1>1, NotWritten DEF Lengths
<1> QED
  BY <1>1, <1>2, <1>3, <1>4, ResizeStep

LEMMA GrowStep ==
    ASSUME Inv, Lengths, PageInv, Covered, NEW v \in Vmos, NEW s \in Sizes, NEW z \in Sizes,
           SetContentSizeAndResize(v, s, z)
    PROVE  \/ \E n \in 0 .. MaxLen, from, until \in 0 .. MaxLen * PageSize :
                 Objects!Resize(v, n, from, until)
           \/ \E offset, n \in 0 .. MaxLen * PageSize : Objects!Write(v, offset, Objects!Zeros(n))
           \/ Unseen
<1> DEFINE M == MaxLen * PageSize
<1>1. PICK until : until = Min({z, NewSize(v, s)})
  OBVIOUS
<1>2. /\ until \in Nat /\ until \in 0 .. M /\ size[v] \in Nat /\ size[v] \in 0 .. M
      /\ Needed(s) \in 0 .. MaxLen /\ Needed(s) \in Nat /\ M \in Nat
  <2>1. MaxLen \in Nat /\ s \in Nat /\ M \in Nat
    BY SizesBound
  <2>2. until \in Nat /\ until \in 0 .. M /\ size[v] \in Nat /\ size[v] \in 0 .. M
        /\ Needed(s) \in 0 .. MaxLen
    BY <1>1, GrowthInside
  <2> HIDE DEF M
  <2> QED
    BY <2>1, <2>2, NeededPages
<1>3. PICK b \in Vmos, w \in Nat : b = Base(v) /\ w = From(v)
  BY BaseTypes DEF Inv
<1>4. /\ v \in held /\ UNCHANGED <<held, resizable, slice, mapping, table>> /\ Inv'
      /\ byte \in Filled
  BY ResizedInvOf DEF SetContentSizeAndResize, Lengths
<1> DEFINE n == until - size[v]
<1>5. \/ until <= size[v] /\ byte' = byte
      \/ /\ until > size[v] /\ (IsSlice(v) => InRange(v, size[v], n))
         /\ byte' = Stored(frames', v, size[v], Zeros(n))
      \/ until > size[v] /\ IsSlice(v) /\ byte' = byte
  BY <1>1 DEF SetContentSizeAndResize
<1>6. until > size[v] => n \in Nat /\ n \in 0 .. M
  <2> HIDE DEF M
  <2> QED
    BY <1>2
<1> HIDE DEF n
<1>7. ASSUME until > size[v], IsSlice(v) => InRange(v, size[v], n),
             byte' = Stored(frames', v, size[v], Zeros(n))
      PROVE  Written(byte', frames'[b], (w * PageSize) + size[v], Zeros(n))
  BY <1>1, <1>2, <1>3, <1>6, <1>7, GrowthBytes DEF n
<1>8. CASE Needed(s) > Length(v) /\ resizable[v]
  <2>1. Resized(v, Needed(s)) /\ ~IsSlice(v)
    BY <1>8, SlicesStay DEF Inv, SetContentSizeAndResize
  <2>2. b = v /\ w = 0 /\ (w * PageSize) + size[v] = size[v]
    <3>1. b = v /\ w = 0
      BY <1>3, <2>1 DEF Base, From
    <3>2. 0 + size[v] = size[v]
      BY <1>2
    <3> QED
      BY <3>1, <3>2, Positive
  <2>3. PICK more \in Seq(Values) : more = Extra(size[v], until)
                                     /\ Written(byte', frames'[v], size[v], more)
    <3>1. CASE until > size[v]
      <4>1. Written(byte', frames'[v], size[v], Zeros(n))
        BY <1>2, <1>5, <1>7, <2>1, <2>2, <3>1
      <4>2. Zeros(n) = Extra(size[v], until) /\ Zeros(n) \in Seq(Values)
        BY <1>6, <3>1, ZerosTypes DEF Extra, n
      <4> QED
        BY <4>1, <4>2
    <3>2. CASE ~(until > size[v])
      <4>1. byte' = byte
        BY <1>5, <3>2
      <4>2. Written(byte', frames'[v], size[v], <<>>)
        BY <1>4, <4>1, NotWritten
      <4>3. <<>> = Extra(size[v], until) /\ <<>> \in Seq(Values)
        BY <3>2 DEF Extra
      <4> QED
        BY <4>2, <4>3
    <3> QED
      BY <3>1, <3>2
  <2>4. Objects!Resize(v, Needed(s), size[v], until)
    BY <1>2, <1>4, <1>8, <2>1, <2>3, ResizeStep
  <2> QED
    BY <1>2, <2>4
<1>9. CASE ~(Needed(s) > Length(v) /\ resizable[v])
  <2>1. UNCHANGED <<frames, stray>>
    BY <1>9 DEF SetContentSizeAndResize
  <2>2. CASE byte' = byte
    BY <1>4, <2>1, <2>2, StayUnseen
  <2>3. CASE byte' # byte
    <3>1. n \in Nat /\ n \in 0 .. M /\ Written(byte', frames[b], (w * PageSize) + size[v], Zeros(n))
      BY <1>5, <1>6, <1>7, <2>1, <2>3
    <3>2. Zeros(n) \in Seq(Values) /\ Zeros(n) = Objects!Zeros(n)
      BY <3>1, ZerosTypes, ZerosSame
    <3>3. Objects!Write(v, size[v], Zeros(n))
      BY <1>2, <1>3, <1>4, <2>1, <3>1, <3>2, WriteStep
    <3> QED
      BY <1>2, <3>1, <3>2, <3>3
  <2> QED
    BY <2>2, <2>3
<1> QED
  BY <1>8, <1>9

LEMMA CutStep ==
    ASSUME Inv, Lengths, NEW v \in Vmos, NEW c \in Vmos, NEW at \in Nat, NEW n \in Nat,
           CreateSlice(v, c, at, n)
    PROVE  Objects!Cut(v, c, at, n)
<1>1. /\ c \notin held /\ slice[c] = None /\ \A s \in held : Base(s) # c
      /\ c \notin held /\ ~Exists(c)
  BY Absent DEF Inv, CreateSlice
<1>2. /\ v \in held /\ ~resizable[v] /\ at + n <= Length(v)
      /\ held' = held \cup {c} /\ UNCHANGED <<byte, resizable, frames, mapping, stray>>
      /\ slice' = [slice EXCEPT ![c] = [of |-> Base(v), at |-> From(v) + at, len |-> n]]
  BY DEF CreateSlice
<1>3. PICK b \in Vmos, w \in Nat : b = Base(v) /\ w = From(v) /\ Length(v) \in Nat
         /\ w + Length(v) <= Len(frames[b]) /\ b # c /\ slice[b] = None
  BY <1>1, <1>2, BaseTypes DEF Inv
<1>4. ~resizable[b]
  BY <1>2, <1>3 DEF Inv, Kept, Cut, Base, IsSlice
<1>5. Bytes[b] # None /\ Len(Bytes[b]) = Len(frames[b]) * PageSize /\ Len(frames[b]) \in Nat /\ Exists(b)
  BY <1>2, <1>3, HeldBytes
<1>6. (at + w + n) * PageSize <= Len(Bytes[b])
  <2>1. at + w + n \in Nat /\ at + w + n <= Len(frames[b])
    BY <1>2, <1>3, <1>5
  <2> QED
    BY <1>5, <2>1, Scale
<1>7. \A x \in Vmos : x # c => slice'[x] = slice[x] /\ Base(x)' = Base(x) /\ IsSlice(x)' = IsSlice(x)
  BY <1>2 DEF Base, IsSlice, Inv, Types
<1>8. IsSlice(c)' /\ Base(c)' = b
  <2>1. [of |-> b, at |-> w + at, len |-> n] \in Slices
    BY <1>3 DEF Slices
  <2>2. slice'[c] = [of |-> b, at |-> w + at, len |-> n] /\ slice'[c] # None
    BY <1>2, <1>3, <2>1, NoneAssumption DEF Inv, Types, Slices
  <2> QED
    BY <2>2 DEF Base, IsSlice
<1>9. \A x \in Vmos : x # c => Exists(x)' = Exists(x)
  <2> TAKE x \in Vmos
  <2> HAVE x # c
  <2>1. \A s \in held : s \in Vmos /\ s # c /\ Base(s)' = Base(s)
    BY <1>1, <1>7 DEF Inv, Types
  <2>2. x \in held' <=> x \in held
    BY <1>2
  <2>3. CASE x = b
    BY <1>2, <1>5, <1>8, <2>3 DEF Exists
  <2>4. CASE x # b
    <3>1. (\E s \in held' : Base(s)' = x) <=> (\E s \in held : Base(s) = x)
      BY <1>2, <1>8, <2>1, <2>4
    <3> QED
      BY <2>2, <3>1 DEF Exists
  <2> QED
    BY <2>3, <2>4
<1>10. \A x \in Vmos : Contents(x)' = Contents(x)
  BY <1>2 DEF Contents
<1>11. Bytes' = Bytes
  BY <1>1, <1>7, <1>8, <1>9, <1>10 DEF Bytes
<1>12. Growable' = Growable /\ b \notin Growable
  BY <1>2, <1>4 DEF Growable
<1>13. Objects!Owner(v) = b /\ Objects!From(v) = w
  BY <1>3, SameNames
<1>14. slice' = [slice EXCEPT ![c] = [of |-> b, at |-> w + at, len |-> n]]
  BY <1>2, <1>3
<1> QED
  BY <1>2, <1>5, <1>6, <1>11, <1>12, <1>13, <1>14 DEF Objects!Cut, Bytes, Growable

LEMMA ForgetStep ==
    ASSUME Inv, Lengths, NEW v \in Vmos, Drop(v)
    PROVE  Objects!Forget(v)
<1>1. /\ v \in held /\ held' = held \ {v} /\ slice' = [slice EXCEPT ![v] = None]
      /\ UNCHANGED <<byte, mapping, table, stray>>
      /\ \A m \in Mappings : mapping[m] # None => mapping[m].vmo # v
  BY DEF Drop, Mapped
<1>2. PICK b \in Vmos : b = Base(v) /\ slice[b] = None /\ Exists(b) /\ ~IsSlice(b)
  BY <1>1, BaseTypes, HeldBytes DEF Inv
<1>3. \A x \in Vmos : x # v => /\ slice'[x] = slice[x] /\ IsSlice(x)' = IsSlice(x)
                               /\ Base(x)' = Base(x)
  BY <1>1 DEF Inv, Types, IsSlice, Base
<1>4. slice'[v] = None /\ ~IsSlice(v)' /\ v \notin held' /\ Base(v)' = v /\ held' \subseteq Vmos
  BY <1>1 DEF Inv, Types, IsSlice, Base
<1>5. v # b => IsSlice(v) /\ \A s \in held : Base(s) # v
  BY <1>1, <1>2, SlicesStay DEF Inv, Base
<1>6. \A x \in Vmos : x # v /\ x # b => Exists(x)' = Exists(x)
  <2> TAKE x \in Vmos
  <2> HAVE x # v /\ x # b
  <2>1. (\E s \in held' : Base(s)' = x) <=> (\E s \in held : Base(s) = x)
    BY <1>1, <1>2, <1>3, <1>4
  <2> QED
    BY <1>1, <2>1 DEF Exists
<1>7. v # b => ~Exists(v)'
  BY <1>1, <1>3, <1>4, <1>5 DEF Exists
<1>8. Objects!Owner(v) = b
  BY <1>2, SameNames
<1>9. CASE Gone(v)
  <2>1. /\ frames' = [frames EXCEPT ![b] = <<>>] /\ resizable' = [resizable EXCEPT ![b] = FALSE]
    BY <1>2, <1>9 DEF Drop
  <2>2. \A s \in held' : s # v /\ s \in Vmos /\ Base(s)' = Base(s) /\ Base(s) # b
    BY <1>1, <1>2, <1>3, <1>4, <1>9 DEF Gone
  <2>3. ~Exists(b)'
    <3>1. b \notin held'
      <4>1. Base(b) = b
        BY <1>2 DEF Base
      <4> QED
        BY <2>2, <4>1
    <3> QED
      BY <2>2, <3>1 DEF Exists
  <2>4. \A x \in Vmos : x # b => frames'[x] = frames[x]
    BY <2>1 DEF Inv, Types
  <2>5. \A x \in Vmos : x # b => Contents(x)' = Contents(x)
    BY <1>1, <2>4 DEF Contents
  <2>6. Bytes' = [Bytes EXCEPT ![b] = None]
    BY <1>2, <1>3, <1>5, <1>6, <1>7, <2>3, <2>5 DEF Bytes
  <2>7. Growable' = Growable \ {b}
    BY <2>1 DEF Growable, Inv, Types
  <2>8. ASSUME NEW s \in Vmos, slice'[s] # None PROVE slice'[s].of # b
    <3>1. s # v /\ slice'[s] = slice[s] /\ IsSlice(s)
      BY <1>3, <1>4, <2>8 DEF IsSlice
    <3>2. s \in held
      BY <3>1 DEF Inv, Kept, Cut
    <3>3. Base(s) = slice[s].of /\ Base(s) # b
      BY <1>1, <2>2, <3>1, <3>2 DEF Base
    <3> QED
      BY <3>1, <3>3
  <2> QED
    BY <1>1, <1>8, <2>6, <2>7, <2>8 DEF Objects!Forget, Bytes, Growable
<1>10. CASE ~Gone(v)
  <2>1. UNCHANGED <<frames, resizable>>
    BY <1>10 DEF Drop
  <2>2. PICK s \in held : s # v /\ Base(s) = b
    BY <1>2, <1>10 DEF Gone
  <2>3. Exists(b)'
    BY <1>1, <1>3, <1>4, <2>2 DEF Exists
  <2>4. \A x \in Vmos : Contents(x)' = Contents(x)
    BY <1>1, <2>1 DEF Contents
  <2>5. ~IsSlice(b)'
    BY <1>2, <1>3, <1>4
  <2>6. Bytes' = Bytes
    BY <1>2, <1>3, <1>5, <1>6, <1>7, <2>3, <2>4, <2>5 DEF Bytes
  <2>7. Growable' = Growable
    BY <2>1 DEF Growable
  <2> QED
    BY <1>1, <1>8, <2>6, <2>7 DEF Objects!Forget, Bytes, Growable
<1> QED
  BY <1>9, <1>10

LEMMA ViewMapStep ==
    ASSUME Inv, Lengths, NEW m \in Mappings, NEW v \in Vmos, NEW at \in Nat, NEW n \in Nat,
           NEW addr \in Pages, Map(m, v, at, n, addr)
    PROVE  Objects!Map(m, v, at, n, addr)
<1> DEFINE new == [vmo |-> v, at |-> at, len |-> n, addr |-> addr]
<1>1. /\ mapping[m] = None /\ v \in held /\ at + n <= Length(v)
      /\ addr .. addr + n - 1 \subseteq Pages
      /\ mapping' = [mapping EXCEPT ![m] = new]
      /\ stray' = stray \cup {p \in Span(new) : Committed(v, at + p - addr)
                                                  # FrameOf(frames, v, at + p - addr)}
      /\ UNCHANGED <<byte, held, resizable, frames, slice>>
  BY DEF Map
<1>2. PICK b \in Vmos, w \in Nat : b = Base(v) /\ w = From(v) /\ Length(v) \in Nat
         /\ w + Length(v) <= Len(frames[b])
  BY BaseTypes DEF Inv
<1>3. new \in Places /\ new.addr = addr /\ new.len = n /\ new.at = at
  BY PageAssumption DEF Places
<1>4. addr \in Nat /\ Len(frames[b]) \in Nat
  BY PageAssumption, LenProperties DEF Inv, Types
<1>5. Span(new) = Objects!Shown(new)
  <2>1. \A p \in Pages : p \in Nat
    BY PageAssumption
  <2>2. \A p \in addr .. addr + n - 1 : p \in Pages /\ addr <= p /\ p < addr + n
    BY <1>1, <1>4
  <2>3. \A p \in Nat : addr <= p /\ p < addr + n => p \in addr .. addr + n - 1
    BY <1>4
  <2> QED
    BY <1>3, <2>1, <2>2, <2>3 DEF Span, Objects!Shown
<1>6. ASSUME NEW p \in Span(new)
      PROVE  (Committed(v, at + p - addr) # FrameOf(frames, v, at + p - addr)) <=> w # 0
  <2>1. PICK k \in Nat : k = at + p - addr /\ k < at + n
    BY <1>3, SpanTypes
  <2>2. k + 1 \in 1 .. Len(frames[b]) /\ w + k + 1 \in 1 .. Len(frames[b])
    BY <1>1, <1>2, <1>4, <2>1
  <2>3. Committed(v, k) = frames[b][k + 1] /\ FrameOf(frames, v, k) = frames[b][w + k + 1]
    BY <1>2 DEF Committed, FrameOf
  <2>4. k + 1 = w + k + 1 <=> w = 0
    <3>1. \A x, y \in Nat : x + 1 = y + x + 1 <=> y = 0
      OBVIOUS
    <3> QED
      BY <3>1
  <2>5. frames[b][k + 1] = frames[b][w + k + 1] <=> w = 0
    BY <2>2, <2>4, Distinct
  <2> QED
    BY <2>1, <2>3, <2>5
<1> HIDE DEF new
<1>7. stray' = stray \cup IF w = 0 THEN {} ELSE Objects!Shown(new)
  <2>1. CASE w = 0
    BY <1>1, <1>6, <2>1
  <2>2. CASE w # 0
    <3>1. \A p \in Span(new) : Committed(v, at + p - addr) # FrameOf(frames, v, at + p - addr)
      BY <1>6, <2>2
    <3>2. {p \in Span(new) : Committed(v, at + p - addr) # FrameOf(frames, v, at + p - addr)} = Span(new)
      BY <3>1
    <3> QED
      BY <1>1, <1>5, <2>2, <3>2
  <2> QED
    BY <2>1, <2>2
<1>8. mapping'[m] = new
  BY <1>1 DEF Inv, Types
<1>9. Objects!From(v) = w
  BY <1>2, SameNames
<1>10. Bytes' = Bytes /\ Growable' = Growable
  <2>1. Growable' = Growable
    BY <1>1 DEF Growable
  <2>2. \A x \in Vmos : Exists(x)' = Exists(x) /\ IsSlice(x)' = IsSlice(x) /\ Contents(x)' = Contents(x)
    BY <1>1 DEF Exists, IsSlice, Base, Contents
  <2>3. Bytes' = Bytes
    BY <2>2 DEF Bytes
  <2> QED
    BY <2>1, <2>3
<1> QED
  BY <1>1, <1>7, <1>8, <1>9, <1>10 DEF Objects!Map, Bytes, Growable, new

LEMMA ViewUnmapStep ==
    ASSUME Inv, NEW m \in Mappings, Unmap(m)
    PROVE  Objects!Unmap(m)
<1>1. /\ mapping[m] # None /\ mapping' = [mapping EXCEPT ![m] = None]
      /\ stray' = stray \ Span(mapping[m])
      /\ UNCHANGED <<byte, held, resizable, frames, slice>>
  BY DEF Unmap
<1>2. mapping[m] \in Places /\ stray \subseteq Pages
  BY <1>1 DEF Inv, Types
<1>3. \A p \in Pages : p \in Span(mapping[m]) <=> p \in Objects!Shown(mapping[m])
  <2> TAKE p \in Pages
  <2>1. p \in Nat /\ mapping[m].addr \in Nat /\ mapping[m].len \in Nat
    BY <1>2, PageAssumption DEF Places
  <2>2. (mapping[m].addr <= p /\ p < mapping[m].addr + mapping[m].len)
          <=> p \in mapping[m].addr .. mapping[m].addr + mapping[m].len - 1
    BY <2>1
  <2> QED
    BY <2>2 DEF Span, Objects!Shown
<1>4. stray' = stray \ Objects!Shown(mapping[m])
  BY <1>1, <1>2, <1>3
<1>5. Bytes' = Bytes /\ Growable' = Growable
  <2>1. Growable' = Growable
    BY <1>1 DEF Growable
  <2>2. \A x \in Vmos : Exists(x)' = Exists(x) /\ IsSlice(x)' = IsSlice(x) /\ Contents(x)' = Contents(x)
    BY <1>1 DEF Exists, IsSlice, Base, Contents
  <2>3. Bytes' = Bytes
    BY <2>2 DEF Bytes
  <2> QED
    BY <2>1, <2>3
<1> QED
  BY <1>1, <1>4, <1>5 DEF Objects!Unmap, Bytes, Growable

\* One byte is written where the place says.
LEMMA OneByte ==
    ASSUME Inv, byte \in Filled, NEW p \in Pages, NEW u \in Units, NEW x \in Values,
           Store(p, u, x), NEW b \in Vmos, NEW i \in 1 .. Len(frames[b]), table[p] = frames[b][i]
    PROVE  Written(byte', frames[b], ((i - 1) * PageSize) + u, <<x>>)
<1>1. PICK t \in Frames : t = table[p]
  BY StoreFilled DEF Inv
<1>2. /\ byte' \in Filled
      /\ \A f \in Frames, w \in Units : byte'[f][w] = IF f = t /\ w = u THEN x ELSE byte[f][w]
  BY <1>1, StoreFilled DEF Inv
<1>3. PICK s \in Seq(Frames) : s = frames[b] /\ Len(s) \in Nat /\ \A j \in 1 .. Len(s) : s[j] \in Frames
  <2>1. frames[b] \in Seq(Frames)
    BY DEF Inv, Types
  <2>2. Len(frames[b]) \in Nat /\ \A j \in 1 .. Len(frames[b]) : frames[b][j] \in Frames
    BY <2>1, LenProperties
  <2> QED
    BY <2>1, <2>2
<1>4. ASSUME NEW f \in Frames, f # t PROVE byte'[f] = byte[f]
  <2>1. byte'[f] = [w \in Units |-> byte'[f][w]] /\ byte[f] = [w \in Units |-> byte[f][w]]
    BY <1>2 DEF Filled
  <2>2. \A w \in Units : byte'[f][w] = byte[f][w]
    BY <1>2, <1>4
  <2>3. [w \in Units |-> byte'[f][w]] = [w \in Units |-> byte[f][w]]
    BY <2>2
  <2> QED
    BY <2>1, <2>3
<1>5. \A f \in Frames : (\A j \in 1 .. Len(s) : s[j] # f) => byte'[f] = byte[f]
  BY <1>1, <1>3, <1>4
<1>6. PICK c \in Nat : c = (i - 1) * PageSize /\ i \in Nat
  <2>1. i \in Nat /\ i - 1 \in Nat
    BY <1>3
  <2> QED
    BY <2>1, Scale
<1>7. ASSUME NEW j \in 1 .. Len(s), NEW w \in Units, NEW y \in Int,
             ((j - 1) * PageSize) + w = c + u + y
      PROVE  byte'[s[j]][w] = IF 0 <= y /\ y < Len(<<x>>) THEN <<x>>[y + 1] ELSE byte[s[j]][w]
  <2>1. j \in Nat /\ j - 1 \in Nat /\ w \in Nat /\ u \in Nat /\ w < PageSize /\ u < PageSize
        /\ i - 1 \in Nat
    BY <1>3, <1>6, Positive DEF Units
  <2>2. PICK d \in Nat : d = (j - 1) * PageSize
    BY <2>1, Scale
  <2>3. (d + w) \div PageSize = j - 1 /\ (d + w) % PageSize = w
    BY <2>1, <2>2, PlaceIs
  <2>4. (c + u) \div PageSize = i - 1 /\ (c + u) % PageSize = u
    BY <2>1, <1>6, PlaceIs
  <2>5. CASE y = 0
    <3>1. d + w = c + u
      BY <1>7, <2>2, <2>5, <2>1
    <3>2. j - 1 = i - 1 /\ w = u
      BY <2>3, <2>4, <3>1
    <3>3. j = i
      BY <2>1, <1>6, <3>2
    <3> QED
      BY <1>1, <1>2, <1>3, <2>5, <3>2, <3>3
  <2>6. CASE y # 0
    <3>1. ~(j = i /\ w = u)
      <4>1. j = i => d = c
        BY <2>2, <1>6
      <4>2. d + w = c + u + y
        BY <1>7, <2>2
      <4> QED
        BY <4>1, <4>2, <2>6, <2>1
    <3>2. s[j] = t => j = i
      BY <1>1, <1>3, Distinct
    <3>3. s[j] \in Frames
      BY <1>3
    <3>4. byte'[s[j]][w] = byte[s[j]][w]
      BY <1>2, <3>1, <3>2, <3>3
    <3>5. Len(<<x>>) = 1 /\ ~(0 <= y /\ y < 1)
      BY <2>6
    <3> QED
      BY <3>4, <3>5
  <2> QED
    BY <2>5, <2>6
<1> QED
  BY <1>2, <1>3, <1>5, <1>6, <1>7 DEF Written

\* A store through a page that shows what it should
LEMMA StoreStep ==
    ASSUME Inv, Lengths, PageInv, Covered, NEW p \in Pages \ stray, NEW u \in Units,
           NEW x \in Values, Store(p, u, x)
    PROVE  \E m \in Mappings : Objects!Store(m, p, u, x)
<1>1. table[p] # None /\ p \in Pages
      /\ UNCHANGED <<held, resizable, frames, slice, mapping, stray>>
  BY DEF Store
<1>2. PICK m \in Mappings : mapping[m] # None /\ p \in Span(mapping[m])
  BY <1>1 DEF Covered
<1>3. PICK pl \in Places : pl = mapping[m]
  BY <1>2 DEF Inv, Types
<1>4. pl.vmo \in held /\ pl.vmo \in Vmos /\ pl.at \in Nat /\ pl.len \in Nat /\ pl.addr \in Nat
  BY <1>2, <1>3 DEF PageInv, Apart, Inv, Types, Places
<1>5. PICK k \in Nat : /\ k = pl.at + p - pl.addr
                       /\ k < Length(pl.vmo) /\ table[p] = FrameOf(frames, pl.vmo, k)
                       /\ p \in Objects!Shown(pl)
  <2>1. p \in Nat /\ pl.addr <= p /\ p < pl.addr + pl.len
    BY <1>2, <1>3, PageAssumption DEF Span
  <2>2. PICK k \in Nat : k = pl.at + p - pl.addr
    BY <1>4, <2>1
  <2>3. k < Length(pl.vmo) /\ table[p] = FrameOf(frames, pl.vmo, k)
    BY <1>2, <1>3, <2>2 DEF PageInv, PagesShowTheirVmo
  <2>4. p \in Objects!Shown(pl)
    BY <1>4, <2>1 DEF Objects!Shown
  <2> QED
    BY <2>2, <2>3, <2>4
<1>6. PICK b \in Vmos, w \in Nat : /\ b = Base(pl.vmo) /\ w = From(pl.vmo)
                                   /\ Length(pl.vmo) \in Nat /\ w + Length(pl.vmo) <= Len(frames[b])
  BY <1>4, BaseTypes DEF Inv
<1>7. Len(frames[b]) \in Nat
  BY LenProperties DEF Inv, Types
<1>8. w + k + 1 \in 1 .. Len(frames[b]) /\ (w + k + 1) - 1 = w + k
  BY <1>5, <1>6, <1>7
<1>9. table[p] = frames[b][w + k + 1]
  BY <1>5, <1>6 DEF FrameOf
<1>10. PICK o \in Nat, a \in Nat, c \in Nat :
          /\ o = (k * PageSize) + u /\ a = w * PageSize /\ c = k * PageSize
          /\ (w + k) * PageSize = a + c
  <2>1. w * PageSize \in Nat /\ k * PageSize \in Nat
        /\ (w + k) * PageSize = (w * PageSize) + (k * PageSize)
    BY Scale
  <2>2. u \in Nat
    BY Positive DEF Units
  <2> QED
    BY <2>1, <2>2
<1>11. Written(byte', frames[b], a + o, <<x>>)
  <2>1. Written(byte', frames[b], (((w + k + 1) - 1) * PageSize) + u, <<x>>)
    BY <1>8, <1>9, OneByte DEF Lengths
  <2>2. ((w + k + 1) - 1) * PageSize = a + c
    BY <1>8, <1>10
  <2>3. u \in Nat /\ (a + c) + u = a + o
    BY <1>10, Positive DEF Units
  <2> QED
    BY <2>1, <2>2, <2>3
<1>12. <<x>> \in Seq(Values)
  OBVIOUS
<1>13. Objects!Write(pl.vmo, o, <<x>>)
  BY <1>1, <1>4, <1>6, <1>10, <1>11, <1>12, WriteStep
<1>14. Objects!Write(pl.vmo, (pl.at + p - pl.addr) * PageSize + u, <<x>>)
  BY <1>5, <1>10, <1>13
<1> QED
  BY <1>1, <1>2, <1>3, <1>5, <1>14 DEF Objects!Store

\* A store through a stray page goes to one byte of one VMO, or to a frame no
\* VMO has.
LEMMA StoreWildStep ==
    ASSUME Inv, Lengths, NEW p \in stray, NEW u \in Units, NEW x \in Values, Store(p, u, x)
    PROVE  Objects!StoreWild(x) \/ Unseen
<1>1. table[p] # None /\ p \in Pages
      /\ UNCHANGED <<held, resizable, frames, slice, mapping, stray>>
  BY DEF Store, Inv, Types
<1>2. PICK t \in Frames : t = table[p]
  BY <1>1, StoreFilled DEF Inv, Lengths
<1>3. /\ byte' \in Filled
      /\ \A f \in Frames, w \in Units : byte'[f][w] = IF f = t /\ w = u THEN x ELSE byte[f][w]
  BY <1>1, <1>2, StoreFilled DEF Inv, Lengths
<1>4. PICK o \in Owners : \E i \in 1 .. Len(Owned(o)) : Owned(o)[i] = t
  BY OnceByPlace DEF Inv
<1>5. CASE o = None
  <2>1. ASSUME NEW v \in Vmos PROVE Contents(v)' = Contents(v)
    <3>1. frames[v] \in Seq(Frames) /\ \A i \in 1 .. Len(frames[v]) : frames[v][i] \in Frames
      BY LenProperties DEF Inv, Types
    <3>2. v \in Owners /\ v # None /\ Owned(v) = frames[v]
      BY NoneAssumption DEF Owners, Owned
    <3>3. \A i \in 1 .. Len(frames[v]) : frames[v][i] # t
      BY <1>4, <1>5, <3>2, OnceByPlace DEF Inv
    <3>4. ASSUME NEW f \in Frames, f # t PROVE byte'[f] = byte[f]
      <4>1. byte'[f] = [w \in Units |-> byte'[f][w]] /\ byte[f] = [w \in Units |-> byte[f][w]]
        BY <1>3 DEF Filled, Lengths
      <4>2. \A w \in Units : byte'[f][w] = byte[f][w]
        BY <1>3, <3>4
      <4>3. [w \in Units |-> byte'[f][w]] = [w \in Units |-> byte[f][w]]
        BY <4>2
      <4> QED
        BY <4>1, <4>3
    <3>5. \A i \in 1 .. Len(frames[v]) : byte'[frames[v][i]] = byte[frames[v][i]]
      BY <3>1, <3>3, <3>4
    <3>6. BytesOf(frames[v], byte') = BytesOf(frames[v], byte)
      BY <3>1, <3>5, BytesStay
    <3> QED
      BY <1>1, <3>6, ContentsAre
  <2>2. \A v \in Vmos : Exists(v)' = Exists(v) /\ IsSlice(v)' = IsSlice(v)
    BY <1>1 DEF Exists, IsSlice, Base
  <2>3. Bytes' = Bytes
    BY <2>1, <2>2 DEF Bytes
  <2>4. Growable' = Growable
    BY <1>1 DEF Growable
  <2> QED
    BY <1>1, <2>3, <2>4 DEF Unseen
<1>6. CASE o # None
  <2>1. o \in Vmos /\ Owned(o) = frames[o]
    BY <1>6 DEF Owners, Owned
  <2>2. PICK i \in 1 .. Len(frames[o]) : frames[o][i] = t
    BY <1>4, <2>1
  <2>3. frames[o] # <<>>
    BY <2>2
  <2>4. PICK v \in held : Base(v) = o
    BY <2>1, <2>3 DEF Inv, Kept
  <2>5. Written(byte', frames[o], ((i - 1) * PageSize) + u, <<x>>)
    BY <1>1, <1>2, <2>1, <2>2, OneByte DEF Lengths
  <2>6. PICK start \in Nat : start = ((i - 1) * PageSize) + u /\ Place(i, u) = start + 1
    <3>1. (i - 1) * PageSize \in Nat /\ u \in Nat
      <4>1. Len(frames[o]) \in Nat
        BY <2>1, LenProperties DEF Inv, Types
      <4> QED
        BY <4>1, PlaceIn
    <3> QED
      BY <3>1 DEF Place
  <2>7. <<x>> \in Seq(Values) /\ Len(<<x>>) = 1 /\ <<x>>[1] = x
    OBVIOUS
  <2>8. Bytes' = [Bytes EXCEPT ![o] = Objects!Over(@, start, <<x>>)]
    BY <1>1, <2>4, <2>5, <2>6, <2>7, ChangedBytes
  <2>9. /\ Bytes[o] # None /\ DOMAIN Bytes[o] = 1 .. Len(frames[o]) * PageSize
        /\ Row(Bytes[o], Len(frames[o])) /\ Len(frames[o]) \in Nat
    BY <2>4, HeldBytes
  <2>10. Place(i, u) \in DOMAIN Bytes[o]
    BY <2>9, PlaceIn
  <2>11. DOMAIN Bytes[o] \subseteq Nat
    <3>1. \A n : 1 .. n \subseteq Int
      OBVIOUS
    <3>2. Len(frames[o]) * PageSize \in Nat
      BY <2>9, Scale
    <3> QED
      BY <2>9, <3>2
  <2>12. PICK row : row = Bytes[o]
    OBVIOUS
  <2>13. row = [k \in DOMAIN row |-> row[k]]
    BY <2>9, <2>12 DEF Row
  <2>14. Objects!Over(row, start, <<x>>) = [row EXCEPT ![Place(i, u)] = x]
    <3>1. \A k \in DOMAIN row : k > start /\ k <= start + 1 <=> k = Place(i, u)
      BY <2>6, <2>11, <2>12
    <3>2. \A k \in DOMAIN row : k = Place(i, u) => k - start = 1
      BY <2>6, <2>11, <2>12
    <3>3. \A k \in DOMAIN row :
            (IF k > start /\ k <= start + Len(<<x>>) THEN <<x>>[k - start] ELSE row[k])
            = IF k = Place(i, u) THEN x ELSE row[k]
      BY <2>7, <3>1, <3>2
    <3> DEFINE q == Place(i, u)
    <3> HIDE DEF q
    <3>4. \A k \in DOMAIN row :
            (IF k > start /\ k <= start + Len(<<x>>) THEN <<x>>[k - start] ELSE row[k])
            = IF k = q THEN x ELSE row[k]
      BY <3>3 DEF q
    <3>5. Objects!Over(row, start, <<x>>) = [k \in DOMAIN row |-> IF k = q THEN x ELSE row[k]]
      BY <3>4 DEF Objects!Over
    <3>6. [row EXCEPT ![q] = x] = [k \in DOMAIN row |-> IF k = q THEN x ELSE row[k]]
      OBVIOUS
    <3> QED
      BY <3>5, <3>6 DEF q
  <2>15. Bytes' = [Bytes EXCEPT ![o][Place(i, u)] = x]
    BY <2>8, <2>12, <2>14
  <2>16. Growable' = Growable
    BY <1>1 DEF Growable
  <2>17. stray # {}
    OBVIOUS
  <2> QED
    BY <1>1, <2>1, <2>9, <2>10, <2>15, <2>16, <2>17 DEF Objects!StoreWild, Bytes, Growable
<1> QED
  BY <1>5, <1>6

-----------------------------------------------------------------------------
(* Together *)

LEMMA InitView == Init => Objects!Init
<1> SUFFICES ASSUME Init PROVE Objects!Init
  OBVIOUS
<1>1. \A v \in Vmos : ~Exists(v)
  BY DEF Init, Exists
<1>2. Bytes = [v \in Vmos |-> None]
  BY <1>1 DEF Bytes
<1>3. Growable = {}
  BY DEF Init, Growable
<1> QED
  BY <1>2, <1>3 DEF Init, Objects!Init, Bytes, Growable

LEMMA WriteView ==
    ASSUME Inv, Lengths, NEW v \in Vmos, NEW offset \in Nat, NEW buf \in Seq(Values),
           Write(v, offset, buf)
    PROVE  Objects!Write(v, offset, buf)
<1>1. PICK b \in Vmos, w \in Nat : b = Base(v) /\ w = From(v)
  BY BaseTypes DEF Inv
<1>2. Written(byte', frames[b], (w * PageSize) + offset, buf)
  BY <1>1, WriteBytes DEF Lengths
<1> QED
  BY <1>1, <1>2, WriteStep DEF Write

\* Every call and every store of user code is a step of MemoryObjects, or none.
LEMMA StepView ==
    ASSUME Inv, PageInv, BytesInv, [Next]_vars
    PROVE  Objects!Next \/ Unseen
<1> DEFINE M == MaxLen * PageSize
<1>0. /\ Lengths /\ Covered /\ MaxLen \in Nat /\ M \in Nat
      /\ \A n \in 0 .. MaxLen : n \in Nat
      /\ \A n \in 0 .. M : n \in Nat
      /\ 0 \in 0 .. M
  <2>1. MaxLen \in Nat /\ M \in Nat
    BY BoundAssumption, Scale
  <2> HIDE DEF M
  <2> QED
    BY <2>1 DEF BytesInv
<1>1. ASSUME NEW v \in Vmos, NEW n \in 0 .. MaxLen, NEW r \in BOOLEAN, NewPaged(v, r, n)
      PROVE  Objects!Next
  <2>1. Objects!Make(v, n)
    BY <1>0, <1>1, MakeStep
  <2> QED
    BY <2>1 DEF Objects!Next
<1>2. ASSUME NEW v \in Vmos, NEW n \in 0 .. MaxLen, SetLen(v, n)
      PROVE  Objects!Next
  <2>1. Objects!Resize(v, n, 0, 0)
    BY <1>0, <1>2, SetLenStep
  <2> QED
    BY <1>0, <2>1 DEF Objects!Next
<1>3. ASSUME NEW v \in Vmos, NEW n \in 0 .. MaxLen, NEW c \in Vmos, NEW at \in 0 .. MaxLen,
             NEW r \in BOOLEAN, CreateChild(v, c, r, at, n)
      PROVE  Objects!Next
  <2>1. Objects!Snapshot(v, c, at, n)
    BY <1>0, <1>3, SnapshotStep
  <2> QED
    BY <2>1 DEF Objects!Next
<1>4. ASSUME NEW v \in Vmos, NEW n \in 0 .. MaxLen, NEW c \in Vmos, NEW at \in 0 .. MaxLen,
             CreateSlice(v, c, at, n)
      PROVE  Objects!Next
  <2>1. Objects!Cut(v, c, at, n)
    BY <1>0, <1>4, CutStep
  <2> QED
    BY <2>1 DEF Objects!Next
<1>5. ASSUME NEW v \in Vmos, NEW n \in 0 .. MaxLen, NEW m \in Mappings, NEW at \in 0 .. MaxLen,
             NEW addr \in Pages, Map(m, v, at, n, addr)
      PROVE  Objects!Next
  <2>1. Objects!Map(m, v, at, n, addr)
    BY <1>0, <1>5, ViewMapStep
  <2> QED
    BY <2>1 DEF Objects!Next
<1>6. ASSUME NEW v \in Vmos, NEW offset \in 0 .. M, NEW buf \in Buffers, Write(v, offset, buf)
      PROVE  Objects!Next
  <2>1. Objects!Write(v, offset, buf)
    BY <1>0, <1>6, WriteView, ValueAssumption
  <2> QED
    BY <2>1 DEF Objects!Next
<1>7. ASSUME NEW v \in Vmos, NEW offset \in 0 .. M, NEW n \in Sizes, Zero(v, offset, n)
      PROVE  Objects!Next
  <2>1. n \in 0 .. M /\ n \in Nat
    BY SizesBound
  <2>2. Write(v, offset, Zeros(n)) /\ Zeros(n) \in Seq(Values)
    BY <1>7, <2>1, ZerosTypes DEF Zero
  <2>3. Objects!Write(v, offset, Zeros(n))
    BY <1>0, <2>2, WriteView
  <2>4. Objects!Write(v, offset, Objects!Zeros(n))
    BY <2>1, <2>3, ZerosSame
  <2> QED
    BY <2>1, <2>4 DEF Objects!Next
<1>8. ASSUME NEW v \in Vmos, NEW s \in Sizes, SetContentSize(v, s)
      PROVE  Unseen
  BY <1>8, StayUnseen DEF SetContentSize
<1>9. ASSUME NEW v \in Vmos, NEW s \in Sizes, NEW z \in Sizes, SetContentSizeAndResize(v, s, z)
      PROVE  Objects!Next \/ Unseen
  <2>1. \/ \E n \in 0 .. MaxLen, from, until \in 0 .. MaxLen * PageSize :
                 Objects!Resize(v, n, from, until)
        \/ \E offset, n \in 0 .. MaxLen * PageSize : Objects!Write(v, offset, Objects!Zeros(n))
        \/ Unseen
    BY <1>0, <1>9, GrowStep
  <2> QED
    BY <2>1 DEF Objects!Next
<1>10. ASSUME NEW v \in Vmos, Drop(v)
       PROVE  Objects!Next
  <2>1. Objects!Forget(v)
    BY <1>0, <1>10, ForgetStep
  <2> QED
    BY <2>1 DEF Objects!Next
<1>11. ASSUME NEW m \in Mappings, Unmap(m)
       PROVE  Objects!Next
  <2>1. Objects!Unmap(m)
    BY <1>11, ViewUnmapStep
  <2> QED
    BY <2>1 DEF Objects!Next
<1>12. ASSUME NEW p \in Pages, NEW u \in Units, NEW x \in Values, Store(p, u, x)
       PROVE  Objects!Next \/ Unseen
  <2>1. CASE p \in stray
    <3>1. Objects!StoreWild(x) \/ Unseen
      BY <1>0, <1>12, <2>1, StoreWildStep
    <3> QED
      BY <3>1 DEF Objects!Next
  <2>2. CASE p \notin stray
    <3>1. \E m \in Mappings : Objects!Store(m, p, u, x)
      BY <1>0, <1>12, <2>2, StoreStep
    <3>2. u \in 0 .. PageSize - 1
      BY DEF Units
    <3> QED
      BY <3>1, <3>2 DEF Objects!Next
  <2> QED
    BY <2>1, <2>2
<1>13. CASE UNCHANGED vars
  BY <1>13, StayUnseen DEF vars
<1> QED
  BY <1>1, <1>2, <1>3, <1>4, <1>5, <1>6, <1>7, <1>8, <1>9, <1>10, <1>11, <1>12, <1>13 DEF Next

\* Every VMO is bytes of its own, through the frames that carry them, the queue
\* they go round, the slices that share them, the pages that show them and the
\* bytes that set_content_size_and_resize zeroes.
THEOREM MemoryImplementsObjects == Spec => ViewSpec
<1>1. Init => Inv /\ PageInv /\ BytesInv
  BY InitInv, InitBytes
<1>2. Inv /\ PageInv /\ BytesInv /\ [Next]_vars => Inv' /\ PageInv' /\ BytesInv'
  BY StepInv, StepLengths, StepCovered DEF BytesInv
<1>3. Init => Objects!Init
  BY InitView
<1>4. Inv /\ PageInv /\ BytesInv /\ [Next]_vars =>
        [Objects!Next]_<<Bytes, Growable, slice, mapping, stray>>
  BY StepView DEF Unseen
<1> QED
  BY <1>1, <1>2, <1>3, <1>4, PTL DEF Spec, ViewSpec, Objects!Spec, Bytes, Growable

\* Frames, lengths, content sizes and bytes are of their types; what every proof
\* above rests on.
THEOREM MemoryTypes == Spec => []TypeOK
<1>1. Init => Inv /\ BytesInv
  BY InitInv, InitBytes
<1>2. Inv /\ BytesInv /\ [Next]_vars => Inv' /\ BytesInv'
  BY StepInv, StepLengths, StepCovered DEF BytesInv
<1>3. Inv /\ BytesInv => TypeOK
  <2>1. MaxLen * PageSize \in Nat
    BY BoundAssumption, Scale
  <2>2. 0 .. MaxLen * PageSize \subseteq Nat
    BY <2>1
  <2> QED
    BY <2>2 DEF Inv, Types, BytesInv, Lengths, Filled, TypeOK, Slices, Places
<1> QED
  BY <1>1, <1>2, <1>3, PTL DEF Spec

-----------------------------------------------------------------------------
(* The earlier chapters.  What is proved above holds of each of them.      *)

\* The parts of MemoryChapters are all that Next does.
LEMMA MemoryParts ==
    Next <=> \/ Making \/ Copying \/ Slicing \/ Resizing \/ Sizing \/ Growing
             \/ Writing \/ Dropping \/ Showing \/ Hiding \/ Storing
BY DEF Next, Making, Copying, Slicing, Resizing, Sizing, Growing, Writing, Dropping,
       Showing, Hiding, Storing

\* The frames and bytes of ch03-02 do what those of ch04-03 can do.
THEOREM MemoryOf_03_02 == Spec_03_02 => Spec
<1>1. Next_03_02 => Next
  BY MemoryParts
  DEF Next_03_02, Making_03_02, Copying_03_02, Slicing_03_02, Resizing_03_02,
      Sizing_03_02, Growing_03_02, Writing_03_02, Dropping_03_02
<1> QED
  BY <1>1, PTL DEF Spec_03_02, Spec, vars_03_02, Beginning_03_02, Beginning

\* The frames, bytes and page tables of ch03-04 are those of ch04-03.
THEOREM MemoryOf_03_04 == Spec_03_04 <=> Spec
<1>1. Next_03_04 <=> Next
  BY MemoryParts
  DEF Next_03_04, Making_03_04, Copying_03_04, Slicing_03_04, Resizing_03_04, Sizing_03_04,
      Growing_03_04, Writing_03_04, Dropping_03_04, Showing_03_04, Hiding_03_04, Storing_03_04
<1> QED
  BY <1>1, PTL DEF Spec_03_04, Spec, vars_03_04, Beginning_03_04, Beginning

\* The frames, bytes and page tables of ch04-01 are those of ch04-03.
THEOREM MemoryOf_04_01 == Spec_04_01 <=> Spec
<1>1. Next_04_01 <=> Next
  BY MemoryParts
  DEF Next_04_01, Making_04_01, Copying_04_01, Slicing_04_01, Resizing_04_01, Sizing_04_01,
      Growing_04_01, Writing_04_01, Dropping_04_01, Showing_04_01, Hiding_04_01, Storing_04_01
<1> QED
  BY <1>1, PTL DEF Spec_04_01, Spec, vars_04_01, Beginning_04_01, Beginning
=============================================================================
