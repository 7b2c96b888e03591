------------------------------- MODULE Memory -------------------------------
(***************************************************************************)
(* The memory behind VMOs: physical frames and the queue of free ones      *)
(* (kernel-hal-unix), the frames of paged VMOs and of slices               *)
(* (vm/vmo/paged.rs, slice.rs), and the page table that VmMapping fills    *)
(* with them (vm/vmar.rs), through which user code reads and writes.       *)
(*                                                                         *)
(* A byte is a unit here, a page has PageSize of them.  A frame that is    *)
(* freed keeps its bytes.  Where mappings may lie is the subject of Vmar;  *)
(* policies, pins and families of VMOs are in Vmo, so every VMO here is    *)
(* cached and unpinned, and user code may write where it may read.         *)
(* Physical VMOs have no frames of the queue and are left out.  Calls are  *)
(* whole steps, as in Vmo.                                                 *)
(***************************************************************************)
EXTENDS Naturals, Sequences, SequencesExt, Functions, FiniteSetsExt

CONSTANTS
    Frames,     \* physical frames, a pool
    PageSize,   \* bytes in a page
    Values,     \* what a byte holds; 0 is one of them
    Vmos,       \* pool of VmObjects
    Mappings,   \* pool of VmMappings
    Pages,      \* pages of the address space
    MaxLen,     \* bound of the model on the length of a VMO, in pages
    Buffers,    \* buffers that are written
    Sizes,      \* content sizes and lengths to be zeroed, in bytes
    None

ASSUME FrameAssumption == IsFiniteSet(Frames)
ASSUME PageAssumption == PageSize \in Nat \ {0} /\ Pages \subseteq Nat
ASSUME ValueAssumption == 0 \in Values /\ Buffers \subseteq Seq(Values)
ASSUME BoundAssumption == MaxLen \in Nat /\ Sizes \subseteq 0 .. MaxLen * PageSize
ASSUME NoneAssumption == None \notin Frames \cup Vmos /\ None \notin [of : Vmos, at : Nat, len : Nat]
                         /\ None \notin [vmo : Vmos, at : Nat, len : Nat, addr : Nat]
                         /\ None \notin Seq(Values)

VARIABLES
    free,       \* AVAILABLE_FRAMES
    byte,       \* the bytes of every frame (the pmem file)
    held,       \* VmObjects somebody holds
    resizable,  \* VmObject::resizable
    frames,     \* VMObjectPagedInner::frames, kept alive by slices
    slice,      \* VMObjectSlice: whose frames, from which page, how many
    size,       \* VmObjectInner::content_size
    mapping,    \* VmMapping: of which VMO, from which page, where
    table,      \* the page table: the frame at each page
    stray       \* history: pages whose frame is not the one they should show

vars == <<free, byte, held, resizable, frames, slice, size, mapping, table, stray>>

Units == 0 .. PageSize - 1
Blank == [u \in Units |-> 0]

-----------------------------------------------------------------------------
(* Physical frames *)

\* PhysFrame::alloc, n times, and the drop of frames: a queue
Taken(n) == SubSeq(free, 1, n)
LeftAfter(n) == SubSeq(free, n + 1, Len(free))
GivenBackMutant(fs) == fs \o free \o fs
GivenBack(fs) == free \o fs

\* PhysFrame::alloc_zeroed
ZeroedMutant(fs) == byte
Zeroed(fs) == [f \in Frames |-> IF f \in Range(fs) THEN Blank ELSE byte[f]]

-----------------------------------------------------------------------------
(* VMOs and their bytes *)

IsSlice(v) == slice[v] # None
Base(v) == IF IsSlice(v) THEN slice[v].of ELSE v
From(v) == IF IsSlice(v) THEN slice[v].at ELSE 0
\* len(), in pages
Length(v) == IF IsSlice(v) THEN slice[v].len ELSE Len(frames[v])
Exists(v) == v \in held \/ \E s \in held : Base(s) = v

\* The frame of page i of what v wraps, when VMOs have the frames fs
FrameOf(fs, v, i) == fs[Base(v)][From(v) + i + 1]

\* BlockIter::next: the part of begin .. end - 1 in the page of begin
Block(begin, end) ==
    [block |-> begin \div PageSize, begin |-> begin % PageSize,
     end |-> IF begin \div PageSize = end \div PageSize THEN end % PageSize ELSE PageSize]

\* All of them in turn
BlocksOf(begin, end) ==
    LET from[b \in begin .. end + PageSize] ==
            IF b >= end THEN {}
            ELSE {Block(b, end)} \cup from[b + Block(b, end).end - Block(b, end).begin]
    IN  from[begin]

\* VMObjectPagedInner::for_each_page: the bytes of the frames that stand for
\* the n bytes from offset on, and the place in the buffer of each
ForEachPage(fs, v, offset, n) ==
    UNION {{[frame |-> FrameOf(fs, v, b.block), unit |-> u,
             pos |-> b.block * PageSize + u - offset] : u \in b.begin .. b.end - 1} :
           b \in BlocksOf(offset, offset + n)}

\* Only a slice tests its range, and refuses what ends where it ends; behind
\* the end of a paged VMO the kernel panics.
InRange(v, offset, n) ==
    IF IsSlice(v) THEN offset + n < Length(v) * PageSize
    ELSE n = 0 \/ offset + n <= Length(v) * PageSize

\* pmem_write of the buffer, page by page
Stored(fs, v, offset, buf) ==
    LET hit == ForEachPage(fs, v, offset, Len(buf))
    IN  [f \in Frames |-> [u \in Units |->
            IF \E h \in hit : h.frame = f /\ h.unit = u
            THEN buf[(CHOOSE h \in hit : h.frame = f /\ h.unit = u).pos + 1]
            ELSE byte[f][u]]]

\* A buffer of zeros; pmem_zero leaves the same bytes
Zeros(n) == [i \in 1 .. n |-> 0]

-----------------------------------------------------------------------------
(* VmObject *)

\* VmObject::new_paged_with_resizable; without frames enough it panics
NewPaged(v, r, n) ==
    /\ ~Exists(v)
    /\ n <= Len(free)
    /\ held' = held \cup {v}
    /\ resizable' = [resizable EXCEPT ![v] = r]
    /\ frames' = [frames EXCEPT ![v] = Taken(n)]
    /\ byte' = Zeroed(Taken(n))
    /\ free' = LeftAfter(n)
    /\ UNCHANGED <<slice, size, mapping, table, stray>>

\* VmObject::create_child, VMObjectPagedInner::create_child: new frames with a
\* copy of the pages from "at" on, zeros where there are none.  Without frames
\* enough it is NO_MEMORY, and those already taken go back in order.
CopiedMutant(v, at, fs) == Zeroed(fs)
Copied(v, at, fs) ==
    [f \in Frames |->
        IF \E i \in DOMAIN fs : fs[i] = f
        THEN LET i == at + (CHOOSE i \in DOMAIN fs : fs[i] = f)
             IN  IF i <= Len(frames[v]) THEN byte[frames[v][i]] ELSE Blank
        ELSE byte[f]]
CreateChild(v, c, r, at, n) ==
    /\ v \in held /\ ~IsSlice(v)
    /\ ~Exists(c)
    /\ n <= Len(free)
    /\ held' = held \cup {c}
    /\ resizable' = [resizable EXCEPT ![c] = r]
    /\ frames' = [frames EXCEPT ![c] = Taken(n)]
    /\ byte' = Copied(v, at, Taken(n))
    /\ free' = LeftAfter(n)
    /\ UNCHANGED <<slice, size, mapping, table, stray>>

\* VmObject::create_slice
CreateSlice(v, c, at, n) ==
    /\ v \in held /\ ~resizable[v]
    /\ ~Exists(c)
    /\ at + n <= Length(v)
    /\ held' = held \cup {c}
    /\ slice' = [slice EXCEPT ![c] = [of |-> Base(v), at |-> From(v) + at, len |-> n]]
    /\ UNCHANGED <<free, byte, resizable, frames, size, mapping, table, stray>>

\* VMObjectPaged::set_len: frames leave at the end, or come without being
\* zeroed (too few are a panic); the pages that show them are not looked at
Resized(v, n) ==
    /\ n <= Len(frames[v]) + Len(free)
    /\ IF n <= Len(frames[v])
       THEN /\ frames' = [frames EXCEPT ![v] = SubSeq(@, 1, n)]
            /\ free' = GivenBack(SubSeq(frames[v], n + 1, Len(frames[v])))
       ELSE /\ frames' = [frames EXCEPT ![v] = @ \o Taken(n - Len(@))]
            /\ free' = LeftAfter(n - Len(frames[v]))
    /\ stray' = stray \cup {p \in Pages : \E i \in n + 1 .. Len(frames[v]) :
                                              table[p] = frames[v][i]}

\* VmObject::set_len
SetLen(v, n) ==
    /\ v \in held /\ resizable[v]
    /\ Resized(v, n)
    /\ UNCHANGED <<byte, held, resizable, slice, size, mapping, table>>

\* The write and zero methods of paged VMOs and slices
Write(v, offset, buf) ==
    /\ v \in held
    /\ InRange(v, offset, Len(buf))
    /\ byte' = Stored(frames, v, offset, buf)
    /\ UNCHANGED <<free, held, resizable, frames, slice, size, mapping, table, stray>>
Zero(v, offset, n) == Write(v, offset, Zeros(n))

\* VmObject::set_content_size
SetContentSize(v, s) ==
    /\ v \in held
    /\ size' = [size EXCEPT ![v] = s]
    /\ UNCHANGED <<free, byte, held, resizable, frames, slice, mapping, table, stray>>

\* VmObject::set_content_size_and_resize: the VMO grows if it can and must,
\* and the content that is new is zeroed up to the byte z.  A slice may
\* refuse that, and keeps its size then.
Needed(s) == (s + PageSize - 1) \div PageSize
NewSize(v, s) == IF Needed(s) > Length(v) /\ ~resizable[v] THEN Length(v) * PageSize ELSE s
SetContentSizeAndResize(v, s, z) ==
    LET until == Min({z, NewSize(v, s)})
        n     == until - size[v]
    IN  /\ v \in held /\ s >= size[v]
        /\ IF Needed(s) > Length(v) /\ resizable[v] THEN Resized(v, Needed(s))
           ELSE UNCHANGED <<frames, free, stray>>
        /\ \/ /\ until <= size[v]
              /\ size' = [size EXCEPT ![v] = NewSize(v, s)] /\ UNCHANGED byte
           \/ /\ until > size[v] /\ (IsSlice(v) => InRange(v, size[v], n))
              /\ size' = [size EXCEPT ![v] = NewSize(v, s)]
              /\ byte' = Stored(frames', v, size[v], Zeros(until - size[v]))
           \/ /\ until > size[v] /\ IsSlice(v) /\ ~InRange(v, size[v], n)
              /\ UNCHANGED <<size, byte>>
        /\ UNCHANGED <<held, resizable, slice, mapping, table>>

\* VmMapping::vmo is an Arc
MappedMutant(v) == FALSE
Mapped(v) == \E m \in Mappings : mapping[m] # None /\ mapping[m].vmo = v

\* The last holder of the VmObject lets go.  What it wraps lives on in slices;
\* with the last of them the frames go back to the queue.
Gone(v) == \A s \in held \ {v} : Base(s) # Base(v)
Drop(v) ==
    /\ v \in held
    /\ ~Mapped(v)
    /\ held' = held \ {v}
    /\ slice' = [slice EXCEPT ![v] = None]
    /\ size' = [size EXCEPT ![v] = 0]
    /\ IF Gone(v)
       THEN /\ free' = GivenBack(frames[Base(v)])
            /\ frames' = [frames EXCEPT ![Base(v)] = <<>>]
            /\ resizable' = [resizable EXCEPT ![Base(v)] = FALSE]
       ELSE UNCHANGED <<free, frames, resizable>>
    /\ UNCHANGED <<byte, mapping, table, stray>>

-----------------------------------------------------------------------------
(* VmMapping and the page table *)

Span(m) == {p \in Pages : m.addr <= p /\ p < m.addr + m.len}

\* VmMapping::new and map, after the tests of VmAddressRegion::map_ext.
\* VMObjectSlice::commit_pages_with hands the closure on as it is, so pages of
\* a slice are counted from the first frame of the object it was cut from.
Committed(v, i) == frames[Base(v)][i + 1]
Map(m, v, at, n, addr) ==
    LET new == [vmo |-> v, at |-> at, len |-> n, addr |-> addr]
    IN  /\ mapping[m] = None
        /\ v \in held
        /\ at + n <= Length(v)
        /\ addr .. addr + n - 1 \subseteq Pages
        /\ \A p \in Span(new) : table[p] = None
        /\ mapping' = [mapping EXCEPT ![m] = new]
        /\ table' = [p \in Pages |-> IF p \in Span(new) THEN Committed(v, at + p - addr)
                                     ELSE table[p]]
        /\ stray' = stray \cup {p \in Span(new) : Committed(v, at + p - addr)
                                                    # FrameOf(frames, v, at + p - addr)}
        /\ UNCHANGED <<free, byte, held, resizable, frames, slice, size>>

\* <VmMapping as Drop>::drop
Unmap(m) ==
    /\ mapping[m] # None
    /\ mapping' = [mapping EXCEPT ![m] = None]
    /\ table' = [p \in Pages |-> IF p \in Span(mapping[m]) THEN None ELSE table[p]]
    /\ stray' = stray \ Span(mapping[m])
    /\ UNCHANGED <<free, byte, held, resizable, frames, slice, size>>

\* User code stores a byte at the page p.
Store(p, u, x) ==
    /\ table[p] # None
    /\ byte' = [byte EXCEPT ![table[p]][u] = x]
    /\ UNCHANGED <<free, held, resizable, frames, slice, size, mapping, table, stray>>

-----------------------------------------------------------------------------
\* The pmem file is sparse: a frame nobody used holds zeros.
Init ==
    /\ free \in SetToSeqs(Frames)
    /\ byte = [f \in Frames |-> Blank]
    /\ held = {}
    /\ resizable = [v \in Vmos |-> FALSE]
    /\ frames = [v \in Vmos |-> <<>>]
    /\ slice = [v \in Vmos |-> None]
    /\ size = [v \in Vmos |-> 0]
    /\ mapping = [m \in Mappings |-> None]
    /\ table = [p \in Pages |-> None]
    /\ stray = {}

Next ==
    \/ \E v \in Vmos, n \in 0 .. MaxLen :
         \/ \E r \in BOOLEAN : NewPaged(v, r, n)
         \/ SetLen(v, n)
         \/ \E c \in Vmos, at \in 0 .. MaxLen :
              \/ \E r \in BOOLEAN : CreateChild(v, c, r, at, n)
              \/ CreateSlice(v, c, at, n)
         \/ \E m \in Mappings, at \in 0 .. MaxLen, addr \in Pages : Map(m, v, at, n, addr)
    \/ \E v \in Vmos, offset \in 0 .. MaxLen * PageSize :
         \/ \E buf \in Buffers : Write(v, offset, buf)
         \/ \E n \in Sizes : Zero(v, offset, n)
    \/ \E v \in Vmos, s \in Sizes :
         \/ SetContentSize(v, s)
         \/ \E z \in Sizes : SetContentSizeAndResize(v, s, z)
    \/ \E v \in Vmos : Drop(v)
    \/ \E m \in Mappings : Unmap(m)
    \/ \E p \in Pages, u \in Units, x \in Values : Store(p, u, x)

Spec == Init /\ [][Next]_vars

-----------------------------------------------------------------------------
\* Every field holds a value of its type.
TypeOK ==
    /\ free \in Seq(Frames)
    /\ byte \in [Frames -> [Units -> Values]]
    /\ held \subseteq Vmos /\ resizable \in [Vmos -> BOOLEAN]
    /\ frames \in [Vmos -> Seq(Frames)]
    /\ slice \in [Vmos -> [of : Vmos, at : Nat, len : Nat] \cup {None}]
    /\ size \in [Vmos -> Nat]
    /\ mapping \in [Mappings -> [vmo : Vmos, at : Nat, len : Nat, addr : Nat] \cup {None}]
    /\ table \in [Pages -> Frames \cup {None}] /\ stray \subseteq Pages

\* A frame is never in two places: it is in the queue of free frames once, or
\* it is one page of one paged VMO, through every resize, refused copy, last
\* drop and slice that outlives its parent.
Owners == Vmos \cup {None}
Owned(o) == IF o = None THEN free ELSE frames[o]
FramesOwnedOnce ==
    /\ \A o, w \in Owners : \A i \in DOMAIN Owned(o), j \in DOMAIN Owned(w) :
          Owned(o)[i] = Owned(w)[j] => o = w /\ i = j
    /\ \A f \in Frames : \E o \in Owners : f \in Range(Owned(o))

\* User code that stores to a mapped page reaches the frame its VMO has for
\* that page now, unless the page was given a wrong frame when a slice was
\* mapped, or lost its frame to set_len; in particular no other page shows a
\* frame that is free.
PagesShowTheirVmo ==
    \A m \in Mappings : mapping[m] # None =>
        \A p \in Span(mapping[m]) \ stray :
            LET i == mapping[m].at + p - mapping[m].addr
            IN  i < Length(mapping[m].vmo) /\ table[p] = FrameOf(frames, mapping[m].vmo, i)
=============================================================================
