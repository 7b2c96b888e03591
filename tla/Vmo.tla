--------------------------------- MODULE Vmo ---------------------------------
(***************************************************************************)
(* Virtual memory objects (vm/vmo): paged, contiguous and physical ones,   *)
(* snapshot children and slices, with the family tree of weak pointers,    *)
(* the cache policy, mappings and pins.                                    *)
(*                                                                         *)
(* A VmObject is known by its koid, so a lower number was made earlier.    *)
(* The object it wraps (trait_) is shared with the slices made of it and   *)
(* lives on when the VmObject is dropped; it has the number of the         *)
(* VmObject it was made for.  Lengths count in pages.                      *)
(*                                                                         *)
(* Calls are whole steps: in this version of the kernel no system call     *)
(* reaches a VMO, only the start-up code does, on one thread.              *)
(***************************************************************************)
EXTENDS Integers, FiniteSets

CONSTANTS
    MaxVmos,        \* bound of the model on VMOs made
    Mappings, Pins, \* pools of mappings and of pinned ranges
    Lens,           \* lengths callers ask for
    Ranges,         \* ranges callers name: offset and length
    MaxCount,       \* bound of the model on mapping counts
    Word,           \* number of values of a usize, for pin_count
    MaxMiscounted,  \* bound of the model on objects whose pins are miscounted
    Policies, Cached, Uncached,
    None

ASSUME BoundAssumption == MaxVmos \in Nat /\ MaxCount \in Nat /\ MaxMiscounted \in Nat
ASSUME WordAssumption == Word \in Nat \ {0}
ASSUME LenAssumption == Lens \subseteq Nat /\ Ranges \subseteq [at : Nat, len : Nat]
ASSUME PolicyAssumption == Cached \in Policies /\ Uncached \in Policies
ASSUME NoneAssumption == /\ None \notin Nat
                         /\ None \notin [vmo : Nat, of : Nat, range : [at : Nat, len : Nat]]

Vmos == 1 .. MaxVmos

VARIABLES
    made,       \* number of VMOs made so far
    live,       \* VmObjects somebody holds
    kind,       \* which trait object a VMO wraps
    resizable,  \* VmObject::resizable
    base,       \* the VMO whose frames these are; its own but for a slice
    off, size,  \* VMObjectSlice::offset (all the way to the frames) and size
    frames,     \* number of frames of a paged or physical object
    policy,     \* cache_policy of a paged or physical object
    pinned,     \* VMObjectPagedInner::pin_count
    parent,     \* VmObjectInner::parent, a weak pointer
    children,   \* VmObjectInner::children, weak pointers
    count,      \* VmObjectInner::mapping_count
    mapping,    \* mappings that exist: their VMO and the policy in their flags
    pin,        \* history: ranges that were pinned and not unpinned
    miscounted  \* history: objects whose count is not that of their pins: a
                \* range was unpinned that nobody had pinned, or it ran over

vars == <<made, live, kind, resizable, base, off, size, frames, policy, pinned, parent,
          children, count, mapping, pin, miscounted>>
pins == <<pinned, pin, miscounted>>
identity == <<made, kind, resizable, base, off, size>>

-----------------------------------------------------------------------------
Live(v) == v \in live

\* len() of the trait objects
Length(v) == IF kind[v] = "slice" THEN size[v] ELSE frames[v]

\* is_contiguous() of the trait objects
Contiguous(v) == kind[base[v]] \in {"contiguous", "physical"}

\* VmObject::add_child
AddChild(v, c) == children' = [children EXCEPT ![v] = {x \in @ : Live(x)} \cup {c}]

\* What every constructor sets: the VMO gets the next koid.
New(v, k, r, b) ==
    /\ v = made + 1 /\ v \in Vmos
    /\ made' = v
    /\ live' = live \cup {v}
    /\ kind' = [kind EXCEPT ![v] = k]
    /\ resizable' = [resizable EXCEPT ![v] = r]
    /\ base' = [base EXCEPT ![v] = b]
    /\ UNCHANGED <<pins, count, mapping>>

\* The constructors of trait objects with frames of their own
Framed(v, k, r, n) ==
    /\ New(v, k, r, v)
    /\ frames' = [frames EXCEPT ![v] = n]
    /\ policy' = [policy EXCEPT ![v] = IF k = "physical" THEN Uncached ELSE Cached]
    /\ UNCHANGED <<off, size>>

\* VmObject::new_paged, new_paged_with_resizable
NewPaged(v, r, n) == Framed(v, "paged", r, n) /\ UNCHANGED <<parent, children>>

\* VmObject::new_contiguous; no frames at all count as no memory
NewContiguous(v, n) ==
    /\ n # 0
    /\ Framed(v, "contiguous", FALSE, n) /\ UNCHANGED <<parent, children>>

\* VmObject::new_physical
NewPhysical(v, n) == Framed(v, "physical", FALSE, n) /\ UNCHANGED <<parent, children>>

\* VmObject::create_child, VMObjectPagedInner::create_child: frames are copied
CreateChild(v, c, r, range) ==
    /\ Live(v)
    /\ kind[v] = "paged"
    /\ policy[v] = Cached /\ pinned[v] = 0
    /\ Framed(c, "paged", r, range.len)
    /\ parent' = [parent EXCEPT ![c] = v]
    /\ AddChild(v, c)

\* VmObject::create_slice
MayShareMutant(v) == Contiguous(v) \/ policy[base[v]] = Cached
MayShare(v) == ~resizable[v] /\ (Contiguous(v) \/ policy[base[v]] = Cached)
CreateSlice(v, c, range) ==
    /\ Live(v)
    /\ range.at + range.len <= Length(v)
    /\ MayShare(v)
    /\ New(c, "slice", FALSE, base[v])
    /\ off' = [off EXCEPT ![c] = off[v] + range.at]
    /\ size' = [size EXCEPT ![c] = range.len]
    /\ parent' = [parent EXCEPT ![c] = v]
    /\ AddChild(v, c)
    /\ UNCHANGED <<frames, policy>>

\* VmObject::set_len, which set_content_size_and_resize calls to grow a VMO;
\* neither pins nor mappings are looked at
SetLen(v, n) ==
    /\ Live(v) /\ resizable[v]
    /\ frames' = [frames EXCEPT ![v] = n]
    /\ UNCHANGED <<identity, live, policy, pins, parent, children, count, mapping>>

\* VmObject::set_cache_policy on an object with frames; a slice ignores it
InUseMutant(v) == children[v] # {}
InUse(v) == children[v] # {} \/ count[v] # 0
PinsHoldMutant(v) == FALSE
PinsHold(v) == pinned[v] # 0
SetCachePolicy(v, p) ==
    /\ Live(v) /\ kind[v] # "slice"
    /\ ~InUse(v)
    /\ kind[v] # "physical" =>
          (frames[v] = 0 \/ policy[v] = Cached) /\ ~PinsHold(v)
    /\ policy' = [policy EXCEPT ![v] = p]
    /\ UNCHANGED <<identity, live, frames, pins, parent, children, count, mapping>>

\* VmAddressRegion::map_ext takes the policy into the flags; VmMapping::new
\* counts the mapping
Map(m, v) ==
    /\ mapping[m] = None
    /\ Live(v)
    /\ count[v] < MaxCount
    /\ count' = [count EXCEPT ![v] = @ + 1]
    /\ mapping' = [mapping EXCEPT ![m] = [vmo |-> v, policy |-> policy[base[v]]]]
    /\ UNCHANGED <<identity, live, frames, policy, pins, parent, children>>

\* <VmMapping as Drop>::drop does not call VmObject::remove_mapping.
Unmap(m) ==
    /\ mapping[m] # None
    /\ mapping' = [mapping EXCEPT ![m] = None]
    /\ UNCHANGED <<identity, live, frames, policy, pins, parent, children, count>>

\* check_range of a slice, and the test of a paged object.  What a slice lets
\* through lies inside what it was made of and passes the tests further down.
InRange(v, range) ==
    IF kind[v] = "slice" THEN range.at + range.len < size[v]
    ELSE range.at + range.len <= frames[v]

\* Where a caller may pin or unpin: a physical object has neither call, a slice
\* passes both down, and no pages at all change nothing.
Pinnable(v, range) ==
    /\ Live(v) /\ kind[base[v]] # "physical"
    /\ range.len # 0 /\ InRange(v, range)
PinOf(v, range) == [vmo |-> v, of |-> base[v], range |-> range]

\* VMObjectPaged::pin, VMObjectSlice::pin
CountedMutant(n) == 1
Counted(n) == n
Pin(q, v, range) ==
    LET b == base[v] IN
    /\ pin[q] = None
    /\ Pinnable(v, range)
    /\ pinned' = [pinned EXCEPT ![b] = (@ + Counted(range.len)) % Word]
    /\ pin' = [pin EXCEPT ![q] = PinOf(v, range)]
    /\ miscounted' = IF pinned[b] + range.len < Word THEN miscounted
                                                    ELSE miscounted \cup {b}
    /\ UNCHANGED <<identity, live, frames, policy, parent, children, count, mapping>>

\* VMObjectPaged::unpin, VMObjectSlice::unpin: the count goes down whether or not
\* somebody has pinned the range, and below zero it wraps (a build that traps
\* overflow panics there instead).
Unpin(v, range) ==
    LET b == base[v]
        owed == {q \in Pins : pin[q] = PinOf(v, range)}
    IN  /\ Pinnable(v, range)
        /\ pinned' = [pinned EXCEPT ![b] = (@ - range.len) % Word]
        /\ \/ \E q \in owed : pin' = [pin EXCEPT ![q] = None] /\ UNCHANGED miscounted
           \/ /\ owed = {} /\ (b \in miscounted \/ Cardinality(miscounted) < MaxMiscounted)
              /\ miscounted' = miscounted \cup {b}
              /\ UNCHANGED pin
        /\ UNCHANGED <<identity, live, frames, policy, parent, children, count, mapping>>

\* What goes with the last holder of v: what v wraps, if v is a slice, and the
\* object with the frames, if nobody else shares it.  What is gone is as if it
\* had not been made, but its koid is not used again.
Shared(b, others) == \E x \in others : base[x] = b
Gone(v) ==
    {x \in {v, base[v]} : kind[x] = "slice" \/ ~Shared(x, live \ {v})}
Blank(f, xs, fresh) == [x \in Vmos |-> IF x \in xs THEN fresh ELSE f[x]]
Release(v) ==
    /\ live' = live \ {v}
    /\ kind' = Blank(kind, Gone(v), "paged")
    /\ base' = [x \in Vmos |-> IF x \in Gone(v) THEN x ELSE base[x]]
    /\ off' = Blank(off, Gone(v), 0) /\ size' = Blank(size, Gone(v), 0)
    /\ frames' = Blank(frames, Gone(v), 0)
    /\ policy' = Blank(policy, Gone(v), Cached)
    /\ pinned' = Blank(pinned, Gone(v), 0)
    /\ pin' = [q \in Pins |-> IF pin[q] # None /\ pin[q].of \in Gone(v) THEN None ELSE pin[q]]
    /\ miscounted' = miscounted \ Gone(v)
    /\ resizable' = [resizable EXCEPT ![v] = FALSE]
    /\ count' = [count EXCEPT ![v] = 0]

\* <VmObject as Drop>::drop, when the last holder lets go: the children go to
\* the parent if there is one.  A mapping holds its VMO.
HandsOnMutant(v) == {}
HandsOn(v) == children[v]
Adopt(p, v) ==
    LET all == {x \in children[p] \cup HandsOn(v) : Live(x) /\ x # v}
    IN  children' = [x \in Vmos |->
            IF x = v THEN {}
            ELSE IF x = p THEN all
            ELSE IF x \in all THEN {y \in children[x] : Live(y) /\ y # v}
            ELSE children[x]]
Drop(v) ==
    /\ Live(v)
    /\ \A m \in Mappings : mapping[m] # None => mapping[m].vmo # v
    /\ Release(v)
    /\ \/ /\ parent[v] \in live
          /\ parent' = [c \in Vmos |-> IF c \in children[v] /\ Live(c) THEN parent[v]
                                       ELSE parent[c]]
          /\ Adopt(parent[v], v)
       \/ /\ parent[v] \notin live
          /\ children' = [children EXCEPT ![v] = {}]
          /\ UNCHANGED parent
    /\ UNCHANGED <<made, mapping>>

-----------------------------------------------------------------------------
Init ==
    /\ made = 0 /\ live = {}
    /\ kind = [v \in Vmos |-> "paged"]
    /\ resizable = [v \in Vmos |-> FALSE]
    /\ base = [v \in Vmos |-> v]
    /\ off = [v \in Vmos |-> 0] /\ size = [v \in Vmos |-> 0]
    /\ frames = [v \in Vmos |-> 0]
    /\ policy = [v \in Vmos |-> Cached]
    /\ pinned = [v \in Vmos |-> 0]
    /\ parent = [v \in Vmos |-> None]
    /\ children = [v \in Vmos |-> {}]
    /\ count = [v \in Vmos |-> 0]
    /\ mapping = [m \in Mappings |-> None]
    /\ pin = [q \in Pins |-> None]
    /\ miscounted = {}

Next ==
    \/ \E c \in Vmos, n \in Lens :
         \/ \E r \in BOOLEAN : NewPaged(c, r, n)
         \/ NewContiguous(c, n)
         \/ NewPhysical(c, n)
    \/ \E c, v \in Vmos, range \in Ranges :
         \/ \E r \in BOOLEAN : CreateChild(v, c, r, range)
         \/ CreateSlice(v, c, range)
    \/ \E v \in Vmos :
         \/ \E n \in Lens : SetLen(v, n)
         \/ \E p \in Policies : SetCachePolicy(v, p)
         \/ \E m \in Mappings : Map(m, v)
         \/ \E q \in Pins, range \in Ranges : Pin(q, v, range)
         \/ \E range \in Ranges : Unpin(v, range)
         \/ Drop(v)
    \/ \E m \in Mappings : Unmap(m)

Spec == Init /\ [][Next]_vars

-----------------------------------------------------------------------------
Kinds == {"paged", "contiguous", "physical", "slice"}

\* Every field holds a value of its Rust type, and what is alive was made.
\* (That a pin count is a natural number follows from PinsAccounted.)
TypeOK ==
    /\ made \in 0 .. MaxVmos /\ live \subseteq 1 .. made
    /\ kind \in [Vmos -> Kinds] /\ resizable \in [Vmos -> BOOLEAN]
    /\ base \in [Vmos -> Vmos]
    /\ off \in [Vmos -> Nat] /\ size \in [Vmos -> Nat] /\ frames \in [Vmos -> Nat]
    /\ policy \in [Vmos -> Policies]
    /\ count \in [Vmos -> Nat]
    /\ parent \in [Vmos -> Vmos \cup {None}]
    /\ children \in [Vmos -> SUBSET Vmos]
    /\ mapping \in [Mappings -> [vmo : Vmos, policy : Policies] \cup {None}]

\* A slice, of a slice or of whatever, lies inside the frames it was made of
\* for as long as it lives, through all resizing and dropping.
SliceInside ==
    \A v \in live : kind[v] = "slice" => off[v] + size[v] <= frames[base[v]]

\* The family tree is consistent through every drop in its middle: a list
\* holds no dropped VMO, and a VMO whose parent lives is on that parent's list
\* and on no other.
FamilyOK ==
    \A v \in live :
        /\ \A c \in children[v] : Live(c) /\ parent[c] = v
        /\ parent[v] \in live => v \in children[parent[v]]

\* No slice shares the frames of an object that is neither cached nor
\* contiguous: neither creation nor a later change of the policy lets it
\* happen, even when the slices in between are gone.
CachedWhileShared ==
    \A v \in live : kind[v] = "slice" => Contiguous(v) \/ policy[base[v]] = Cached

\* The policy in the flags of a mapping, of a VMO or of a slice of it, is the
\* policy its frames have now.
MappedKeepsPolicy ==
    \A m \in Mappings : mapping[m] # None => mapping[m].policy = policy[base[mapping[m].vmo]]

\* The pin count of an object is the number of its pages that are pinned through
\* any VMO that shares it, each counted once per pin, as long as nobody has
\* unpinned a range that was not pinned.
PinsOf(b) == {q \in Pins : pin[q] # None /\ pin[q].of = b}
PagesIn(range) == range.at .. (range.at + range.len - 1)
PinnedPages(b) == UNION {{q} \X PagesIn(pin[q].range) : q \in PinsOf(b)}
PinsAccounted ==
    \A b \in Vmos \ miscounted : pinned[b] = Cardinality(PinnedPages(b))

\* The policy of frames never changes while they are seen through a slice, nor,
\* as long as their pins are counted right, while part of them is pinned.
PolicyChangesUnused ==
    [][\A b \in Vmos : policy'[b] # policy[b] =>
          /\ b \notin miscounted => \A q \in Pins : pin'[q] # None => pin'[q].of # b
          /\ \A v \in live' : kind'[v] = "slice" => base'[v] # b]_vars
=============================================================================
