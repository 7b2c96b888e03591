-------------------------------- MODULE Vmar --------------------------------
(***************************************************************************)
(* Virtual memory address regions (vm/vmar.rs): a tree of regions, each    *)
(* with child regions and mappings of VMOs, over one page table.           *)
(*                                                                         *)
(* Every region has a mutex.  An operation on one region's lists is one    *)
(* section of it; unmap, clear and destroy go down the tree and keep the   *)
(* lock of every region on the way, so they are split where they take the  *)
(* next lock.  Addresses count in pages.  Allocation aligns to a page, as  *)
(* every caller in the repository does.                                    *)
(*                                                                         *)
(* Which part of a VMO is mapped, and whether that part exists, is tested  *)
(* by map_ext before it takes the lock; VMOs are the subject of Vmo.       *)
(***************************************************************************)
EXTENDS Naturals, Sequences, FiniteSets

CONSTANTS
    Regions, Root,  \* pool of regions, and the one made by new_root
    Mappings,       \* pool of mappings
    Callers,        \* threads that use the regions
    Size,           \* size of the root, in pages
    Lens,           \* lengths callers ask for
    Flags,          \* sets of access rights, for pages and as limits
    None

ASSUME RootAssumption == Root \in Regions
ASSUME NoneAssumption == /\ None \notin Regions \cup Mappings \cup Callers
                         /\ None \notin [by : Mappings, flags : Flags]
ASSUME PoolAssumption == Regions \cap Mappings = {}
ASSUME SizeAssumption == Size \in Nat /\ Lens \subseteq Nat

Places == Regions \cup Mappings
Page == 0 .. Size - 1

VARIABLES
    parent,     \* VmAddressRegion::parent; None for the root and the unmade
    addr, len,  \* addr and size of regions and mappings
    dead,       \* regions whose inner is None; those not made yet are dead
    children,   \* VmarInner::children
    mappings,   \* VmarInner::mappings
    limit,      \* VmMapping::permissions
    table,      \* the page table: the mapping and the flags behind each page
    lock,       \* holder of each region's mutex
    call,       \* the operation each caller is in
    lost        \* history: regions taken off a list and never destroyed

vars == <<parent, addr, len, dead, children, mappings, limit, table, lock, call, lost>>
shape == <<parent, addr, len, limit>>

\* An operation that goes down the tree: the regions it keeps locked, each
\* with what it has taken off the region's list and has still to destroy.
Idle == [pc |-> "idle", frames |-> <<>>, on |-> None]
Frame(kind, r, todo) == [kind |-> kind, on |-> r, todo |-> todo]

-----------------------------------------------------------------------------
End(x) == addr[x] + len[x]

\* VmAddressRegion and VmMapping: overlap, within, partial_overlap
Overlap(x, begin, end) == ~(addr[x] >= end \/ End(x) <= begin)
Within(x, begin, end) == begin <= addr[x] /\ End(x) <= end
PartialOverlap(x, begin, end) == Overlap(x, begin, end) /\ ~Within(x, begin, end)

Members(r) == children[r] \cup mappings[r]

\* VmAddressRegion::test_map
TestMapMutant(r, begin, n) ==
    /\ begin + n <= End(r)
    /\ \A x \in mappings[r] : ~Overlap(x, begin, begin + n)
TestMap(r, begin, n) ==
    /\ begin + n <= End(r)
    /\ \A x \in Members(r) : ~Overlap(x, begin, begin + n)

\* VmAddressRegion::determine_offset: the place asked for, or one that
\* find_free_area has found; either passes the same test
Determined(r, begin, n) ==
    /\ begin >= addr[r]
    /\ TestMap(r, begin, n)

\* The pages of a place
Span(begin, n) == {p \in begin .. (begin + n) : p < begin + n}
PagesOf(x) == Span(addr[x], len[x])

\* <VmMapping as Drop>::drop of some mappings: their pages leave the page table.
Unmapped(ms) ==
    [p \in Page |-> IF \E m \in ms : p \in PagesOf(m) THEN None ELSE table[p]]
Gone(f, xs, zero) == [x \in DOMAIN f |-> IF x \in xs THEN zero ELSE f[x]]
Drop(ms) ==
    /\ table' = Unmapped(ms)
    /\ limit' = Gone(limit, ms, {})
    /\ addr' = Gone(addr, ms, 0) /\ len' = Gone(len, ms, 0)

Free(r) == lock[r] = None
Alive(r) == ~dead[r]

\* A mapping that exists is on a list; a region that was made may be on none.
Mapped == UNION {mappings[r] : r \in Regions}
Made(r) == r = Root \/ parent[r] # None

\* Regions a call has taken off a list to destroy them, and all it works on
Owed(a) ==
    {s \in Regions : \E i \in DOMAIN call[a].frames :
        s \in call[a].frames[i].todo \/ (i # 1 /\ s = call[a].frames[i].on)}
Handled(a) ==
    {s \in Regions :
        \/ s \in Owed(a) \/ s = call[a].on
        \/ \E i \in DOMAIN call[a].frames : s = call[a].frames[i].on}

-----------------------------------------------------------------------------
\* VmAddressRegion::allocate, allocate_at
Allocate(a, r, c, begin, n) ==
    /\ call[a] = Idle
    /\ Made(r) /\ Free(r) /\ Alive(r)
    /\ ~Made(c)
    /\ Determined(r, begin, n)
    /\ parent' = [parent EXCEPT ![c] = r]
    /\ addr' = [addr EXCEPT ![c] = begin]
    /\ len' = [len EXCEPT ![c] = n]
    /\ dead' = [dead EXCEPT ![c] = FALSE]
    /\ children' = [children EXCEPT ![r] = @ \cup {c}]
    /\ UNCHANGED <<mappings, limit, table, lock, call, lost>>

\* The last Arc of a region goes: it is on no list, nobody works on it, and it
\* has no child left, since a child keeps its parent.  A region that was lost
\* gives up its mappings only here.
Forget(r) ==
    /\ r # Root /\ Made(r)
    /\ \A s \in Regions : r \notin children[s] /\ parent[s] # r
    /\ \A a \in Callers : r \notin Handled(a)
    /\ parent' = [parent EXCEPT ![r] = None]
    /\ dead' = [dead EXCEPT ![r] = TRUE]
    /\ mappings' = [mappings EXCEPT ![r] = {}]
    /\ table' = Unmapped(mappings[r])
    /\ limit' = Gone(limit, mappings[r], {})
    /\ addr' = Gone(addr, mappings[r] \cup {r}, 0)
    /\ len' = Gone(len, mappings[r] \cup {r}, 0)
    /\ UNCHANGED <<children, lock, call, lost>>

\* map_ext and protect let no flags through that the limit does not contain.
PermitsMutant(limits, flags) == TRUE
Permits(limits, flags) == flags \subseteq limits

\* VmAddressRegion::map_ext, VmMapping::new, VmMapping::map
Map(a, r, m, begin, n, limits, flags) ==
    /\ call[a] = Idle
    /\ Made(r) /\ Free(r) /\ Alive(r)
    /\ m \notin Mapped
    /\ Permits(limits, flags)
    /\ Determined(r, begin, n)
    /\ addr' = [addr EXCEPT ![m] = begin]
    /\ len' = [len EXCEPT ![m] = n]
    /\ limit' = [limit EXCEPT ![m] = limits]
    /\ mappings' = [mappings EXCEPT ![r] = @ \cup {m}]
    /\ table' = [p \in Page |-> IF p \in Span(begin, n)
                                THEN [by |-> m, flags |-> flags] ELSE table[p]]
    /\ UNCHANGED <<parent, dead, children, lock, call, lost>>

\* VmAddressRegion::protect: the overlaps of the mappings with the range add
\* up to its length just when they cover it, since they are apart
Protect(a, r, begin, n, flags) ==
    LET touched == {m \in mappings[r] : Overlap(m, begin, begin + n)}
        range == Span(begin, n)
    IN  /\ call[a] = Idle
        /\ Made(r) /\ Free(r) /\ Alive(r)
        /\ \A c \in children[r] : ~Overlap(c, begin, begin + n)
        /\ \A p \in range : \E m \in touched : p \in PagesOf(m)
        /\ \A m \in touched : Permits(limit[m], flags)
        /\ table' = [p \in Page |->
               IF p \in range /\ table[p] # None THEN [table[p] EXCEPT !.flags = flags]
               ELSE table[p]]
        /\ UNCHANGED <<shape, dead, children, mappings, lock, call, lost>>

-----------------------------------------------------------------------------
\* The first section of an operation that goes down the tree: the region's
\* lock is kept, the regions to destroy are off its list.
GoDown(a, kind, r, todo) ==
    /\ call[a] = Idle
    /\ Made(r) /\ Free(r) /\ Alive(r)
    /\ children' = [children EXCEPT ![r] = @ \ todo]
    /\ lock' = [lock EXCEPT ![r] = a]
    /\ call' = [call EXCEPT ![a] = [pc |-> "walk", frames |-> <<Frame(kind, r, todo)>>,
                                    on |-> None]]

\* VmAddressRegion::unmap up to the loop over the children
UnmapRefused(r, begin, end) == \E x \in Members(r) : PartialOverlap(x, begin, end)
Unmap(a, r, begin, n) ==
    LET within == {m \in mappings[r] : Within(m, begin, begin + n)}
    IN  /\ n # 0
        /\ ~UnmapRefused(r, begin, begin + n)
        /\ GoDown(a, "unmap", r, {c \in children[r] : Within(c, begin, begin + n)})
        /\ mappings' = [mappings EXCEPT ![r] = @ \ within]
        /\ Drop(within)
        /\ UNCHANGED <<parent, dead, lost>>

\* VmAddressRegion::clear up to its loop
Clear(a, r) ==
    /\ GoDown(a, "clear", r, children[r])
    /\ UNCHANGED <<shape, dead, mappings, table, lost>>

\* VmAddressRegion::destroy: destroy_internal up to its loop
Destroy(a, r) ==
    /\ GoDown(a, "destroy", r, children[r])
    /\ UNCHANGED <<shape, dead, mappings, table, lost>>

\* The loops over the children: destroy_internal of the next one begins
Descend(a) ==
    LET fs == call[a].frames
    IN  /\ call[a].pc = "walk"
        /\ \E c \in fs[Len(fs)].todo :
            /\ Free(c) /\ Alive(c)
            /\ lock' = [lock EXCEPT ![c] = a]
            /\ children' = [children EXCEPT ![c] = {}]
            /\ call' = [call EXCEPT ![a].frames = Append(
                   [fs EXCEPT ![Len(fs)].todo = @ \ {c}],
                   Frame("destroy", c, children[c]))]
        /\ UNCHANGED <<shape, dead, mappings, table, lost>>

\* The next child is dead: BAD_STATE goes up through every loop, and what the
\* loops had not come to is off the lists but not destroyed
Fail(a) ==
    LET fs == call[a].frames
    IN  /\ call[a].pc = "walk"
        /\ \E c \in fs[Len(fs)].todo :
            /\ Free(c) /\ dead[c]
            /\ lost' = lost \cup (Owed(a) \ {c})
        /\ lock' = [r \in Regions |-> IF lock[r] = a THEN None ELSE lock[r]]
        /\ call' = [call EXCEPT ![a] = Idle]
        /\ UNCHANGED <<shape, dead, children, mappings, table>>

\* The end of a loop.  unmap has dropped its mappings before; clear and
\* destroy_internal drop them now, and the latter leaves the region dead.
Dropped(frame) == IF frame.kind = "unmap" THEN {} ELSE mappings[frame.on]
KeepsLockMutant(frame) == frame.kind = "destroy"
KeepsLock(frame) == FALSE
Leave(a) ==
    LET fs == call[a].frames
        frame == fs[Len(fs)]
        r == frame.on
    IN  /\ call[a].pc = "walk"
        /\ frame.todo = {}
        /\ mappings' = [mappings EXCEPT ![r] = @ \ Dropped(frame)]
        /\ Drop(Dropped(frame))
        /\ dead' = [dead EXCEPT ![r] = @ \/ frame.kind = "destroy"]
        /\ lock' = IF KeepsLock(frame) THEN lock ELSE [lock EXCEPT ![r] = None]
        /\ call' = [call EXCEPT ![a] =
               IF Len(fs) > 1 THEN [@ EXCEPT !.frames = SubSeq(fs, 1, Len(fs) - 1)]
               ELSE IF frame.kind = "destroy" /\ r # Root
               THEN [pc |-> "detach", frames |-> <<>>, on |-> r]
               ELSE Idle]
        /\ UNCHANGED <<parent, children, lost>>

\* VmAddressRegion::destroy: the parent, if alive, forgets the region
LeavesListMutant(p, r) == children[p]
OnlyItLeavesMutant(p, r) == children[p] \cap {r}
LeavesList(p, r) == children[p] \ {r}
Detach(a) ==
    LET r == call[a].on
        p == parent[r]
    IN  /\ call[a].pc = "detach"
        /\ Free(p)
        /\ children' = [children EXCEPT ![p] = IF dead[p] THEN @ ELSE LeavesList(p, r)]
        /\ call' = [call EXCEPT ![a] = Idle]
        /\ UNCHANGED <<shape, dead, mappings, table, lock, lost>>

-----------------------------------------------------------------------------
Init ==
    /\ parent = [r \in Regions |-> None]
    /\ addr = [x \in Places |-> 0]
    /\ len = [x \in Places |-> IF x = Root THEN Size ELSE 0]
    /\ dead = [r \in Regions |-> r # Root]
    /\ children = [r \in Regions |-> {}]
    /\ mappings = [r \in Regions |-> {}]
    /\ limit = [m \in Mappings |-> {}]
    /\ table = [p \in Page |-> None]
    /\ lock = [r \in Regions |-> None]
    /\ call = [a \in Callers |-> Idle]
    /\ lost = {}

Begin(a) ==
    \E r \in Regions :
        \/ \E n \in Lens, begin \in 0 .. Size :
             \/ \E c \in Regions : Allocate(a, r, c, begin, n)
             \/ \E m \in Mappings : \E limits, flags \in Flags : Map(a, r, m, begin, n, limits, flags)
             \/ \E flags \in Flags : Protect(a, r, begin, n, flags)
             \/ Unmap(a, r, begin, n)
        \/ Clear(a, r)
        \/ Destroy(a, r)

Next ==
    \/ \E a \in Callers : Begin(a) \/ Descend(a) \/ Fail(a) \/ Leave(a) \/ Detach(a)
    \/ \E r \in Regions : Forget(r)

Spec == Init /\ [][Next]_vars

-----------------------------------------------------------------------------
Frames == [kind : {"unmap", "clear", "destroy"}, on : Regions, todo : SUBSET Regions]
Entry == [by : Mappings, flags : Flags]

\* Every field holds a value of its Rust type, and places lie in the root.
TypeOK ==
    /\ parent \in [Regions -> Regions \cup {None}]
    /\ addr \in [Places -> Nat] /\ len \in [Places -> Nat]
    /\ \A x \in Places : End(x) <= Size
    /\ dead \in [Regions -> BOOLEAN]
    /\ children \in [Regions -> SUBSET Regions]
    /\ mappings \in [Regions -> SUBSET Mappings]
    /\ limit \in [Mappings -> Flags \cup {{}}]
    /\ table \in [Page -> Entry \cup {None}]
    /\ lock \in [Regions -> Callers \cup {None}]
    /\ call \in [Callers -> [pc : {"idle", "walk", "detach"}, frames : Seq(Frames),
                             on : Regions \cup {None}]]
    /\ lost \subseteq Regions

\* Whatever was allocated, mapped, unmapped and destroyed before, and by whom,
\* the children and the mappings of a region lie inside it and no two of them
\* share an address.
SiblingsDisjoint ==
    \A r \in Regions : \A x \in Members(r) :
        /\ Within(x, addr[r], End(r))
        /\ \A y \in Members(r) \ {x} : ~Overlap(x, addr[y], End(y))

\* The page table holds just the pages of the mappings that exist, each by its
\* own mapping and with no right its limit excludes: nothing of an unmapped or
\* destroyed region remains, nothing of its neighbours goes with it.  (A failed
\* unmap or clear may leave regions alive whose addresses others then take.)
PageTableOK ==
    lost = {} => \A p \in Page :
        IF table[p] = None THEN \A m \in Mapped : p \notin PagesOf(m)
        ELSE /\ table[p].by \in Mapped
             /\ p \in PagesOf(table[p].by)
             /\ table[p].flags \subseteq limit[table[p].by]

\* A dead region is on its parent's list only while the call that destroyed it
\* is on its way to take it off.
DeadChildLeaves ==
    \A r \in Regions : \A c \in children[r] : dead[c] =>
        \E a \in Callers : call[a].pc = "detach" /\ call[a].on = c

\* A region that is alive is on its parent's list, so that destroying the
\* parent destroys it, or some call has taken it off the list to destroy
\* it, or such a call has failed.
LiveIsReachable ==
    \A c \in Regions \ {Root} : Alive(c) =>
        \/ \E r \in Regions : c \in children[r]
        \/ \E a \in Callers : c \in Owed(a)
        \/ c \in lost

\* The locks a caller has to take before it can go on
Wanted(a) ==
    CASE call[a].pc = "walk" -> call[a].frames[Len(call[a].frames)].todo
      [] call[a].pc = "detach" -> {parent[call[a].on]}
      [] OTHER -> {}

\* No set of callers waits only for locks its own members keep.
NoDeadlock ==
    \A D \in (SUBSET Callers) \ {{}} : ~ \A a \in D :
        Wanted(a) # {} /\ \A r \in Wanted(a) : lock[r] \in D
=============================================================================
