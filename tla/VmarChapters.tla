---------------------------- MODULE VmarChapters ----------------------------
(***************************************************************************)
(* Address regions in ch03-04 and ch04-01, where vm/vmar.rs is the file it *)
(* is in ch04-03.                                                          *)
(***************************************************************************)
EXTENDS Vmar

-----------------------------------------------------------------------------
(* The parts *)

\* new_root
Beginning == Init
\* VmAddressRegion::allocate, allocate_at
Allocating(a) == \E r, c \in Regions, n \in Lens, begin \in 0 .. Size : Allocate(a, r, c, begin, n)
\* map, map_at, map_ext
Mapping(a) ==
    \E r \in Regions, m \in Mappings, n \in Lens, begin \in 0 .. Size, limits, flags \in Flags :
        Map(a, r, m, begin, n, limits, flags)
\* protect
Protecting(a) ==
    \E r \in Regions, n \in Lens, begin \in 0 .. Size, flags \in Flags : Protect(a, r, begin, n, flags)
\* unmap
Unmapping(a) == \E r \in Regions, n \in Lens, begin \in 0 .. Size : Unmap(a, r, begin, n)
\* clear
Clearing(a) == \E r \in Regions : Clear(a, r)
\* destroy
Destroying(a) == Detach(a) \/ \E r \in Regions : Destroy(a, r)
\* destroy_internal, and the end of unmap and clear
GoingDown(a) == Descend(a) \/ Fail(a) \/ Leave(a)

-----------------------------------------------------------------------------
(* ch03-04 *)

vars_03_04 == vars
Beginning_03_04 == Beginning
Overlap_03_04(x, begin, end) == Overlap(x, begin, end)
Determined_03_04(r, begin, n) == Determined(r, begin, n)
PagesOf_03_04(x) == PagesOf(x)
Permits_03_04(limits, flags) == Permits(limits, flags)
Unmapped_03_04(ms) == Unmapped(ms)
Forget_03_04(r) == Forget(r)
Allocating_03_04(a) == Allocating(a)
Mapping_03_04(a) == Mapping(a)
Protecting_03_04(a) == Protecting(a)
Unmapping_03_04(a) == Unmapping(a)
Clearing_03_04(a) == Clearing(a)
Destroying_03_04(a) == Destroying(a)
GoingDown_03_04(a) == GoingDown(a)

Next_03_04 ==
    \/ \E a \in Callers :
         \/ Allocating_03_04(a) \/ Mapping_03_04(a) \/ Protecting_03_04(a)
         \/ Unmapping_03_04(a) \/ Clearing_03_04(a) \/ Destroying_03_04(a)
         \/ GoingDown_03_04(a)
    \/ \E r \in Regions : Forget_03_04(r)
Spec_03_04 == Beginning_03_04 /\ [][Next_03_04]_vars_03_04

-----------------------------------------------------------------------------
(* ch04-01 *)

vars_04_01 == vars
Beginning_04_01 == Beginning
Overlap_04_01(x, begin, end) == Overlap(x, begin, end)
Determined_04_01(r, begin, n) == Determined(r, begin, n)
PagesOf_04_01(x) == PagesOf(x)
Permits_04_01(limits, flags) == Permits(limits, flags)
Unmapped_04_01(ms) == Unmapped(ms)
Forget_04_01(r) == Forget(r)
Allocating_04_01(a) == Allocating(a)
Mapping_04_01(a) == Mapping(a)
Protecting_04_01(a) == Protecting(a)
Unmapping_04_01(a) == Unmapping(a)
Clearing_04_01(a) == Clearing(a)
Destroying_04_01(a) == Destroying(a)
GoingDown_04_01(a) == GoingDown(a)

Next_04_01 ==
    \/ \E a \in Callers :
         \/ Allocating_04_01(a) \/ Mapping_04_01(a) \/ Protecting_04_01(a)
         \/ Unmapping_04_01(a) \/ Clearing_04_01(a) \/ Destroying_04_01(a)
         \/ GoingDown_04_01(a)
    \/ \E r \in Regions : Forget_04_01(r)
Spec_04_01 == Beginning_04_01 /\ [][Next_04_01]_vars_04_01
=============================================================================
