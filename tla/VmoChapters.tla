---------------------------- MODULE VmoChapters -----------------------------
(***************************************************************************)
(* VMOs in ch03-02, ch03-04 and ch04-01, where the files of vm/vmo are     *)
(* those of ch04-03.  In ch03-02 there are no mappings yet.                *)
(***************************************************************************)
EXTENDS Vmo

-----------------------------------------------------------------------------
(* The parts *)

\* VmObject::new_paged, new_paged_with_resizable
MakingPaged == \E c \in Vmos, n \in Lens, r \in BOOLEAN : NewPaged(c, r, n)
\* new_contiguous
MakingContiguous == \E c \in Vmos, n \in Lens : NewContiguous(c, n)
\* new_physical
MakingPhysical == \E c \in Vmos, n \in Lens : NewPhysical(c, n)
\* create_child
Copying == \E c, v \in Vmos, range \in Ranges, r \in BOOLEAN : CreateChild(v, c, r, range)
\* create_slice
Slicing == \E c, v \in Vmos, range \in Ranges : CreateSlice(v, c, range)
\* set_len, set_content_size_and_resize
Resizing == \E v \in Vmos, n \in Lens : SetLen(v, n)
\* set_cache_policy
SettingPolicy == \E v \in Vmos, p \in Policies : SetCachePolicy(v, p)
\* append_mapping, and the mapping's drop, which does not call remove_mapping
Counting == \E m \in Mappings : Unmap(m) \/ \E v \in Vmos : Map(m, v)
\* pin, unpin
Pinning == \E v \in Vmos, range \in Ranges : Unpin(v, range) \/ \E q \in Pins : Pin(q, v, range)
\* <VmObject as Drop>::drop
Dropping == \E v \in Vmos : Drop(v)

-----------------------------------------------------------------------------
(* ch03-02 *)

vars_03_02 == vars
AddChild_03_02(v, c) == AddChild(v, c)
Contiguous_03_02(v) == Contiguous(v)
InUse_03_02(v) == InUse(v)
InRange_03_02(v, range) == InRange(v, range)
MakingPaged_03_02 == MakingPaged
MakingContiguous_03_02 == MakingContiguous
MakingPhysical_03_02 == MakingPhysical
Copying_03_02 == Copying
Slicing_03_02 == Slicing
Resizing_03_02 == Resizing
SettingPolicy_03_02 == SettingPolicy
Pinning_03_02 == Pinning
Dropping_03_02 == Dropping

Next_03_02 ==
    \/ MakingPaged_03_02 \/ MakingContiguous_03_02 \/ MakingPhysical_03_02
    \/ Copying_03_02 \/ Slicing_03_02 \/ Resizing_03_02
    \/ SettingPolicy_03_02 \/ Pinning_03_02 \/ Dropping_03_02
Spec_03_02 == Init /\ [][Next_03_02]_vars_03_02

-----------------------------------------------------------------------------
(* ch03-04 *)

vars_03_04 == vars
AddChild_03_04(v, c) == AddChild(v, c)
Contiguous_03_04(v) == Contiguous(v)
InUse_03_04(v) == InUse(v)
InRange_03_04(v, range) == InRange(v, range)
MakingPaged_03_04 == MakingPaged
MakingContiguous_03_04 == MakingContiguous
MakingPhysical_03_04 == MakingPhysical
Copying_03_04 == Copying
Slicing_03_04 == Slicing
Resizing_03_04 == Resizing
SettingPolicy_03_04 == SettingPolicy
Counting_03_04 == Counting
Pinning_03_04 == Pinning
Dropping_03_04 == Dropping

Next_03_04 ==
    \/ MakingPaged_03_04 \/ MakingContiguous_03_04 \/ MakingPhysical_03_04
    \/ Copying_03_04 \/ Slicing_03_04 \/ Resizing_03_04
    \/ SettingPolicy_03_04 \/ Counting_03_04 \/ Pinning_03_04
    \/ Dropping_03_04
Spec_03_04 == Init /\ [][Next_03_04]_vars_03_04

-----------------------------------------------------------------------------
(* ch04-01 *)

vars_04_01 == vars
AddChild_04_01(v, c) == AddChild(v, c)
Contiguous_04_01(v) == Contiguous(v)
InUse_04_01(v) == InUse(v)
InRange_04_01(v, range) == InRange(v, range)
MakingPaged_04_01 == MakingPaged
MakingContiguous_04_01 == MakingContiguous
MakingPhysical_04_01 == MakingPhysical
Copying_04_01 == Copying
Slicing_04_01 == Slicing
Resizing_04_01 == Resizing
SettingPolicy_04_01 == SettingPolicy
Counting_04_01 == Counting
Pinning_04_01 == Pinning
Dropping_04_01 == Dropping

Next_04_01 ==
    \/ MakingPaged_04_01 \/ MakingContiguous_04_01 \/ MakingPhysical_04_01
    \/ Copying_04_01 \/ Slicing_04_01 \/ Resizing_04_01
    \/ SettingPolicy_04_01 \/ Counting_04_01 \/ Pinning_04_01
    \/ Dropping_04_01
Spec_04_01 == Init /\ [][Next_04_01]_vars_04_01
=============================================================================
