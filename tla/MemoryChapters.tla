--------------------------- MODULE MemoryChapters ---------------------------
(***************************************************************************)
(* Frames, bytes and page tables in ch03-02, ch03-04 and ch04-01.  The     *)
(* page table comes with ch03-04; before, nobody but the VMOs touches the  *)
(* frames.                                                                 *)
(***************************************************************************)
EXTENDS Memory

-----------------------------------------------------------------------------
(* The parts *)

\* create_pmem_file, AVAILABLE_FRAMES
Beginning == Init
\* VMObjectPaged::new
Making == \E v \in Vmos, r \in BOOLEAN, n \in 0 .. MaxLen : NewPaged(v, r, n)
\* VmObject::create_child
Copying == \E v, c \in Vmos, r \in BOOLEAN, at, n \in 0 .. MaxLen : CreateChild(v, c, r, at, n)
\* create_slice
Slicing == \E v, c \in Vmos, at, n \in 0 .. MaxLen : CreateSlice(v, c, at, n)
\* set_len
Resizing == \E v \in Vmos, n \in 0 .. MaxLen : SetLen(v, n)
\* set_content_size
Sizing == \E v \in Vmos, s \in Sizes : SetContentSize(v, s)
\* set_content_size_and_resize
Growing == \E v \in Vmos, s, z \in Sizes : SetContentSizeAndResize(v, s, z)
\* write and zero
Writing ==
    \E v \in Vmos, offset \in 0 .. MaxLen * PageSize :
        (\E buf \in Buffers : Write(v, offset, buf)) \/ \E n \in Sizes : Zero(v, offset, n)
\* the last holder of a VMO lets go
Dropping == \E v \in Vmos : Drop(v)
\* VmMapping::map
Showing ==
    \E m \in Mappings, v \in Vmos, at, n \in 0 .. MaxLen, addr \in Pages : Map(m, v, at, n, addr)
\* PageTable::unmap_cont
Hiding == \E m \in Mappings : Unmap(m)
\* user code, through the page table
Storing == \E p \in Pages, u \in Units, x \in Values : Store(p, u, x)

-----------------------------------------------------------------------------
(* ch03-02 *)

vars_03_02 == vars
Taken_03_02(n) == Taken(n)
LeftAfter_03_02(n) == LeftAfter(n)
GivenBack_03_02(fs) == GivenBack(fs)
Zeroed_03_02(fs) == Zeroed(fs)
FrameOf_03_02(fs, v, i) == FrameOf(fs, v, i)
Block_03_02(begin, end) == Block(begin, end)
ForEachPage_03_02(fs, v, offset, n) == ForEachPage(fs, v, offset, n)
InRange_03_02(v, offset, n) == InRange(v, offset, n)
Stored_03_02(fs, v, offset, buf) == Stored(fs, v, offset, buf)
Copied_03_02(v, at, fs) == Copied(v, at, fs)
Beginning_03_02 == Beginning
Making_03_02 == Making
Copying_03_02 == Copying
Slicing_03_02 == Slicing
Resizing_03_02 == Resizing
Sizing_03_02 == Sizing
Growing_03_02 == Growing
Writing_03_02 == Writing
Dropping_03_02 == Dropping

Next_03_02 ==
    \/ Making_03_02 \/ Copying_03_02 \/ Slicing_03_02 \/ Resizing_03_02
    \/ Sizing_03_02 \/ Growing_03_02 \/ Writing_03_02 \/ Dropping_03_02
Spec_03_02 == Beginning_03_02 /\ [][Next_03_02]_vars_03_02

-----------------------------------------------------------------------------
(* ch03-04 *)

vars_03_04 == vars
Taken_03_04(n) == Taken(n)
LeftAfter_03_04(n) == LeftAfter(n)
GivenBack_03_04(fs) == GivenBack(fs)
Zeroed_03_04(fs) == Zeroed(fs)
FrameOf_03_04(fs, v, i) == FrameOf(fs, v, i)
Block_03_04(begin, end) == Block(begin, end)
ForEachPage_03_04(fs, v, offset, n) == ForEachPage(fs, v, offset, n)
InRange_03_04(v, offset, n) == InRange(v, offset, n)
Stored_03_04(fs, v, offset, buf) == Stored(fs, v, offset, buf)
Copied_03_04(v, at, fs) == Copied(v, at, fs)
Beginning_03_04 == Beginning
Making_03_04 == Making
Copying_03_04 == Copying
Slicing_03_04 == Slicing
Resizing_03_04 == Resizing
Sizing_03_04 == Sizing
Growing_03_04 == Growing
Writing_03_04 == Writing
Dropping_03_04 == Dropping
Showing_03_04 == Showing
Hiding_03_04 == Hiding
Storing_03_04 == Storing

Next_03_04 ==
    \/ Making_03_04 \/ Copying_03_04 \/ Slicing_03_04 \/ Resizing_03_04
    \/ Sizing_03_04 \/ Growing_03_04 \/ Writing_03_04 \/ Dropping_03_04
    \/ Showing_03_04 \/ Hiding_03_04 \/ Storing_03_04
Spec_03_04 == Beginning_03_04 /\ [][Next_03_04]_vars_03_04

-----------------------------------------------------------------------------
(* ch04-01 *)

vars_04_01 == vars
Taken_04_01(n) == Taken(n)
LeftAfter_04_01(n) == LeftAfter(n)
GivenBack_04_01(fs) == GivenBack(fs)
Zeroed_04_01(fs) == Zeroed(fs)
FrameOf_04_01(fs, v, i) == FrameOf(fs, v, i)
Block_04_01(begin, end) == Block(begin, end)
ForEachPage_04_01(fs, v, offset, n) == ForEachPage(fs, v, offset, n)
InRange_04_01(v, offset, n) == InRange(v, offset, n)
Stored_04_01(fs, v, offset, buf) == Stored(fs, v, offset, buf)
Copied_04_01(v, at, fs) == Copied(v, at, fs)
Beginning_04_01 == Beginning
Making_04_01 == Making
Copying_04_01 == Copying
Slicing_04_01 == Slicing
Resizing_04_01 == Resizing
Sizing_04_01 == Sizing
Growing_04_01 == Growing
Writing_04_01 == Writing
Dropping_04_01 == Dropping
Showing_04_01 == Showing
Hiding_04_01 == Hiding
Storing_04_01 == Storing

Next_04_01 ==
    \/ Making_04_01 \/ Copying_04_01 \/ Slicing_04_01 \/ Resizing_04_01
    \/ Sizing_04_01 \/ Growing_04_01 \/ Writing_04_01 \/ Dropping_04_01
    \/ Showing_04_01 \/ Hiding_04_01 \/ Storing_04_01
Spec_04_01 == Beginning_04_01 /\ [][Next_04_01]_vars_04_01
=============================================================================
