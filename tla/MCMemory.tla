------------------------------ MODULE MCMemory ------------------------------
(***************************************************************************)
(* Values for the runs of Memory: two bytes to a page, buffers that end    *)
(* inside a page, fill one or reach over the end of it, and content sizes  *)
(* at and inside the borders of pages.                                     *)
(***************************************************************************)
EXTENDS MemoryView

MCBuffers == {<<1>>, <<1, 1, 1>>}
MCSizes == {0, 3}
MCSymmetry == Permutations(Frames) \cup Permutations(Vmos)
=============================================================================
