----------------------------- MODULE MemoryView -----------------------------
(* Memory implements MemoryObjects: the bytes of a VMO are those of its     *)
(* frames, one after the other.                                             *)
EXTENDS Memory

Contents(v) ==
    [i \in 1 .. Len(frames[v]) * PageSize |->
        byte[frames[v][(i - 1) \div PageSize + 1]][(i - 1) % PageSize]]

Objects == INSTANCE MemoryObjects WITH
    content <- [v \in Vmos |-> IF Exists(v) /\ ~IsSlice(v) THEN Contents(v) ELSE None],
    growing <- {v \in Vmos : resizable[v]},
    wild <- stray

\* Reads, writes, zeroing, copies, resizing and stores of user code, through
\* frames that go round the queue of free frames, behave as if every VMO had
\* bytes of its own: no byte changes that was not named, content that is asked
\* to be zero is, and a new VMO holds nothing a former owner of its frames left.
ViewSpec == Objects!Spec

\* A child of create_child has, byte for byte, what its parent showed at that
\* moment from the offset on, and zeros behind the parent's end.
ChildIsSnapshot ==
    [][\A v, c \in Vmos, r \in BOOLEAN, at, n \in 0 .. MaxLen :
          CreateChild(v, c, r, at, n) => Objects!Snapshot(v, c, at, n)]_vars
=============================================================================
