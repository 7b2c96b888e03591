--------------------------- MODULE MemoryObjects ---------------------------
(***************************************************************************)
(* What VMOs promise to those who use them: each is bytes of its own.  A   *)
(* new one is zero, a child is a copy of what its parent held then, a      *)
(* slice and a mapping show a part of the bytes themselves, and nothing    *)
(* else is shared.  Only two kinds of pages are wild: those of a slice not *)
(* cut from the beginning, and those whose bytes set_len took away.  Where *)
(* a store to a wild page goes is open, but it is one byte at most.        *)
(***************************************************************************)
EXTENDS Naturals, Sequences, FiniteSetsExt

CONSTANTS PageSize, Values, Vmos, Mappings, Pages, MaxLen, Buffers, None

VARIABLES
    content,    \* the bytes of each VMO that is there and is no slice
    growing,    \* VMOs that may be resized
    slice,      \* what a slice shows: of which VMO, from which page, how many
    mapping,    \* what a mapping shows, and at which pages
    wild        \* pages that show what they should not

Zeros(n) == [i \in 1 .. n |-> 0]
Owner(v) == IF slice[v] = None THEN v ELSE slice[v].of
From(v) == IF slice[v] = None THEN 0 ELSE slice[v].at
Shown(m) == m.addr .. m.addr + m.len - 1

New(v, bytes) ==
    /\ content[v] = None
    /\ content' = [content EXCEPT ![v] = bytes]
    /\ growing' \in {growing, growing \cup {v}}
    /\ UNCHANGED <<slice, mapping, wild>>

Make(v, n) == New(v, Zeros(n * PageSize))

Snapshot(v, c, at, n) ==
    /\ content[v] # None
    /\ New(c, [i \in 1 .. n * PageSize |->
            IF i + at * PageSize <= Len(content[v]) THEN content[v][i + at * PageSize] ELSE 0])

Cut(v, c, at, n) ==
    /\ content[Owner(v)] # None /\ Owner(v) \notin growing
    /\ (at + From(v) + n) * PageSize <= Len(content[Owner(v)])
    /\ slice' = [slice EXCEPT ![c] = [of |-> Owner(v), at |-> From(v) + at, len |-> n]]
    /\ UNCHANGED <<content, growing, mapping, wild>>

\* Bytes after the first skip ones become those of buf.
Over(bytes, skip, buf) ==
    [i \in DOMAIN bytes |-> IF i > skip /\ i <= skip + Len(buf) THEN buf[i - skip] ELSE bytes[i]]

Write(v, offset, buf) ==
    /\ UNCHANGED <<growing, slice, mapping, wild>>
    /\ content[Owner(v)] # None
    /\ content' = [content EXCEPT ![Owner(v)] = Over(@, From(v) * PageSize + offset, buf)]

\* What is added is anything, but for the part that is asked to be zero.
Resize(v, n, from, until) ==
    LET kept == Min({n * PageSize, Len(content[v])})
    IN  /\ UNCHANGED <<growing, slice, mapping>>
        /\ v \in growing
        /\ Len(content'[v]) = n * PageSize
        /\ content' = [content EXCEPT ![v] =
              Over(SubSeq(@, 1, kept) \o SubSeq(content'[v], kept + 1, n * PageSize),
                   from, IF until > from THEN Zeros(until - from) ELSE <<>>)]
        /\ wild' = wild \cup
              {p \in Pages : \E m \in Mappings :
                  /\ mapping[m] # None /\ mapping[m].vmo = v /\ p \in Shown(mapping[m])
                  /\ mapping[m].at + p - mapping[m].addr >= n}

Map(m, v, at, n, addr) ==
    /\ mapping[m] = None
    /\ mapping' = [mapping EXCEPT ![m] = [vmo |-> v, at |-> at, len |-> n, addr |-> addr]]
    /\ wild' = wild \cup IF From(v) = 0 THEN {} ELSE Shown(mapping'[m])
    /\ UNCHANGED <<content, growing, slice>>

Unmap(m) ==
    /\ mapping[m] # None
    /\ mapping' = [mapping EXCEPT ![m] = None]
    /\ wild' = wild \ Shown(mapping[m])
    /\ UNCHANGED <<content, growing, slice>>

Store(m, p, u, x) ==
    /\ mapping[m] # None /\ p \in Shown(mapping[m]) \ wild
    /\ Write(mapping[m].vmo, (mapping[m].at + p - mapping[m].addr) * PageSize + u, <<x>>)

StoreWild(x) ==
    /\ wild # {}
    /\ \E v \in Vmos : /\ content[v] # None
                       /\ \E i \in DOMAIN content[v] : content' = [content EXCEPT ![v][i] = x]
    /\ UNCHANGED <<growing, slice, mapping, wild>>

\* Bytes go when nothing shows them any more.
Forget(v) ==
    /\ \A m \in Mappings : mapping[m] # None => mapping[m].vmo # v
    /\ slice' = [slice EXCEPT ![v] = None]
    /\ \/ UNCHANGED <<content, growing>>
       \/ /\ \A s \in Vmos : slice'[s] # None => slice'[s].of # Owner(v)
          /\ content' = [content EXCEPT ![Owner(v)] = None]
          /\ growing' = growing \ {Owner(v)}
    /\ UNCHANGED <<mapping, wild>>

Init ==
    /\ content = [v \in Vmos |-> None]
    /\ growing = {}
    /\ slice = [v \in Vmos |-> None]
    /\ mapping = [m \in Mappings |-> None]
    /\ wild = {}

Next ==
    \/ \E m \in Mappings, p \in Pages, u \in 0 .. PageSize - 1, x \in Values : Store(m, p, u, x)
    \/ \E v \in Vmos, offset \in 0 .. MaxLen * PageSize :
         \/ \E buf \in Buffers : Write(v, offset, buf)
         \/ \E n \in 0 .. MaxLen * PageSize : Write(v, offset, Zeros(n))
    \/ \E v \in Vmos, n \in 0 .. MaxLen :
         \/ Make(v, n)
         \/ \E c \in Vmos, at \in 0 .. MaxLen : Snapshot(v, c, at, n) \/ Cut(v, c, at, n)
         \/ \E from, until \in 0 .. MaxLen * PageSize : Resize(v, n, from, until)
         \/ \E m \in Mappings, at \in 0 .. MaxLen, addr \in Pages : Map(m, v, at, n, addr)
    \/ \E m \in Mappings : Unmap(m)
    \/ \E x \in Values : StoreWild(x)
    \/ \E v \in Vmos : Forget(v)

Spec == Init /\ [][Next]_<<content, growing, slice, mapping, wild>>
=============================================================================
