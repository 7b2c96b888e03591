------------------------------ MODULE DebugLog ------------------------------
(***************************************************************************)
(* The kernel's debug log (debuglog.rs) and the system calls on it: one    *)
(* append-only buffer for everybody, and DebugLog objects that each read   *)
(* it from the beginning at an offset of their own.                        *)
(*                                                                         *)
(* The buffer is cut up by nothing but the record lengths in the headers,  *)
(* so what counts of its bytes is where records begin and the length each  *)
(* header claims.  A write is one section of the buffer's mutex.  A read   *)
(* keeps the object's offset locked, takes the buffer's mutex inside, and  *)
(* moves the offset on after it has given the buffer back.                 *)
(***************************************************************************)
EXTENDS Integers, Sequences, FiniteSets, Functions

CONSTANTS
    Threads,
    Logs,           \* DebugLog objects, all reachable from every thread
    HeaderSize,     \* HEADER_SIZE, 32
    MaxData,        \* what sys_debuglog_write leaves of a text, 224
    BufferSize,     \* DLOG_MAX_LEN, 256
    Lengths,        \* lengths of the texts that are written
    MaxRecords,     \* bound of the model on the log
    None

ASSUME SizeAssumption ==
    /\ HeaderSize \in Nat \ {0}
    /\ MaxData \in Nat
    /\ BufferSize \in Nat
    /\ HeaderSize + MaxData + 3 <= BufferSize + ((MaxData + 3) % 4)
ASSUME LengthAssumption == Lengths \subseteq Nat
ASSUME RecordsAssumption == MaxRecords \in Nat
ASSUME NoneAssumption == None \notin Threads \cup Logs

VARIABLES
    claims,     \* the length in each header, by the offset of the record
    size,       \* DlogBuffer::buf.len()
    rights,     \* the rights of each object's handle; {} before it is made
    offset,     \* DebugLog::read_offset
    locked,     \* who keeps the lock of read_offset
    call,       \* the read each thread is in
    taken       \* history: the records copied out through each object

vars == <<claims, size, rights, offset, locked, call, taken>>

\* The locals of DebugLog::read: the object, the length of what was copied.
Idle == [pc |-> "idle", log |-> None, got |-> 0]

-----------------------------------------------------------------------------
\* align_up_4
AlignUp(n) == (n + 3) - ((n + 3) % 4)

\* sys_debuglog_write shortens the text.
TruncatedMutant(n) == n
Truncated(n) == IF n < MaxData THEN n ELSE MaxData

\* DlogBuffer::write: the length in the header, and the bytes appended
WireSize(n) == HeaderSize + AlignUp(n)
PaddingMutant(n) == IF n % 4 = 0 THEN 0 ELSE n % 4
Padding(n) == WireSize(n) - (HeaderSize + n)
Extent(n) == HeaderSize + n + Padding(n)

\* sys_debuglog_create
Create(d, rs) ==
    /\ rights[d] = {}
    /\ rights' = [rights EXCEPT ![d] = rs]
    /\ UNCHANGED <<claims, size, offset, locked, call, taken>>

\* sys_debuglog_write, once its arguments and its handle are good
Write(t, d, len) ==
    LET n == Truncated(len)
    IN  /\ call[t].pc = "idle"
        /\ "write" \in rights[d]
        /\ Cardinality(DOMAIN claims) < MaxRecords
        /\ claims' = [o \in DOMAIN claims \cup {size} |->
                         IF o = size THEN WireSize(n) ELSE claims[o]]
        /\ size' = size + Extent(n)
        /\ UNCHANGED <<rights, offset, locked, call, taken>>

\* sys_debuglog_read, once its arguments and its handle are good
Read(t, d) ==
    /\ call[t].pc = "idle"
    /\ "read" \in rights[d]
    /\ call' = [call EXCEPT ![t] = [pc |-> "lock", log |-> d, got |-> 0]]
    /\ UNCHANGED <<claims, size, rights, offset, locked, taken>>

\* DebugLog::read locks the offset and keeps it
FreeMutant(d) == TRUE
Free(d) == locked[d] = None
Lock(t) ==
    LET d == call[t].log
    IN  /\ call[t].pc = "lock"
        /\ Free(d)
        /\ locked' = [locked EXCEPT ![d] = t]
        /\ call' = [call EXCEPT ![t].pc = "read"]
        /\ UNCHANGED <<claims, size, rights, offset, taken>>

\* DlogBuffer::read_at: nothing at the end of the buffer, else the record; an
\* offset inside a record, or a record longer than the kernel's own buffer,
\* would end here in a slice out of range
ReadAt(t) ==
    LET d == call[t].log
        o == offset[d]
    IN  /\ call[t].pc = "read"
        /\ IF o = size
           THEN /\ call' = [call EXCEPT ![t].pc = "advance", ![t].got = 0]
                /\ UNCHANGED taken
           ELSE /\ o \in DOMAIN claims
                /\ claims[o] <= BufferSize
                /\ call' = [call EXCEPT ![t].pc = "advance", ![t].got = claims[o]]
                /\ taken' = [taken EXCEPT ![d] = Append(@, o)]
        /\ UNCHANGED <<claims, size, rights, offset, locked>>

\* DebugLog::read moves the offset on and unlocks it.  What sys_debuglog_read
\* does after that is the caller's alone: it copies out as much as the user's
\* buffer holds, and the rest of the record, or all of it, is lost to him.
Advance(t) ==
    LET d == call[t].log
    IN  /\ call[t].pc = "advance"
        /\ offset' = [offset EXCEPT ![d] = @ + call[t].got]
        /\ locked' = [locked EXCEPT ![d] = None]
        /\ call' = [call EXCEPT ![t] = Idle]
        /\ UNCHANGED <<claims, size, rights, taken>>

-----------------------------------------------------------------------------
Init ==
    /\ claims = [o \in {} |-> 0]
    /\ size = 0
    /\ rights = [d \in Logs |-> {}]
    /\ offset = [d \in Logs |-> 0]
    /\ locked = [d \in Logs |-> None]
    /\ call = [t \in Threads |-> Idle]
    /\ taken = [d \in Logs |-> <<>>]

Next ==
    \/ \E d \in Logs : \E rs \in {{"write"}, {"read", "write"}} : Create(d, rs)
    \/ \E t \in Threads :
         \/ \E d \in Logs : Read(t, d) \/ \E len \in Lengths : Write(t, d, len)
         \/ Lock(t) \/ ReadAt(t) \/ Advance(t)

Spec == Init /\ [][Next]_vars

-----------------------------------------------------------------------------
Call == [pc : {"idle", "lock", "read", "advance"}, log : Logs \cup {None},
         got : Nat]

\* Every field holds a value of its Rust type.
TypeOK ==
    /\ DOMAIN claims \in SUBSET Nat
    /\ claims \in [DOMAIN claims -> Nat]
    /\ size \in Nat
    /\ rights \in [Logs -> SUBSET {"read", "write"}]
    /\ offset \in [Logs -> Nat]
    /\ locked \in [Logs -> Threads \cup {None}]
    /\ call \in [Threads -> Call]
    /\ taken \in [Logs -> Seq(Nat)]

Boundaries == DOMAIN claims \cup {size}

\* No read of the log slices outside the buffer: every reader stands where a
\* record begins or at the end, and every record ends in such a place and fits
\* the kernel's read buffer, whatever lengths were written.
NoSliceOutOfRange ==
    /\ \A d \in Logs : offset[d] \in Boundaries
    /\ \A o \in DOMAIN claims : /\ o + claims[o] \in Boundaries
                                /\ claims[o] <= BufferSize

\* How far the object has read, a read between its two sections included.
Reached(d) == LET t == locked[d]
              IN  IF t # None /\ call[t].pc = "advance"
                  THEN offset[d] + call[t].got ELSE offset[d]

\* Each object gets every record of the log once and in order, however many
\* threads read through it and write meanwhile: what it has copied out is all
\* there is before the place it has reached.
EachRecordOnce ==
    \A d \in Logs :
        /\ \A i, j \in DOMAIN taken[d] : i < j => taken[d][i] < taken[d][j]
        /\ Range(taken[d]) = {o \in DOMAIN claims : o < Reached(d)}
=============================================================================
