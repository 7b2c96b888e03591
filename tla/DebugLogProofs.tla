--------------------------- MODULE DebugLogProofs ---------------------------
(* Theorems about DebugLog, for any number of threads and objects and any   *)
(* sizes: no read leaves the buffer, and every record is read once.         *)
EXTENDS DebugLog, TLAPS

\* The lock of an offset is kept by the one thread that reads through it.
MutexOK ==
    /\ \A t \in Threads : call[t].pc # "idle" => call[t].log \in Logs
    /\ \A t \in Threads : call[t].pc \in {"read", "advance"} =>
           locked[call[t].log] = t
    /\ \A d \in Logs : locked[d] # None =>
           /\ call[locked[d]].pc \in {"read", "advance"}
           /\ call[locked[d]].log = d

\* Records lie one behind the other.
Apart ==
    /\ \A o \in DOMAIN claims : claims[o] > 0 /\ o + claims[o] <= size
    /\ \A o, q \in DOMAIN claims : o < q => o + claims[o] <= q

\* What a read has copied out is the record at the offset, if any.
CopiedOK ==
    \A t \in Threads : call[t].pc = "advance" =>
        \/ call[t].got = 0
        \/ /\ offset[call[t].log] \in DOMAIN claims
           /\ call[t].got = claims[offset[call[t].log]]

IInv == TypeOK /\ MutexOK /\ Apart /\ CopiedOK /\ NoSliceOutOfRange /\ EachRecordOnce

-----------------------------------------------------------------------------
(* Sizes *)

\* align_up_4 rounds up by less than four, and keeps the order of lengths.
LEMMA Aligned ==
    ASSUME NEW n \in Nat
    PROVE  /\ AlignUp(n) \in Nat
           /\ n <= AlignUp(n)
  BY SMT DEF AlignUp

LEMMA AlignedOrder ==
    ASSUME NEW n \in Nat, NEW m \in Nat, n <= m
    PROVE  AlignUp(n) <= AlignUp(m)
  BY SMT DEF AlignUp

\* The record of a text of any length fits the read buffer, and its header
\* claims just what the write appends.
LEMMA WriteFits ==
    ASSUME NEW len \in Nat
    PROVE  /\ WireSize(Truncated(len)) \in Nat
           /\ WireSize(Truncated(len)) > 0
           /\ WireSize(Truncated(len)) <= BufferSize
           /\ Extent(Truncated(len)) = WireSize(Truncated(len))
<1> DEFINE n == Truncated(len)
<1>1. n \in Nat /\ n <= MaxData
  BY SizeAssumption DEF Truncated
<1> HIDE DEF n
<1>2. AlignUp(n) \in Nat /\ AlignUp(n) <= AlignUp(MaxData)
  BY <1>1, Aligned, AlignedOrder, SizeAssumption
<1>3. HeaderSize + AlignUp(MaxData) <= BufferSize
  BY SizeAssumption, SMT DEF AlignUp
<1>4. AlignUp(MaxData) \in Nat
  BY Aligned, SizeAssumption
<1>5. WireSize(n) \in Nat /\ WireSize(n) > 0 /\ WireSize(n) <= BufferSize
  BY <1>2, <1>3, <1>4, SizeAssumption DEF WireSize
<1>6. Extent(n) = WireSize(n)
  BY <1>1, <1>5, SizeAssumption DEF Extent, Padding
<1> QED
  BY <1>5, <1>6 DEF n

-----------------------------------------------------------------------------
LEMMA InitOK == Init => IInv
  BY DEF Init, IInv, TypeOK, MutexOK, Apart, CopiedOK, NoSliceOutOfRange,
         EachRecordOnce, Idle, Call, Boundaries, Reached, Range

\* What every step but a write and a copy leaves alone.
LEMMA CreateKeeps ==
    ASSUME IInv, NEW d \in Logs, NEW rs \in {{"write"}, {"read", "write"}}, Create(d, rs)
    PROVE  IInv'
<1> USE DEF IInv, Create
<1>1. TypeOK'
  BY DEF TypeOK
<1>2. MutexOK' /\ Apart' /\ CopiedOK'
  BY DEF MutexOK, Apart, CopiedOK
<1>3. NoSliceOutOfRange' /\ EachRecordOnce'
  BY DEF NoSliceOutOfRange, EachRecordOnce, Boundaries, Reached
<1> QED
  BY <1>1, <1>2, <1>3

LEMMA WriteKeeps ==
    ASSUME IInv, NEW t \in Threads, NEW d \in Logs, NEW len \in Lengths, Write(t, d, len)
    PROVE  IInv'
<1> DEFINE w == WireSize(Truncated(len))
<1>1. w \in Nat /\ w > 0 /\ w <= BufferSize /\ Extent(Truncated(len)) = w
  BY WriteFits, LengthAssumption
<1> HIDE DEF w
<1>2. /\ claims' = [o \in DOMAIN claims \cup {size} |-> IF o = size THEN w ELSE claims[o]]
      /\ size' = size + w
      /\ UNCHANGED <<rights, offset, locked, call, taken>>
  BY <1>1 DEF Write, w
<1>3. /\ DOMAIN claims \in SUBSET Nat
      /\ claims \in [DOMAIN claims -> Nat]
      /\ size \in Nat
      /\ BufferSize \in Nat
  BY SizeAssumption DEF IInv, TypeOK
<1>4. size \notin DOMAIN claims
  BY <1>3 DEF IInv, Apart
<1>5. /\ DOMAIN claims' = DOMAIN claims \cup {size}
      /\ claims'[size] = w
      /\ \A o \in DOMAIN claims : claims'[o] = claims[o]
  BY <1>2, <1>4
<1>6. TypeOK'
  <2>1. claims' \in [DOMAIN claims' -> Nat] /\ DOMAIN claims' \in SUBSET Nat /\ size' \in Nat
    BY <1>1, <1>2, <1>3, <1>5
  <2> QED
    BY <2>1, <1>2 DEF IInv, TypeOK
<1>7. MutexOK'
  BY <1>2 DEF IInv, MutexOK
<1>8. Apart'
  <2>1. \A o \in DOMAIN claims' : claims'[o] > 0 /\ o + claims'[o] <= size'
    BY <1>1, <1>2, <1>3, <1>5 DEF IInv, Apart
  <2>2. ASSUME NEW o \in DOMAIN claims', NEW q \in DOMAIN claims', o < q
        PROVE  o + claims'[o] <= q
    <3>1. o # size
      BY <2>2, <1>3, <1>5 DEF IInv, Apart
    <3>2. CASE q = size
      BY <3>1, <3>2, <1>5 DEF IInv, Apart
    <3>3. CASE q # size
      BY <3>1, <3>3, <1>5, <2>2 DEF IInv, Apart
    <3> QED
      BY <3>2, <3>3
  <2> QED
    BY <2>1, <2>2 DEF Apart
<1>9. CopiedOK'
  BY <1>2, <1>5 DEF IInv, CopiedOK
<1>10. NoSliceOutOfRange'
  <2>1. Boundaries \subseteq Boundaries'
    BY <1>5 DEF Boundaries
  <2>2. size + w \in Boundaries'
    BY <1>2 DEF Boundaries
  <2>3. \A o \in DOMAIN claims' : o + claims'[o] \in Boundaries' /\ claims'[o] <= BufferSize
    BY <1>1, <1>5, <2>1, <2>2 DEF IInv, NoSliceOutOfRange
  <2> QED
    BY <1>2, <2>1, <2>3 DEF IInv, NoSliceOutOfRange
<1>11. EachRecordOnce'
  <2>1. ASSUME NEW e \in Logs
        PROVE  /\ Reached(e)' = Reached(e)
               /\ Reached(e) \in Nat
               /\ Reached(e) <= size
    <3>1. Reached(e)' = Reached(e)
      BY <1>2 DEF Reached
    <3>2. offset[e] \in Nat /\ offset[e] <= size
      <4>1. offset[e] \in Nat /\ offset[e] \in DOMAIN claims \cup {size}
        BY DEF IInv, TypeOK, NoSliceOutOfRange, Boundaries
      <4>2. \A o \in DOMAIN claims : claims[o] \in Nat /\ o + claims[o] <= size
        BY <1>3 DEF IInv, Apart
      <4> QED
        BY <4>1, <4>2, <1>3
    <3>3. CASE locked[e] # None /\ call[locked[e]].pc = "advance"
      <4> DEFINE u == locked[e]
      <4>1. u \in Threads /\ call[u].log = e /\ call[u].pc = "advance"
        BY <3>3 DEF IInv, TypeOK, MutexOK
      <4>2. call[u].got = 0 \/ (offset[e] \in DOMAIN claims /\ call[u].got = claims[offset[e]])
        BY <4>1 DEF IInv, CopiedOK
      <4>3. offset[e] + call[u].got \in Nat /\ offset[e] + call[u].got <= size
        BY <4>2, <3>2, <1>3 DEF IInv, Apart
      <4> QED
        BY <4>3, <3>1, <3>3 DEF Reached
    <3>4. CASE ~(locked[e] # None /\ call[locked[e]].pc = "advance")
      BY <3>1, <3>2, <3>4 DEF Reached
    <3> QED
      BY <3>3, <3>4
  <2>2. ASSUME NEW e \in Logs
        PROVE  {o \in DOMAIN claims' : o < Reached(e)'} = {o \in DOMAIN claims : o < Reached(e)}
    <3> DEFINE r == Reached(e)
    <3>1. r \in Nat /\ r <= size /\ Reached(e)' = r
      BY <2>1
    <3> HIDE DEF r
    <3> QED
      BY <3>1, <1>3, <1>5 DEF r
  <2> QED
    BY <1>2, <2>2 DEF IInv, EachRecordOnce
<1> QED
  BY <1>6, <1>7, <1>8, <1>9, <1>10, <1>11 DEF IInv

LEMMA ReadKeeps ==
    ASSUME IInv, NEW t \in Threads, NEW d \in Logs, Read(t, d)
    PROVE  IInv'
<1>1. /\ call[t].pc = "idle"
      /\ call' = [call EXCEPT ![t] = [pc |-> "lock", log |-> d, got |-> 0]]
      /\ UNCHANGED <<claims, size, rights, offset, locked, taken>>
  BY DEF Read
<1>2. TypeOK'
  <2>1. [pc |-> "lock", log |-> d, got |-> 0] \in Call
    BY DEF Call
  <2>2. call' \in [Threads -> Call]
    BY <1>1, <2>1 DEF IInv, TypeOK
  <2> QED
    BY <1>1, <2>2 DEF IInv, TypeOK
<1>4. call'[t].pc = "lock" /\ call'[t].log = d
  BY <1>1 DEF IInv, TypeOK
<1>5. \A u \in Threads : u # t => call'[u] = call[u]
  BY <1>1 DEF IInv, TypeOK
<1>6. ASSUME NEW e \in Logs, locked[e] # None
      PROVE  locked[e] \in Threads /\ locked[e] # t
  <2>1. locked[e] \in Threads
    BY <1>6 DEF IInv, TypeOK
  <2>2. call[locked[e]].pc \in {"read", "advance"}
    BY <1>6 DEF IInv, MutexOK
  <2> QED
    BY <2>1, <2>2, <1>1
<1>7. MutexOK'
  BY <1>1, <1>4, <1>5, <1>6 DEF IInv, MutexOK
<1>8. CopiedOK'
  BY <1>1, <1>4, <1>5 DEF IInv, CopiedOK
<1>9. Apart' /\ NoSliceOutOfRange'
  BY <1>1 DEF IInv, Apart, NoSliceOutOfRange, Boundaries
<1>10. \A e \in Logs : Reached(e)' = Reached(e)
  BY <1>1, <1>5, <1>6 DEF Reached
<1>11. EachRecordOnce'
  BY <1>1, <1>10 DEF IInv, EachRecordOnce
<1> QED
  BY <1>2, <1>7, <1>8, <1>9, <1>11 DEF IInv

LEMMA LockKeeps ==
    ASSUME IInv, NEW t \in Threads, Lock(t)
    PROVE  IInv'
<1> DEFINE d == call[t].log
<1>1. /\ call[t].pc = "lock"
      /\ d \in Logs
      /\ locked[d] = None
      /\ locked' = [locked EXCEPT ![d] = t]
      /\ call' = [call EXCEPT ![t].pc = "read"]
      /\ UNCHANGED <<claims, size, rights, offset, taken>>
  BY DEF Lock, Free, IInv, MutexOK
<1>2. /\ call'[t].pc = "read" /\ call'[t].log = d
      /\ \A u \in Threads : u # t => call'[u] = call[u]
      /\ locked'[d] = t
      /\ \A e \in Logs : e # d => locked'[e] = locked[e]
  BY <1>1 DEF IInv, TypeOK, Call
<1>3. TypeOK'
  <2>1. locked' \in [Logs -> Threads \cup {None}]
    BY <1>1 DEF IInv, TypeOK
  <2>2. call[t] \in Call /\ call \in [Threads -> Call]
    BY DEF IInv, TypeOK
  <2>3. [call[t] EXCEPT !.pc = "read"] \in Call
    BY <2>2 DEF Call
  <2>4. call' \in [Threads -> Call]
    BY <1>1, <2>2, <2>3
  <2> QED
    BY <1>1, <2>1, <2>4 DEF IInv, TypeOK
<1>4. \A e \in Logs : locked[e] # None => locked[e] \in Threads /\ locked[e] # t
  BY <1>1 DEF IInv, TypeOK, MutexOK
<1>5. t # None
  BY NoneAssumption
<1>6. MutexOK'
  <2>1. \A u \in Threads : call'[u].pc # "idle" => call'[u].log \in Logs
    BY <1>1, <1>2 DEF IInv, MutexOK
  <2>2. \A u \in Threads : call'[u].pc \in {"read", "advance"} => locked'[call'[u].log] = u
    <3> SUFFICES ASSUME NEW u \in Threads, u # t, call[u].pc \in {"read", "advance"}
                 PROVE  locked'[call[u].log] = u
      BY <1>2
    <3>1. locked[call[u].log] = u /\ call[u].log \in Logs
      BY DEF IInv, MutexOK
    <3>2. call[u].log # d
      BY <3>1, <1>1, NoneAssumption
    <3> QED
      BY <3>1, <3>2, <1>2
  <2>3. \A e \in Logs : locked'[e] # None =>
            call'[locked'[e]].pc \in {"read", "advance"} /\ call'[locked'[e]].log = e
    BY <1>2, <1>4 DEF IInv, MutexOK
  <2> QED
    BY <2>1, <2>2, <2>3 DEF MutexOK
<1>7. CopiedOK'
  BY <1>1, <1>2 DEF IInv, CopiedOK
<1>8. Apart' /\ NoSliceOutOfRange'
  BY <1>1 DEF IInv, Apart, NoSliceOutOfRange, Boundaries
<1>9. \A e \in Logs : Reached(e)' = Reached(e)
  BY <1>1, <1>2, <1>4 DEF Reached
<1>10. EachRecordOnce'
  BY <1>1, <1>9 DEF IInv, EachRecordOnce
<1> QED
  BY <1>3, <1>6, <1>7, <1>8, <1>10 DEF IInv

LEMMA ReadAtKeeps ==
    ASSUME IInv, NEW t \in Threads, ReadAt(t)
    PROVE  IInv'
<1>0. PICK d \in Logs : d = call[t].log
  BY DEF ReadAt, IInv, MutexOK
<1> DEFINE o == offset[d]
<1>1. /\ call[t].pc = "read"
      /\ d \in Logs
      /\ call[t].log = d
      /\ locked[d] = t
      /\ t # None
      /\ UNCHANGED <<claims, size, rights, offset, locked>>
  BY <1>0, NoneAssumption DEF ReadAt, IInv, MutexOK
<1>2. PICK g \in Nat :
         /\ call' = [call EXCEPT ![t].pc = "advance", ![t].got = g]
         /\ \/ g = 0 /\ o = size /\ taken' = taken
            \/ o \in DOMAIN claims /\ g = claims[o] /\ taken' = [taken EXCEPT ![d] = Append(@, o)]
  BY <1>0 DEF ReadAt, IInv, TypeOK
<1>3. /\ call'[t].pc = "advance" /\ call'[t].log = d /\ call'[t].got = g
      /\ \A u \in Threads : u # t => call'[u] = call[u]
  BY <1>1, <1>2 DEF IInv, TypeOK, Call
<1>4. o \in Nat
  BY <1>1 DEF IInv, TypeOK
<1> HIDE DEF o
<1>5. TypeOK'
  <2>1. call' \in [Threads -> Call]
    <3>1. call[t] \in Call
      BY DEF IInv, TypeOK
    <3>2. [call[t] EXCEPT !.pc = "advance", !.got = g] \in Call
      BY <3>1 DEF Call
    <3> QED
      BY <3>2, <1>2 DEF IInv, TypeOK
  <2>2. taken' \in [Logs -> Seq(Nat)]
    <3>1. taken \in [Logs -> Seq(Nat)]
      BY DEF IInv, TypeOK
    <3>2. Append(taken[d], o) \in Seq(Nat)
      BY <3>1, <1>1, <1>4
    <3> QED
      BY <3>1, <3>2, <1>2
  <2> QED
    BY <1>1, <2>1, <2>2 DEF IInv, TypeOK
<1>6. MutexOK'
  <2>1. \A u \in Threads : call'[u].pc # "idle" => call'[u].log \in Logs
    BY <1>1, <1>3 DEF IInv, MutexOK
  <2>2. \A u \in Threads : call'[u].pc \in {"read", "advance"} => locked'[call'[u].log] = u
    BY <1>1, <1>3 DEF IInv, MutexOK
  <2>3. ASSUME NEW e \in Logs, locked[e] # None
        PROVE  call'[locked[e]].pc \in {"read", "advance"} /\ call'[locked[e]].log = e
    <3>1. locked[e] \in Threads /\ call[locked[e]].pc \in {"read", "advance"}
          /\ call[locked[e]].log = e
      BY <2>3 DEF IInv, TypeOK, MutexOK
    <3> QED
      BY <3>1, <1>1, <1>3
  <2> QED
    BY <2>1, <2>2, <2>3, <1>1 DEF MutexOK
<1>7. CopiedOK'
  BY <1>1, <1>2, <1>3, ZenonT(60) DEF IInv, CopiedOK, o
<1>8. Apart' /\ NoSliceOutOfRange'
  BY <1>1 DEF IInv, Apart, NoSliceOutOfRange, Boundaries
<1>9. ASSUME NEW e \in Logs, e # d
      PROVE  Reached(e)' = Reached(e) /\ taken'[e] = taken[e]
  <2>1. locked[e] # None => locked[e] \in Threads /\ locked[e] # t
    BY <1>1, <1>9 DEF IInv, TypeOK, MutexOK
  <2>2. Reached(e)' = Reached(e)
    BY <2>1, <1>1, <1>3 DEF Reached
  <2> QED
    BY <2>2, <1>2, <1>9, <1>1 DEF IInv, TypeOK
<1>10. Reached(d) = o /\ Reached(d)' = o + g
  BY <1>1, <1>3 DEF Reached, o
<1> DEFINE s == taken[d]
<1>11. /\ s \in Seq(Nat)
       /\ \A i, j \in DOMAIN s : i < j => s[i] < s[j]
       /\ Range(s) = {q \in DOMAIN claims : q < o}
  BY <1>1, <1>10 DEF IInv, TypeOK, EachRecordOnce
<1>12. /\ \A i, j \in DOMAIN taken'[d] : i < j => taken'[d][i] < taken'[d][j]
       /\ Range(taken'[d]) = {q \in DOMAIN claims : q < o + g}
  <2>1. CASE g = 0 /\ taken' = taken
    BY <2>1, <1>4, <1>11
  <2>2. CASE o \in DOMAIN claims /\ g = claims[o] /\ taken' = [taken EXCEPT ![d] = Append(@, o)]
    <3>1. taken'[d] = Append(s, o)
      BY <2>2, <1>1 DEF IInv, TypeOK
    <3> HIDE DEF s
    <3>0. DOMAIN s = 1 .. Len(s) /\ Len(s) \in Nat
      BY <1>11
    <3>2. /\ DOMAIN Append(s, o) = DOMAIN s \cup {Len(s) + 1}
          /\ Len(s) + 1 \notin DOMAIN s
          /\ \A i \in DOMAIN s : Append(s, o)[i] = s[i] /\ i \in Nat /\ i < Len(s) + 1
          /\ Append(s, o)[Len(s) + 1] = o
          /\ Len(s) \in Nat
      <4>1. /\ DOMAIN Append(s, o) = 1 .. Len(s) + 1
            /\ \A i \in 1 .. Len(s) : Append(s, o)[i] = s[i]
            /\ Append(s, o)[Len(s) + 1] = o
        BY <1>4, <1>11
      <4> QED
        BY <4>1, <3>0
    <3>3. \A i \in DOMAIN s : s[i] \in DOMAIN claims /\ s[i] < o
      BY <1>11 DEF Range
    <3>4. ASSUME NEW i \in DOMAIN Append(s, o), NEW j \in DOMAIN Append(s, o), i < j
          PROVE  Append(s, o)[i] < Append(s, o)[j]
      <4>1. i \in DOMAIN s
        BY <3>2, <3>4
      <4>2. CASE j \in DOMAIN s
        BY <4>1, <4>2, <3>2, <3>4, <1>11
      <4>3. CASE j = Len(s) + 1
        BY <4>1, <4>3, <3>2, <3>3
      <4> QED
        BY <4>2, <4>3, <3>2
    <3>5. Range(Append(s, o)) = Range(s) \cup {o}
      BY <3>2 DEF Range
    <3>6. ASSUME NEW q \in DOMAIN claims
          PROVE  q < o + claims[o] <=> q < o \/ q = o
      <4>1. q \in Nat /\ claims[o] \in Nat /\ claims[o] > 0
        BY <2>2 DEF IInv, TypeOK, Apart
      <4>2. o < q => o + claims[o] <= q
        BY <2>2 DEF IInv, Apart
      <4> QED
        BY <4>1, <4>2, <1>4
    <3>7. {q \in DOMAIN claims : q < o + g} = {q \in DOMAIN claims : q < o} \cup {o}
      BY <2>2, <3>6
    <3>8. Range(taken'[d]) = {q \in DOMAIN claims : q < o + g}
      BY <3>1, <3>5, <3>7, <1>11
    <3>9. \A i, j \in DOMAIN taken'[d] : i < j => taken'[d][i] < taken'[d][j]
      BY <3>1, <3>4
    <3> QED
      BY <3>8, <3>9
  <2> QED
    BY <1>2, <2>1, <2>2
<1>13. EachRecordOnce'
  <2> SUFFICES ASSUME NEW e \in Logs
               PROVE  /\ \A i, j \in DOMAIN taken'[e] : i < j => taken'[e][i] < taken'[e][j]
                      /\ Range(taken'[e]) = {q \in DOMAIN claims : q < Reached(e)'}
    BY <1>1 DEF EachRecordOnce
  <2>1. CASE e = d
    BY <2>1, <1>10, <1>12
  <2>2. CASE e # d
    BY <2>2, <1>9 DEF IInv, EachRecordOnce
  <2> QED
    BY <2>1, <2>2
<1> QED
  BY <1>5, <1>6, <1>7, <1>8, <1>13 DEF IInv

LEMMA AdvanceKeeps ==
    ASSUME IInv, NEW t \in Threads, Advance(t)
    PROVE  IInv'
<1> DEFINE d == call[t].log
           g == call[t].got
<1>1. /\ call[t].pc = "advance"
      /\ d \in Logs
      /\ locked[d] = t
      /\ t # None
      /\ offset' = [offset EXCEPT ![d] = @ + g]
      /\ locked' = [locked EXCEPT ![d] = None]
      /\ call' = [call EXCEPT ![t] = Idle]
      /\ UNCHANGED <<claims, size, rights, taken>>
  BY NoneAssumption DEF Advance, IInv, MutexOK
<1>2. g \in Nat
  BY DEF IInv, TypeOK, Call
<1>3. /\ call'[t].pc = "idle"
      /\ \A u \in Threads : u # t => call'[u] = call[u]
      /\ locked'[d] = None
      /\ \A e \in Logs : e # d => locked'[e] = locked[e] /\ offset'[e] = offset[e]
      /\ offset'[d] = offset[d] + g
      /\ offset[d] \in Nat
  BY <1>1 DEF IInv, TypeOK, Idle
<1>4. TypeOK'
  BY <1>1, <1>2 DEF IInv, TypeOK, Call, Idle
<1>5. \A e \in Logs : e # d /\ locked[e] # None => locked[e] \in Threads /\ locked[e] # t
  BY <1>1 DEF IInv, TypeOK, MutexOK
<1>6. MutexOK'
  <2>1. \A u \in Threads : call'[u].pc # "idle" => call'[u].log \in Logs
    BY <1>3 DEF IInv, MutexOK
  <2>2. \A u \in Threads : call'[u].pc \in {"read", "advance"} => locked'[call'[u].log] = u
    <3> SUFFICES ASSUME NEW u \in Threads, u # t, call[u].pc \in {"read", "advance"}
                 PROVE  locked'[call[u].log] = u
      BY <1>3
    <3>1. locked[call[u].log] = u /\ call[u].log \in Logs
      BY DEF IInv, MutexOK
    <3> QED
      BY <3>1, <1>1, <1>3
  <2>3. \A e \in Logs : locked'[e] # None =>
            call'[locked'[e]].pc \in {"read", "advance"} /\ call'[locked'[e]].log = e
    BY <1>3, <1>5 DEF IInv, MutexOK
  <2> QED
    BY <2>1, <2>2, <2>3 DEF MutexOK
<1>7. ASSUME NEW u \in Threads, u # t, call[u].pc = "advance"
      PROVE  call[u].log \in Logs /\ call[u].log # d
  BY <1>1, <1>7 DEF IInv, MutexOK
<1>8. CopiedOK'
  BY <1>1, <1>3, <1>7 DEF IInv, CopiedOK
<1>9. Apart'
  BY <1>1 DEF IInv, Apart
<1>10. offset[d] + g \in Boundaries
  BY <1>1, <1>3 DEF IInv, CopiedOK, NoSliceOutOfRange, Boundaries
<1>11. NoSliceOutOfRange'
  BY <1>1, <1>3, <1>10 DEF IInv, NoSliceOutOfRange, Boundaries
<1>12. \A e \in Logs : Reached(e)' = Reached(e)
  BY <1>1, <1>3, <1>5 DEF Reached
<1>13. EachRecordOnce'
  BY <1>1, <1>12 DEF IInv, EachRecordOnce
<1> QED
  BY <1>4, <1>6, <1>8, <1>9, <1>11, <1>13 DEF IInv

-----------------------------------------------------------------------------
LEMMA StutterKeeps == IInv /\ UNCHANGED vars => IInv'
  BY DEF IInv, vars, TypeOK, MutexOK, Apart, CopiedOK, NoSliceOutOfRange,
         EachRecordOnce, Boundaries, Reached

LEMMA Invariant == Spec => []IInv
<1>1. ASSUME IInv, Next
      PROVE  IInv'
  <2>1. CASE \E d \in Logs : \E rs \in {{"write"}, {"read", "write"}} : Create(d, rs)
    BY <1>1, <2>1, CreateKeeps
  <2>2. CASE \E t \in Threads : \E d \in Logs : Read(t, d)
    BY <1>1, <2>2, ReadKeeps
  <2>3. CASE \E t \in Threads : \E d \in Logs : \E len \in Lengths : Write(t, d, len)
    BY <1>1, <2>3, WriteKeeps
  <2>4. CASE \E t \in Threads : Lock(t)
    BY <1>1, <2>4, LockKeeps
  <2>5. CASE \E t \in Threads : ReadAt(t)
    BY <1>1, <2>5, ReadAtKeeps
  <2>6. CASE \E t \in Threads : Advance(t)
    BY <1>1, <2>6, AdvanceKeeps
  <2> QED
    BY <1>1, <2>1, <2>2, <2>3, <2>4, <2>5, <2>6 DEF Next
<1> QED
  BY InitOK, StutterKeeps, <1>1, PTL DEF Spec

\* No read of the debug log leaves the buffer or starts inside a record, for
\* any lengths of texts and any number of readers and writers.
THEOREM ReadsStayInside == Spec => []NoSliceOutOfRange
<1>1. IInv => NoSliceOutOfRange
  BY DEF IInv
<1> QED
  BY Invariant, <1>1, PTL

\* Every DebugLog object reads every record once and in order, for any number
\* of threads that share it (DebugLog::read keeps the offset locked).
THEOREM ReadsEachOnce == Spec => []EachRecordOnce
<1>1. IInv => EachRecordOnce
  BY DEF IInv
<1> QED
  BY Invariant, <1>1, PTL
=============================================================================
