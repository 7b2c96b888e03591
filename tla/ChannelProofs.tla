---------------------------- MODULE ChannelProofs ----------------------------
(* Theorems of ChannelSyscall for every set of processes, threads, ends and *)
(* handles, and every number of handle values.                              *)
EXTENDS ChannelChapters, SequenceTheorems, FiniteSetTheorems, TLAPS

\* What a call holds at its steps.
Consistent(c) ==
    /\ c.pc = "idle" => c = Idle
    /\ c.pc \in {"send", "push", "take", "copy"} => c.ref \in Ends
    /\ c.pc = "take" => c.held = <<>>
    /\ c.pc = "push" => c.up = Peer[c.ref]
    /\ c.pc \in {"find", "send", "push", "copy"} => c.data \in Lengths
    /\ c.pc = "first" => c.held # <<>>
    /\ c.pc \in {"find", "send", "push"} =>
           \A h \in Range(c.held) : "transfer" \in Rights[h]
CallOK == \A t \in Threads : Consistent(call[t])

\* Only what was made is anywhere.
MadeOK ==
    /\ \A h \in Handles : Placed(h) => h \in made
    /\ \A t \in Threads, e \in Ends : e \in {call[t].ref, call[t].up} => ~Unmade(e)
    /\ \A e \in Ends : queue[e] # <<>> => ~Unmade(e)

IInv == TypeOK /\ CallOK /\ MadeOK

-----------------------------------------------------------------------------
LEMMA InSeq ==
    ASSUME NEW S, NEW q \in Seq(S)
    PROVE  Len(q) \in Nat /\ DOMAIN q = 1 .. Len(q) /\ \A i \in 1 .. Len(q) : q[i] \in S
OBVIOUS

\* Sequences: what a queue carries after a push and after a pop.
LEMMA CarriesAppend ==
    ASSUME NEW q \in Seq(Message), NEW m \in Message, NEW h
    PROVE  Carries(Append(q, m), h) <=> Carries(q, h) \/ h \in Range(m.handles)
<1> DEFINE r == Append(q, m)
<1>1. /\ DOMAIN q = 1 .. Len(q) /\ Len(q) \in Nat
      /\ DOMAIN r = 1 .. Len(q) + 1
      /\ r[Len(q) + 1] = m
      /\ \A i \in 1 .. Len(q) : r[i] = q[i]
  OBVIOUS
<1>2. \A i \in DOMAIN r : i \in DOMAIN q \/ i = Len(q) + 1
  BY <1>1
<1> HIDE DEF r
<1> QED
  BY <1>1, <1>2 DEF Carries

LEMMA CarriesTail ==
    ASSUME NEW q \in Seq(Message), q # <<>>, NEW h
    PROVE  Carries(q, h) <=> Carries(Tail(q), h) \/ h \in Range(Head(q).handles)
<1> DEFINE r == Tail(q)
<1>1. /\ DOMAIN q = 1 .. Len(q) /\ Len(q) \in Nat \ {0}
      /\ DOMAIN r = 1 .. Len(q) - 1
      /\ Head(q) = q[1]
      /\ \A i \in 1 .. Len(q) - 1 : r[i] = q[i + 1]
  OBVIOUS
<1>2. ASSUME Carries(q, h) PROVE Carries(r, h) \/ h \in Range(Head(q).handles)
  <2>1. PICK i \in DOMAIN q : h \in Range(q[i].handles)
    BY <1>2 DEF Carries
  <2>2. CASE i = 1
    BY <1>1, <2>1, <2>2
  <2>3. CASE i # 1
    <3>1. i - 1 \in DOMAIN r /\ r[i - 1] = q[i]
      <4> HIDE DEF r
      <4> QED
        BY <1>1, <2>1, <2>3
    <3> QED
      BY <2>1, <3>1 DEF Carries
  <2> QED
    BY <2>2, <2>3
<1>3. ASSUME Carries(r, h) PROVE Carries(q, h)
  <2>1. PICK i \in DOMAIN r : h \in Range(r[i].handles)
    BY <1>3 DEF Carries
  <2>2. i + 1 \in DOMAIN q /\ r[i] = q[i + 1]
    <3> HIDE DEF r
    <3> QED
      BY <1>1, <2>1
  <2> QED
    BY <2>1, <2>2 DEF Carries
<1>4. ASSUME h \in Range(Head(q).handles) PROVE Carries(q, h)
  <2>1. 1 \in DOMAIN q /\ h \in Range(q[1].handles)
    BY <1>1, <1>4
  <2> QED
    BY <2>1 DEF Carries
<1> QED
  BY <1>2, <1>3, <1>4

LEMMA IsSeq ==
    ASSUME NEW S, NEW n \in Nat, NEW f \in [1 .. n -> S]
    PROVE  f \in Seq(S) /\ Len(f) = n
<1>1. f \in Seq(S)
  BY SeqDef
<1> QED
  BY <1>1, LenProperties

LEMMA ContentsAppend ==
    ASSUME NEW q \in Seq(Message), NEW m \in Message
    PROVE  Contents(Append(q, m)) = Append(Contents(q), m.data)
<1> DEFINE n == Len(q)
<1>1. n \in Nat /\ DOMAIN q = 1 .. n /\ \A i \in 1 .. n : q[i].data \in Lengths
  <2>1. \A i \in 1 .. n : q[i] \in Message
    BY InSeq
  <2> QED
    BY <2>1, InSeq DEF Message
<1>2. Contents(q) \in Seq(Lengths) /\ Len(Contents(q)) = n
  <2>1. Contents(q) \in [1 .. n -> Lengths]
    BY <1>1 DEF Contents
  <2> QED
    BY <1>1, <2>1, IsSeq
<1>3. Append(Contents(q), m.data) =
        [i \in 1 .. n + 1 |-> IF i <= n THEN q[i].data ELSE m.data]
  BY <1>1, <1>2 DEF Contents
<1>4. DOMAIN Append(q, m) = 1 .. n + 1
      /\ \A i \in 1 .. n + 1 : Append(q, m)[i] = IF i <= n THEN q[i] ELSE m
  BY <1>1
<1>5. Contents(Append(q, m)) =
        [i \in 1 .. n + 1 |-> IF i <= n THEN q[i].data ELSE m.data]
  BY <1>4 DEF Contents
<1> QED
  BY <1>3, <1>5

LEMMA ContentsTail ==
    ASSUME NEW q \in Seq(Message), q # <<>>
    PROVE  Contents(q) # <<>> /\ Contents(Tail(q)) = Tail(Contents(q))
<1> DEFINE n == Len(q)
<1>1. n \in Nat \ {0} /\ DOMAIN q = 1 .. n /\ \A i \in 1 .. n : q[i].data \in Lengths
  <2>1. \A i \in 1 .. n : q[i] \in Message
    BY InSeq
  <2> QED
    BY <2>1, EmptySeq, InSeq DEF Message
<1>2. Contents(q) \in Seq(Lengths) /\ Len(Contents(q)) = n
  <2>1. Contents(q) \in [1 .. n -> Lengths]
    BY <1>1 DEF Contents
  <2> QED
    BY <1>1, <2>1, IsSeq
<1>3. Contents(q) # <<>>
  BY <1>1, <1>2
<1>4. Tail(Contents(q)) = [i \in 1 .. n - 1 |-> q[i + 1].data]
  BY <1>1, <1>2 DEF Contents
<1>5. DOMAIN Tail(q) = 1 .. n - 1 /\ \A i \in 1 .. n - 1 : Tail(q)[i] = q[i + 1]
  BY <1>1
<1> HIDE DEF n
<1> QED
  BY <1>3, <1>4, <1>5 DEF Contents

-----------------------------------------------------------------------------
\* A step that only moves handles about, or drops some: nothing comes to life.
Shrinks ==
    /\ made' = made /\ queue' = queue
    /\ \A h \in Handles : Placed(h)' => Placed(h)
    /\ \A t \in Threads, e \in Ends : e \in {call'[t].ref, call'[t].up} => Alive(e)

LEMMA Remainder ==
    ASSUME NEW a \in Nat, NEW b \in Nat \ {0}
    PROVE  a % b \in 0 .. b - 1
OBVIOUS

LEMMA IdleType == Idle \in Call
BY BoundAssumption DEF Idle, Call, Steps, Keys

\* Every handle of the list gets a value; what had one of these loses it.
LEMMA AddSteps ==
    ASSUME TypeOK, NEW p \in Procs, NEW hs \in Seq(Handles), Add(p, hs)
    PROVE  /\ table' \in [Procs -> [Keys -> Handles \cup {None}]]
           /\ nextKey' \in [Procs -> Keys]
           /\ \A h \in Handles : InTable(h)' => InTable(h) \/ h \in Range(hs)
<1> DEFINE Turn(k) == 1 + ((k + KeyCount - nextKey[p]) % KeyCount)
           row == [k \in Keys |-> IF Turn(k) <= Len(hs) THEN hs[Turn(k)] ELSE table[p][k]]
<1>1. KeyCount \in Nat \ {0} /\ nextKey[p] \in Keys
  BY BoundAssumption DEF TypeOK
<1>2. ASSUME NEW k \in Keys PROVE Turn(k) \in Nat \ {0}
  <2> DEFINE a == k + KeyCount - nextKey[p]
  <2>1. a \in Nat
    BY <1>1 DEF Keys
  <2> HIDE DEF a
  <2>2. a % KeyCount \in 0 .. KeyCount - 1
    BY <1>1, <2>1, Remainder
  <2>3. 1 + (a % KeyCount) \in Nat \ {0}
    BY <1>1, <2>2
  <2> QED
    BY <2>3 DEF a
<1>3. Len(hs) \in Nat /\ DOMAIN hs = 1 .. Len(hs) /\ \A i \in 1 .. Len(hs) : hs[i] \in Handles
  BY InSeq
<1>4. table' = [table EXCEPT ![p] = row]
  BY DEF Add
<1> HIDE DEF Turn
<1>5. \A k \in Keys : row[k] = table[p][k] \/ row[k] \in Range(hs)
  BY <1>2, <1>3 DEF Range
<1>6. Range(hs) \subseteq Handles
  BY <1>3 DEF Range
<1>7. row \in [Keys -> Handles \cup {None}]
  BY <1>5, <1>6 DEF TypeOK
<1>8. table' \in [Procs -> [Keys -> Handles \cup {None}]]
  <2> HIDE DEF row
  <2> QED
    BY <1>4, <1>7 DEF TypeOK
<1>9. nextKey' \in [Procs -> Keys]
  <2>1. (nextKey[p] + Len(hs)) % KeyCount \in Keys
    BY <1>1, <1>3 DEF Keys
  <2> QED
    BY <2>1 DEF Add, TypeOK
<1>10. ASSUME NEW h \in Handles, InTable(h)'
       PROVE  InTable(h) \/ h \in Range(hs)
  <2>1. PICK r \in Procs, k \in Keys : table'[r][k] = h
    BY <1>10 DEF InTable
  <2>2. CASE r = p
    <3>1. table'[r][k] = row[k]
      <4> HIDE DEF row
      <4> QED
        BY <1>4, <2>2 DEF TypeOK
    <3> QED
      BY <1>5, <2>1, <2>2, <3>1 DEF InTable
  <2>3. CASE r # p
    BY <1>4, <2>1, <2>3 DEF InTable, TypeOK
  <2> QED
    BY <2>2, <2>3
<1> QED
  BY <1>8, <1>9, <1>10

\* A call that goes on with what was somewhere before.
LEMMA CallSteps ==
    ASSUME IInv, NEW t \in Threads, NEW c \in Call, Consistent(c),
           call' = [call EXCEPT ![t] = c],
           made' = made, queue' = queue,
           \A h \in Handles : h \in kernel' \/ InTable(h)' \/ h \in Range(c.held)
                                  => Placed(h),
           \A e \in Ends : e \in {c.ref, c.up} => Alive(e)
    PROVE  call' \in [Threads -> Call] /\ CallOK' /\ Shrinks
<1>1. call' \in [Threads -> Call]
  BY DEF IInv, TypeOK
<1>2. \A s \in Threads : call'[s] = IF s = t THEN c ELSE call[s]
  BY DEF IInv, TypeOK
<1>3. CallOK'
  BY <1>2 DEF CallOK, IInv
<1>4. ASSUME NEW h \in Handles, Placed(h)' PROVE Placed(h)
  <2>1. CASE InCall(h)'
    <3>1. PICK s \in Threads : h \in Range(call'[s].held)
      BY <2>1 DEF InCall
    <3> QED
      BY <1>2, <3>1 DEF Placed, InCall
  <2>2. CASE \E e \in Ends : InQueue(h, e)'
    <3>1. \E e \in Ends : InQueue(h, e)
      BY <2>2 DEF InQueue
    <3> QED
      BY <3>1 DEF Placed
  <2> QED
    BY <1>4, <2>1, <2>2 DEF Placed
<1>5. ASSUME NEW s \in Threads, NEW e \in Ends, e \in {call'[s].ref, call'[s].up}
      PROVE  Alive(e)
  <2>1. CASE s = t
    BY <1>2, <1>5, <2>1
  <2>2. CASE s # t
    BY <1>2, <1>5, <2>2 DEF Alive
  <2> QED
    BY <2>1, <2>2
<1> QED
  BY <1>1, <1>3, <1>4, <1>5 DEF Shrinks

LEMMA FinishSteps ==
    ASSUME IInv, NEW t \in Threads, NEW hs \in Seq(Handles), Finish(t, hs),
           made' = made, queue' = queue,
           \A h \in Handles : h \in kernel' \/ InTable(h)' \/ h \in Range(hs)
                                  => Placed(h)
    PROVE  call' \in [Threads -> Call] /\ CallOK' /\ Shrinks
<1> DEFINE c == [Idle EXCEPT !.pc = "done", !.held = hs,
                             !.ref = call[t].ref, !.up = call[t].up]
<1>1. c \in Call
  <2>1. call[t] \in Call
    BY DEF IInv, TypeOK
  <2>2. call[t].ref \in Ends \cup {None} /\ call[t].up \in Ends \cup {None}
    BY <2>1 DEF Call
  <2> QED
    BY <2>2, IdleType DEF Call, Steps
<1>2. c.pc = "done" /\ c.held = hs /\ c.ref = call[t].ref /\ c.up = call[t].up
  BY DEF Idle
<1>3. call' = [call EXCEPT ![t] = c]
  BY DEF Finish
<1> HIDE DEF c
<1>4. Consistent(c)
  BY <1>2 DEF Consistent
<1>5. \A e \in Ends : e \in {c.ref, c.up} => Alive(e)
  BY <1>2 DEF Alive
<1> QED
  BY <1>1, <1>2, <1>3, <1>4, <1>5, CallSteps

-----------------------------------------------------------------------------
\* One lemma for each step that only shrinks what is referred to.
LEMMA TakeSteps ==
    ASSUME IInv, NEW t \in Threads, NEW k \in Keys,
           NEW ks \in ListsOf(Keys, MaxWrite), NEW d \in Lengths, Take(t, k, ks, d)
    PROVE  TypeOK' /\ CallOK' /\ Shrinks
<1> DEFINE p == ProcOf[t]
           hs == [i \in DOMAIN ks |-> table[p][ks[i]]]
           c == [Idle EXCEPT !.pc = "find", !.key = k, !.held = hs, !.data = d]
<1>1. PICK n \in Nat : ks \in [1 .. n -> Keys]
  BY BoundAssumption DEF ListsOf
<1>2. p \in Procs
  BY ProcAssumption
<1>3. /\ table' \in [Procs -> [Keys -> Handles \cup {None}]]
      /\ \A r \in Procs, v \in Keys : table'[r][v] \in {table[r][v], None}
  BY <1>2 DEF Take, IInv, TypeOK
<1>4. \A h \in Handles : InTable(h)' => InTable(h)
  BY <1>3, NoneAssumption DEF InTable
<1>5. UNCHANGED <<nextKey, queue, kernel, made>>
  BY DEF Take
<1>6. CASE Found(p, ks) # DOMAIN ks
  <2>1. call' = call
    BY <1>6 DEF Take
  <2>2. TypeOK' /\ CallOK'
    BY <1>3, <1>5, <2>1 DEF IInv, TypeOK, CallOK
  <2>3. \A h \in Handles : Placed(h)' => Placed(h)
    BY <1>4, <1>5, <2>1 DEF Placed, InCall, InQueue
  <2> QED
    BY <1>5, <2>1, <2>2, <2>3 DEF Shrinks, Alive
<1>7. CASE Found(p, ks) = DOMAIN ks
  <2>1. ASSUME NEW i \in 1 .. n PROVE hs[i] \in Handles
    <3>1. i \in DOMAIN ks /\ ks[i] \in Keys /\ i \in 1 .. i
      BY <1>1
    <3>2. table[p][ks[i]] # None
      BY <1>7, <3>1 DEF Found
    <3> QED
      BY <1>2, <3>1, <3>2 DEF IInv, TypeOK
  <2>2. hs \in [1 .. n -> Handles]
    BY <1>1, <2>1
  <2>3. hs \in Seq(Handles)
    BY <2>2, IsSeq
  <2>4. \A h \in Range(hs) : InTable(h)
    BY <1>1, <1>2 DEF Range, InTable
  <2>5. \A h \in Handles : h \in kernel' \/ InTable(h)' \/ h \in Range(hs) => Placed(h)
    BY <1>4, <1>5, <2>4 DEF Placed
  <2>6. CASE Refused(k, ks, hs)
    <3>1. Finish(t, hs)
      BY <1>7, <2>6 DEF Take
    <3> HIDE DEF hs
    <3>2. call' \in [Threads -> Call] /\ CallOK' /\ Shrinks
      BY <1>5, <2>3, <2>5, <3>1, FinishSteps
    <3> QED
      BY <1>3, <1>5, <3>2 DEF IInv, TypeOK
  <2>7. CASE ~Refused(k, ks, hs)
    <3>1. call' = [call EXCEPT ![t] = c]
      BY <1>7, <2>7 DEF Take
    <3>2. \A h \in Range(hs) : "transfer" \in Rights[h]
      BY <2>7 DEF Refused
    <3> HIDE DEF hs
    <3>3. c \in Call
      BY <2>3, IdleType DEF Call, Steps
    <3>4. c.pc = "find" /\ c.held = hs /\ c.data = d /\ c.ref = None /\ c.up = None
      BY DEF Idle
    <3> HIDE DEF c
    <3>5. Consistent(c)
      BY <3>2, <3>4 DEF Consistent
    <3>6. \A e \in Ends : e \notin {c.ref, c.up}
      BY <3>4, NoneAssumption
    <3>7. call' \in [Threads -> Call] /\ CallOK' /\ Shrinks
      BY <1>5, <2>5, <3>1, <3>3, <3>4, <3>5, <3>6, CallSteps
    <3> QED
      BY <1>3, <1>5, <3>7 DEF IInv, TypeOK
  <2> QED
    BY <2>6, <2>7
<1> QED
  BY <1>6, <1>7

\* The tables, queues and handles of the kernel stay, the call goes on to c.
LEMMA CallOnly ==
    ASSUME IInv, NEW t \in Threads, NEW c \in Call, Consistent(c),
           call' = [call EXCEPT ![t] = c],
           UNCHANGED <<table, nextKey, queue, kernel, made>>,
           c.held = call[t].held \/ c.held = <<>>,
           \A e \in Ends : e \in {c.ref, c.up} => Alive(e)
    PROVE  TypeOK' /\ CallOK' /\ Shrinks
<1>1. \A h \in Handles : h \in kernel' \/ InTable(h)' \/ h \in Range(c.held) => Placed(h)
  <2>1. \A h \in Range(c.held) : InCall(h)
    BY DEF InCall, Range
  <2> QED
    BY <2>1 DEF Placed, InTable
<1>2. call' \in [Threads -> Call] /\ CallOK' /\ Shrinks
  BY <1>1, CallSteps
<1> QED
  BY <1>2 DEF IInv, TypeOK

LEMMA FinishOnly ==
    ASSUME IInv, NEW t \in Threads, Finish(t, call[t].held),
           UNCHANGED <<table, nextKey, queue, kernel, made>>
    PROVE  TypeOK' /\ CallOK' /\ Shrinks
<1>1. call[t].held \in Seq(Handles)
  BY DEF IInv, TypeOK, Call
<1>2. \A h \in Handles : h \in kernel' \/ InTable(h)' \/ h \in Range(call[t].held) => Placed(h)
  BY DEF Placed, InTable, InCall
<1>3. call' \in [Threads -> Call] /\ CallOK' /\ Shrinks
  BY <1>1, <1>2, FinishSteps
<1> QED
  BY <1>3 DEF IInv, TypeOK

\* What get_object_with_rights finds is alive: its handle is in the table.
LEMMA PermitsAlive ==
    ASSUME IInv, NEW t \in Threads, NEW k \in Keys, NEW right,
           Permits(ProcOf[t], k, right)
    PROVE  /\ Object[table[ProcOf[t]][k]] \in Ends
           /\ Alive(Object[table[ProcOf[t]][k]])
<1>1. table[ProcOf[t]][k] \in Handles
  BY ProcAssumption DEF Permits, IInv, TypeOK
<1>2. Placed(table[ProcOf[t]][k])
  BY ProcAssumption DEF Placed, InTable
<1> QED
  BY <1>1, <1>2 DEF Permits, Alive

LEMMA FindSteps ==
    ASSUME IInv, NEW t \in Threads, FindToWrite(t)
    PROVE  TypeOK' /\ CallOK' /\ Shrinks
<1> DEFINE k == call[t].key
           e == Object[table[ProcOf[t]][k]]
           c == [call[t] EXCEPT !.pc = "send", !.ref = e]
<1>1. call[t] \in Call /\ k \in Keys /\ call[t].pc = "find" /\ Consistent(call[t])
  BY DEF IInv, TypeOK, Call, CallOK, FindToWrite
<1>2. CASE Permits(ProcOf[t], k, "write")
  <2>1. e \in Ends /\ Alive(e)
    BY <1>1, <1>2, PermitsAlive
  <2>2. call' = [call EXCEPT ![t] = c]
    BY <1>1, <1>2 DEF FindToWrite, IInv, TypeOK, Call
  <2>3. /\ c \in Call /\ c.pc = "send" /\ c.ref = e /\ c.up = call[t].up
        /\ c.held = call[t].held /\ c.data = call[t].data
    <3> HIDE DEF e
    <3> QED
      BY <1>1, <2>1 DEF Call, Steps
  <2> HIDE DEF e, c
  <2>4. Consistent(c)
    BY <1>1, <2>1, <2>3 DEF Consistent
  <2>5. \A f \in Ends : f \in {c.ref, c.up} => Alive(f)
    BY <2>1, <2>3 DEF Alive
  <2> QED
    BY <2>2, <2>3, <2>4, <2>5, CallOnly DEF FindToWrite
<1>3. CASE ~Permits(ProcOf[t], k, "write")
  BY <1>3, FinishOnly DEF FindToWrite
<1> QED
  BY <1>2, <1>3

LEMMA UpgradeSteps ==
    ASSUME IInv, NEW t \in Threads, Upgrade(t)
    PROVE  TypeOK' /\ CallOK' /\ Shrinks
<1> DEFINE e == Peer[call[t].ref]
           c == [call[t] EXCEPT !.pc = "push", !.up = e]
<1>1. call[t] \in Call /\ call[t].pc = "send" /\ Consistent(call[t])
  BY DEF IInv, TypeOK, CallOK, Upgrade
<1>2. call[t].ref \in Ends /\ e \in Ends
  BY <1>1, PeerAssumption DEF Consistent
<1>3. CASE Alive(e)
  <2>1. call' = [call EXCEPT ![t] = c]
    BY <1>1, <1>3 DEF Upgrade, Upgrades, IInv, TypeOK, Call
  <2>2. /\ c \in Call /\ c.pc = "push" /\ c.ref = call[t].ref /\ c.up = e
        /\ c.held = call[t].held /\ c.data = call[t].data
    <3> HIDE DEF e
    <3> QED
      BY <1>1, <1>2 DEF Call, Steps
  <2>3. Consistent(c)
    <3> HIDE DEF c
    <3> QED
      BY <1>1, <2>2 DEF Consistent
  <2> HIDE DEF e, c
  <2>4. \A f \in Ends : f \in {c.ref, c.up} => Alive(f)
    BY <1>3, <2>2 DEF Alive
  <2> QED
    BY <2>1, <2>2, <2>3, <2>4, CallOnly DEF Upgrade
<1>4. CASE ~Alive(e)
  BY <1>4, FinishOnly DEF Upgrade, Upgrades
<1> QED
  BY <1>3, <1>4

LEMMA FindToReadSteps ==
    ASSUME IInv, NEW t \in Threads, NEW k \in Keys, NEW keep \in BOOLEAN,
           NEW b \in Buffers, FindToRead(t, k, keep, b)
    PROVE  TypeOK' /\ CallOK' /\ Shrinks
<1> DEFINE e == Object[table[ProcOf[t]][k]]
           c == [Idle EXCEPT !.pc = "take", !.ref = e, !.keep = keep, !.buffer = b]
<1>1. e \in Ends /\ Alive(e)
  BY PermitsAlive DEF FindToRead
<1>2. call' = [call EXCEPT ![t] = c]
  BY DEF FindToRead
<1> HIDE DEF e
<1>3. c \in Call
  BY <1>1, IdleType, BoundAssumption DEF Call, Steps
<1>4. c.pc = "take" /\ c.ref = e /\ c.up = None /\ c.held = <<>>
  BY DEF Idle
<1> HIDE DEF c
<1>5. Consistent(c)
  BY <1>1, <1>4 DEF Consistent
<1>6. \A f \in Ends : f \in {c.ref, c.up} => Alive(f)
  BY <1>1, <1>4, NoneAssumption
<1> QED
  BY <1>2, <1>3, <1>4, <1>5, <1>6, CallOnly DEF FindToRead

LEMMA ReturnSteps ==
    ASSUME IInv, NEW t \in Threads, Return(t)
    PROVE  TypeOK' /\ CallOK' /\ Shrinks
<1>1. Consistent(Idle) /\ Idle.held = <<>> /\ Idle.ref = None /\ Idle.up = None
  BY DEF Consistent, Idle
<1>2. call' = [call EXCEPT ![t] = Idle] /\ UNCHANGED <<table, nextKey, queue, kernel, made>>
  BY DEF Return
<1>3. \A e \in Ends : e \in {Idle.ref, Idle.up} => Alive(e)
  BY <1>1, NoneAssumption
<1>4. Idle \in Call
  BY IdleType
<1> QED
  BY <1>1, <1>2, <1>3, <1>4, CallOnly

LEMMA DiscardSteps ==
    ASSUME IInv, NEW t \in Threads, Discard(t)
    PROVE  TypeOK' /\ CallOK' /\ Shrinks
BY FinishOnly DEF Discard

\* Handles of a call go into its process's table, what the call keeps is rest.
LEMMA AddCallSteps ==
    ASSUME IInv, NEW t \in Threads, NEW hs \in Seq(Handles), AddAll(t, hs),
           Range(hs) \subseteq Range(call[t].held),
           UNCHANGED <<queue, kernel, made>>
    PROVE  /\ TypeOK <=> call \in [Threads -> Call]
           /\ TypeOK' <=> call' \in [Threads -> Call]
           /\ \A h \in Handles : h \in kernel' \/ InTable(h)' => Placed(h)
<1>1. ProcOf[t] \in Procs /\ Add(ProcOf[t], hs)
  BY ProcAssumption DEF AddAll
<1>2. /\ table' \in [Procs -> [Keys -> Handles \cup {None}]]
      /\ nextKey' \in [Procs -> Keys]
      /\ \A h \in Handles : InTable(h)' => InTable(h) \/ h \in Range(hs)
  BY <1>1, AddSteps DEF IInv
<1> QED
  BY <1>2 DEF IInv, TypeOK, Placed, InCall

LEMMA DeliverSteps ==
    ASSUME IInv, NEW t \in Threads, Deliver(t) \/ AddSecond(t)
    PROVE  TypeOK' /\ CallOK' /\ Shrinks
<1>1. AddAll(t, call[t].held) /\ Finish(t, <<>>) /\ UNCHANGED <<queue, kernel, made>>
  BY DEF Deliver, AddSecond
<1>2. call[t].held \in Seq(Handles)
  BY DEF IInv, TypeOK, Call
<1>3. /\ TypeOK' <=> call' \in [Threads -> Call]
      /\ \A h \in Handles : h \in kernel' \/ InTable(h)' => Placed(h)
  BY <1>1, <1>2, AddCallSteps
<1>4. <<>> \in Seq(Handles) /\ Range(<<>>) = {}
  BY DEF Range
<1>5. call' \in [Threads -> Call] /\ CallOK' /\ Shrinks
  BY <1>1, <1>3, <1>4, FinishSteps
<1> QED
  BY <1>3, <1>5

LEMMA AddFirstSteps ==
    ASSUME IInv, NEW t \in Threads, AddFirst(t)
    PROVE  TypeOK' /\ CallOK' /\ Shrinks
<1> DEFINE q == call[t].held
           hs == <<Head(q)>>
           c == [call[t] EXCEPT !.pc = "second", !.held = Tail(q)]
<1>1. call[t] \in Call /\ q \in Seq(Handles) /\ q # <<>> /\ call[t].pc = "first"
  BY DEF IInv, TypeOK, CallOK, Consistent, AddFirst, Call
<1>2. Head(q) \in Handles /\ Tail(q) \in Seq(Handles)
  BY <1>1, HeadTailProperties
<1>3. Head(q) \in Range(q) /\ Range(Tail(q)) \subseteq Range(q)
  <2> HIDE DEF q
  <2>1. /\ DOMAIN q = 1 .. Len(q) /\ Len(q) \in Nat \ {0}
        /\ DOMAIN Tail(q) = 1 .. Len(q) - 1 /\ Head(q) = q[1]
        /\ \A i \in 1 .. Len(q) - 1 : Tail(q)[i] = q[i + 1]
    BY <1>1
  <2>2. Head(q) \in Range(q)
    <3>1. 1 \in DOMAIN q
      BY <2>1
    <3> QED
      BY <2>1, <3>1 DEF Range
  <2>3. ASSUME NEW x \in Range(Tail(q)) PROVE x \in Range(q)
    <3>1. PICK i \in 1 .. Len(q) - 1 : x = Tail(q)[i]
      BY <2>1, <2>3 DEF Range
    <3>2. i + 1 \in DOMAIN q /\ x = q[i + 1]
      BY <2>1, <3>1
    <3> QED
      BY <3>2 DEF Range
  <2> QED
    BY <2>2, <2>3
<1>4. hs \in Seq(Handles) /\ Range(hs) \subseteq Range(q)
  BY <1>2, <1>3 DEF Range
<1>5. AddAll(t, hs) /\ UNCHANGED <<queue, kernel, made>>
  BY DEF AddFirst
<1>6. /\ TypeOK' <=> call' \in [Threads -> Call]
      /\ \A h \in Handles : h \in kernel' \/ InTable(h)' => Placed(h)
  BY <1>4, <1>5, AddCallSteps
<1>7. call' = [call EXCEPT ![t] = c]
  BY <1>1 DEF AddFirst, IInv, TypeOK, Call
<1>8. c.pc = "second" /\ c.held = Tail(q) /\ c.ref = call[t].ref /\ c.up = call[t].up
  BY <1>1 DEF Call
<1>9. c \in Call
  <2> HIDE DEF q
  <2> QED
    BY <1>1, <1>2 DEF Call, Steps
<1> HIDE DEF c
<1>10. Consistent(c)
  BY <1>8 DEF Consistent
<1>11. \A h \in Range(c.held) : InCall(h)
  BY <1>3, <1>8 DEF InCall
<1>12. \A e \in Ends : e \in {c.ref, c.up} => Alive(e)
  BY <1>8 DEF Alive
<1>13. call' \in [Threads -> Call] /\ CallOK' /\ Shrinks
  <2>1. \A h \in Handles : h \in kernel' \/ InTable(h)' \/ h \in Range(c.held) => Placed(h)
    BY <1>6, <1>11 DEF Placed
  <2> QED
    BY <1>5, <1>7, <1>9, <1>10, <1>12, <2>1, CallSteps
<1> QED
  BY <1>6, <1>13

\* The steps outside the calls.
LEMMA OutsideSteps ==
    ASSUME IInv, UNCHANGED <<queue, made, call>>,
           table' \in [Procs -> [Keys -> Handles \cup {None}]],
           nextKey' \in [Procs -> Keys], kernel' \in SUBSET Handles,
           \A h \in Handles : h \in kernel' \/ InTable(h)' => Placed(h)
    PROVE  TypeOK' /\ CallOK' /\ Shrinks
<1>1. TypeOK' /\ CallOK'
  BY DEF IInv, TypeOK, CallOK
<1>2. \A h \in Handles : Placed(h)' => Placed(h)
  BY DEF Placed, InCall, InQueue
<1> QED
  BY <1>1, <1>2 DEF Shrinks, Alive

LEMMA CloseSteps ==
    ASSUME IInv, NEW p \in Procs, NEW k \in Keys, Close(p, k)
    PROVE  TypeOK' /\ CallOK' /\ Shrinks
<1>1. /\ table' \in [Procs -> [Keys -> Handles \cup {None}]]
      /\ \A r \in Procs, v \in Keys : table'[r][v] \in {table[r][v], None}
  BY DEF Close, IInv, TypeOK
<1>2. \A h \in Handles : InTable(h)' => InTable(h)
  BY <1>1, NoneAssumption DEF InTable
<1> QED
  BY <1>1, <1>2, OutsideSteps DEF Close, IInv, TypeOK, Placed

LEMMA GiveSteps ==
    ASSUME IInv, NEW p \in Procs, NEW h \in Handles, Give(p, h)
    PROVE  TypeOK' /\ CallOK' /\ Shrinks
<1>1. <<h>> \in Seq(Handles) /\ Range(<<h>>) = {h}
  BY DEF Range
<1>2. /\ table' \in [Procs -> [Keys -> Handles \cup {None}]]
      /\ nextKey' \in [Procs -> Keys]
      /\ \A g \in Handles : InTable(g)' => InTable(g) \/ g = h
  BY <1>1, AddSteps DEF IInv, Give
<1>3. kernel' \in SUBSET Handles /\ kernel' \subseteq kernel /\ h \in kernel
  BY DEF Give, IInv, TypeOK
<1> QED
  BY <1>2, <1>3, OutsideSteps DEF Give, Placed

LEMMA KernelDropSteps ==
    ASSUME IInv, NEW h \in Handles, KernelDrop(h)
    PROVE  TypeOK' /\ CallOK' /\ Shrinks
<1>1. kernel' \in SUBSET Handles /\ kernel' \subseteq kernel
  BY DEF KernelDrop, IInv, TypeOK
<1>2. \A g \in Handles : InTable(g)' => InTable(g)
  BY DEF KernelDrop, InTable
<1> QED
  BY <1>1, <1>2, OutsideSteps DEF KernelDrop, Placed, IInv, TypeOK

-----------------------------------------------------------------------------
LEMMA AliveMade ==
    ASSUME IInv, NEW e \in Ends, Alive(e)
    PROVE  ~Unmade(e)
BY DEF IInv, MadeOK, Alive, Unmade

\* A step that shrinks closes some ends, and does nothing else to the pipes.
LEMMA ShrinkPipe ==
    ASSUME IInv, Shrinks
    PROVE  /\ MadeOK'
           /\ Channels!Close
           /\ UNCHANGED [e \in Ends |-> Contents(queue[e])]
<1>1. \A e \in Ends : Alive(e)' => Alive(e)
  BY DEF Shrinks, Alive
<1>2. \A e \in Ends : Unmade(e)' <=> Unmade(e)
  BY DEF Shrinks, Unmade
<1>3. \A e \in Ends : Stage(e)' = Stage(e) \/ (Stage(e) = "open" /\ Stage(e)' = "closed")
  BY <1>1, <1>2 DEF Stage
<1>4. \A e \in Ends : Stage(e)' \in {"none", "open", "closed"}
  BY DEF Stage
<1>5. MadeOK'
  <2>1. \A h \in Handles : Placed(h)' => h \in made'
    BY DEF Shrinks, IInv, MadeOK
  <2>2. \A t \in Threads, e \in Ends : e \in {call'[t].ref, call'[t].up} => ~Unmade(e)'
    BY <1>2, AliveMade DEF Shrinks
  <2>3. \A e \in Ends : queue'[e] # <<>> => ~Unmade(e)'
    BY <1>2 DEF Shrinks, IInv, MadeOK
  <2> QED
    BY <2>1, <2>2, <2>3 DEF MadeOK
<1>6. Channels!Close
  BY <1>3, <1>4 DEF Channels!Close
<1>7. UNCHANGED [e \in Ends |-> Contents(queue[e])]
  BY DEF Shrinks
<1> QED
  BY <1>5, <1>6, <1>7

-----------------------------------------------------------------------------
\* The steps at a queue.
LEMMA QueueSteps ==
    ASSUME IInv, NEW e \in Ends, NEW q \in Seq(Message),
           queue' = [queue EXCEPT ![e] = q], NEW h
    PROVE  /\ queue' \in [Ends -> Seq(Message)]
           /\ (\E f \in Ends : InQueue(h, f)') <=>
                  Carries(q, h) \/ \E f \in Ends : f # e /\ InQueue(h, f)
<1>1. \A f \in Ends : queue'[f] = IF f = e THEN q ELSE queue[f]
  BY DEF IInv, TypeOK
<1>2. queue' \in [Ends -> Seq(Message)]
  BY DEF IInv, TypeOK
<1>3. \A f \in Ends : InQueue(h, f)' <=> IF f = e THEN Carries(q, h) ELSE InQueue(h, f)
  BY <1>1 DEF InQueue
<1> QED
  BY <1>2, <1>3

\* A step that keeps all that is referred to keeps the stages.
LEMMA SameStages ==
    ASSUME IInv, made' = made,
           \A h \in Handles : Placed(h)' <=> Placed(h),
           \A t \in Threads : call'[t].ref = call[t].ref /\ call'[t].up = call[t].up
    PROVE  /\ \A e \in Ends : Stage(e)' = Stage(e)
           /\ (\A e \in Ends : queue'[e] # <<>> => ~Unmade(e)) => MadeOK'
<1>1. \A e \in Ends : Alive(e)' <=> Alive(e)
  BY DEF Alive
<1>2. \A e \in Ends : Unmade(e)' <=> Unmade(e)
  BY DEF Unmade
<1> QED
  BY <1>1, <1>2 DEF Stage, MadeOK, IInv

LEMMA PushSteps ==
    ASSUME IInv, NEW t \in Threads, Push(t)
    PROVE  IInv' /\ Channels!Send(call[t].ref, call[t].data)
<1> DEFINE r == call[t].ref
           e == call[t].up
           d == call[t].data
           m == [data |-> d, handles |-> call[t].held]
           q == Append(queue[e], m)
           c == [Idle EXCEPT !.pc = "done", !.held = <<>>, !.ref = r, !.up = e]
<1>1. call[t] \in Call /\ Consistent(call[t]) /\ call[t].pc = "push"
  BY DEF IInv, TypeOK, CallOK, Push
<1>2. r \in Ends /\ e \in Ends /\ e = Peer[r] /\ d \in Lengths
  BY <1>1, PeerAssumption DEF Consistent
<1>3. m \in Message
  BY <1>1, <1>2 DEF Message, Call
<1>4. queue[e] \in Seq(Message)
  BY <1>2 DEF IInv, TypeOK
<1>5. q \in Seq(Message)
  BY <1>3, <1>4
<1>6. queue' = [queue EXCEPT ![e] = q] /\ call' = [call EXCEPT ![t] = c]
  BY DEF Push, PushOn, Finish
<1>7. c \in Call /\ c.pc = "done" /\ c.held = <<>> /\ c.ref = r /\ c.up = e
  BY <1>2, IdleType DEF Call, Steps, Idle
<1>8. UNCHANGED <<table, nextKey, kernel, made>>
  BY DEF Push
<1>9. \A s \in Threads : call'[s] = IF s = t THEN c ELSE call[s]
  BY <1>6 DEF IInv, TypeOK
<1> HIDE DEF c
<1>10. ASSUME NEW h \in Handles PROVE Placed(h)' <=> Placed(h)
  <2>1. Carries(q, h) <=> Carries(queue[e], h) \/ h \in Range(call[t].held)
    BY <1>3, <1>4, CarriesAppend
  <2>2. (\E f \in Ends : InQueue(h, f)') <=>
            Carries(q, h) \/ \E f \in Ends : f # e /\ InQueue(h, f)
    <3> HIDE DEF q, e
    <3> QED
      BY <1>2, <1>5, <1>6, QueueSteps
  <2>3. (\E f \in Ends : InQueue(h, f)') <=>
            h \in Range(call[t].held) \/ \E f \in Ends : InQueue(h, f)
    BY <1>2, <2>1, <2>2 DEF InQueue
  <2>4. InCall(h)' <=> \E s \in Threads : s # t /\ h \in Range(call[s].held)
    BY <1>7, <1>9 DEF InCall, Range
  <2>5. InCall(h) <=> InCall(h)' \/ h \in Range(call[t].held)
    BY <2>4 DEF InCall
  <2> QED
    BY <1>8, <2>3, <2>5 DEF Placed, InTable
<1>11. \A s \in Threads : call'[s].ref = call[s].ref /\ call'[s].up = call[s].up
  BY <1>7, <1>9
<1>12. Alive(r) /\ Alive(e)
  BY <1>2 DEF Alive
<1>13. ~Unmade(r) /\ ~Unmade(e)
  BY <1>2, <1>12, AliveMade
<1>14. \A f \in Ends : Stage(f)' = Stage(f)
  BY <1>8, <1>10, <1>11, SameStages
<1>15. MadeOK'
  <2>1. \A f \in Ends : queue'[f] # <<>> => ~Unmade(f)
    BY <1>2, <1>6, <1>13 DEF IInv, MadeOK, TypeOK
  <2> QED
    BY <1>8, <1>10, <1>11, <2>1, SameStages
<1>16. TypeOK' /\ CallOK'
  <2>1. queue' \in [Ends -> Seq(Message)]
    <3> HIDE DEF q, e
    <3> QED
      BY <1>2, <1>5, <1>6, QueueSteps
  <2>2. Consistent(c)
    BY <1>7 DEF Consistent
  <2>3. CallOK'
    BY <1>9, <2>2 DEF CallOK, IInv
  <2> QED
    BY <1>6, <1>7, <1>8, <2>1, <2>3 DEF IInv, TypeOK
<1>17. Contents(q) = Append(Contents(queue[e]), d)
  BY <1>3, <1>4, ContentsAppend
<1>18. Stage(r) = "open" /\ Stage(Peer[r]) = "open"
  BY <1>2, <1>12, <1>13 DEF Stage
<1>19. [f \in Ends |-> Contents(queue'[f])] =
           [[f \in Ends |-> Contents(queue[f])] EXCEPT ![Peer[r]] = Append(@, d)]
  <2> HIDE DEF q, d
  <2>1. \A f \in Ends : queue'[f] = IF f = e THEN q ELSE queue[f]
    BY <1>6 DEF IInv, TypeOK
  <2> QED
    BY <1>2, <1>17, <2>1
<1>20. Channels!Send(r, d)
  BY <1>2, <1>14, <1>18, <1>19 DEF Channels!Send
<1> QED
  BY <1>15, <1>16, <1>20 DEF IInv

LEMMA ShorterTail ==
    ASSUME NEW S, NEW q \in Seq(S), q # <<>>
    PROVE  Tail(q) # q
<1> DEFINE r == Tail(q)
<1>1. Len(q) \in Nat \ {0}
  BY EmptySeq
<1>2. Len(r) = Len(q) - 1
  BY HeadTailProperties
<1> HIDE DEF r
<1>3. r # q
  BY <1>1, <1>2
<1> QED
  BY <1>3 DEF r

\* A pop that finds nothing, or nothing that fits, only ends the call.
LEMMA PopNothing ==
    ASSUME IInv, NEW t \in Threads, Pop(t), queue' = queue
    PROVE  TypeOK' /\ CallOK' /\ Shrinks
<1>1. call[t] \in Call /\ Consistent(call[t]) /\ call[t].ref \in Ends
  BY DEF IInv, TypeOK, CallOK, Pop, Consistent
<1>2. queue[call[t].ref] \in Seq(Message)
  BY <1>1 DEF IInv, TypeOK
<1>3. queue[call[t].ref] = <<>> \/ Tail(queue[call[t].ref]) # queue[call[t].ref]
  BY <1>2, ShorterTail
<1> DEFINE q == Tail(queue[call[t].ref])
<1>4. ASSUME ~Finish(t, call[t].held) PROVE FALSE
  <2>1. queue[call[t].ref] # <<>> /\ queue' = [queue EXCEPT ![call[t].ref] = q]
    BY <1>4 DEF Pop
  <2> HIDE DEF q
  <2>2. queue'[call[t].ref] = q
    BY <1>1, <2>1 DEF IInv, TypeOK
  <2> QED
    BY <1>3, <2>1, <2>2 DEF q
<1> QED
  BY <1>4, FinishOnly DEF Pop

LEMMA PopSteps ==
    ASSUME IInv, NEW t \in Threads, Pop(t), queue' # queue
    PROVE  IInv' /\ Channels!Receive(call[t].ref)
<1> DEFINE e == call[t].ref
           m == Head(queue[e])
           q == Tail(queue[e])
           c == [call[t] EXCEPT !.pc = "copy", !.held = m.handles, !.data = m.data]
<1>1. call[t] \in Call /\ Consistent(call[t]) /\ call[t].pc = "take"
  BY DEF IInv, TypeOK, CallOK, Pop
<1>2. e \in Ends
  BY <1>1 DEF Consistent
<1>3. queue[e] \in Seq(Message) /\ queue[e] # <<>>
  BY <1>2 DEF Pop, IInv, TypeOK
<1>4. m \in Message /\ q \in Seq(Message)
  BY <1>3, HeadTailProperties
<1>5. queue' = [queue EXCEPT ![e] = q]
  BY DEF Pop
<1>6. call' = [call EXCEPT ![t] = c]
  <2>1. call' = [call EXCEPT ![t].pc = "copy", ![t].held = m.handles, ![t].data = m.data]
    BY DEF Pop
  <2> HIDE DEF m
  <2> QED
    BY <1>1, <2>1 DEF IInv, TypeOK, Call
<1>7. UNCHANGED <<table, nextKey, kernel, made>>
  BY DEF Pop
<1>8. m.handles \in Seq(Handles) /\ m.data \in Lengths
  BY <1>4 DEF Message
<1>9. /\ c \in Call /\ c.pc = "copy" /\ c.held = m.handles /\ c.data = m.data
      /\ c.ref = e /\ c.up = call[t].up
  <2> HIDE DEF m
  <2> QED
    BY <1>1, <1>8 DEF Call, Steps
<1> HIDE DEF c
<1>10. \A s \in Threads : call'[s] = IF s = t THEN c ELSE call[s]
  BY <1>6 DEF IInv, TypeOK
<1>11. call[t].held = <<>>
  BY <1>1 DEF Consistent
<1>12. ASSUME NEW h \in Handles PROVE Placed(h)' <=> Placed(h)
  <2>1. Carries(queue[e], h) <=> Carries(q, h) \/ h \in Range(m.handles)
    BY <1>3, CarriesTail
  <2>2. (\E f \in Ends : InQueue(h, f)') <=>
            Carries(q, h) \/ \E f \in Ends : f # e /\ InQueue(h, f)
    <3> HIDE DEF q, e
    <3> QED
      BY <1>2, <1>4, <1>5, QueueSteps
  <2>3. (\E f \in Ends : InQueue(h, f)) <=>
            h \in Range(m.handles) \/ \E f \in Ends : InQueue(h, f)'
    BY <1>2, <2>1, <2>2 DEF InQueue
  <2>4. InCall(h) <=> \E s \in Threads : s # t /\ h \in Range(call[s].held)
    BY <1>11 DEF InCall, Range
  <2>5. InCall(h)' <=> InCall(h) \/ h \in Range(m.handles)
    BY <1>9, <1>10, <2>4 DEF InCall
  <2> QED
    BY <1>7, <2>3, <2>5 DEF Placed, InTable
<1>13. \A s \in Threads : call'[s].ref = call[s].ref /\ call'[s].up = call[s].up
  BY <1>9, <1>10
<1>14. Alive(e)
  BY <1>2 DEF Alive
<1>15. \A f \in Ends : Stage(f)' = Stage(f)
  BY <1>7, <1>12, <1>13, SameStages
<1>16. MadeOK'
  <2>1. \A f \in Ends : queue'[f] # <<>> => queue[f] # <<>>
    BY <1>2, <1>3, <1>5 DEF IInv, TypeOK
  <2>2. \A f \in Ends : queue'[f] # <<>> => ~Unmade(f)
    BY <2>1 DEF IInv, MadeOK
  <2> QED
    BY <1>7, <1>12, <1>13, <2>2, SameStages
<1>17. TypeOK' /\ CallOK'
  <2>1. queue' \in [Ends -> Seq(Message)]
    <3> HIDE DEF q, e
    <3> QED
      BY <1>2, <1>4, <1>5, QueueSteps
  <2>2. Consistent(c)
    BY <1>2, <1>8, <1>9 DEF Consistent
  <2>3. CallOK'
    BY <1>10, <2>2 DEF CallOK, IInv
  <2> QED
    BY <1>6, <1>7, <1>9, <2>1, <2>3 DEF IInv, TypeOK
<1>18. Contents(queue[e]) # <<>> /\ Contents(q) = Tail(Contents(queue[e]))
  BY <1>3, ContentsTail
<1>19. Stage(e) = "open"
  BY <1>2, <1>14, AliveMade DEF Stage
<1>20. [f \in Ends |-> Contents(queue'[f])] =
           [[f \in Ends |-> Contents(queue[f])] EXCEPT ![e] = Tail(@)]
  <2> HIDE DEF q
  <2>1. \A f \in Ends : queue'[f] = IF f = e THEN q ELSE queue[f]
    BY <1>5 DEF IInv, TypeOK
  <2> QED
    BY <1>2, <1>18, <2>1
<1>21. Channels!Receive(e)
  BY <1>2, <1>15, <1>18, <1>19, <1>20 DEF Channels!Receive
<1> QED
  BY <1>16, <1>17, <1>21 DEF IInv

LEMMA DropMessageSteps ==
    ASSUME IInv, NEW e \in Ends, DropMessage(e)
    PROVE  IInv' /\ Channels!Drop(e)
<1> DEFINE q == Tail(queue[e])
<1>1. queue[e] \in Seq(Message) /\ queue[e] # <<>> /\ ~Alive(e)
  BY DEF DropMessage, IInv, TypeOK
<1>2. q \in Seq(Message)
  BY <1>1, HeadTailProperties
<1>3. queue' = [queue EXCEPT ![e] = q]
  BY DEF DropMessage
<1>4. UNCHANGED <<table, nextKey, kernel, made, call>>
  BY DEF DropMessage
<1>5. \A f \in Ends : queue'[f] = IF f = e THEN q ELSE queue[f]
  BY <1>3 DEF IInv, TypeOK
<1>6. ASSUME NEW h \in Handles, Placed(h)' PROVE Placed(h)
  <2>1. Carries(q, h) => Carries(queue[e], h)
    BY <1>1, CarriesTail
  <2>2. (\E f \in Ends : InQueue(h, f)') =>
            Carries(q, h) \/ \E f \in Ends : f # e /\ InQueue(h, f)
    <3> HIDE DEF q
    <3> QED
      BY <1>2, <1>3, QueueSteps
  <2> QED
    BY <1>4, <1>6, <2>1, <2>2 DEF Placed, InTable, InCall, InQueue
<1>7. \A f \in Ends : Alive(f)' => Alive(f)
  BY <1>4, <1>6 DEF Alive
<1>8. \A f \in Ends : Unmade(f)' <=> Unmade(f)
  BY <1>4 DEF Unmade
<1>9. ~Unmade(e)
  BY <1>1 DEF IInv, MadeOK
<1>10. MadeOK'
  <2>1. \A f \in Ends : queue'[f] # <<>> => queue[f] # <<>>
    BY <1>1, <1>5
  <2>2. \A f \in Ends : queue'[f] # <<>> => ~Unmade(f)'
    BY <1>8, <2>1 DEF IInv, MadeOK
  <2>3. \A h \in Handles : Placed(h)' => h \in made'
    BY <1>4, <1>6 DEF IInv, MadeOK
  <2>4. \A t \in Threads, f \in Ends : f \in {call'[t].ref, call'[t].up} => ~Unmade(f)'
    BY <1>4, <1>8 DEF IInv, MadeOK
  <2> QED
    BY <2>2, <2>3, <2>4 DEF MadeOK
<1>11. TypeOK' /\ CallOK'
  <2>1. queue' \in [Ends -> Seq(Message)]
    BY <1>2, <1>3 DEF IInv, TypeOK
  <2> QED
    BY <1>4, <2>1 DEF IInv, TypeOK, CallOK
<1>12. Channels!Close
  BY <1>7, <1>8 DEF Channels!Close, Stage
<1>13. Stage(e) = "closed"
  BY <1>1, <1>9 DEF Stage
<1>14. Contents(queue[e]) # <<>> /\ Contents(q) = Tail(Contents(queue[e]))
  BY <1>1, ContentsTail
<1>15. [f \in Ends |-> Contents(queue'[f])] =
           [[f \in Ends |-> Contents(queue[f])] EXCEPT ![e] = Tail(@)]
  <2> HIDE DEF q
  <2> QED
    BY <1>5, <1>14
<1> QED
  BY <1>10, <1>11, <1>12, <1>13, <1>14, <1>15 DEF IInv, Channels!Drop

LEMMA CreateChannelSteps ==
    ASSUME IInv, NEW t \in Threads, NEW h \in Handles, NEW g \in Handles,
           CreateChannel(t, h, g)
    PROVE  IInv' /\ Channels!Create(Object[h])
<1> DEFINE a == Object[h]
           b == Object[g]
           c == [Idle EXCEPT !.pc = "first", !.held = <<h, g>>]
<1>1. call[t] = Idle
  BY DEF IInv, CallOK, Consistent, CreateChannel
<1>2. a \in Ends /\ b = Peer[a] /\ b \in Ends /\ Unmade(a) /\ Unmade(b)
  BY PeerAssumption DEF CreateChannel
<1>3. made' = made \cup {h, g} /\ call' = [call EXCEPT ![t] = c]
  BY DEF CreateChannel
<1>4. UNCHANGED <<table, nextKey, queue, kernel>>
  BY DEF CreateChannel
<1>5. <<h, g>> \in Seq(Handles) /\ <<h, g>> # <<>> /\ Range(<<h, g>>) = {h, g}
  BY DEF Range
<1>6. c \in Call /\ c.pc = "first" /\ c.held = <<h, g>> /\ c.ref = None /\ c.up = None
  BY <1>5, IdleType DEF Call, Steps, Idle
<1>7. \A s \in Threads : call'[s] = IF s = t THEN c ELSE call[s]
  BY <1>3 DEF IInv, TypeOK
<1> HIDE DEF c
<1>8. \A x \in Handles : Placed(x)' <=> Placed(x) \/ x \in {h, g}
  <2>1. \A x : InCall(x)' <=> InCall(x) \/ x \in {h, g}
    <3>1. Range(Idle.held) = {}
      BY DEF Idle, Range
    <3> QED
      BY <1>1, <1>5, <1>6, <1>7, <3>1 DEF InCall
  <2> QED
    BY <1>4, <2>1 DEF Placed, InTable, InQueue
<1>9. \A s \in Threads : call'[s].ref = call[s].ref /\ call'[s].up = call[s].up
  BY <1>1, <1>6, <1>7 DEF Idle
<1>10. \A f \in Ends : Alive(f)' <=> Alive(f) \/ f \in {a, b}
  BY <1>8, <1>9 DEF Alive
<1>11. \A f \in Ends : Unmade(f)' <=> Unmade(f) /\ f \notin {a, b}
  BY <1>3 DEF Unmade
<1>12. MadeOK'
  <2>1. \A x \in Handles : Placed(x)' => x \in made'
    BY <1>3, <1>8 DEF IInv, MadeOK
  <2>2. \A s \in Threads, f \in Ends : f \in {call'[s].ref, call'[s].up} => ~Unmade(f)'
    BY <1>9, <1>11 DEF IInv, MadeOK
  <2>3. \A f \in Ends : queue'[f] # <<>> => ~Unmade(f)'
    BY <1>4, <1>11 DEF IInv, MadeOK
  <2> QED
    BY <2>1, <2>2, <2>3 DEF MadeOK
<1>13. TypeOK' /\ CallOK'
  <2>1. Consistent(c)
    BY <1>5, <1>6 DEF Consistent
  <2>2. CallOK'
    BY <1>7, <2>1 DEF CallOK, IInv
  <2> QED
    BY <1>3, <1>4, <1>6, <2>2 DEF IInv, TypeOK
<1>14. Stage(a) = "none" /\ Stage(Peer[a]) = "none"
  BY <1>2 DEF Stage
<1>15. \A f \in Ends : Stage(f)' = IF f \in {a, b} THEN "open" ELSE Stage(f)
  BY <1>10, <1>11 DEF Stage
<1>16. [f \in Ends |-> Stage(f)]' =
           [[f \in Ends |-> Stage(f)] EXCEPT ![a] = "open", ![Peer[a]] = "open"]
  BY <1>2, <1>15
<1>17. Channels!Create(a)
  BY <1>2, <1>4, <1>14, <1>16 DEF Channels!Create
<1> QED
  BY <1>12, <1>13, <1>17 DEF IInv

\* A write of the start-up code to an end that is alive.
LEMMA KernelSendSteps ==
    ASSUME IInv, NEW h \in Handles, NEW hs \in Seq(Handles), NEW d \in Lengths,
           KernelWrite(h, hs, d), Upgrades(Peer[Object[h]])
    PROVE  IInv' /\ Channels!Send(Object[h], d)
<1> DEFINE r == Object[h]
           e == Peer[r]
           m == [data |-> d, handles |-> hs]
           q == Append(queue[e], m)
<1>1. r \in Ends /\ e \in Ends /\ h \in kernel /\ Range(hs) \subseteq kernel \ {h}
  BY PeerAssumption DEF KernelWrite
<1>2. m \in Message
  BY DEF Message
<1>3. queue[e] \in Seq(Message)
  BY <1>1 DEF IInv, TypeOK
<1>4. q \in Seq(Message)
  BY <1>2, <1>3
<1>5. queue' = [queue EXCEPT ![e] = q] /\ kernel' = kernel \ Range(hs)
  BY DEF KernelWrite, PushOn
<1>6. UNCHANGED <<table, nextKey, made, call>>
  BY DEF KernelWrite
<1>7. ASSUME NEW x \in Handles PROVE Placed(x)' <=> Placed(x)
  <2>1. Carries(q, x) <=> Carries(queue[e], x) \/ x \in Range(hs)
    BY <1>2, <1>3, CarriesAppend
  <2>2. (\E f \in Ends : InQueue(x, f)') <=>
            Carries(q, x) \/ \E f \in Ends : f # e /\ InQueue(x, f)
    <3> HIDE DEF q, e
    <3> QED
      BY <1>1, <1>4, <1>5, QueueSteps
  <2>3. (\E f \in Ends : InQueue(x, f)') <=>
            x \in Range(hs) \/ \E f \in Ends : InQueue(x, f)
    BY <1>1, <2>1, <2>2 DEF InQueue
  <2> QED
    BY <1>1, <1>5, <1>6, <2>3 DEF Placed, InTable, InCall
<1>8. Alive(r) /\ Alive(e)
  BY <1>1 DEF Alive, Placed, Upgrades
<1>9. ~Unmade(r) /\ ~Unmade(e)
  BY <1>1, <1>8, AliveMade
<1>10. \A f \in Ends : Stage(f)' = Stage(f)
  BY <1>6, <1>7, SameStages
<1>11. MadeOK'
  <2>1. \A f \in Ends : queue'[f] # <<>> => ~Unmade(f)
    BY <1>1, <1>5, <1>9 DEF IInv, MadeOK, TypeOK
  <2> QED
    BY <1>6, <1>7, <2>1, SameStages
<1>12. TypeOK' /\ CallOK'
  <2>1. queue' \in [Ends -> Seq(Message)]
    <3> HIDE DEF q, e
    <3> QED
      BY <1>1, <1>4, <1>5, QueueSteps
  <2> QED
    BY <1>5, <1>6, <2>1 DEF IInv, TypeOK, CallOK
<1>13. Contents(q) = Append(Contents(queue[e]), d)
  BY <1>2, <1>3, ContentsAppend
<1>14. Stage(r) = "open" /\ Stage(Peer[r]) = "open"
  BY <1>1, <1>8, <1>9 DEF Stage
<1>15. [f \in Ends |-> Contents(queue'[f])] =
           [[f \in Ends |-> Contents(queue[f])] EXCEPT ![Peer[r]] = Append(@, d)]
  <2> HIDE DEF q
  <2>1. \A f \in Ends : queue'[f] = IF f = e THEN q ELSE queue[f]
    BY <1>5 DEF IInv, TypeOK
  <2> QED
    BY <1>1, <1>13, <2>1
<1>16. Channels!Send(r, d)
  BY <1>1, <1>10, <1>14, <1>15 DEF Channels!Send
<1> QED
  BY <1>11, <1>12, <1>16 DEF IInv

\* A write of the start-up code to an end that is gone.
LEMMA KernelLostSteps ==
    ASSUME IInv, NEW h \in Handles, NEW hs \in Seq(Handles), NEW d \in Lengths,
           KernelWrite(h, hs, d), ~Upgrades(Peer[Object[h]])
    PROVE  TypeOK' /\ CallOK' /\ Shrinks
<1>1. kernel' \in SUBSET Handles /\ kernel' \subseteq kernel
  BY DEF KernelWrite, IInv, TypeOK
<1>2. UNCHANGED <<queue, made, call, table, nextKey>>
  BY DEF KernelWrite
<1> QED
  BY <1>1, <1>2, OutsideSteps DEF Placed, InTable, IInv, TypeOK

-----------------------------------------------------------------------------
\* What a step may be to the pipes.
Step == IInv' /\ [Channels!Next]_<<[e \in Ends |-> Stage(e)], [e \in Ends |-> Contents(queue[e])]>>

LEMMA ShrinkStep ==
    ASSUME IInv, TypeOK', CallOK', Shrinks
    PROVE  Step
BY ShrinkPipe DEF Step, IInv, Channels!Next

LEMMA ThreadSteps ==
    ASSUME IInv, NEW t \in Threads, Work(t)
    PROVE  Step
<1>1. CASE FindToWrite(t)
  BY <1>1, FindSteps, ShrinkStep
<1>2. CASE Upgrade(t)
  BY <1>2, UpgradeSteps, ShrinkStep
<1>3. CASE Push(t)
  <2>1. call[t].ref \in Ends /\ call[t].data \in Lengths
    BY <1>3 DEF Push, IInv, CallOK, Consistent
  <2> QED
    BY <1>3, <2>1, PushSteps DEF Step, Channels!Next
<1>4. CASE Pop(t) /\ queue' = queue
  BY <1>4, PopNothing, ShrinkStep
<1>5. CASE Pop(t) /\ queue' # queue
  <2>1. call[t].ref \in Ends
    BY <1>5 DEF Pop, IInv, CallOK, Consistent
  <2> QED
    BY <1>5, <2>1, PopSteps DEF Step, Channels!Next
<1>6. CASE Discard(t)
  BY <1>6, DiscardSteps, ShrinkStep
<1>7. CASE Deliver(t)
  BY <1>7, DeliverSteps, ShrinkStep
<1>8. CASE AddFirst(t)
  BY <1>8, AddFirstSteps, ShrinkStep
<1>9. CASE AddSecond(t)
  BY <1>9, DeliverSteps, ShrinkStep
<1>10. CASE Return(t)
  BY <1>10, ReturnSteps, ShrinkStep
<1> QED
  BY <1>1, <1>2, <1>3, <1>4, <1>5, <1>6, <1>7, <1>8, <1>9, <1>10 DEF Work

LEMMA NextSteps ==
    ASSUME IInv, [Next]_vars
    PROVE  Step
<1>1. CASE \E t \in Threads, k \in Keys, ks \in ListsOf(Keys, MaxWrite), d \in Lengths :
               Take(t, k, ks, d)
  BY <1>1, TakeSteps, ShrinkStep
<1>2. CASE \E t \in Threads, k \in Keys, keep \in BOOLEAN, b \in Buffers :
               FindToRead(t, k, keep, b)
  BY <1>2, FindToReadSteps, ShrinkStep
<1>3. CASE \E t \in Threads, h, g \in Handles : CreateChannel(t, h, g)
  <2>1. PICK t \in Threads, h \in Handles, g \in Handles : CreateChannel(t, h, g)
    BY <1>3
  <2>2. Object[h] \in Ends
    BY <2>1 DEF CreateChannel
  <2> QED
    BY <2>1, <2>2, CreateChannelSteps DEF Step, Channels!Next
<1>4. CASE \E t \in Threads : Work(t)
  BY <1>4, ThreadSteps
<1>5. CASE \E p \in Procs, k \in Keys : Close(p, k)
  BY <1>5, CloseSteps, ShrinkStep
<1>6. CASE \E p \in Procs, h \in Handles : Give(p, h)
  BY <1>6, GiveSteps, ShrinkStep
<1>7. CASE \E h \in Handles, hs \in ListsOf(Handles, MaxWrite), d \in Lengths :
               KernelWrite(h, hs, d)
  <2>1. PICK h \in Handles, hs \in ListsOf(Handles, MaxWrite), d \in Lengths :
               KernelWrite(h, hs, d)
    BY <1>7
  <2>2. PICK n \in Nat : hs \in [1 .. n -> Handles]
    BY BoundAssumption DEF ListsOf
  <2>3. hs \in Seq(Handles)
    BY <2>2, IsSeq
  <2>4. CASE Upgrades(Peer[Object[h]])
    <3>1. Object[h] \in Ends
      BY <2>1 DEF KernelWrite
    <3> QED
      BY <2>1, <2>3, <2>4, <3>1, KernelSendSteps DEF Step, Channels!Next
  <2>5. CASE ~Upgrades(Peer[Object[h]])
    BY <2>1, <2>3, <2>5, KernelLostSteps, ShrinkStep
  <2> QED
    BY <2>4, <2>5
<1>8. CASE \E h \in Handles : KernelDrop(h)
  BY <1>8, KernelDropSteps, ShrinkStep
<1>9. CASE \E e \in Ends : DropMessage(e)
  BY <1>9, DropMessageSteps DEF Step, Channels!Next
<1>10. CASE UNCHANGED vars
  <2>1. TypeOK' /\ CallOK'
    BY <1>10 DEF vars, IInv, TypeOK, CallOK
  <2>2. Shrinks
    BY <1>10 DEF vars, Shrinks, Placed, InTable, InCall, InQueue, Alive
  <2> QED
    BY <2>1, <2>2, ShrinkStep
<1> QED
  BY <1>1, <1>2, <1>3, <1>4, <1>5, <1>6, <1>7, <1>8, <1>9, <1>10 DEF Next

LEMMA InitSteps ==
    ASSUME Init
    PROVE  IInv /\ Channels!Init
<1>1. TypeOK
  BY IdleType, HandleAssumption, BoundAssumption DEF Init, TypeOK, Keys
<1>2. CallOK
  BY DEF Init, CallOK, Consistent, Idle
<1>3. \A t \in Threads : call[t].ref = None /\ call[t].up = None /\ call[t].held = <<>>
  BY DEF Init, Idle
<1>4. \A h \in Handles : Placed(h) <=> h \in kernel
  <2>1. \A h \in Handles : ~InTable(h)
    BY NoneAssumption DEF Init, InTable
  <2>2. \A h \in Handles : ~InCall(h)
    BY <1>3 DEF InCall, Range
  <2>3. \A h \in Handles, e \in Ends : ~InQueue(h, e)
    BY DEF Init, InQueue, Carries
  <2> QED
    BY <2>1, <2>2, <2>3 DEF Placed
<1>5. MadeOK
  BY <1>3, <1>4, NoneAssumption DEF Init, MadeOK
<1>6. \A e \in Ends : Stage(e) \in {"none", "open"}
  BY <1>4 DEF Init, Stage, Unmade, Alive
<1>7. \A e \in Ends : Contents(queue[e]) = <<>>
  BY DEF Init, Contents
<1> QED
  BY <1>1, <1>2, <1>5, <1>6, <1>7 DEF IInv, Channels!Init

-----------------------------------------------------------------------------
\* Channels are pipes, whoever calls and whatever is closed or sent: messages
\* arrive once and in order, and an end that is closed stays closed
\* (Channel::create, write, check_and_read and the drop of an end).
THEOREM ImplementsPipe == Spec => PipeSpec
<1>1. Init => IInv /\ Channels!Init
  BY InitSteps
<1>2. IInv /\ [Next]_vars => IInv' /\
          [Channels!Next]_<<[e \in Ends |-> Stage(e)], [e \in Ends |-> Contents(queue[e])]>>
  BY NextSteps DEF Step
<1> QED
  BY <1>1, <1>2, PTL DEF Spec, PipeSpec, Channels!Spec

\* The types, and what a call holds at each of its steps.
THEOREM Invariant == Spec => []IInv
<1>1. Init => IInv
  BY InitSteps
<1>2. IInv /\ [Next]_vars => IInv'
  BY NextSteps DEF Step
<1> QED
  BY <1>1, <1>2, PTL DEF Spec

\* Every field keeps to its type.
THEOREM Types == Spec => []TypeOK
<1>1. IInv => TypeOK
  BY DEF IInv
<1> QED
  BY <1>1, Invariant, PTL

-----------------------------------------------------------------------------
\* What gets into a queue got there by one of two steps.
LEMMA NewInQueue ==
    ASSUME IInv, NEW e \in Ends, NEW m \in Message,
           queue' = [queue EXCEPT ![e] = Append(queue[e], m)],
           NEW f \in Ends, NEW h \in Handles, InQueue(h, f)', ~InQueue(h, f)
    PROVE  h \in Range(m.handles)
<1>1. queue[e] \in Seq(Message)
  BY DEF IInv, TypeOK
<1>2. f = e /\ queue'[e] = Append(queue[e], m)
  BY DEF InQueue, IInv, TypeOK
<1>3. Carries(Append(queue[e], m), h) /\ ~Carries(queue[e], h)
  BY <1>2 DEF InQueue
<1> QED
  BY <1>1, <1>3, CarriesAppend

LEMMA OldInQueue ==
    ASSUME IInv, NEW e \in Ends, queue[e] # <<>>,
           queue' = [queue EXCEPT ![e] = Tail(queue[e])],
           NEW f \in Ends, NEW h \in Handles, InQueue(h, f)'
    PROVE  InQueue(h, f)
<1>1. queue[e] \in Seq(Message)
  BY DEF IInv, TypeOK
<1>2. CASE f = e
  <2>1. queue'[e] = Tail(queue[e])
    BY DEF IInv, TypeOK
  <2>2. Carries(Tail(queue[e]), h)
    BY <1>2, <2>1 DEF InQueue
  <2> QED
    BY <1>1, <1>2, <2>2, CarriesTail DEF InQueue
<1>3. CASE f # e
  BY <1>3 DEF InQueue, IInv, TypeOK
<1> QED
  BY <1>2, <1>3

LEMMA TransferSteps ==
    ASSUME IInv, [Next]_vars, NEW f \in Ends, NEW h \in Handles,
           InQueue(h, f)', ~InQueue(h, f)
    PROVE  h \in kernel \/ "transfer" \in Rights[h]
<1>1. queue' # queue
  BY DEF InQueue
<1>2. CASE \E t \in Threads : Push(t)
  <2>1. PICK t \in Threads : Push(t)
    BY <1>2
  <2> DEFINE m == [data |-> call[t].data, handles |-> call[t].held]
  <2>2. call[t] \in Call /\ Consistent(call[t]) /\ call[t].pc = "push"
    BY <2>1 DEF IInv, TypeOK, CallOK, Push
  <2>3. call[t].up \in Ends
    BY <2>2, PeerAssumption DEF Consistent
  <2>4. m \in Message /\ m.handles = call[t].held
    BY <2>2 DEF Message, Call, Consistent
  <2>5. queue' = [queue EXCEPT ![call[t].up] = Append(queue[call[t].up], m)]
    BY <2>1 DEF Push, PushOn
  <2> HIDE DEF m
  <2>6. h \in Range(m.handles)
    BY <2>3, <2>4, <2>5, NewInQueue
  <2> QED
    BY <2>2, <2>4, <2>6 DEF Consistent
<1>3. CASE \E t \in Threads : Pop(t)
  <2>1. PICK t \in Threads : Pop(t)
    BY <1>3
  <2>2. call[t].ref \in Ends
    BY <2>1 DEF Pop, IInv, CallOK, Consistent
  <2>3. /\ queue[call[t].ref] # <<>>
        /\ queue' = [queue EXCEPT ![call[t].ref] = Tail(queue[call[t].ref])]
    BY <1>1, <2>1 DEF Pop
  <2> QED
    BY <2>2, <2>3, OldInQueue
<1>4. CASE \E e \in Ends : DropMessage(e)
  BY <1>4, OldInQueue DEF DropMessage
<1>5. CASE \E g \in Handles, hs \in ListsOf(Handles, MaxWrite), d \in Lengths :
               KernelWrite(g, hs, d)
  <2>1. PICK g \in Handles, hs \in ListsOf(Handles, MaxWrite), d \in Lengths :
               KernelWrite(g, hs, d)
    BY <1>5
  <2> DEFINE m == [data |-> d, handles |-> hs]
             e == Peer[Object[g]]
  <2>2. PICK n \in Nat : hs \in [1 .. n -> Handles]
    BY BoundAssumption DEF ListsOf
  <2>3. hs \in Seq(Handles)
    BY <2>2, IsSeq
  <2>4. m \in Message /\ m.handles = hs
    BY <2>3 DEF Message
  <2>5. e \in Ends /\ Range(hs) \subseteq kernel
    BY <2>1, PeerAssumption DEF KernelWrite
  <2>6. queue' = [queue EXCEPT ![e] = Append(queue[e], m)]
    BY <1>1, <2>1 DEF KernelWrite, PushOn
  <2> HIDE DEF m, e
  <2>7. h \in Range(m.handles)
    BY <2>4, <2>5, <2>6, NewInQueue
  <2> QED
    BY <2>4, <2>5, <2>7
<1>6. CASE UNCHANGED vars
  BY <1>1, <1>6 DEF vars
<1>7. ASSUME NEW t \in Threads, Work(t) PROVE Push(t) \/ Pop(t)
  <2>1. ~FindToWrite(t) /\ ~Upgrade(t) /\ ~Discard(t)
    BY <1>1 DEF FindToWrite, Upgrade, Discard
  <2>2. ~Deliver(t) /\ ~AddFirst(t) /\ ~AddSecond(t) /\ ~Return(t)
    BY <1>1 DEF Deliver, AddFirst, AddSecond, Return
  <2> QED
    BY <1>7, <2>1, <2>2 DEF Work
<1>8. ASSUME NEW t \in Threads
      PROVE  /\ \A k, ks, d : ~Take(t, k, ks, d)
             /\ \A k, keep, b : ~FindToRead(t, k, keep, b)
             /\ \A g, i : ~CreateChannel(t, g, i)
  BY <1>1 DEF Take, FindToRead, CreateChannel
<1>9. /\ \A p, k : ~Close(p, k)
      /\ \A p, g : ~Give(p, g)
      /\ \A g : ~KernelDrop(g)
  BY <1>1 DEF Close, Give, KernelDrop
<1>10. CASE Next
  BY <1>2, <1>3, <1>4, <1>5, <1>7, <1>8, <1>9, <1>10 DEF Next
<1> QED
  BY <1>6, <1>10

\* No thread gets a handle without the right into a channel, whatever other
\* threads do to the table between the test and the push (sys_channel_write).
THEOREM OnlyTransferable == Spec => TransferNeedsRight
<1>1. IInv /\ [Next]_vars =>
        [\A e \in Ends, h \in Handles :
            InQueue(h, e)' /\ ~InQueue(h, e) => h \in kernel \/ "transfer" \in Rights[h]]_vars
  BY TransferSteps
<1> QED
  BY <1>1, Invariant, PTL DEF Spec, TransferNeedsRight

-----------------------------------------------------------------------------
(* The earlier chapters: no system calls, and other handle tables.         *)

\* Channel::create, called in the kernel
LEMMA CreatingSteps ==
    ASSUME IInv, NEW h \in Handles, NEW g \in Handles, Creating(h, g)
    PROVE  IInv' /\ Channels!Create(Object[h])
<1> DEFINE a == Object[h]
           b == Object[g]
<1>1. a \in Ends /\ b = Peer[a] /\ b \in Ends /\ Unmade(a) /\ Unmade(b)
  BY PeerAssumption DEF Creating
<1>2. made' = made \cup {h, g} /\ kernel' = kernel \cup {h, g}
  BY DEF Creating
<1>3. UNCHANGED <<table, nextKey, queue, call>>
  BY DEF Creating
<1>4. \A x \in Handles : Placed(x)' <=> Placed(x) \/ x \in {h, g}
  BY <1>2, <1>3 DEF Placed, InTable, InCall, InQueue
<1>5. \A f \in Ends : Alive(f)' <=> Alive(f) \/ f \in {a, b}
  BY <1>3, <1>4 DEF Alive
<1>6. \A f \in Ends : Unmade(f)' <=> Unmade(f) /\ f \notin {a, b}
  BY <1>2 DEF Unmade
<1>7. MadeOK'
  <2>1. \A x \in Handles : Placed(x)' => x \in made'
    BY <1>2, <1>4 DEF IInv, MadeOK
  <2>2. \A s \in Threads, f \in Ends : f \in {call'[s].ref, call'[s].up} => ~Unmade(f)'
    BY <1>3, <1>6 DEF IInv, MadeOK
  <2>3. \A f \in Ends : queue'[f] # <<>> => ~Unmade(f)'
    BY <1>3, <1>6 DEF IInv, MadeOK
  <2> QED
    BY <2>1, <2>2, <2>3 DEF MadeOK
<1>8. TypeOK' /\ CallOK'
  BY <1>2, <1>3 DEF IInv, TypeOK, CallOK
<1>9. Stage(a) = "none" /\ Stage(Peer[a]) = "none"
  BY <1>1 DEF Stage
<1>10. \A f \in Ends : Stage(f)' = IF f \in {a, b} THEN "open" ELSE Stage(f)
  BY <1>5, <1>6 DEF Stage
<1>11. [f \in Ends |-> Stage(f)]' =
           [[f \in Ends |-> Stage(f)] EXCEPT ![a] = "open", ![Peer[a]] = "open"]
  BY <1>1, <1>10
<1>12. Channels!Create(a)
  BY <1>1, <1>3, <1>9, <1>11 DEF Channels!Create
<1> QED
  BY <1>7, <1>8, <1>12 DEF IInv

\* Channel::read, which takes the first message whatever it is
LEMMA ReadingSteps ==
    ASSUME IInv, NEW h \in Handles, Reading(h)
    PROVE  IInv' /\ Channels!Receive(Object[h])
<1> DEFINE e == Object[h]
           m == Head(queue[e])
           q == Tail(queue[e])
<1>1. e \in Ends /\ h \in kernel /\ queue[e] \in Seq(Message) /\ queue[e] # <<>>
  BY DEF Reading, IInv, TypeOK
<1>2. m \in Message /\ q \in Seq(Message)
  BY <1>1, HeadTailProperties
<1>3. queue' = [queue EXCEPT ![e] = q] /\ kernel' = kernel \cup Range(m.handles)
  BY DEF Reading
<1>4. UNCHANGED <<table, nextKey, made, call>>
  BY DEF Reading
<1>5. Range(m.handles) \subseteq Handles
  <2>1. m.handles \in Seq(Handles)
    BY <1>2 DEF Message
  <2> HIDE DEF m
  <2> QED
    BY <2>1, InSeq DEF Range
<1>6. ASSUME NEW x \in Handles PROVE Placed(x)' <=> Placed(x)
  <2>1. Carries(queue[e], x) <=> Carries(q, x) \/ x \in Range(m.handles)
    BY <1>1, CarriesTail
  <2>2. (\E f \in Ends : InQueue(x, f)') <=>
            Carries(q, x) \/ \E f \in Ends : f # e /\ InQueue(x, f)
    <3> HIDE DEF q, e
    <3> QED
      BY <1>1, <1>2, <1>3, QueueSteps
  <2>3. (\E f \in Ends : InQueue(x, f)) <=>
            x \in Range(m.handles) \/ \E f \in Ends : InQueue(x, f)'
    BY <1>1, <2>1, <2>2 DEF InQueue
  <2> QED
    BY <1>3, <1>4, <2>3 DEF Placed, InTable, InCall
<1>7. Alive(e)
  BY <1>1 DEF Alive, Placed
<1>8. \A f \in Ends : Stage(f)' = Stage(f)
  BY <1>4, <1>6, SameStages
<1>9. MadeOK'
  <2>1. \A f \in Ends : queue'[f] # <<>> => queue[f] # <<>>
    BY <1>1, <1>3 DEF IInv, TypeOK
  <2>2. \A f \in Ends : queue'[f] # <<>> => ~Unmade(f)
    BY <2>1 DEF IInv, MadeOK
  <2> QED
    BY <1>4, <1>6, <2>2, SameStages
<1>10. TypeOK' /\ CallOK'
  <2>1. queue' \in [Ends -> Seq(Message)]
    <3> HIDE DEF q, e
    <3> QED
      BY <1>1, <1>2, <1>3, QueueSteps
  <2>2. kernel' \in SUBSET Handles
    BY <1>3, <1>5 DEF IInv, TypeOK
  <2> QED
    BY <1>4, <2>1, <2>2 DEF IInv, TypeOK, CallOK
<1>11. Contents(queue[e]) # <<>> /\ Contents(q) = Tail(Contents(queue[e]))
  BY <1>1, ContentsTail
<1>12. Stage(e) = "open"
  BY <1>1, <1>7, AliveMade DEF Stage
<1>13. [f \in Ends |-> Contents(queue'[f])] =
           [[f \in Ends |-> Contents(queue[f])] EXCEPT ![e] = Tail(@)]
  <2> HIDE DEF q
  <2>1. \A f \in Ends : queue'[f] = IF f = e THEN q ELSE queue[f]
    BY <1>3 DEF IInv, TypeOK
  <2> QED
    BY <1>1, <1>11, <2>1
<1>14. Channels!Receive(e)
  BY <1>1, <1>8, <1>11, <1>12, <1>13 DEF Channels!Receive
<1> QED
  BY <1>9, <1>10, <1>14 DEF IInv

\* A list of values or of handles is a sequence.
LEMMA ListIsSeq ==
    ASSUME NEW S, NEW l \in ListsOf(S, MaxWrite)
    PROVE  l \in Seq(S)
<1>1. PICK n \in Nat : l \in [1 .. n -> S]
  BY BoundAssumption DEF ListsOf
<1> QED
  BY <1>1, IsSeq

\* Process::add_handle, whichever value it takes
LEMMA AddingSteps ==
    ASSUME IInv, NEW p \in Procs,
           Adding(p) \/ \E h \in Handles : AddLowest(p, h)
    PROVE  Step
<1>1. CASE Adding(p)
  <2>1. PICK hs \in ListsOf(Handles, MaxWrite) :
          /\ Range(hs) \subseteq kernel
          /\ kernel' = kernel \ Range(hs)
          /\ Add(p, hs)
          /\ UNCHANGED <<queue, made, call>>
    BY <1>1 DEF Adding
  <2>2. hs \in Seq(Handles)
    BY ListIsSeq
  <2>3. /\ table' \in [Procs -> [Keys -> Handles \cup {None}]]
        /\ nextKey' \in [Procs -> Keys]
        /\ \A g \in Handles : InTable(g)' => InTable(g) \/ g \in Range(hs)
    BY <2>1, <2>2, AddSteps DEF IInv
  <2>4. kernel' \in SUBSET Handles
    BY <2>1 DEF IInv, TypeOK
  <2>5. \A g \in Handles : g \in kernel' \/ InTable(g)' => Placed(g)
    BY <2>1, <2>3 DEF Placed
  <2> QED
    BY <2>1, <2>3, <2>4, <2>5, OutsideSteps, ShrinkStep
<1>2. ASSUME NEW h \in Handles, AddLowest(p, h) PROVE Step
  <2>1. PICK k \in Keys : table' = [table EXCEPT ![p][k] = h]
    BY <1>2 DEF AddLowest
  <2>2. h \in kernel /\ kernel' = kernel \ {h} /\ UNCHANGED <<nextKey, queue, made, call>>
    BY <1>2 DEF AddLowest
  <2>3. /\ table' \in [Procs -> [Keys -> Handles \cup {None}]]
        /\ \A r \in Procs, v \in Keys : table'[r][v] \in {table[r][v], h}
    BY <2>1 DEF IInv, TypeOK
  <2>4. \A g \in Handles : InTable(g)' => InTable(g) \/ g = h
    BY <2>3 DEF InTable
  <2> QED
    BY <2>2, <2>3, <2>4, OutsideSteps, ShrinkStep DEF Placed, IInv, TypeOK
<1> QED
  BY <1>1, <1>2

\* Process::remove_handles
LEMMA RemovingSteps ==
    ASSUME IInv, NEW p \in Procs, Removing(p)
    PROVE  Step
<1>1. PICK ks \in ListsOf(Keys, MaxWrite) :
        /\ table' = [table EXCEPT ![p] = [k \in Keys |->
               IF \E i \in Found(p, ks) : ks[i] = k THEN None ELSE @[k]]]
        /\ kernel' = IF Found(p, ks) = DOMAIN ks
                     THEN kernel \cup {table[p][ks[i]] : i \in DOMAIN ks} ELSE kernel
        /\ UNCHANGED <<nextKey, queue, made, call>>
  BY DEF Removing
<1>2. /\ table' \in [Procs -> [Keys -> Handles \cup {None}]]
      /\ \A r \in Procs, v \in Keys : table'[r][v] \in {table[r][v], None}
  BY <1>1 DEF IInv, TypeOK
<1>3. \A h \in Handles : InTable(h)' => InTable(h)
  BY <1>2, NoneAssumption DEF InTable
<1>4. ASSUME NEW i \in DOMAIN ks, Found(p, ks) = DOMAIN ks
      PROVE  table[p][ks[i]] \in Handles /\ InTable(table[p][ks[i]])
  <2>1. ks \in Seq(Keys)
    BY ListIsSeq
  <2>2. ks[i] \in Keys /\ i \in 1 .. i
    BY <2>1, InSeq
  <2>3. table[p][ks[i]] # None
    BY <1>4, <2>2 DEF Found
  <2> QED
    BY <2>2, <2>3 DEF IInv, TypeOK, InTable
<1>5. kernel' \in SUBSET Handles /\ \A h \in kernel' : h \in kernel \/ InTable(h)
  BY <1>1, <1>4 DEF IInv, TypeOK
<1> QED
  BY <1>1, <1>2, <1>3, <1>5, OutsideSteps, ShrinkStep DEF Placed, IInv, TypeOK

\* The other steps of the earlier chapters are pipes' steps, too.
LEMMA ChannelPartsSteps ==
    ASSUME IInv
    PROVE  /\ \A h \in Handles, g \in Handles : Creating(h, g) => Step
           /\ \A h \in Handles : (Reading(h) => Step) /\ (Writing(h) => Step)
           /\ \A p \in Procs, k \in Keys : Close(p, k) => Step
           /\ Dropping => Step
<1>1. ASSUME NEW h \in Handles, NEW g \in Handles, Creating(h, g) PROVE Step
  <2>1. Object[h] \in Ends
    BY <1>1 DEF Creating
  <2> QED
    BY <1>1, <2>1, CreatingSteps DEF Step, Channels!Next
<1>2. ASSUME NEW h \in Handles, Reading(h) PROVE Step
  <2>1. Object[h] \in Ends
    BY <1>2 DEF Reading
  <2> QED
    BY <1>2, <2>1, ReadingSteps DEF Step, Channels!Next
<1>3. ASSUME NEW h \in Handles, Writing(h) PROVE Step
  <2>1. PICK hs \in ListsOf(Handles, MaxWrite), d \in Lengths : KernelWrite(h, hs, d)
    BY <1>3 DEF Writing
  <2>2. hs \in Seq(Handles) /\ Object[h] \in Ends
    BY <2>1, ListIsSeq DEF KernelWrite
  <2>3. CASE Upgrades(Peer[Object[h]])
    BY <2>1, <2>2, <2>3, KernelSendSteps DEF Step, Channels!Next
  <2>4. CASE ~Upgrades(Peer[Object[h]])
    BY <2>1, <2>2, <2>4, KernelLostSteps, ShrinkStep
  <2> QED
    BY <2>3, <2>4
<1>4. ASSUME NEW p \in Procs, NEW k \in Keys, Close(p, k) PROVE Step
  BY <1>4, CloseSteps, ShrinkStep
<1>5. ASSUME NEW h \in Handles, KernelDrop(h) PROVE Step
  BY <1>5, KernelDropSteps, ShrinkStep
<1>6. ASSUME NEW e \in Ends, DropMessage(e) PROVE Step
  BY <1>6, DropMessageSteps DEF Step, Channels!Next
<1> QED
  BY <1>1, <1>2, <1>3, <1>4, <1>5, <1>6 DEF Dropping

\* Handles in the tables of ch01-02, where nothing is read or written yet: an
\* end nobody refers to stays closed.
THEOREM PipesOf_01_02 == Spec_01_02 => PipeSpec
<1>1. IInv /\ [Next_01_02]_vars => Step
  <2> SUFFICES ASSUME IInv, [Next_01_02]_vars PROVE Step
    OBVIOUS
  <2>1. CASE UNCHANGED vars
    BY <2>1, NextSteps
  <2>2. CASE Next_01_02
    BY <2>2, AddingSteps, ChannelPartsSteps
    DEF Next_01_02, Adding_01_02, Removing_01_02, Dropping
  <2> QED
    BY <2>1, <2>2
<1> QED
  BY <1>1, InitSteps, PTL DEF Spec_01_02, PipeSpec, Channels!Spec, Step

\* Channels were pipes from ch01-03 on: what is read was written, once and in
\* order, until the reader's end is gone.
THEOREM PipesOf_01_03 == Spec_01_03 => PipeSpec
<1>1. IInv /\ [Next_01_03]_vars => Step
  <2> SUFFICES ASSUME IInv, [Next_01_03]_vars PROVE Step
    OBVIOUS
  <2>1. CASE UNCHANGED vars
    BY <2>1, NextSteps
  <2>2. CASE Next_01_03
    BY <2>2, AddingSteps, ChannelPartsSteps
    DEF Next_01_03, Adding_01_03, Removing_01_03, Creating_01_03, Reading_01_03,
        Writing_01_03
  <2> QED
    BY <2>1, <2>2
<1> QED
  BY <1>1, InitSteps, PTL DEF Spec_01_03, PipeSpec, Channels!Spec, Step

\* The channels of ch02-02 are pipes: what is read was written, once and in
\* order, whatever lists of handles go through the tables meanwhile.
THEOREM PipesOf_02_02 == Spec_02_02 => PipeSpec
<1>1. IInv /\ [Next_02_02]_vars => Step
  <2> SUFFICES ASSUME IInv, [Next_02_02]_vars PROVE Step
    OBVIOUS
  <2>1. CASE UNCHANGED vars
    BY <2>1, NextSteps
  <2>2. CASE Next_02_02
    BY <2>2, AddingSteps, RemovingSteps, ChannelPartsSteps
    DEF Next_02_02, Adding_02_02, Removing_02_02, Creating_02_02, Reading_02_02,
        Writing_02_02
  <2> QED
    BY <2>1, <2>2
<1> QED
  BY <1>1, InitSteps, PTL DEF Spec_02_02, PipeSpec, Channels!Spec, Step

\* The channels of ch02-03 are pipes: what is read was written, once and in
\* order, whatever lists of handles go through the tables meanwhile.
THEOREM PipesOf_02_03 == Spec_02_03 => PipeSpec
<1>1. IInv /\ [Next_02_03]_vars => Step
  <2> SUFFICES ASSUME IInv, [Next_02_03]_vars PROVE Step
    OBVIOUS
  <2>1. CASE UNCHANGED vars
    BY <2>1, NextSteps
  <2>2. CASE Next_02_03
    BY <2>2, AddingSteps, RemovingSteps, ChannelPartsSteps
    DEF Next_02_03, Adding_02_03, Removing_02_03, Creating_02_03, Reading_02_03,
        Writing_02_03
  <2> QED
    BY <2>1, <2>2
<1> QED
  BY <1>1, InitSteps, PTL DEF Spec_02_03, PipeSpec, Channels!Spec, Step

\* The channels of ch03-02 are pipes: what is read was written, once and in
\* order, whatever lists of handles go through the tables meanwhile.
THEOREM PipesOf_03_02 == Spec_03_02 => PipeSpec
<1>1. IInv /\ [Next_03_02]_vars => Step
  <2> SUFFICES ASSUME IInv, [Next_03_02]_vars PROVE Step
    OBVIOUS
  <2>1. CASE UNCHANGED vars
    BY <2>1, NextSteps
  <2>2. CASE Next_03_02
    BY <2>2, AddingSteps, RemovingSteps, ChannelPartsSteps
    DEF Next_03_02, Adding_03_02, Removing_03_02, Creating_03_02, Reading_03_02,
        Writing_03_02
  <2> QED
    BY <2>1, <2>2
<1> QED
  BY <1>1, InitSteps, PTL DEF Spec_03_02, PipeSpec, Channels!Spec, Step

\* The channels of ch03-04 are pipes: what is read was written, once and in
\* order, whatever lists of handles go through the tables meanwhile.
THEOREM PipesOf_03_04 == Spec_03_04 => PipeSpec
<1>1. IInv /\ [Next_03_04]_vars => Step
  <2> SUFFICES ASSUME IInv, [Next_03_04]_vars PROVE Step
    OBVIOUS
  <2>1. CASE UNCHANGED vars
    BY <2>1, NextSteps
  <2>2. CASE Next_03_04
    BY <2>2, AddingSteps, RemovingSteps, ChannelPartsSteps
    DEF Next_03_04, Adding_03_04, Removing_03_04, Creating_03_04, Reading_03_04,
        Writing_03_04
  <2> QED
    BY <2>1, <2>2
<1> QED
  BY <1>1, InitSteps, PTL DEF Spec_03_04, PipeSpec, Channels!Spec, Step

\* The channels of ch04-01 are pipes: what is read was written, once and in
\* order, whatever lists of handles go through the tables meanwhile.
THEOREM PipesOf_04_01 == Spec_04_01 => PipeSpec
<1>1. IInv /\ [Next_04_01]_vars => Step
  <2> SUFFICES ASSUME IInv, [Next_04_01]_vars PROVE Step
    OBVIOUS
  <2>1. CASE UNCHANGED vars
    BY <2>1, NextSteps
  <2>2. CASE Next_04_01
    BY <2>2, AddingSteps, RemovingSteps, ChannelPartsSteps
    DEF Next_04_01, Adding_04_01, Removing_04_01, Creating_04_01, Reading_04_01,
        Writing_04_01
  <2> QED
    BY <2>1, <2>2
<1> QED
  BY <1>1, InitSteps, PTL DEF Spec_04_01, PipeSpec, Channels!Spec, Step

-----------------------------------------------------------------------------
(* A handle is in one place.                                                *)

Once(s, h) == \A i, j \in DOMAIN s : s[i] = h /\ s[j] = h => i = j

\* The messages of a queue have the handle once.
CarriesOnce(q, h) ==
    /\ \A i, j \in DOMAIN q :
           h \in Range(q[i].handles) /\ h \in Range(q[j].handles) => i = j
    /\ \A i \in DOMAIN q : Once(q[i].handles, h)

Queued(h) == \E e \in Ends : InQueue(h, e)

OnceInTables(h) ==
    \A p, r \in Procs, k, l \in Keys : table[p][k] = h /\ table[r][l] = h => p = r /\ k = l
OnceInCalls(h) ==
    /\ \A t, u \in Threads : h \in Range(call[t].held) /\ h \in Range(call[u].held) => t = u
    /\ \A t \in Threads : Once(call[t].held, h)
OnceInQueues(h) ==
    /\ \A d, e \in Ends : InQueue(h, d) /\ InQueue(h, e) => d = e
    /\ \A e \in Ends : CarriesOnce(queue[e], h)

\* It is once where it is, and nowhere else.
Single(h) ==
    /\ OnceInTables(h) /\ OnceInCalls(h) /\ OnceInQueues(h)
    /\ InTable(h) => ~InCall(h) /\ ~Queued(h) /\ h \notin kernel
    /\ InCall(h) => ~Queued(h) /\ h \notin kernel
    /\ Queued(h) => h \notin kernel
SingleOK == \A h \in Handles : Single(h)

\* The lists on their way fit into a table.
Room(c) ==
    /\ c.pc \in {"find", "send", "push", "copy"} => Len(c.held) <= KeyCount
    /\ c.pc = "first" => Len(c.held) = 2
    /\ c.pc = "second" => Len(c.held) = 1
RoomOK ==
    /\ \A t \in Threads : Room(call[t])
    /\ \A e \in Ends : \A i \in DOMAIN queue[e] : Len(queue[e][i].handles) <= KeyCount

-----------------------------------------------------------------------------
LEMMA AtMostOne ==
    ASSUME NEW S, \A x, y \in S : x = y
    PROVE  IF S = {} THEN Cardinality(S) = 0 ELSE Cardinality(S) = 1
<1>1. CASE S = {}
  BY <1>1, FS_EmptySet
<1>2. CASE S # {}
  <2>1. PICK x : S = {x}
    BY <1>2
  <2> QED
    BY <2>1, FS_Singleton
<1> QED
  BY <1>1, <1>2

LEMMA SingleOnePlace ==
    ASSUME SingleOK
    PROVE  OnePlace
<1> SUFFICES ASSUME NEW h \in Handles
             PROVE  Cardinality(AtTable(h)) + Cardinality(AtCall(h)) + Cardinality(AtQueue(h))
                      + Cardinality(kernel \cap {h}) <= 1
  BY DEF OnePlace
<1>1. Single(h)
  BY DEF SingleOK
<1>2. /\ AtTable(h) # {} => InTable(h)
      /\ \A x, y \in AtTable(h) : x = y
  <2>1. ASSUME NEW x \in AtTable(h)
        PROVE  x \in Procs \X Keys /\ table[x[1]][x[2]] = h /\ x = <<x[1], x[2]>>
    BY DEF AtTable
  <2> QED
    BY <1>1, <2>1 DEF InTable, Single, OnceInTables
<1>3. /\ AtCall(h) # {} => InCall(h)
      /\ \A x, y \in AtCall(h) : x = y
  <2>1. ASSUME NEW x \in AtCall(h)
        PROVE  \E t \in Threads : \E i \in DOMAIN call[t].held : call[t].held[i] = h /\ x = <<t, i>>
    BY DEF AtCall
  <2>2. ASSUME NEW x \in AtCall(h), NEW y \in AtCall(h) PROVE x = y
    <3>a. PICK t \in Threads : \E i \in DOMAIN call[t].held : call[t].held[i] = h /\ x = <<t, i>>
      BY <2>1
    <3>1. PICK i \in DOMAIN call[t].held : call[t].held[i] = h /\ x = <<t, i>>
      BY <3>a
    <3>b. PICK u \in Threads : \E j \in DOMAIN call[u].held : call[u].held[j] = h /\ y = <<u, j>>
      BY <2>1
    <3>2. PICK j \in DOMAIN call[u].held : call[u].held[j] = h /\ y = <<u, j>>
      BY <3>b
    <3>3. h \in Range(call[t].held) /\ h \in Range(call[u].held)
      BY <3>1, <3>2 DEF Range
    <3>4. t = u
      BY <1>1, <3>3 DEF Single, OnceInCalls
    <3> QED
      BY <1>1, <3>1, <3>2, <3>4 DEF Single, OnceInCalls, Once
  <2>3. AtCall(h) # {} => InCall(h)
    BY <2>1 DEF InCall, Range
  <2> QED
    BY <2>2, <2>3
<1>4. /\ AtQueue(h) # {} => Queued(h)
      /\ \A x, y \in AtQueue(h) : x = y
  <2> DEFINE Spot(x, e, i, j) ==
               /\ queue[e][i].handles[j] = h
               /\ x = <<e, i, j>>
  <2>1. ASSUME NEW x \in AtQueue(h)
        PROVE  \E e \in Ends : \E i \in DOMAIN queue[e] :
                 \E j \in DOMAIN queue[e][i].handles : Spot(x, e, i, j)
    BY DEF AtQueue
  <2>2. ASSUME NEW x \in AtQueue(h), NEW y \in AtQueue(h) PROVE x = y
    <3>1. PICK e \in Ends : \E i \in DOMAIN queue[e] :
                 \E j \in DOMAIN queue[e][i].handles : Spot(x, e, i, j)
      BY <2>1
    <3>2. PICK i \in DOMAIN queue[e] : \E j \in DOMAIN queue[e][i].handles : Spot(x, e, i, j)
      BY <3>1
    <3>3. PICK j \in DOMAIN queue[e][i].handles : Spot(x, e, i, j)
      BY <3>2
    <3>4. PICK d \in Ends : \E l \in DOMAIN queue[d] :
                 \E n \in DOMAIN queue[d][l].handles : Spot(y, d, l, n)
      BY <2>1
    <3>5. PICK l \in DOMAIN queue[d] : \E n \in DOMAIN queue[d][l].handles : Spot(y, d, l, n)
      BY <3>4
    <3>6. PICK n \in DOMAIN queue[d][l].handles : Spot(y, d, l, n)
      BY <3>5
    <3>7. h \in Range(queue[e][i].handles) /\ h \in Range(queue[d][l].handles)
      BY <3>3, <3>6 DEF Range
    <3>8. InQueue(h, e) /\ InQueue(h, d)
      BY <3>7 DEF InQueue, Carries
    <3>9. e = d
      BY <1>1, <3>8 DEF Single, OnceInQueues
    <3>10. CarriesOnce(queue[e], h)
      BY <1>1 DEF Single, OnceInQueues
    <3>11. i = l
      BY <3>7, <3>9, <3>10 DEF CarriesOnce
    <3>12. j = n
      BY <3>3, <3>6, <3>9, <3>10, <3>11 DEF CarriesOnce, Once
    <3> QED
      BY <3>3, <3>6, <3>9, <3>11, <3>12
  <2>3. AtQueue(h) # {} => Queued(h)
    BY <2>1 DEF Queued, InQueue, Carries, Range
  <2> QED
    BY <2>2, <2>3
<1>5. \A x, y \in kernel \cap {h} : x = y
  OBVIOUS
<1> HIDE DEF AtTable, AtCall, AtQueue
<1> DEFINE a == Cardinality(AtTable(h))
           b == Cardinality(AtCall(h))
           c == Cardinality(AtQueue(h))
           d == Cardinality(kernel \cap {h})
<1>6. a = 0 \/ (a = 1 /\ InTable(h))
  BY <1>2, AtMostOne
<1>7. b = 0 \/ (b = 1 /\ InCall(h))
  BY <1>3, AtMostOne
<1>8. c = 0 \/ (c = 1 /\ Queued(h))
  BY <1>4, AtMostOne
<1>9. d = 0 \/ (d = 1 /\ h \in kernel)
  BY <1>5, AtMostOne
<1> HIDE DEF a, b, c, d
<1>10. a + b + c + d <= 1
  BY <1>1, <1>6, <1>7, <1>8, <1>9 DEF Single
<1> QED
  BY <1>10 DEF a, b, c, d

-----------------------------------------------------------------------------
\* Sequences: what becomes of the one message with the handle.
LEMMA OnceAppend ==
    ASSUME NEW q \in Seq(Message), NEW m \in Message, NEW h,
           CarriesOnce(q, h), Once(m.handles, h),
           ~Carries(q, h) \/ h \notin Range(m.handles)
    PROVE  CarriesOnce(Append(q, m), h)
<1> DEFINE r == Append(q, m)
<1>1. /\ DOMAIN q = 1 .. Len(q) /\ Len(q) \in Nat
      /\ DOMAIN r = 1 .. Len(q) + 1
      /\ r[Len(q) + 1] = m
      /\ \A i \in 1 .. Len(q) : r[i] = q[i]
  OBVIOUS
<1> HIDE DEF r
<1>2. \A i \in DOMAIN r : i = Len(q) + 1 \/ i \in DOMAIN q
  BY <1>1
<1>3. ASSUME NEW i \in DOMAIN r, NEW j \in DOMAIN r,
             h \in Range(r[i].handles), h \in Range(r[j].handles)
      PROVE  i = j
  <2>1. CASE i \in DOMAIN q /\ j \in DOMAIN q
    BY <1>1, <1>3, <2>1 DEF CarriesOnce
  <2>2. CASE i = Len(q) + 1 \/ j = Len(q) + 1
    <3>1. h \in Range(m.handles)
      BY <1>1, <1>3, <2>2
    <3>2. ~Carries(q, h)
      BY <3>1
    <3> QED
      BY <1>1, <1>2, <1>3, <3>2 DEF Carries
  <2> QED
    BY <1>2, <2>1, <2>2
<1>4. ASSUME NEW i \in DOMAIN r PROVE Once(r[i].handles, h)
  <2>1. r[i] = m \/ (i \in DOMAIN q /\ r[i] = q[i])
    BY <1>1, <1>2
  <2> QED
    BY <2>1 DEF CarriesOnce
<1>5. CarriesOnce(r, h)
  BY <1>3, <1>4 DEF CarriesOnce
<1> QED
  BY <1>5 DEF r

LEMMA OnceTail ==
    ASSUME NEW q \in Seq(Message), q # <<>>, NEW h, CarriesOnce(q, h)
    PROVE  /\ CarriesOnce(Tail(q), h)
           /\ Once(Head(q).handles, h)
           /\ h \in Range(Head(q).handles) => ~Carries(Tail(q), h)
<1> DEFINE r == Tail(q)
<1>1. /\ DOMAIN q = 1 .. Len(q) /\ Len(q) \in Nat \ {0}
      /\ DOMAIN r = 1 .. Len(q) - 1
      /\ Head(q) = q[1]
      /\ \A i \in 1 .. Len(q) - 1 : r[i] = q[i + 1]
  OBVIOUS
<1> HIDE DEF r
<1>2. \A i \in DOMAIN r : i + 1 \in DOMAIN q /\ r[i] = q[i + 1] /\ i + 1 # 1 /\ i \in Nat
  BY <1>1
<1>3. 1 \in DOMAIN q
  BY <1>1
<1>4. CarriesOnce(r, h)
  <2>1. ASSUME NEW i \in DOMAIN r, NEW j \in DOMAIN r,
               h \in Range(r[i].handles), h \in Range(r[j].handles)
        PROVE  i = j
    <3>1. i + 1 = j + 1
      BY <1>2, <2>1 DEF CarriesOnce
    <3> QED
      BY <1>2, <3>1
  <2> QED
    BY <1>2, <2>1 DEF CarriesOnce
<1>5. Once(Head(q).handles, h)
  BY <1>1, <1>3 DEF CarriesOnce
<1>6. ASSUME h \in Range(Head(q).handles), Carries(r, h) PROVE FALSE
  <2>1. PICK i \in DOMAIN r : h \in Range(r[i].handles)
    BY <1>6 DEF Carries
  <2>2. h \in Range(q[i + 1].handles) /\ h \in Range(q[1].handles)
    BY <1>1, <1>2, <1>6, <2>1
  <2> QED
    BY <1>2, <1>3, <2>2 DEF CarriesOnce
<1> QED
  BY <1>4, <1>5, <1>6 DEF r

\* The modulus of what is less than twice the divisor
LEMMA Wrap ==
    ASSUME NEW b \in Nat \ {0}, NEW a \in 0 .. 2 * b - 1
    PROVE  a % b = IF a < b THEN a ELSE a - b
OBVIOUS

-----------------------------------------------------------------------------
\* One call, one queue or one table changes.
LEMMA OneCall ==
    ASSUME IInv, NEW t \in Threads, NEW c, call' = [call EXCEPT ![t] = c],
           NEW h \in Handles, OnceInCalls(h), Once(c.held, h),
           h \in Range(c.held) /\ InCall(h) => h \in Range(call[t].held)
    PROVE  /\ OnceInCalls(h)'
           /\ InCall(h)' => InCall(h) \/ h \in Range(c.held)
           /\ h \in Range(call[t].held) /\ h \notin Range(c.held) => ~InCall(h)'
<1>1. \A s \in Threads : call'[s] = IF s = t THEN c ELSE call[s]
  BY DEF IInv, TypeOK
<1>2. ASSUME NEW s \in Threads, NEW u \in Threads,
             h \in Range(call'[s].held), h \in Range(call'[u].held)
      PROVE  s = u
  <2>1. CASE s # t /\ u # t
    BY <1>1, <1>2, <2>1 DEF OnceInCalls
  <2>2. CASE s = t \/ u = t
    <3>1. h \in Range(c.held)
      BY <1>1, <1>2, <2>2
    <3>2. \A v \in Threads : v # t => h \notin Range(call[v].held)
      BY <3>1 DEF InCall, OnceInCalls
    <3> QED
      BY <1>1, <1>2, <2>2, <3>2
  <2> QED
    BY <2>1, <2>2
<1>3. \A s \in Threads : Once(call'[s].held, h)
  BY <1>1 DEF OnceInCalls
<1>4. OnceInCalls(h)'
  BY <1>2, <1>3 DEF OnceInCalls
<1>5. InCall(h)' => InCall(h) \/ h \in Range(c.held)
  BY <1>1 DEF InCall
<1>6. h \in Range(call[t].held) /\ h \notin Range(c.held) => ~InCall(h)'
  BY <1>1 DEF InCall, OnceInCalls
<1> QED
  BY <1>4, <1>5, <1>6

LEMMA OneQueue ==
    ASSUME IInv, NEW e \in Ends, NEW q, queue' = [queue EXCEPT ![e] = q],
           NEW h \in Handles, OnceInQueues(h), CarriesOnce(q, h),
           Carries(q, h) /\ Queued(h) => InQueue(h, e)
    PROVE  /\ OnceInQueues(h)'
           /\ Queued(h)' => Queued(h) \/ Carries(q, h)
           /\ InQueue(h, e) /\ ~Carries(q, h) => ~Queued(h)'
<1>1. \A f \in Ends : queue'[f] = IF f = e THEN q ELSE queue[f]
  BY DEF IInv, TypeOK
<1>2. \A f \in Ends : InQueue(h, f)' <=> IF f = e THEN Carries(q, h) ELSE InQueue(h, f)
  BY <1>1 DEF InQueue
<1>3. ASSUME NEW d \in Ends, NEW f \in Ends, InQueue(h, d)', InQueue(h, f)'
      PROVE  d = f
  <2>1. CASE d # e /\ f # e
    BY <1>2, <1>3, <2>1 DEF OnceInQueues
  <2>2. CASE d = e \/ f = e
    <3>1. Carries(q, h)
      BY <1>2, <1>3, <2>2
    <3>2. \A g \in Ends : g # e => ~InQueue(h, g)
      BY <3>1 DEF Queued, OnceInQueues
    <3> QED
      BY <1>2, <1>3, <2>2, <3>2
  <2> QED
    BY <2>1, <2>2
<1>4. \A f \in Ends : CarriesOnce(queue'[f], h)
  BY <1>1 DEF OnceInQueues
<1>5. OnceInQueues(h)'
  BY <1>3, <1>4 DEF OnceInQueues
<1>6. Queued(h)' => Queued(h) \/ Carries(q, h)
  BY <1>2 DEF Queued
<1>7. InQueue(h, e) /\ ~Carries(q, h) => ~Queued(h)'
  BY <1>2 DEF Queued, OnceInQueues
<1> QED
  BY <1>5, <1>6, <1>7

\* The n-th handle that add_handle is given gets the n-th value from nextKey
\* on; no two of them get one value.
LEMMA Turns ==
    ASSUME NEW n \in Keys, NEW k \in Keys, NEW l \in Keys,
           1 + ((k + KeyCount - n) % KeyCount) = 1 + ((l + KeyCount - n) % KeyCount)
    PROVE  k = l
<1> DEFINE a == k + KeyCount - n
           b == l + KeyCount - n
<1>1. KeyCount \in Nat \ {0}
  BY BoundAssumption
<1>2. a \in 0 .. 2 * KeyCount - 1 /\ b \in 0 .. 2 * KeyCount - 1
  BY <1>1 DEF Keys
<1>3. a % KeyCount = b % KeyCount /\ a % KeyCount \in Nat
  BY <1>1, <1>2
<1>4. /\ a % KeyCount = IF a < KeyCount THEN a ELSE a - KeyCount
      /\ b % KeyCount = IF b < KeyCount THEN b ELSE b - KeyCount
  BY <1>1, <1>2, Wrap
<1>5. /\ k - n = IF k < n THEN a - KeyCount ELSE a - KeyCount
      /\ (a < KeyCount <=> k < n) /\ (b < KeyCount <=> l < n)
  BY <1>1 DEF Keys
<1>6. (IF k < n THEN k + KeyCount - n ELSE k - n) = (IF l < n THEN l + KeyCount - n ELSE l - n)
  BY <1>1, <1>3, <1>4, <1>5 DEF Keys
<1> QED
  BY <1>1, <1>6 DEF Keys

LEMMA TurnOf ==
    ASSUME NEW n \in Keys, NEW i \in 1 .. KeyCount
    PROVE  \E k \in Keys : 1 + ((k + KeyCount - n) % KeyCount) = i
<1> DEFINE k == IF n + i - 1 < KeyCount THEN n + i - 1 ELSE n + i - 1 - KeyCount
           a == k + KeyCount - n
<1>1. KeyCount \in Nat \ {0}
  BY BoundAssumption
<1>2. k \in Keys
  BY <1>1 DEF Keys
<1>3. a \in 0 .. 2 * KeyCount - 1 /\ (a = i - 1 \/ a = i - 1 + KeyCount)
  BY <1>1 DEF Keys
<1>4. a % KeyCount = IF a < KeyCount THEN a ELSE a - KeyCount
  <2> HIDE DEF a
  <2> QED
    BY <1>1, <1>3, Wrap
<1>5. a % KeyCount = i - 1
  <2> HIDE DEF a
  <2> QED
    BY <1>1, <1>3, <1>4
<1>6. 1 + (a % KeyCount) = i
  <2> HIDE DEF a
  <2> QED
    BY <1>5
<1> QED
  BY <1>2, <1>6

LEMMA OneTable ==
    ASSUME IInv, NEW p \in Procs, NEW hs \in Seq(Handles), Add(p, hs),
           NEW h \in Handles, OnceInTables(h), Once(hs, h),
           h \in Range(hs) => ~InTable(h)
    PROVE  /\ OnceInTables(h)'
           /\ InTable(h)' => InTable(h) \/ h \in Range(hs)
<1> DEFINE Turn(k) == 1 + ((k + KeyCount - nextKey[p]) % KeyCount)
           row == [k \in Keys |-> IF Turn(k) <= Len(hs) THEN hs[Turn(k)] ELSE table[p][k]]
<1>1. nextKey[p] \in Keys /\ KeyCount \in Nat \ {0}
  BY BoundAssumption DEF IInv, TypeOK
<1>2. \A k \in Keys : Turn(k) \in Nat \ {0}
  <2> SUFFICES ASSUME NEW k \in Keys PROVE Turn(k) \in Nat \ {0}
    OBVIOUS
  <2> DEFINE a == k + KeyCount - nextKey[p]
  <2>1. a \in Nat
    BY <1>1 DEF Keys
  <2> HIDE DEF a
  <2>2. a % KeyCount \in 0 .. KeyCount - 1
    BY <1>1, <2>1, Remainder
  <2>3. 1 + (a % KeyCount) \in Nat \ {0}
    BY <1>1, <2>2
  <2> QED
    BY <2>3 DEF a
<1>3. \A k, l \in Keys : Turn(k) = Turn(l) => k = l
  BY <1>1, Turns
<1>4. table' = [table EXCEPT ![p] = row]
  BY DEF Add
<1>5. DOMAIN hs = 1 .. Len(hs) /\ Len(hs) \in Nat
  OBVIOUS
<1> HIDE DEF Turn
<1>6. \A k \in Keys : row[k] = h =>
          \/ Turn(k) \in DOMAIN hs /\ hs[Turn(k)] = h
          \/ table[p][k] = h
  BY <1>2, <1>5
<1>7. \A r \in Procs, k \in Keys : table'[r][k] = IF r = p THEN row[k] ELSE table[r][k]
  BY <1>4 DEF IInv, TypeOK
<1> HIDE DEF row
<1>8. CASE h \in Range(hs)
  <2>1. \A r \in Procs, k \in Keys : table'[r][k] = h =>
            r = p /\ Turn(k) \in DOMAIN hs /\ hs[Turn(k)] = h
    BY <1>6, <1>7, <1>8 DEF InTable
  <2> QED
    BY <1>3, <1>8, <2>1 DEF OnceInTables, Once
<1>9. CASE h \notin Range(hs)
  <2>1. \A r \in Procs, k \in Keys : table'[r][k] = h => table[r][k] = h
    BY <1>6, <1>7, <1>9 DEF Range
  <2> QED
    BY <2>1 DEF OnceInTables, InTable
<1> QED
  BY <1>8, <1>9

-----------------------------------------------------------------------------
\* A call ends with the handles hs.
LEMMA Finished ==
    ASSUME NEW t \in Threads, NEW hs, Finish(t, hs)
    PROVE  \E c : /\ call' = [call EXCEPT ![t] = c]
                  /\ c.held = hs /\ c.pc = "done"
<1> DEFINE c == [Idle EXCEPT !.pc = "done", !.held = hs,
                             !.ref = call[t].ref, !.up = call[t].up]
<1>1. call' = [call EXCEPT ![t] = c] /\ c.held = hs /\ c.pc = "done"
  BY DEF Finish, Idle
<1> HIDE DEF c
<1> QED
  BY <1>1

LEMMA OnceEmpty == ASSUME NEW h PROVE Once(<<>>, h) /\ h \notin Range(<<>>)
BY DEF Once, Range

\* A step that only lets a call go on, with what it holds or with nothing.
LEMMA SingleGoesOn ==
    ASSUME IInv, NEW t \in Threads, NEW c, call' = [call EXCEPT ![t] = c],
           c.held = call[t].held \/ c.held = <<>>,
           UNCHANGED <<table, queue, kernel>>,
           NEW h \in Handles, Single(h)
    PROVE  Single(h)'
<1>1. Once(c.held, h) /\ (h \in Range(c.held) => h \in Range(call[t].held))
  BY OnceEmpty DEF Single, OnceInCalls
<1>2. OnceInCalls(h)' /\ (InCall(h)' => InCall(h))
  <2>1. h \in Range(c.held) => InCall(h)
    BY <1>1 DEF InCall
  <2> QED
    BY <1>1, <2>1, OneCall DEF Single
<1>3. OnceInTables(h)' /\ (InTable(h)' <=> InTable(h))
  BY DEF Single, OnceInTables, InTable
<1>4. OnceInQueues(h)' /\ (Queued(h)' <=> Queued(h))
  BY DEF Single, OnceInQueues, InQueue, Queued
<1> QED
  BY <1>2, <1>3, <1>4 DEF Single

\* A step that only takes handles from where they are.
LEMMA SingleLeaves ==
    ASSUME IInv, UNCHANGED call,
           \A p \in Procs, k \in Keys : table'[p][k] \in {table[p][k], None},
           kernel' \subseteq kernel,
           NEW h \in Handles, Single(h),
           OnceInQueues(h)', Queued(h)' => Queued(h)
    PROVE  Single(h)'
<1>1. OnceInTables(h)' /\ (InTable(h)' => InTable(h))
  BY NoneAssumption DEF Single, OnceInTables, InTable
<1>2. OnceInCalls(h)' /\ (InCall(h)' <=> InCall(h))
  BY DEF Single, OnceInCalls, InCall
<1> QED
  BY <1>1, <1>2 DEF Single

LEMMA SingleTake ==
    ASSUME IInv, NEW t \in Threads, NEW k \in Keys,
           NEW ks \in ListsOf(Keys, MaxWrite), NEW d \in Lengths, Take(t, k, ks, d),
           NEW h \in Handles, Single(h)
    PROVE  Single(h)'
<1> DEFINE p == ProcOf[t]
           hs == [i \in DOMAIN ks |-> table[p][ks[i]]]
<1>1. PICK n \in Nat : ks \in [1 .. n -> Keys]
  BY BoundAssumption DEF ListsOf
<1>2. p \in Procs
  BY ProcAssumption
<1>3. \A r \in Procs, v \in Keys : table'[r][v] =
          IF r = p /\ \E i \in Found(p, ks) : ks[i] = v THEN None ELSE table[r][v]
  BY <1>2 DEF Take, IInv, TypeOK
<1>4. UNCHANGED <<queue, kernel>>
  BY DEF Take
<1>5. OnceInQueues(h)' /\ (Queued(h)' <=> Queued(h))
  BY <1>4 DEF Single, OnceInQueues, InQueue, Queued
<1>6. CASE UNCHANGED call
  BY <1>3, <1>4, <1>5, <1>6, SingleLeaves
<1>7. CASE Found(p, ks) = DOMAIN ks /\ \E c : call' = [call EXCEPT ![t] = c] /\ c.held = hs
  <2>1. PICK c : call' = [call EXCEPT ![t] = c] /\ c.held = hs
    BY <1>7
  <2>2. ASSUME NEW i \in DOMAIN ks
        PROVE  /\ ks[i] \in Keys
               /\ \A l \in 1 .. i - 1 : ks[l] # ks[i]
    <3>1. i \in Nat /\ i \in 1 .. i
      BY <1>1
    <3> QED
      BY <1>1, <1>7, <3>1 DEF Found
  <2>3. \A i, j \in DOMAIN ks : ks[i] = ks[j] => i = j
    <3> SUFFICES ASSUME NEW i \in DOMAIN ks, NEW j \in DOMAIN ks, ks[i] = ks[j], i < j
                 PROVE  FALSE
      BY <1>1
    <3>1. i \in 1 .. j - 1
      BY <1>1
    <3> QED
      BY <2>2, <3>1
  <2>4. Once(hs, h)
    <3>1. \A i, j \in DOMAIN ks : table[p][ks[i]] = h /\ table[p][ks[j]] = h => ks[i] = ks[j]
      BY <1>2, <2>2 DEF Single, OnceInTables
    <3> QED
      BY <2>3, <3>1 DEF Once
  <2>5. h \in Range(hs) => InTable(h) /\ ~InTable(h)'
    <3> SUFFICES ASSUME h \in Range(hs) PROVE InTable(h) /\ ~InTable(h)'
      OBVIOUS
    <3>1. PICK i \in DOMAIN ks : table[p][ks[i]] = h
      BY DEF Range
    <3>2. InTable(h) /\ \A r \in Procs, v \in Keys : table[r][v] = h => r = p /\ v = ks[i]
      BY <1>2, <2>2, <3>1 DEF InTable, Single, OnceInTables
    <3>3. i \in Found(p, ks)
      BY <1>7
    <3>4. \A r \in Procs, v \in Keys : table'[r][v] # h
      BY <1>3, <3>2, <3>3, NoneAssumption
    <3> QED
      BY <3>2, <3>4 DEF InTable
  <2> HIDE DEF hs
  <2>6. OnceInCalls(h)' /\ (InCall(h)' => InCall(h) \/ h \in Range(hs))
    BY <2>1, <2>4, <2>5, OneCall DEF Single
  <2>7. OnceInTables(h)' /\ (InTable(h)' => InTable(h))
    BY <1>3, NoneAssumption DEF Single, OnceInTables, InTable
  <2> QED
    BY <1>4, <1>5, <2>5, <2>6, <2>7 DEF Single
<1>8. CASE Found(p, ks) = DOMAIN ks /\ ~UNCHANGED call
  <2> DEFINE c == [Idle EXCEPT !.pc = "find", !.key = k, !.held = hs, !.data = d]
  <2>1. Finish(t, hs) \/ call' = [call EXCEPT ![t] = c]
    BY <1>8 DEF Take
  <2>2. c.held = hs
    BY DEF Idle
  <2> HIDE DEF c, hs
  <2>3. \E x : call' = [call EXCEPT ![t] = x] /\ x.held = hs
    BY <2>1, <2>2, Finished
  <2> QED
    BY <1>7, <1>8, <2>3
<1> QED
  BY <1>6, <1>8 DEF Take

LEMMA SinglePush ==
    ASSUME IInv, NEW t \in Threads, Push(t), NEW h \in Handles, Single(h)
    PROVE  Single(h)'
<1> DEFINE e == call[t].up
           m == [data |-> call[t].data, handles |-> call[t].held]
           q == Append(queue[e], m)
<1>1. call[t] \in Call /\ Consistent(call[t]) /\ call[t].pc = "push"
  BY DEF IInv, TypeOK, CallOK, Push
<1>2. e \in Ends /\ m \in Message
  BY <1>1, PeerAssumption DEF Consistent, Message, Call
<1>3. queue[e] \in Seq(Message)
  BY <1>2 DEF IInv, TypeOK
<1>4. queue' = [queue EXCEPT ![e] = q] /\ Finish(t, <<>>) /\ UNCHANGED <<table, kernel>>
  BY DEF Push, PushOn
<1>5. Carries(q, h) <=> Carries(queue[e], h) \/ h \in Range(call[t].held)
  BY <1>2, <1>3, CarriesAppend
<1>6. h \in Range(call[t].held) => InCall(h)
  BY DEF InCall
<1>7. CarriesOnce(q, h)
  <2>1. ~Carries(queue[e], h) \/ h \notin Range(call[t].held)
    BY <1>2, <1>6 DEF Single, Queued, InQueue
  <2>2. Once(m.handles, h) /\ CarriesOnce(queue[e], h)
    BY <1>2 DEF Single, OnceInCalls, OnceInQueues
  <2> QED
    BY <1>2, <1>3, <2>1, <2>2, OnceAppend
<1> HIDE DEF q
<1>8. Carries(q, h) /\ Queued(h) => InQueue(h, e)
  BY <1>5, <1>6 DEF Single, InQueue
<1>9. OnceInQueues(h)' /\ (Queued(h)' => Queued(h) \/ h \in Range(call[t].held))
  <2>1. OnceInQueues(h)' /\ (Queued(h)' => Queued(h) \/ Carries(q, h))
    BY <1>2, <1>4, <1>7, <1>8, OneQueue DEF Single
  <2>2. Carries(queue[e], h) => Queued(h)
    BY <1>2 DEF Queued, InQueue
  <2> QED
    BY <1>5, <2>1, <2>2
<1>10. PICK c : call' = [call EXCEPT ![t] = c] /\ c.held = <<>>
  BY <1>4, Finished
<1>11. /\ OnceInCalls(h)' /\ (InCall(h)' => InCall(h))
       /\ h \in Range(call[t].held) => ~InCall(h)'
  BY <1>10, OnceEmpty, OneCall DEF Single
<1>12. OnceInTables(h)' /\ (InTable(h)' <=> InTable(h))
  BY <1>4 DEF Single, OnceInTables, InTable
<1> QED
  BY <1>4, <1>6, <1>9, <1>11, <1>12 DEF Single

LEMMA SinglePop ==
    ASSUME IInv, NEW t \in Threads, Pop(t), NEW h \in Handles, Single(h)
    PROVE  Single(h)'
<1> DEFINE e == call[t].ref
           m == Head(queue[e])
           q == Tail(queue[e])
           c == [call[t] EXCEPT !.pc = "copy", !.held = m.handles, !.data = m.data]
<1>1. call[t] \in Call /\ Consistent(call[t]) /\ call[t].pc = "take"
  BY DEF IInv, TypeOK, CallOK, Pop
<1>2. e \in Ends /\ call[t].held = <<>>
  BY <1>1 DEF Consistent
<1>3. UNCHANGED <<table, kernel>>
  BY DEF Pop
<1>4. CASE Finish(t, call[t].held) /\ UNCHANGED queue
  BY <1>3, <1>4, Finished, SingleGoesOn
<1>5. CASE queue[e] # <<>> /\ queue' = [queue EXCEPT ![e] = q]
           /\ call' = [call EXCEPT ![t].pc = "copy", ![t].held = m.handles, ![t].data = m.data]
  <2>1. queue[e] \in Seq(Message)
    BY <1>2 DEF IInv, TypeOK
  <2>2. Carries(queue[e], h) <=> Carries(q, h) \/ h \in Range(m.handles)
    BY <1>5, <2>1, CarriesTail
  <2>3. /\ CarriesOnce(q, h) /\ Once(m.handles, h)
        /\ h \in Range(m.handles) => ~Carries(q, h)
    <3>1. CarriesOnce(queue[e], h)
      BY <1>2 DEF Single, OnceInQueues
    <3> QED
      BY <1>5, <2>1, <3>1, OnceTail
  <2>4. call' = [call EXCEPT ![t] = c] /\ c.held = m.handles
    <3> HIDE DEF m
    <3> QED
      BY <1>1, <1>5 DEF IInv, TypeOK, Call
  <2> HIDE DEF q, m, c
  <2>5. Carries(queue[e], h) => Queued(h) /\ InQueue(h, e)
    BY <1>2 DEF Queued, InQueue
  <2>6. /\ OnceInQueues(h)' /\ (Queued(h)' => Queued(h))
        /\ h \in Range(m.handles) => ~Queued(h)'
    <3>1. Carries(q, h) /\ Queued(h) => InQueue(h, e)
      BY <2>2, <2>5
    <3>2. /\ OnceInQueues(h)' /\ (Queued(h)' => Queued(h) \/ Carries(q, h))
          /\ InQueue(h, e) /\ ~Carries(q, h) => ~Queued(h)'
      BY <1>2, <1>5, <2>3, <3>1, OneQueue DEF Single
    <3> QED
      BY <2>2, <2>3, <2>5, <3>2
  <2>7. OnceInCalls(h)' /\ (InCall(h)' => InCall(h) \/ h \in Range(m.handles))
    <3>1. h \in Range(c.held) /\ InCall(h) => h \in Range(call[t].held)
      BY <2>2, <2>4, <2>5 DEF Single
    <3> QED
      BY <2>3, <2>4, <3>1, OneCall DEF Single
  <2>8. OnceInTables(h)' /\ (InTable(h)' <=> InTable(h))
    BY <1>3 DEF Single, OnceInTables, InTable
  <2> QED
    BY <1>3, <2>2, <2>5, <2>6, <2>7, <2>8 DEF Single
<1> QED
  BY <1>4, <1>5 DEF Pop

\* The handles hs of a call go into its process's table, and the call keeps
\* others of its own.
LEMMA SingleAdd ==
    ASSUME IInv, NEW t \in Threads, NEW hs \in Seq(Handles), AddAll(t, hs),
           Range(hs) \subseteq Range(call[t].held),
           NEW c, call' = [call EXCEPT ![t] = c],
           UNCHANGED <<queue, kernel>>,
           NEW h \in Handles, Single(h), Once(hs, h), Once(c.held, h),
           h \in Range(c.held) => h \in Range(call[t].held) /\ h \notin Range(hs)
    PROVE  Single(h)'
<1>1. ProcOf[t] \in Procs /\ Add(ProcOf[t], hs)
  BY ProcAssumption DEF AddAll
<1>2. h \in Range(call[t].held) => InCall(h)
  BY DEF InCall
<1>3. OnceInTables(h)' /\ (InTable(h)' => InTable(h) \/ h \in Range(hs))
  <2>1. h \in Range(hs) => ~InTable(h)
    BY <1>2 DEF Single
  <2> QED
    BY <1>1, <2>1, OneTable DEF Single
<1>4. /\ OnceInCalls(h)' /\ (InCall(h)' => InCall(h))
      /\ h \in Range(hs) => ~InCall(h)'
  BY <1>2, OneCall DEF Single
<1>5. OnceInQueues(h)' /\ (Queued(h)' <=> Queued(h))
  BY DEF Single, OnceInQueues, InQueue, Queued
<1> QED
  BY <1>2, <1>3, <1>4, <1>5 DEF Single

LEMMA SingleDeliver ==
    ASSUME IInv, NEW t \in Threads, Deliver(t) \/ AddSecond(t), NEW h \in Handles, Single(h)
    PROVE  Single(h)'
<1>1. AddAll(t, call[t].held) /\ Finish(t, <<>>) /\ UNCHANGED <<queue, kernel>>
  BY DEF Deliver, AddSecond
<1>2. call[t].held \in Seq(Handles) /\ Once(call[t].held, h)
  BY DEF IInv, TypeOK, Call, Single, OnceInCalls
<1>3. PICK c : call' = [call EXCEPT ![t] = c] /\ c.held = <<>>
  BY <1>1, Finished
<1> QED
  BY <1>1, <1>2, <1>3, OnceEmpty, SingleAdd

LEMMA SingleAddFirst ==
    ASSUME IInv, NEW t \in Threads, AddFirst(t), NEW h \in Handles, Single(h)
    PROVE  Single(h)'
<1> DEFINE q == call[t].held
           hs == <<Head(q)>>
           c == [call[t] EXCEPT !.pc = "second", !.held = Tail(q)]
<1>1. call[t] \in Call /\ q \in Seq(Handles) /\ q # <<>>
  BY DEF IInv, TypeOK, CallOK, Consistent, AddFirst, Call
<1>2. AddAll(t, hs) /\ UNCHANGED <<queue, kernel>>
  BY DEF AddFirst
<1>3. call' = [call EXCEPT ![t] = c] /\ c.held = Tail(q)
  BY <1>1 DEF AddFirst, IInv, TypeOK, Call
<1>4. Once(q, h)
  BY DEF Single, OnceInCalls
<1> HIDE DEF c, q
<1>5. /\ DOMAIN q = 1 .. Len(q) /\ Len(q) \in Nat \ {0}
      /\ DOMAIN Tail(q) = 1 .. Len(q) - 1 /\ Head(q) = q[1] /\ Head(q) \in Handles
      /\ \A i \in 1 .. Len(q) - 1 : Tail(q)[i] = q[i + 1]
  BY <1>1
<1>6. /\ hs \in Seq(Handles) /\ Once(hs, h) /\ Range(hs) = {Head(q)}
  BY <1>5 DEF Once, Range
<1>7. Head(q) \in Range(q)
  <2>1. 1 \in DOMAIN q
    BY <1>5
  <2> QED
    BY <1>5, <2>1 DEF Range
<1>8. ASSUME h \in Range(Tail(q)) PROVE h \in Range(q) /\ h # Head(q)
  <2>1. PICK i \in 1 .. Len(q) - 1 : h = Tail(q)[i]
    BY <1>5, <1>8 DEF Range
  <2>2. i + 1 \in DOMAIN q /\ h = q[i + 1] /\ 1 \in DOMAIN q /\ i + 1 # 1
    BY <1>5, <2>1
  <2> QED
    BY <1>4, <1>5, <2>2 DEF Once, Range
<1>9. Once(Tail(q), h)
  <2> SUFFICES ASSUME NEW i \in DOMAIN Tail(q), NEW j \in DOMAIN Tail(q),
                      Tail(q)[i] = h, Tail(q)[j] = h
               PROVE  i = j
    BY DEF Once
  <2>1. /\ i + 1 \in DOMAIN q /\ j + 1 \in DOMAIN q
        /\ q[i + 1] = h /\ q[j + 1] = h
    BY <1>5
  <2>2. i + 1 = j + 1
    BY <1>4, <2>1 DEF Once
  <2> QED
    BY <1>5, <2>2
<1> HIDE DEF hs
<1> QED
  BY <1>2, <1>3, <1>6, <1>7, <1>8, <1>9, SingleAdd DEF q

\* The handles of a new channel were nowhere before.
LEMMA SingleCreate ==
    ASSUME IInv, NEW t \in Threads, NEW f \in Handles, NEW g \in Handles,
           CreateChannel(t, f, g), NEW h \in Handles, Single(h)
    PROVE  Single(h)'
<1> DEFINE c == [Idle EXCEPT !.pc = "first", !.held = <<f, g>>]
<1>1. call' = [call EXCEPT ![t] = c] /\ c.held = <<f, g>>
  BY DEF CreateChannel, Idle
<1> HIDE DEF c
<1>2. f # g
  BY PeerAssumption DEF CreateChannel
<1>3. Once(<<f, g>>, h) /\ (h \in Range(<<f, g>>) => h \in {f, g})
  BY <1>2 DEF Once, Range
<1>4. h \in {f, g} => ~Placed(h)
  BY DEF CreateChannel, Unmade, IInv, MadeOK
<1>5. OnceInCalls(h)' /\ (InCall(h)' => InCall(h) \/ h \in {f, g})
  BY <1>1, <1>3, <1>4, OneCall DEF Single, Placed
<1>6. UNCHANGED <<table, queue, kernel>>
  BY DEF CreateChannel
<1>7. OnceInTables(h)' /\ (InTable(h)' <=> InTable(h))
  BY <1>6 DEF Single, OnceInTables, InTable
<1>8. OnceInQueues(h)' /\ (Queued(h)' <=> Queued(h))
  BY <1>6 DEF Single, OnceInQueues, InQueue, Queued
<1> QED
  BY <1>4, <1>5, <1>6, <1>7, <1>8 DEF Single, Placed, Queued

LEMMA SingleGive ==
    ASSUME IInv, NEW p \in Procs, NEW g \in Handles, Give(p, g),
           NEW h \in Handles, Single(h)
    PROVE  Single(h)'
<1>1. <<g>> \in Seq(Handles) /\ Range(<<g>>) = {g} /\ Once(<<g>>, h)
  BY DEF Range, Once
<1>2. g \in kernel /\ kernel' = kernel \ {g} /\ Add(p, <<g>>) /\ UNCHANGED <<queue, call>>
  BY DEF Give
<1>3. OnceInTables(h)' /\ (InTable(h)' => InTable(h) \/ h = g)
  <2>1. h \in Range(<<g>>) => ~InTable(h)
    BY <1>1, <1>2 DEF Single
  <2> QED
    BY <1>1, <1>2, <2>1, OneTable DEF Single
<1>4. OnceInCalls(h)' /\ (InCall(h)' <=> InCall(h))
  BY <1>2 DEF Single, OnceInCalls, InCall
<1>5. OnceInQueues(h)' /\ (Queued(h)' <=> Queued(h))
  BY <1>2 DEF Single, OnceInQueues, InQueue, Queued
<1> QED
  BY <1>2, <1>3, <1>4, <1>5 DEF Single

LEMMA SingleKernelWrite ==
    ASSUME IInv, NEW g \in Handles, NEW hs \in ListsOf(Handles, MaxWrite), NEW d \in Lengths,
           KernelWrite(g, hs, d), NEW h \in Handles, Single(h)
    PROVE  Single(h)'
<1> DEFINE e == Peer[Object[g]]
           m == [data |-> d, handles |-> hs]
           q == Append(queue[e], m)
<1>1. e \in Ends /\ hs \in Seq(Handles) /\ m \in Message
  BY PeerAssumption, ListIsSeq DEF KernelWrite, Message
<1>2. queue[e] \in Seq(Message)
  BY <1>1 DEF IInv, TypeOK
<1>3. /\ Range(hs) \subseteq kernel /\ kernel' = kernel \ Range(hs)
      /\ UNCHANGED <<table, call>>
      /\ queue' = queue \/ queue' = [queue EXCEPT ![e] = q]
  BY DEF KernelWrite, PushOn
<1>4. Once(hs, h)
  BY DEF KernelWrite, IsInjective, Once
<1>5. Carries(q, h) <=> Carries(queue[e], h) \/ h \in Range(hs)
  BY <1>1, <1>2, CarriesAppend
<1>6. Carries(queue[e], h) => Queued(h) /\ InQueue(h, e)
  BY <1>1 DEF Queued, InQueue
<1>7. CarriesOnce(q, h)
  <2>1. ~Carries(queue[e], h) \/ h \notin Range(hs)
    BY <1>3, <1>6 DEF Single
  <2>2. CarriesOnce(queue[e], h)
    BY <1>1 DEF Single, OnceInQueues
  <2> QED
    BY <1>1, <1>2, <1>4, <2>1, <2>2, OnceAppend
<1> HIDE DEF q
<1>8. OnceInQueues(h)' /\ (Queued(h)' => Queued(h) \/ h \in Range(hs))
  <2>1. CASE queue' = queue
    BY <2>1 DEF Single, OnceInQueues, InQueue, Queued
  <2>2. CASE queue' = [queue EXCEPT ![e] = q]
    <3>1. Carries(q, h) /\ Queued(h) => InQueue(h, e)
      BY <1>3, <1>5, <1>6 DEF Single
    <3> QED
      BY <1>1, <1>5, <1>6, <1>7, <2>2, <3>1, OneQueue DEF Single
  <2> QED
    BY <1>3, <2>1, <2>2
<1>9. OnceInTables(h)' /\ (InTable(h)' <=> InTable(h))
  BY <1>3 DEF Single, OnceInTables, InTable
<1>10. OnceInCalls(h)' /\ (InCall(h)' <=> InCall(h))
  BY <1>3 DEF Single, OnceInCalls, InCall
<1> QED
  BY <1>3, <1>8, <1>9, <1>10 DEF Single

LEMMA SingleDropMessage ==
    ASSUME IInv, NEW e \in Ends, DropMessage(e), NEW h \in Handles, Single(h)
    PROVE  Single(h)'
<1> DEFINE q == Tail(queue[e])
<1>1. queue[e] \in Seq(Message) /\ queue[e] # <<>> /\ queue' = [queue EXCEPT ![e] = q]
  BY DEF DropMessage, IInv, TypeOK
<1>2. CarriesOnce(q, h) /\ (Carries(q, h) => Carries(queue[e], h))
  BY <1>1, OnceTail, CarriesTail DEF Single, OnceInQueues
<1> HIDE DEF q
<1>3. OnceInQueues(h)' /\ (Queued(h)' => Queued(h))
  <2>1. Carries(q, h) => InQueue(h, e) /\ Queued(h)
    BY <1>2 DEF InQueue, Queued
  <2> QED
    BY <1>1, <1>2, <2>1, OneQueue DEF Single
<1>4. UNCHANGED call /\ kernel' = kernel /\ table' = table
  BY DEF DropMessage
<1> QED
  BY <1>3, <1>4, SingleLeaves

LEMMA SingleOutside ==
    ASSUME IInv, NEW h \in Handles, Single(h),
           (\E p \in Procs, k \in Keys : Close(p, k)) \/ \E g \in Handles : KernelDrop(g)
    PROVE  Single(h)'
<1>1. UNCHANGED <<queue, call>> /\ kernel' \subseteq kernel
  BY DEF Close, KernelDrop
<1>2. \A p \in Procs, k \in Keys : table'[p][k] \in {table[p][k], None}
  BY DEF Close, KernelDrop, IInv, TypeOK
<1>3. OnceInQueues(h)' /\ (Queued(h)' <=> Queued(h))
  BY <1>1 DEF Single, OnceInQueues, InQueue, Queued
<1> QED
  BY <1>1, <1>2, <1>3, SingleLeaves

\* The steps of a call that move no handle.
LEMMA SingleRests ==
    ASSUME IInv, NEW t \in Threads,
           FindToWrite(t) \/ Upgrade(t) \/ Discard(t) \/ Return(t)
           \/ (\E k \in Keys, keep \in BOOLEAN, b \in Buffers : FindToRead(t, k, keep, b)),
           NEW h \in Handles, Single(h)
    PROVE  Single(h)'
<1>1. UNCHANGED <<table, queue, kernel>>
  BY DEF FindToWrite, Upgrade, Discard, Return, FindToRead
<1>2. call[t] \in Call
  BY DEF IInv, TypeOK
<1>3. CASE Finish(t, call[t].held)
  BY <1>1, <1>3, Finished, SingleGoesOn
<1>4. CASE FindToWrite(t) /\ ~Finish(t, call[t].held)
  <2> DEFINE c == [call[t] EXCEPT !.pc = "send",
                                  !.ref = Object[table[ProcOf[t]][call[t].key]]]
  <2>1. call' = [call EXCEPT ![t] = c] /\ c.held = call[t].held
    BY <1>2, <1>4 DEF FindToWrite, IInv, TypeOK, Call
  <2> HIDE DEF c
  <2> QED
    BY <1>1, <2>1, SingleGoesOn
<1>5. CASE Upgrade(t) /\ ~Finish(t, call[t].held)
  <2> DEFINE c == [call[t] EXCEPT !.pc = "push", !.up = Peer[call[t].ref]]
  <2>1. call' = [call EXCEPT ![t] = c] /\ c.held = call[t].held
    BY <1>2, <1>5 DEF Upgrade, IInv, TypeOK, Call
  <2> HIDE DEF c
  <2> QED
    BY <1>1, <2>1, SingleGoesOn
<1>6. CASE Return(t)
  <2>1. call' = [call EXCEPT ![t] = Idle] /\ Idle.held = <<>>
    BY <1>6 DEF Return, Idle
  <2> QED
    BY <1>1, <2>1, SingleGoesOn
<1>7. ASSUME NEW k \in Keys, NEW keep \in BOOLEAN, NEW b \in Buffers, FindToRead(t, k, keep, b)
      PROVE  Single(h)'
  <2> DEFINE c == [Idle EXCEPT !.pc = "take", !.ref = Object[table[ProcOf[t]][k]],
                               !.keep = keep, !.buffer = b]
  <2>1. call' = [call EXCEPT ![t] = c] /\ c.held = <<>>
    BY <1>7 DEF FindToRead, Idle
  <2> HIDE DEF c
  <2> QED
    BY <1>1, <2>1, SingleGoesOn
<1> QED
  BY <1>3, <1>4, <1>5, <1>6, <1>7 DEF Discard

LEMMA SingleNext ==
    ASSUME IInv, [Next]_vars, NEW h \in Handles, Single(h)
    PROVE  Single(h)'
<1>1. CASE UNCHANGED vars
  BY <1>1 DEF vars, Single, OnceInTables, OnceInCalls, OnceInQueues, InTable, InCall,
              Queued, InQueue
<1>2. ASSUME NEW t \in Threads, Work(t) PROVE Single(h)'
  BY <1>2, SingleRests, SinglePush, SinglePop, SingleDeliver, SingleAddFirst DEF Work
<1> QED
  BY <1>1, <1>2, SingleTake, SingleRests, SingleCreate, SingleOutside, SingleGive,
     SingleKernelWrite, SingleDropMessage DEF Next

LEMMA SingleInit == Init => SingleOK
<1> SUFFICES ASSUME Init, NEW h \in Handles PROVE Single(h)
  BY DEF SingleOK
<1>1. \A p \in Procs, k \in Keys : table[p][k] # h
  BY NoneAssumption DEF Init
<1>2. \A t \in Threads : call[t].held = <<>>
  BY DEF Init, Idle
<1>3. \A e \in Ends : queue[e] = <<>>
  BY DEF Init
<1>4. OnceInTables(h) /\ ~InTable(h)
  BY <1>1 DEF OnceInTables, InTable
<1>5. OnceInCalls(h) /\ ~InCall(h)
  BY <1>2, OnceEmpty DEF OnceInCalls, InCall
<1>6. \A e \in Ends : CarriesOnce(queue[e], h) /\ ~InQueue(h, e)
  BY <1>3 DEF CarriesOnce, InQueue, Carries
<1> QED
  BY <1>4, <1>5, <1>6 DEF Single, OnceInQueues, Queued

LEMMA SingleAlways == Spec => []SingleOK
<1>1. IInv /\ SingleOK /\ [Next]_vars => SingleOK'
  BY SingleNext DEF SingleOK
<1> QED
  BY <1>1, SingleInit, Invariant, PTL DEF Spec

\* Through writes, reads, failures and two threads at once a handle is in one
\* place: in one table, call, queue or with the start-up code, and there once
\* (Process::remove_handles, Channel::push_general, Channel::check_and_read).
THEOREM HandlesOnce == Spec => []OnePlace
BY SingleAlways, SingleOnePlace, PTL

-----------------------------------------------------------------------------
(* No handle is lost on the way.                                            *)

LEMMA ListRoom ==
    ASSUME NEW S, NEW l \in ListsOf(S, MaxWrite)
    PROVE  Len(l) \in Nat /\ Len(l) <= KeyCount /\ DOMAIN l = 1 .. Len(l)
<1>1. PICK n \in 0 .. MaxWrite : l \in [1 .. n -> S]
  BY DEF ListsOf
<1>2. n \in Nat /\ n <= KeyCount
  BY BoundAssumption
<1>3. Len(l) = n /\ DOMAIN l = 1 .. n
  BY <1>1, <1>2, IsSeq
<1> QED
  BY <1>2, <1>3

LEMMA RoomCall ==
    ASSUME IInv, RoomOK, NEW t \in Threads, NEW c, Room(c),
           call' = [call EXCEPT ![t] = c], UNCHANGED queue
    PROVE  RoomOK'
<1>1. \A s \in Threads : call'[s] = IF s = t THEN c ELSE call[s]
  BY DEF IInv, TypeOK
<1> QED
  BY <1>1 DEF RoomOK

LEMMA RoomFinish ==
    ASSUME IInv, RoomOK, NEW t \in Threads, NEW hs, Finish(t, hs), UNCHANGED queue
    PROVE  RoomOK'
<1>1. PICK c : call' = [call EXCEPT ![t] = c] /\ c.pc = "done"
  BY Finished
<1> QED
  BY <1>1, RoomCall DEF Room

LEMMA RoomQueue ==
    ASSUME IInv, RoomOK, NEW e \in Ends, NEW q, queue' = [queue EXCEPT ![e] = q],
           \A i \in DOMAIN q : Len(q[i].handles) <= KeyCount,
           \A t \in Threads : Room(call[t])'
    PROVE  RoomOK'
<1>1. \A f \in Ends : queue'[f] = IF f = e THEN q ELSE queue[f]
  BY DEF IInv, TypeOK
<1> QED
  BY <1>1 DEF RoomOK

LEMMA RoomAppend ==
    ASSUME NEW q \in Seq(Message), NEW m \in Message, Len(m.handles) <= KeyCount,
           \A i \in DOMAIN q : Len(q[i].handles) <= KeyCount
    PROVE  \A i \in DOMAIN Append(q, m) : Len(Append(q, m)[i].handles) <= KeyCount
<1> DEFINE r == Append(q, m)
<1>1. /\ DOMAIN q = 1 .. Len(q) /\ Len(q) \in Nat
      /\ DOMAIN r = 1 .. Len(q) + 1
      /\ r[Len(q) + 1] = m
      /\ \A i \in 1 .. Len(q) : r[i] = q[i]
  OBVIOUS
<1> HIDE DEF r
<1>2. \A i \in DOMAIN r : i = Len(q) + 1 \/ i \in DOMAIN q
  BY <1>1
<1>3. \A i \in DOMAIN r : Len(r[i].handles) <= KeyCount
  BY <1>1, <1>2
<1> QED
  BY <1>3 DEF r

LEMMA RoomTail ==
    ASSUME NEW q \in Seq(Message), q # <<>>,
           \A i \in DOMAIN q : Len(q[i].handles) <= KeyCount
    PROVE  /\ \A i \in DOMAIN Tail(q) : Len(Tail(q)[i].handles) <= KeyCount
           /\ Len(Head(q).handles) <= KeyCount
<1> DEFINE r == Tail(q)
<1>1. /\ DOMAIN q = 1 .. Len(q) /\ Len(q) \in Nat \ {0}
      /\ DOMAIN r = 1 .. Len(q) - 1
      /\ Head(q) = q[1]
      /\ \A i \in 1 .. Len(q) - 1 : r[i] = q[i + 1]
  OBVIOUS
<1> HIDE DEF r
<1>2. \A i \in DOMAIN r : i + 1 \in DOMAIN q /\ r[i] = q[i + 1]
  BY <1>1
<1>3. \A i \in DOMAIN r : Len(r[i].handles) <= KeyCount
  BY <1>2
<1>4. 1 \in DOMAIN q
  BY <1>1
<1> QED
  BY <1>1, <1>3, <1>4 DEF r

LEMMA RoomTake ==
    ASSUME IInv, RoomOK, NEW t \in Threads, NEW k \in Keys,
           NEW ks \in ListsOf(Keys, MaxWrite), NEW d \in Lengths, Take(t, k, ks, d)
    PROVE  RoomOK'
<1> DEFINE hs == [i \in DOMAIN ks |-> table[ProcOf[t]][ks[i]]]
           c == [Idle EXCEPT !.pc = "find", !.key = k, !.held = hs, !.data = d]
<1>1. UNCHANGED queue /\ (UNCHANGED call \/ Finish(t, hs) \/ call' = [call EXCEPT ![t] = c])
  BY DEF Take
<1>2. Len(hs) <= KeyCount
  <2>1. hs \in [1 .. Len(ks) -> {hs[i] : i \in 1 .. Len(ks)}]
    BY ListRoom
  <2> HIDE DEF hs
  <2>2. Len(hs) = Len(ks)
    BY <2>1, IsSeq, ListRoom
  <2> QED
    BY <2>2, ListRoom
<1> HIDE DEF hs
<1>3. c.pc = "find" /\ c.held = hs
  BY DEF Idle
<1> HIDE DEF c
<1>4. CASE UNCHANGED call
  BY <1>1, <1>4 DEF RoomOK
<1> QED
  BY <1>1, <1>2, <1>3, <1>4, RoomFinish, RoomCall DEF Room

LEMMA RoomPush ==
    ASSUME IInv, RoomOK, NEW t \in Threads, Push(t)
    PROVE  RoomOK'
<1> DEFINE e == call[t].up
           m == [data |-> call[t].data, handles |-> call[t].held]
           q == Append(queue[e], m)
<1>1. call[t] \in Call /\ Consistent(call[t]) /\ call[t].pc = "push"
  BY DEF IInv, TypeOK, CallOK, Push
<1>2. e \in Ends /\ m \in Message
  BY <1>1, PeerAssumption DEF Consistent, Message, Call
<1>3. queue[e] \in Seq(Message)
  BY <1>2 DEF IInv, TypeOK
<1>4. queue' = [queue EXCEPT ![e] = q] /\ Finish(t, <<>>)
  BY DEF Push, PushOn
<1>5. \A i \in DOMAIN q : Len(q[i].handles) <= KeyCount
  <2>1. Len(m.handles) <= KeyCount
    BY <1>1 DEF RoomOK, Room
  <2>2. \A i \in DOMAIN queue[e] : Len(queue[e][i].handles) <= KeyCount
    BY <1>2 DEF RoomOK
  <2> QED
    BY <1>2, <1>3, <2>1, <2>2, RoomAppend
<1> HIDE DEF q
<1>6. PICK c : call' = [call EXCEPT ![t] = c] /\ c.pc = "done"
  BY <1>4, Finished
<1>7. \A s \in Threads : Room(call[s])'
  <2>1. \A s \in Threads : call'[s] = IF s = t THEN c ELSE call[s]
    BY <1>6 DEF IInv, TypeOK
  <2> QED
    BY <1>6, <2>1 DEF RoomOK, Room
<1> QED
  BY <1>2, <1>4, <1>5, <1>7, RoomQueue

LEMMA RoomPop ==
    ASSUME IInv, RoomOK, NEW t \in Threads, Pop(t)
    PROVE  RoomOK'
<1> DEFINE e == call[t].ref
           m == Head(queue[e])
           q == Tail(queue[e])
           c == [call[t] EXCEPT !.pc = "copy", !.held = m.handles, !.data = m.data]
<1>1. call[t] \in Call /\ Consistent(call[t]) /\ call[t].pc = "take"
  BY DEF IInv, TypeOK, CallOK, Pop
<1>2. e \in Ends
  BY <1>1 DEF Consistent
<1>3. CASE Finish(t, call[t].held) /\ UNCHANGED queue
  BY <1>3, RoomFinish
<1>4. CASE queue[e] # <<>> /\ queue' = [queue EXCEPT ![e] = q]
           /\ call' = [call EXCEPT ![t].pc = "copy", ![t].held = m.handles, ![t].data = m.data]
  <2>1. queue[e] \in Seq(Message)
    BY <1>2 DEF IInv, TypeOK
  <2>2. /\ \A i \in DOMAIN q : Len(q[i].handles) <= KeyCount
        /\ Len(m.handles) <= KeyCount
    <3>1. \A i \in DOMAIN queue[e] : Len(queue[e][i].handles) <= KeyCount
      BY <1>2 DEF RoomOK
    <3> QED
      BY <1>4, <2>1, <3>1, RoomTail
  <2>3. call' = [call EXCEPT ![t] = c] /\ c.held = m.handles /\ c.pc = "copy"
    <3> HIDE DEF m
    <3> QED
      BY <1>1, <1>4 DEF IInv, TypeOK, Call
  <2> HIDE DEF q, m, c
  <2>4. \A s \in Threads : Room(call[s])'
    <3>1. \A s \in Threads : call'[s] = IF s = t THEN c ELSE call[s]
      BY <2>3 DEF IInv, TypeOK
    <3> QED
      BY <2>2, <2>3, <3>1 DEF RoomOK, Room
  <2> QED
    BY <1>2, <1>4, <2>2, <2>4, RoomQueue
<1> QED
  BY <1>3, <1>4 DEF Pop

LEMMA RoomKernelWrite ==
    ASSUME IInv, RoomOK, NEW g \in Handles, NEW hs \in ListsOf(Handles, MaxWrite),
           NEW d \in Lengths, KernelWrite(g, hs, d)
    PROVE  RoomOK'
<1> DEFINE e == Peer[Object[g]]
           m == [data |-> d, handles |-> hs]
           q == Append(queue[e], m)
<1>1. e \in Ends /\ m \in Message /\ Len(hs) <= KeyCount
  BY PeerAssumption, ListIsSeq, ListRoom DEF KernelWrite, Message
<1>2. queue[e] \in Seq(Message)
  BY <1>1 DEF IInv, TypeOK
<1>3. call' = call /\ (queue' = queue \/ queue' = [queue EXCEPT ![e] = q])
  BY DEF KernelWrite, PushOn
<1>4. \A i \in DOMAIN q : Len(q[i].handles) <= KeyCount
  <2>1. \A i \in DOMAIN queue[e] : Len(queue[e][i].handles) <= KeyCount
    BY <1>1 DEF RoomOK
  <2> QED
    BY <1>1, <1>2, <2>1, RoomAppend
<1> HIDE DEF q
<1>5. CASE queue' = queue
  BY <1>3, <1>5 DEF RoomOK
<1>6. CASE queue' = [queue EXCEPT ![e] = q]
  <2>1. \A t \in Threads : Room(call[t])'
    BY <1>3 DEF RoomOK
  <2> QED
    BY <1>1, <1>4, <1>6, <2>1, RoomQueue
<1> QED
  BY <1>3, <1>5, <1>6

LEMMA RoomDropMessage ==
    ASSUME IInv, RoomOK, NEW e \in Ends, DropMessage(e)
    PROVE  RoomOK'
<1> DEFINE q == Tail(queue[e])
<1>1. /\ queue[e] \in Seq(Message) /\ queue[e] # <<>> /\ queue' = [queue EXCEPT ![e] = q]
      /\ call' = call
  BY DEF DropMessage, IInv, TypeOK
<1>2. \A i \in DOMAIN q : Len(q[i].handles) <= KeyCount
  BY <1>1, RoomTail DEF RoomOK
<1> HIDE DEF q
<1>3. \A t \in Threads : Room(call[t])'
  BY <1>1 DEF RoomOK
<1> QED
  BY <1>1, <1>2, <1>3, RoomQueue

LEMMA RoomWork ==
    ASSUME IInv, RoomOK, NEW t \in Threads, Work(t)
    PROVE  RoomOK'
<1>1. call[t] \in Call /\ Room(call[t]) /\ Consistent(call[t])
  BY DEF IInv, TypeOK, CallOK, RoomOK
<1>2. CASE UNCHANGED queue /\ \E hs : Finish(t, hs)
  BY <1>2, RoomFinish
<1>3. CASE FindToWrite(t)
  <2> DEFINE c == [call[t] EXCEPT !.pc = "send",
                                  !.ref = Object[table[ProcOf[t]][call[t].key]]]
  <2>1. CASE call' = [call EXCEPT ![t].pc = "send",
                                  ![t].ref = Object[table[ProcOf[t]][call[t].key]]]
    <3>1. call' = [call EXCEPT ![t] = c] /\ c.held = call[t].held /\ c.pc = "send"
      BY <1>1, <2>1 DEF IInv, TypeOK, Call
    <3>2. call[t].pc = "find" /\ UNCHANGED queue
      BY <1>3 DEF FindToWrite
    <3> HIDE DEF c
    <3> QED
      BY <1>1, <3>1, <3>2, RoomCall DEF Room
  <2> QED
    BY <1>2, <1>3, <2>1 DEF FindToWrite
<1>4. CASE Upgrade(t)
  <2> DEFINE c == [call[t] EXCEPT !.pc = "push", !.up = Peer[call[t].ref]]
  <2>1. CASE call' = [call EXCEPT ![t].pc = "push", ![t].up = Peer[call[t].ref]]
    <3>1. call' = [call EXCEPT ![t] = c] /\ c.held = call[t].held /\ c.pc = "push"
      BY <1>1, <2>1 DEF IInv, TypeOK, Call
    <3>2. call[t].pc = "send" /\ UNCHANGED queue
      BY <1>4 DEF Upgrade
    <3> HIDE DEF c
    <3> QED
      BY <1>1, <3>1, <3>2, RoomCall DEF Room
  <2> QED
    BY <1>2, <1>4, <2>1 DEF Upgrade
<1>5. CASE Return(t)
  <2>1. call' = [call EXCEPT ![t] = Idle] /\ UNCHANGED queue /\ Room(Idle)
    BY <1>5 DEF Return, Room, Idle
  <2> QED
    BY <2>1, RoomCall
<1>6. CASE AddFirst(t)
  <2> DEFINE c == [call[t] EXCEPT !.pc = "second", !.held = Tail(call[t].held)]
  <2>1. /\ call' = [call EXCEPT ![t] = c] /\ c.held = Tail(call[t].held)
        /\ c.pc = "second" /\ UNCHANGED queue
    BY <1>1, <1>6 DEF AddFirst, IInv, TypeOK, Call
  <2>2. call[t].held \in Seq(Handles) /\ Len(call[t].held) = 2 /\ call[t].held # <<>>
    BY <1>1, <1>6 DEF AddFirst, Room, Consistent, Call
  <2>3. Len(Tail(call[t].held)) = 1
    BY <2>2, HeadTailProperties
  <2> HIDE DEF c
  <2> QED
    BY <2>1, <2>3, RoomCall DEF Room
<1> QED
  BY <1>2, <1>3, <1>4, <1>5, <1>6, RoomPush, RoomPop DEF Work, Discard, Deliver, AddSecond

LEMMA RoomNext ==
    ASSUME IInv, RoomOK, [Next]_vars
    PROVE  RoomOK'
<1>1. ASSUME NEW t \in Threads, NEW k \in Keys, NEW keep \in BOOLEAN, NEW b \in Buffers,
             FindToRead(t, k, keep, b)
      PROVE  RoomOK'
  <2> DEFINE c == [Idle EXCEPT !.pc = "take", !.ref = Object[table[ProcOf[t]][k]],
                               !.keep = keep, !.buffer = b]
  <2>1. call' = [call EXCEPT ![t] = c] /\ c.pc = "take" /\ UNCHANGED queue
    BY <1>1 DEF FindToRead, Idle
  <2> HIDE DEF c
  <2> QED
    BY <2>1, RoomCall DEF Room
<1>2. ASSUME NEW t \in Threads, NEW f \in Handles, NEW g \in Handles, CreateChannel(t, f, g)
      PROVE  RoomOK'
  <2> DEFINE c == [Idle EXCEPT !.pc = "first", !.held = <<f, g>>]
  <2>1. call' = [call EXCEPT ![t] = c] /\ c.pc = "first" /\ c.held = <<f, g>> /\ UNCHANGED queue
    BY <1>2 DEF CreateChannel, Idle
  <2>2. Len(c.held) = 2
    BY <2>1
  <2> HIDE DEF c
  <2> QED
    BY <2>1, <2>2, RoomCall DEF Room
<1>3. CASE UNCHANGED <<queue, call>>
  BY <1>3 DEF RoomOK
<1> QED
  BY <1>1, <1>2, <1>3, RoomTake, RoomWork, RoomKernelWrite, RoomDropMessage
     DEF Next, vars, Close, Give, KernelDrop

LEMMA RoomAlways == Spec => []RoomOK
<1>1. Init => RoomOK
  BY DEF Init, RoomOK, Room, Idle
<1>2. IInv /\ RoomOK /\ [Next]_vars => RoomOK'
  BY RoomNext
<1> QED
  BY <1>1, <1>2, Invariant, PTL DEF Spec

-----------------------------------------------------------------------------
\* What excuses that a handle is nowhere any more
Excused(h) ==
    \/ h \in kernel
    \/ Overwritten(h)
    \/ InTable(h) /\ UNCHANGED call
    \/ \E t \in Threads : call[t].pc = "done" /\ h \in Range(call[t].held)
    \/ \E e \in Ends : InQueue(h, e) /\ ~Alive(e)

\* add_handle puts every handle of a list that has room into the table.
LEMMA AddPlaces ==
    ASSUME IInv, NEW p \in Procs, NEW hs \in Seq(Handles), Len(hs) <= KeyCount, Add(p, hs)
    PROVE  /\ \A h \in Range(hs) : InTable(h)'
           /\ \A h \in Handles : InTable(h) => InTable(h)' \/ Overwritten(h)
<1> DEFINE Turn(k) == 1 + ((k + KeyCount - nextKey[p]) % KeyCount)
           row == [k \in Keys |-> IF Turn(k) <= Len(hs) THEN hs[Turn(k)] ELSE table[p][k]]
<1>1. nextKey[p] \in Keys /\ KeyCount \in Nat \ {0}
  BY BoundAssumption DEF IInv, TypeOK
<1>2. \A i \in 1 .. KeyCount : \E k \in Keys : Turn(k) = i
  BY <1>1, TurnOf
<1>3. table' = [table EXCEPT ![p] = row]
  BY DEF Add
<1>4. DOMAIN hs = 1 .. Len(hs) /\ Len(hs) \in Nat /\ \A i \in 1 .. Len(hs) : hs[i] \in Handles
  BY InSeq
<1>5. \A k \in Keys : Turn(k) \in Nat \ {0}
  <2> SUFFICES ASSUME NEW k \in Keys PROVE Turn(k) \in Nat \ {0}
    OBVIOUS
  <2> DEFINE a == k + KeyCount - nextKey[p]
  <2>1. a \in Nat
    BY <1>1 DEF Keys
  <2> HIDE DEF a
  <2>2. a % KeyCount \in 0 .. KeyCount - 1
    BY <1>1, <2>1, Remainder
  <2>3. 1 + (a % KeyCount) \in Nat \ {0}
    BY <1>1, <2>2
  <2> QED
    BY <2>3 DEF a
<1> HIDE DEF Turn
<1>6. \A r \in Procs, k \in Keys : table'[r][k] = IF r = p THEN row[k] ELSE table[r][k]
  BY <1>3 DEF IInv, TypeOK
<1>7. ASSUME NEW h \in Range(hs) PROVE InTable(h)'
  <2>1. PICK i \in 1 .. Len(hs) : hs[i] = h
    BY <1>4 DEF Range
  <2>2. i \in 1 .. KeyCount
    BY <1>1, <1>4
  <2>3. PICK k \in Keys : Turn(k) = i
    BY <1>2, <2>2
  <2>4. row[k] = h
    BY <2>1, <2>3
  <2> QED
    BY <1>6, <2>4 DEF InTable
<1>8. \A k \in Keys : row[k] = table[p][k] \/ row[k] \in Handles
  BY <1>4, <1>5
<1> HIDE DEF row
<1>9. ASSUME NEW h \in Handles, InTable(h), ~InTable(h)' PROVE Overwritten(h)
  <2>1. PICK r \in Procs, k \in Keys : table[r][k] = h
    BY <1>9 DEF InTable
  <2>2. table'[r][k] # h
    BY <1>9 DEF InTable
  <2>3. r = p /\ table'[r][k] = row[k] /\ row[k] \in Handles
    BY <1>6, <1>8, <2>1, <2>2
  <2> QED
    BY <2>1, <2>2, <2>3, NoneAssumption DEF Overwritten
<1> QED
  BY <1>7, <1>9

\* A call goes on, and what it held or took from elsewhere is still somewhere.
LEMMA KeepsAll ==
    ASSUME IInv, NEW t \in Threads, NEW c, call' = [call EXCEPT ![t] = c],
           NEW h \in Handles, Placed(h), ~Placed(h)',
           h \in Range(call[t].held) => h \in Range(c.held) \/ InTable(h)' \/ Queued(h)',
           InTable(h) => InTable(h)' \/ h \in Range(c.held) \/ Overwritten(h),
           Queued(h) => Queued(h)' \/ h \in Range(c.held),
           kernel' = kernel
    PROVE  Excused(h)
<1>1. \A s \in Threads : call'[s] = IF s = t THEN c ELSE call[s]
  BY DEF IInv, TypeOK
<1>2. ~InCall(h)' /\ ~InTable(h)' /\ ~Queued(h)' /\ h \notin kernel'
  BY DEF Placed, Queued
<1>3. h \in Range(c.held) => InCall(h)'
  BY <1>1 DEF InCall
<1>4. ~InCall(h)
  <2>1. h \notin Range(call[t].held)
    BY <1>2, <1>3
  <2>2. \A s \in Threads : s # t => h \notin Range(call[s].held)
    BY <1>1, <1>2 DEF InCall
  <2> QED
    BY <2>1, <2>2 DEF InCall
<1>5. InTable(h) \/ Queued(h) \/ h \in kernel
  BY <1>4 DEF Placed, Queued
<1> QED
  BY <1>2, <1>3, <1>5 DEF Excused

LEMMA SameElsewhere ==
    ASSUME UNCHANGED <<table, queue, kernel>>, NEW h \in Handles
    PROVE  (InTable(h)' <=> InTable(h)) /\ (Queued(h)' <=> Queued(h))
BY DEF InTable, Queued, InQueue

LEMMA DropsTake ==
    ASSUME IInv, NEW t \in Threads, NEW k \in Keys,
           NEW ks \in ListsOf(Keys, MaxWrite), NEW d \in Lengths, Take(t, k, ks, d),
           NEW h \in Handles, Placed(h), ~Placed(h)'
    PROVE  Excused(h)
<1> DEFINE p == ProcOf[t]
           hs == [i \in DOMAIN ks |-> table[p][ks[i]]]
           c == [Idle EXCEPT !.pc = "find", !.key = k, !.held = hs, !.data = d]
<1>1. p \in Procs
  BY ProcAssumption
<1>2. \A r \in Procs, v \in Keys : table'[r][v] =
          IF r = p /\ \E i \in Found(p, ks) : ks[i] = v THEN None ELSE table[r][v]
  BY <1>1 DEF Take, IInv, TypeOK
<1>3. UNCHANGED <<queue, kernel>>
  BY DEF Take
<1>4. Queued(h)' <=> Queued(h)
  BY <1>3 DEF Queued, InQueue
<1>5. CASE UNCHANGED call
  <2>1. InCall(h)' <=> InCall(h)
    BY <1>5 DEF InCall
  <2>2. InTable(h)
    BY <1>3, <1>4, <2>1 DEF Placed, Queued
  <2> QED
    BY <1>5, <2>2 DEF Excused
<1>6. CASE ~UNCHANGED call
  <2>1. Finish(t, hs) \/ call' = [call EXCEPT ![t] = c]
    BY <1>6 DEF Take
  <2>2. c.held = hs
    BY DEF Idle
  <2>3. InTable(h) => InTable(h)' \/ h \in Range(hs)
    <3> SUFFICES ASSUME InTable(h), ~InTable(h)' PROVE h \in Range(hs)
      OBVIOUS
    <3>1. PICK r \in Procs, v \in Keys : table[r][v] = h
      BY DEF InTable
    <3>2. PICK i \in Found(p, ks) : ks[i] = v /\ r = p
      BY <1>2, <3>1 DEF InTable
    <3>3. i \in DOMAIN ks /\ hs[i] = h
      BY <3>1, <3>2 DEF Found
    <3> QED
      BY <3>3 DEF Range
  <2>4. call[t].held = <<>>
    BY DEF Take, IInv, CallOK, Consistent, Idle
  <2> HIDE DEF c, hs
  <2>5. \E x : call' = [call EXCEPT ![t] = x] /\ x.held = hs
    BY <2>1, <2>2, Finished
  <2> QED
    BY <1>3, <1>4, <2>3, <2>4, <2>5, OnceEmpty, KeepsAll
<1> QED
  BY <1>5, <1>6

LEMMA DropsPush ==
    ASSUME IInv, NEW t \in Threads, Push(t), NEW h \in Handles, Placed(h), ~Placed(h)'
    PROVE  Excused(h)
<1>1. Placed(h)
  OBVIOUS
<1> DEFINE e == call[t].up
           m == [data |-> call[t].data, handles |-> call[t].held]
           q == Append(queue[e], m)
<1>2. call[t] \in Call /\ Consistent(call[t]) /\ call[t].pc = "push"
  BY DEF IInv, TypeOK, CallOK, Push
<1>3. e \in Ends /\ m \in Message
  BY <1>2, PeerAssumption DEF Consistent, Message, Call
<1>4. queue[e] \in Seq(Message)
  BY <1>3 DEF IInv, TypeOK
<1>5. queue' = [queue EXCEPT ![e] = q] /\ Finish(t, <<>>) /\ UNCHANGED <<table, kernel>>
  BY DEF Push, PushOn
<1>6. Carries(q, h) <=> Carries(queue[e], h) \/ h \in Range(call[t].held)
  BY <1>3, <1>4, CarriesAppend
<1> HIDE DEF q
<1>7. \A f \in Ends : queue'[f] = IF f = e THEN q ELSE queue[f]
  BY <1>5 DEF IInv, TypeOK
<1>8. Queued(h) \/ h \in Range(call[t].held) => Queued(h)'
  BY <1>3, <1>6, <1>7 DEF Queued, InQueue
<1>9. InTable(h)' <=> InTable(h)
  BY <1>5 DEF InTable
<1>10. PICK c : call' = [call EXCEPT ![t] = c] /\ c.held = <<>>
  BY <1>5, Finished
<1> QED
  BY <1>5, <1>8, <1>9, <1>10, KeepsAll

LEMMA DropsPop ==
    ASSUME IInv, NEW t \in Threads, Pop(t), NEW h \in Handles, Placed(h), ~Placed(h)'
    PROVE  Excused(h)
<1> DEFINE e == call[t].ref
           m == Head(queue[e])
           q == Tail(queue[e])
           c == [call[t] EXCEPT !.pc = "copy", !.held = m.handles, !.data = m.data]
<1>1. call[t] \in Call /\ Consistent(call[t]) /\ call[t].pc = "take"
  BY DEF IInv, TypeOK, CallOK, Pop
<1>2. e \in Ends /\ call[t].held = <<>>
  BY <1>1 DEF Consistent
<1>3. UNCHANGED <<table, kernel>>
  BY DEF Pop
<1>4. InTable(h)' <=> InTable(h)
  BY <1>3 DEF InTable
<1>5. CASE Finish(t, call[t].held) /\ UNCHANGED queue
  <2>1. Queued(h)' <=> Queued(h)
    BY <1>5 DEF Queued, InQueue
  <2> QED
    BY <1>3, <1>4, <1>5, <2>1, Finished, KeepsAll
<1>6. CASE queue[e] # <<>> /\ queue' = [queue EXCEPT ![e] = q]
           /\ call' = [call EXCEPT ![t].pc = "copy", ![t].held = m.handles, ![t].data = m.data]
  <2>1. queue[e] \in Seq(Message)
    BY <1>2 DEF IInv, TypeOK
  <2>2. Carries(queue[e], h) <=> Carries(q, h) \/ h \in Range(m.handles)
    BY <1>6, <2>1, CarriesTail
  <2>3. call' = [call EXCEPT ![t] = c] /\ c.held = m.handles
    <3> HIDE DEF m
    <3> QED
      BY <1>1, <1>6 DEF IInv, TypeOK, Call
  <2> HIDE DEF q, m, c
  <2>4. \A f \in Ends : queue'[f] = IF f = e THEN q ELSE queue[f]
    BY <1>6 DEF IInv, TypeOK
  <2>5. Queued(h) => Queued(h)' \/ h \in Range(m.handles)
    BY <1>2, <2>2, <2>4 DEF Queued, InQueue
  <2> QED
    BY <1>2, <1>3, <1>4, <2>3, <2>5, OnceEmpty, KeepsAll
<1> QED
  BY <1>5, <1>6 DEF Pop

LEMMA DropsDeliver ==
    ASSUME IInv, RoomOK, NEW t \in Threads, Deliver(t) \/ AddSecond(t),
           NEW h \in Handles, Placed(h), ~Placed(h)'
    PROVE  Excused(h)
<1>1. /\ Add(ProcOf[t], call[t].held) /\ ProcOf[t] \in Procs
      /\ Finish(t, <<>>) /\ UNCHANGED <<queue, kernel>>
      /\ call[t].pc \in {"copy", "second"}
  BY ProcAssumption DEF Deliver, AddSecond, AddAll
<1>2. call[t].held \in Seq(Handles)
  BY DEF IInv, TypeOK, Call
<1>3. Len(call[t].held) <= KeyCount
  <2>1. KeyCount \in Nat \ {0} /\ Room(call[t])
    BY BoundAssumption DEF RoomOK
  <2>2. CASE call[t].pc = "copy"
    BY <2>1, <2>2 DEF Room
  <2>3. CASE call[t].pc = "second"
    <3>1. Len(call[t].held) = 1
      BY <2>1, <2>3 DEF Room
    <3> QED
      BY <2>1, <3>1
  <2> QED
    BY <1>1, <2>2, <2>3
<1>4. /\ h \in Range(call[t].held) => InTable(h)'
      /\ InTable(h) => InTable(h)' \/ Overwritten(h)
  BY <1>1, <1>2, <1>3, AddPlaces
<1>5. Queued(h)' <=> Queued(h)
  BY <1>1 DEF Queued, InQueue
<1>6. PICK c : call' = [call EXCEPT ![t] = c] /\ c.held = <<>>
  BY <1>1, Finished
<1> QED
  BY <1>1, <1>4, <1>5, <1>6, KeepsAll

LEMMA DropsAddFirst ==
    ASSUME IInv, NEW t \in Threads, AddFirst(t),
           NEW h \in Handles, Placed(h), ~Placed(h)'
    PROVE  Excused(h)
<1> DEFINE q == call[t].held
           hs == <<Head(q)>>
           c == [call[t] EXCEPT !.pc = "second", !.held = Tail(q)]
<1>1. call[t] \in Call /\ q \in Seq(Handles) /\ q # <<>>
  BY DEF IInv, TypeOK, CallOK, Consistent, AddFirst, Call
<1>2. /\ Add(ProcOf[t], hs) /\ ProcOf[t] \in Procs /\ UNCHANGED <<queue, kernel>>
  BY ProcAssumption DEF AddFirst, AddAll
<1>3. call' = [call EXCEPT ![t] = c] /\ c.held = Tail(q)
  BY <1>1 DEF AddFirst, IInv, TypeOK, Call
<1> HIDE DEF c, q
<1>4. /\ DOMAIN q = 1 .. Len(q) /\ Len(q) \in Nat \ {0}
      /\ DOMAIN Tail(q) = 1 .. Len(q) - 1 /\ Head(q) = q[1] /\ Head(q) \in Handles
      /\ \A i \in 1 .. Len(q) - 1 : Tail(q)[i] = q[i + 1]
  BY <1>1
<1>5. hs \in Seq(Handles) /\ Len(hs) <= KeyCount /\ Range(hs) = {Head(q)}
  BY <1>4, BoundAssumption DEF Range
<1>6. h \in Range(q) => h = Head(q) \/ h \in Range(Tail(q))
  <2> SUFFICES ASSUME h \in Range(q), h # Head(q) PROVE h \in Range(Tail(q))
    OBVIOUS
  <2>1. PICK i \in 1 .. Len(q) : q[i] = h
    BY <1>4 DEF Range
  <2>2. i # 1 /\ i - 1 \in DOMAIN Tail(q)
    BY <1>4, <2>1
  <2>3. Tail(q)[i - 1] = h
    BY <1>4, <2>1, <2>2
  <2> QED
    BY <2>2, <2>3 DEF Range
<1> HIDE DEF hs
<1>7. /\ h = Head(q) => InTable(h)'
      /\ InTable(h) => InTable(h)' \/ Overwritten(h)
  BY <1>2, <1>5, AddPlaces
<1>8. Queued(h)' <=> Queued(h)
  BY <1>2 DEF Queued, InQueue
<1> QED
  BY <1>2, <1>3, <1>6, <1>7, <1>8, KeepsAll DEF q

\* The steps of a call that move no handle.
LEMMA DropsRests ==
    ASSUME IInv, NEW t \in Threads,
           FindToWrite(t) \/ Upgrade(t) \/ Discard(t) \/ Return(t)
           \/ (\E k \in Keys, keep \in BOOLEAN, b \in Buffers : FindToRead(t, k, keep, b)),
           NEW h \in Handles, Placed(h), ~Placed(h)'
    PROVE  Excused(h)
<1>1. UNCHANGED <<table, queue, kernel>>
  BY DEF FindToWrite, Upgrade, Discard, Return, FindToRead
<1>2. (InTable(h)' <=> InTable(h)) /\ (Queued(h)' <=> Queued(h))
  BY <1>1, SameElsewhere
<1>3. call[t] \in Call /\ Consistent(call[t])
  BY DEF IInv, TypeOK, CallOK
<1>4. CASE \E c : call' = [call EXCEPT ![t] = c] /\ c.held = call[t].held
  BY <1>1, <1>2, <1>4, KeepsAll
<1>5. CASE Finish(t, call[t].held)
  BY <1>4, <1>5, Finished
<1>6. CASE FindToWrite(t) /\ ~Finish(t, call[t].held)
  <2> DEFINE c == [call[t] EXCEPT !.pc = "send",
                                  !.ref = Object[table[ProcOf[t]][call[t].key]]]
  <2>1. call' = [call EXCEPT ![t] = c] /\ c.held = call[t].held
    BY <1>3, <1>6 DEF FindToWrite, IInv, TypeOK, Call
  <2> HIDE DEF c
  <2> QED
    BY <1>4, <2>1
<1>7. CASE Upgrade(t) /\ ~Finish(t, call[t].held)
  <2> DEFINE c == [call[t] EXCEPT !.pc = "push", !.up = Peer[call[t].ref]]
  <2>1. call' = [call EXCEPT ![t] = c] /\ c.held = call[t].held
    BY <1>3, <1>7 DEF Upgrade, IInv, TypeOK, Call
  <2> HIDE DEF c
  <2> QED
    BY <1>4, <2>1
<1>8. CASE Return(t)
  <2>1. call' = [call EXCEPT ![t] = Idle] /\ call[t].pc = "done"
    BY <1>8 DEF Return
  <2>2. CASE h \in Range(call[t].held)
    BY <2>1, <2>2 DEF Excused
  <2>3. CASE h \notin Range(call[t].held)
    BY <1>1, <1>2, <2>1, <2>3, KeepsAll
  <2> QED
    BY <2>2, <2>3
<1>9. ASSUME NEW k \in Keys, NEW keep \in BOOLEAN, NEW b \in Buffers, FindToRead(t, k, keep, b)
      PROVE  Excused(h)
  <2> DEFINE c == [Idle EXCEPT !.pc = "take", !.ref = Object[table[ProcOf[t]][k]],
                               !.keep = keep, !.buffer = b]
  <2>1. call' = [call EXCEPT ![t] = c] /\ c.held = <<>>
    BY <1>9 DEF FindToRead, Idle
  <2>2. call[t] = Idle
    BY <1>3, <1>9 DEF FindToRead, Consistent
  <2>3. call[t].held = <<>>
    BY <2>2 DEF Idle
  <2> HIDE DEF c
  <2> QED
    BY <1>4, <2>1, <2>3
<1> QED
  BY <1>5, <1>6, <1>7, <1>8, <1>9 DEF Discard

\* The steps outside the calls
LEMMA DropsOutside ==
    ASSUME IInv, UNCHANGED call, NEW h \in Handles, Placed(h), ~Placed(h)',
           Queued(h) => Queued(h)' \/ \E e \in Ends : InQueue(h, e) /\ ~Alive(e)
    PROVE  Excused(h)
<1>1. ~InCall(h)
  BY DEF Placed, InCall
<1>2. ~Queued(h)'
  BY DEF Placed, Queued
<1> QED
  BY <1>1, <1>2 DEF Excused, Placed, Queued

LEMMA DropsDropMessage ==
    ASSUME IInv, NEW e \in Ends, DropMessage(e),
           NEW h \in Handles, Placed(h), ~Placed(h)'
    PROVE  Excused(h)
<1>1. \A f \in Ends : f # e => queue'[f] = queue[f]
  BY DEF DropMessage, IInv, TypeOK
<1>2. Queued(h) => Queued(h)' \/ InQueue(h, e)
  BY <1>1 DEF Queued, InQueue
<1> QED
  BY <1>2, DropsOutside DEF DropMessage

LEMMA DropsCreate ==
    ASSUME IInv, NEW t \in Threads, NEW f \in Handles, NEW g \in Handles,
           CreateChannel(t, f, g), NEW h \in Handles, Placed(h), ~Placed(h)'
    PROVE  Excused(h)
<1> DEFINE c == [Idle EXCEPT !.pc = "first", !.held = <<f, g>>]
<1>1. call' = [call EXCEPT ![t] = c] /\ UNCHANGED <<table, queue, kernel>>
  BY DEF CreateChannel
<1>2. call[t].held = <<>>
  BY DEF CreateChannel, IInv, CallOK, Consistent, Idle
<1> HIDE DEF c
<1> QED
  BY <1>1, <1>2, OnceEmpty, SameElsewhere, KeepsAll

LEMMA DropsNext ==
    ASSUME IInv, RoomOK, Next, NEW h \in Handles, Placed(h), ~Placed(h)'
    PROVE  Excused(h)
<1>1. ASSUME NEW t \in Threads, Work(t) PROVE Excused(h)
  BY <1>1, DropsRests, DropsPush, DropsPop, DropsDeliver, DropsAddFirst DEF Work
<1>2. ASSUME NEW p \in Procs, NEW k \in Keys, Close(p, k) PROVE Excused(h)
  <2>1. Queued(h)' <=> Queued(h)
    BY <1>2 DEF Close, Queued, InQueue
  <2> QED
    BY <1>2, <2>1, DropsOutside DEF Close
<1>3. ASSUME NEW p \in Procs, NEW g \in Handles, Give(p, g) PROVE Excused(h)
  <2>1. Queued(h)' <=> Queued(h)
    BY <1>3 DEF Give, Queued, InQueue
  <2> QED
    BY <1>3, <2>1, DropsOutside DEF Give
<1>4. ASSUME NEW g \in Handles, KernelDrop(g) PROVE Excused(h)
  <2>1. Queued(h)' <=> Queued(h)
    BY <1>4 DEF KernelDrop, Queued, InQueue
  <2> QED
    BY <1>4, <2>1, DropsOutside DEF KernelDrop
<1>5. ASSUME NEW g \in Handles, NEW hs \in ListsOf(Handles, MaxWrite), NEW d \in Lengths,
             KernelWrite(g, hs, d)
      PROVE  Excused(h)
  <2> DEFINE e == Peer[Object[g]]
             m == [data |-> d, handles |-> hs]
             q == Append(queue[e], m)
  <2>1. e \in Ends /\ m \in Message
    BY <1>5, PeerAssumption, ListIsSeq DEF KernelWrite, Message
  <2>2. queue[e] \in Seq(Message)
    BY <2>1 DEF IInv, TypeOK
  <2>3. Carries(q, h) <=> Carries(queue[e], h) \/ h \in Range(hs)
    BY <2>1, <2>2, CarriesAppend
  <2>4. UNCHANGED call /\ (queue' = queue \/ queue' = [queue EXCEPT ![e] = q])
    BY <1>5 DEF KernelWrite, PushOn
  <2> HIDE DEF q
  <2>5. \A f \in Ends : queue'[f] = queue[f] \/ (f = e /\ queue'[f] = q)
    BY <2>4 DEF IInv, TypeOK
  <2>6. Queued(h) => Queued(h)'
    BY <2>3, <2>5 DEF Queued, InQueue
  <2> QED
    BY <2>4, <2>6, DropsOutside
<1> QED
  BY <1>1, <1>2, <1>3, <1>4, <1>5, DropsTake, DropsRests, DropsCreate, DropsDropMessage
     DEF Next

\* A handle disappears only with a call that failed, a close, a value that
\* wrapped, the start-up code, or the queue of an end nobody refers to; a write
\* and a read that went well lose none (sys_channel_write, sys_channel_read).
THEOREM NothingDropped == Spec => HandlesNotDropped
<1>1. IInv /\ RoomOK /\ [Next]_vars => [NotDropped]_vars
  <2> SUFFICES ASSUME IInv, RoomOK, Next PROVE NotDropped
    BY DEF vars
  <2>1. \A h \in Handles : Placed(h) /\ ~Placed(h)' => Excused(h)
    BY DropsNext
  <2> QED
    BY <2>1 DEF NotDropped, Excused
<1> QED
  BY <1>1, Invariant, RoomAlways, PTL DEF Spec, HandlesNotDropped
=============================================================================
