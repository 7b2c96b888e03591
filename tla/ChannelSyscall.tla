--------------------------- MODULE ChannelSyscall ---------------------------
(***************************************************************************)
(* Channels and the handles that travel through them: ipc/channel.rs, the  *)
(* handle table of a process (task/process.rs) and the system calls        *)
(* channel_create, channel_read and channel_write.                         *)
(*                                                                         *)
(* Sections of a mutex (a process's table, an end's queue) and reads of a  *)
(* reference count are the steps; a call is in between them with what it   *)
(* has in its local variables.  An end lives as long as somebody refers to *)
(* it (Arc); its peer knows it by a Weak pointer only.                     *)
(*                                                                         *)
(* A handle value is (n << 2) | 3 in 32 bits for the n-th handle added, so *)
(* values count modulo KeyCount = 2^30, and so does max_handle_id here.    *)
(* The panic of a debug build when max_handle_id itself overflows, after   *)
(* 2^32 handles, is left out.  A message stands for its length.            *)
(***************************************************************************)
EXTENDS Naturals, Sequences, FiniteSets, Functions

CONSTANTS
    Procs, Threads, ProcOf,     \* ProcOf[t] is the process of thread t
    Ends, Peer,                 \* ends of channels, and who faces whom
    Handles, Object, Rights,    \* a handle's object and its rights
    Objects,                    \* objects that are no channel
    KernelHandles,              \* what the start-up code holds in the beginning
    KeyCount,                   \* number of handle values, 2^30
    MaxHandles,                 \* handles in a message, 64
    Lengths,                    \* lengths of messages, at most 65536
    Buffers,                    \* <<num_bytes, num_handles>> of reads
    MaxQueue,                   \* bound of the model on a queue
    MaxWrite,                   \* bound of the model on the values in a call
    None

Keys == 0 .. KeyCount - 1
DefaultChannel == {"read", "write", "transfer"}

ASSUME ProcAssumption == ProcOf \in [Threads -> Procs]
ASSUME PeerAssumption ==
    /\ Peer \in [Ends -> Ends]
    /\ \A e \in Ends : Peer[e] # e /\ Peer[Peer[e]] = e
ASSUME HandleAssumption ==
    /\ Object \in [Handles -> Ends \cup Objects]
    /\ Rights \in [Handles -> SUBSET DefaultChannel]
    /\ Ends \cap Objects = {}
    /\ KernelHandles \subseteq Handles
    /\ \A h \in KernelHandles : Object[h] \in Ends =>
           \E g \in KernelHandles : Object[g] = Peer[Object[h]]
ASSUME BoundAssumption ==
    /\ KeyCount \in Nat \ {0}
    /\ MaxHandles \in Nat
    /\ MaxQueue \in Nat
    /\ MaxWrite \in 0 .. KeyCount
    /\ Lengths \subseteq Nat
    /\ Buffers \subseteq Nat \X Nat
ASSUME NoneAssumption == None \notin Handles \cup Ends \cup Lengths

VARIABLES
    table,      \* ProcessInner::handles
    nextKey,    \* ProcessInner::max_handle_id
    queue,      \* Channel::recv_queue
    kernel,     \* handles of the start-up code
    made,       \* handles that were made so far
    call        \* the system call each thread is in

vars == <<table, nextKey, queue, kernel, made, call>>

\* The local variables of a call: the handle value of the channel, the
\* handles and the message in flight, the Arcs of the channel and its peer.
Idle == [pc |-> "idle", key |-> 0, held |-> <<>>, data |-> None, ref |-> None,
         up |-> None, keep |-> FALSE, buffer |-> <<0, 0>>]

-----------------------------------------------------------------------------
InTable(h) == \E p \in Procs, k \in Keys : table[p][k] = h
Carries(q, h) == \E i \in DOMAIN q : h \in Range(q[i].handles)
InQueue(h, e) == Carries(queue[e], h)
InCall(h) == \E t \in Threads : h \in Range(call[t].held)
Placed(h) == h \in kernel \/ InTable(h) \/ InCall(h) \/ \E e \in Ends : InQueue(h, e)

\* The strong count of the end is not zero.
Alive(e) ==
    \/ \E h \in Handles : Object[h] = e /\ Placed(h)
    \/ \E t \in Threads : e \in {call[t].ref, call[t].up}

Unmade(e) == \A h \in Handles : Object[h] = e => h \notin made

\* peer.upgrade() of the Weak pointer to e
UpgradesMutant(e) == ~Unmade(e)
Upgrades(e) == Alive(e)

\* ProcessInner::add_handle, once for every handle of the list
AddAllMutant(t, hs) ==
    LET p == ProcOf[t]
    IN  /\ table' = [table EXCEPT ![p] = [k \in Keys |->
                        IF hs # <<>> /\ k = nextKey[p] THEN hs[1] ELSE @[k]]]
        /\ nextKey' = [nextKey EXCEPT ![p] = (@ + Len(hs)) % KeyCount]
Add(p, hs) ==
    LET Turn(k) == 1 + ((k + KeyCount - nextKey[p]) % KeyCount)
    IN  /\ table' = [table EXCEPT ![p] = [k \in Keys |->
                        IF Turn(k) <= Len(hs) THEN hs[Turn(k)] ELSE @[k]]]
        /\ nextKey' = [nextKey EXCEPT ![p] = (@ + Len(hs)) % KeyCount]
AddAll(t, hs) == Add(ProcOf[t], hs)

\* Process::get_object_with_rights::<Channel>
Permits(p, k, right) ==
    LET h == table[p][k]
    IN  h # None /\ Object[h] \in Ends /\ right \in Rights[h]

\* The values of the list that remove_handles finds before it meets one that
\* is not in the table, or no longer.
FoundMutant(p, ks) == {i \in DOMAIN ks : \A j \in 1 .. i : table[p][ks[j]] # None}
Found(p, ks) ==
    {i \in DOMAIN ks : \A j \in 1 .. i :
        table[p][ks[j]] # None /\ \A l \in 1 .. j - 1 : ks[l] # ks[j]}

\* What sys_channel_write tests between taking the handles and the channel
RefusedMutant(k, ks, hs) ==
    \/ k \in Range(ks)
    \/ Len(hs) > MaxHandles
Refused(k, ks, hs) ==
    \/ k \in Range(ks)
    \/ Len(hs) > MaxHandles
    \/ \E h \in Range(hs) : "transfer" \notin Rights[h]

Fits(message, buffer) ==
    message.data <= buffer[1] /\ Len(message.handles) <= buffer[2]

\* The call is over but for what it drops.
Finish(t, hs) ==
    call' = [call EXCEPT ![t] = [Idle EXCEPT !.pc = "done", !.held = hs,
                                             !.ref = call[t].ref, !.up = call[t].up]]

-----------------------------------------------------------------------------
\* sys_channel_write: remove_handles, then the tests of what it found
Take(t, k, ks, d) ==
    LET p == ProcOf[t]
        hs == [i \in DOMAIN ks |-> table[p][ks[i]]]
    IN  /\ call[t].pc = "idle"
        /\ table' = [table EXCEPT ![p] = [v \in Keys |->
                        IF \E i \in Found(p, ks) : ks[i] = v THEN None ELSE @[v]]]
        /\ IF Found(p, ks) # DOMAIN ks THEN UNCHANGED call
           ELSE IF Refused(k, ks, hs) THEN Finish(t, hs)
           ELSE call' = [call EXCEPT ![t] = [Idle EXCEPT
                            !.pc = "find", !.key = k, !.held = hs, !.data = d]]
        /\ UNCHANGED <<nextKey, queue, kernel, made>>

\* sys_channel_write: the channel, now that the handles are out of the table
FindToWrite(t) ==
    LET p == ProcOf[t]
        k == call[t].key
    IN  /\ call[t].pc = "find"
        /\ IF Permits(p, k, "write")
           THEN call' = [call EXCEPT ![t].pc = "send", ![t].ref = Object[table[p][k]]]
           ELSE Finish(t, call[t].held)
        /\ UNCHANGED <<table, nextKey, queue, kernel, made>>

\* Channel::write: peer.upgrade()
Upgrade(t) ==
    LET e == Peer[call[t].ref]
    IN  /\ call[t].pc = "send"
        /\ IF Upgrades(e)
           THEN call' = [call EXCEPT ![t].pc = "push", ![t].up = e]
           ELSE Finish(t, call[t].held)
        /\ UNCHANGED <<table, nextKey, queue, kernel, made>>

\* Channel::push_general
PushOnMutant(q, m) == <<m>> \o q
PushOn(q, m) == Append(q, m)
Push(t) ==
    LET e == call[t].up
        m == [data |-> call[t].data, handles |-> call[t].held]
    IN  /\ call[t].pc = "push"
        /\ Len(queue[e]) < MaxQueue
        /\ queue' = [queue EXCEPT ![e] = PushOn(@, m)]
        /\ Finish(t, <<>>)
        /\ UNCHANGED <<table, nextKey, kernel, made>>

-----------------------------------------------------------------------------
\* sys_channel_read: the channel; a bad value or right ends the call here
FindToRead(t, k, keep, buffer) ==
    LET p == ProcOf[t]
    IN  /\ call[t].pc = "idle"
        /\ Permits(p, k, "read")
        /\ call' = [call EXCEPT ![t] = [Idle EXCEPT
                        !.pc = "take", !.ref = Object[table[p][k]],
                        !.keep = keep, !.buffer = buffer]]
        /\ UNCHANGED <<table, nextKey, queue, kernel, made>>

\* Channel::check_and_read: without MAY_DISCARD a message that does not fit,
\* or whose sizes cannot be reported, stays in the queue.
Stays(t, message) == call[t].keep /\ ~Fits(message, call[t].buffer)
Pop(t) ==
    LET e == call[t].ref
    IN  /\ call[t].pc = "take"
        /\ IF queue[e] = <<>> \/ Stays(t, Head(queue[e]))
           THEN Finish(t, call[t].held) /\ UNCHANGED queue
           ELSE /\ queue' = [queue EXCEPT ![e] = Tail(@)]
                /\ call' = [call EXCEPT ![t].pc = "copy",
                                        ![t].held = Head(queue[e]).handles,
                                        ![t].data = Head(queue[e]).data]
        /\ UNCHANGED <<table, nextKey, kernel, made>>

\* sys_channel_read: a message popped to be discarded, or whose sizes or bytes
\* the user memory refuses, is lost.
Discard(t) ==
    /\ call[t].pc = "copy"
    /\ Finish(t, call[t].held)
    /\ UNCHANGED <<table, nextKey, queue, kernel, made>>

\* sys_channel_read: add_handles; whether the values can be reported or not
Deliver(t) ==
    /\ call[t].pc = "copy"
    /\ Fits([data |-> call[t].data, handles |-> call[t].held], call[t].buffer)
    /\ AddAll(t, call[t].held)
    /\ Finish(t, <<>>)
    /\ UNCHANGED <<queue, kernel, made>>

-----------------------------------------------------------------------------
\* Channel::create, for sys_channel_create
CreateChannel(t, h, g) ==
    /\ call[t].pc = "idle"
    /\ Object[h] \in Ends
    /\ Object[g] = Peer[Object[h]]
    /\ Rights[h] = DefaultChannel /\ Rights[g] = DefaultChannel
    /\ Unmade(Object[h]) /\ Unmade(Object[g])
    /\ made' = made \cup {h, g}
    /\ call' = [call EXCEPT ![t] = [Idle EXCEPT !.pc = "first", !.held = <<h, g>>]]
    /\ UNCHANGED <<table, nextKey, queue, kernel>>

\* sys_channel_create: add_handle for one end, then for the other; that the
\* values cannot be reported takes neither of them back
AddFirst(t) ==
    /\ call[t].pc = "first"
    /\ AddAll(t, <<Head(call[t].held)>>)
    /\ call' = [call EXCEPT ![t].pc = "second", ![t].held = Tail(@)]
    /\ UNCHANGED <<queue, kernel, made>>

AddSecond(t) ==
    /\ call[t].pc = "second"
    /\ AddAll(t, call[t].held)
    /\ Finish(t, <<>>)
    /\ UNCHANGED <<queue, kernel, made>>

\* The end of a call: what it still holds is dropped.
Return(t) ==
    /\ call[t].pc = "done"
    /\ call' = [call EXCEPT ![t] = Idle]
    /\ UNCHANGED <<table, nextKey, queue, kernel, made>>

-----------------------------------------------------------------------------
\* Process::remove_handle, and the handle dropped
Close(p, k) ==
    /\ table[p][k] # None
    /\ table' = [table EXCEPT ![p][k] = None]
    /\ UNCHANGED <<nextKey, queue, kernel, made, call>>

\* Start-up code: Process::add_handle, as Process::start does with arg1
Give(p, h) ==
    /\ h \in kernel
    /\ kernel' = kernel \ {h}
    /\ Add(p, <<h>>)
    /\ UNCHANGED <<queue, made, call>>

\* Start-up code: Channel::write with any handles, whatever their rights
KernelWrite(h, hs, d) ==
    LET e == Peer[Object[h]]
    IN  /\ h \in kernel
        /\ Object[h] \in Ends
        /\ Range(hs) \subseteq kernel \ {h}
        /\ IsInjective(hs)
        /\ Len(queue[e]) < MaxQueue
        /\ kernel' = kernel \ Range(hs)
        /\ queue' = IF Upgrades(e)
                    THEN [queue EXCEPT ![e] = PushOn(@, [data |-> d, handles |-> hs])]
                    ELSE queue
        /\ UNCHANGED <<table, nextKey, made, call>>

\* The end of the start-up code
KernelDrop(h) ==
    /\ h \in kernel
    /\ kernel' = kernel \ {h}
    /\ UNCHANGED <<table, nextKey, queue, made, call>>

\* The drop of an end nobody refers to: its messages one by one
DropMessage(e) ==
    /\ ~Alive(e)
    /\ queue[e] # <<>>
    /\ queue' = [queue EXCEPT ![e] = Tail(@)]
    /\ UNCHANGED <<table, nextKey, kernel, made, call>>

-----------------------------------------------------------------------------
Init ==
    /\ table = [p \in Procs |-> [k \in Keys |-> None]]
    /\ nextKey = [p \in Procs |-> 0]
    /\ queue = [e \in Ends |-> <<>>]
    /\ kernel = KernelHandles
    /\ made = KernelHandles
    /\ call = [t \in Threads |-> Idle]

ListsOf(S, n) == UNION {[1 .. i -> S] : i \in 0 .. n}

Work(t) ==
    \/ FindToWrite(t) \/ Upgrade(t) \/ Push(t)
    \/ Pop(t) \/ Discard(t) \/ Deliver(t)
    \/ AddFirst(t) \/ AddSecond(t) \/ Return(t)

Next ==
    \/ \E t \in Threads :
         \/ \E k \in Keys, ks \in ListsOf(Keys, MaxWrite), d \in Lengths : Take(t, k, ks, d)
         \/ \E k \in Keys, keep \in BOOLEAN, b \in Buffers : FindToRead(t, k, keep, b)
         \/ \E h, g \in Handles : CreateChannel(t, h, g)
         \/ Work(t)
    \/ \E p \in Procs : \/ \E k \in Keys : Close(p, k)
                        \/ \E h \in Handles : Give(p, h)
    \/ \E h \in Handles :
         \/ \E hs \in ListsOf(Handles, MaxWrite), d \in Lengths : KernelWrite(h, hs, d)
         \/ KernelDrop(h)
    \/ \E e \in Ends : DropMessage(e)

Spec == Init /\ [][Next]_vars

-----------------------------------------------------------------------------
Message == [data : Lengths, handles : Seq(Handles)]
Steps == {"idle", "find", "send", "push", "take", "copy", "first", "second", "done"}
Call == [pc : Steps, key : Keys, held : Seq(Handles), data : Lengths \cup {None},
         ref : Ends \cup {None}, up : Ends \cup {None}, keep : BOOLEAN,
         buffer : (Nat \X Nat)]

\* Every field holds a value of its Rust type.
TypeOK ==
    /\ table \in [Procs -> [Keys -> Handles \cup {None}]]
    /\ nextKey \in [Procs -> Keys]
    /\ queue \in [Ends -> Seq(Message)]
    /\ kernel \in SUBSET Handles
    /\ made \in SUBSET Handles
    /\ call \in [Threads -> Call]

AtTable(h) == {x \in Procs \X Keys : table[x[1]][x[2]] = h}
AtCall(h) ==
    UNION {{<<t, i>> : i \in {n \in DOMAIN call[t].held : call[t].held[n] = h}} : t \in Threads}
AtQueue(h) ==
    UNION {UNION {{<<e, i, j>> : j \in {n \in DOMAIN queue[e][i].handles :
                                            queue[e][i].handles[n] = h}}
                  : i \in DOMAIN queue[e]} : e \in Ends}

\* "A single handle can only be bound to a single process or bound to the
\* kernel" (ch01-02-process-object.md): through writes, reads, failures and
\* two threads at once a handle is in one place.
OnePlace ==
    \A h \in Handles :
        Cardinality(AtTable(h)) + Cardinality(AtCall(h)) + Cardinality(AtQueue(h))
            + Cardinality(kernel \cap {h}) <= 1

\* add_handle gave the handle's value to another one.
Overwritten(h) ==
    \E p \in Procs, k \in Keys : table[p][k] = h /\ table'[p][k] \notin {h, None}

\* A handle disappears only with a call that failed, a close, a value that
\* wrapped, the start-up code, or the queue of an end nobody refers to; never
\* on the way of a write and a read that went well.
NotDropped ==
    \A h \in Handles : Placed(h) /\ ~Placed(h)' =>
        \/ h \in kernel
        \/ Overwritten(h)
        \/ InTable(h) /\ UNCHANGED call
        \/ \E t \in Threads : call[t].pc = "done" /\ h \in Range(call[t].held)
        \/ \E e \in Ends : InQueue(h, e) /\ ~Alive(e)
HandlesNotDropped == [][NotDropped]_vars

\* A handle without the right never gets into a channel from a process, by
\* whatever thread and after whatever change of the table.
TransferNeedsRight ==
    [][\A e \in Ends, h \in Handles :
        InQueue(h, e)' /\ ~InQueue(h, e) => h \in kernel \/ "transfer" \in Rights[h]]_vars
=============================================================================
