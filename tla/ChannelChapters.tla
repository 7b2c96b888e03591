-------------------------- MODULE ChannelChapters ---------------------------
(***************************************************************************)
(* Channels and handle tables in the earlier chapters.  There are no       *)
(* system calls: whoever has a handle in the kernel, the tests for one,    *)
(* calls the methods of Channel and of Process, and no call is ever under  *)
(* way.  So kernel stands for all handles outside tables and messages.     *)
(* Until ch04-01 a read takes the first message whatever it is.  ch01-02   *)
(* and ch01-03 give a handle the lowest value that is free, and know       *)
(* neither lists of handles nor a way to get a handle back from a table.   *)
(* ChannelProofs shows that channels were pipes from the start.            *)
(***************************************************************************)
EXTENDS ChannelPipe

-----------------------------------------------------------------------------
(* Channels *)

\* Channel::create
Creating(h, g) ==
    /\ Object[h] \in Ends /\ Object[g] = Peer[Object[h]]
    /\ Unmade(Object[h]) /\ Unmade(Object[g])
    /\ made' = made \cup {h, g}
    /\ kernel' = kernel \cup {h, g}
    /\ UNCHANGED <<table, nextKey, queue, call>>

\* Channel::read
Reading(h) ==
    LET e == Object[h]
    IN  /\ h \in kernel /\ e \in Ends
        /\ queue[e] # <<>>
        /\ queue' = [queue EXCEPT ![e] = Tail(@)]
        /\ kernel' = kernel \cup Range(Head(queue[e]).handles)
        /\ UNCHANGED <<table, nextKey, made, call>>

\* Channel::write
Writing(h) == \E hs \in ListsOf(Handles, MaxWrite), d \in Lengths : KernelWrite(h, hs, d)

\* A handle, or the end of a channel with its messages, is dropped.
Dropping == (\E h \in Handles : KernelDrop(h)) \/ \E e \in Ends : DropMessage(e)

-----------------------------------------------------------------------------
(* Handle tables *)

\* Process::add_handle and add_handles
Adding(p) ==
    \E hs \in ListsOf(Handles, MaxWrite) :
        /\ IsInjective(hs)
        /\ Range(hs) \subseteq kernel
        /\ kernel' = kernel \ Range(hs)
        /\ Add(p, hs)
        /\ UNCHANGED <<queue, made, call>>

\* Process::remove_handle and remove_handles: what was found before the list
\* failed is dropped
Removing(p) ==
    \E ks \in ListsOf(Keys, MaxWrite) :
        /\ table' = [table EXCEPT ![p] = [k \in Keys |->
               IF \E i \in Found(p, ks) : ks[i] = k THEN None ELSE @[k]]]
        /\ kernel' = IF Found(p, ks) = DOMAIN ks
                     THEN kernel \cup {table[p][ks[i]] : i \in DOMAIN ks} ELSE kernel
        /\ UNCHANGED <<nextKey, queue, made, call>>

\* Process::add_handle of ch01-02 and ch01-03
AddLowest(p, h) ==
    /\ h \in kernel
    /\ kernel' = kernel \ {h}
    /\ \E k \in Keys :
         /\ table[p][k] = None
         /\ \A j \in 0 .. k - 1 : table[p][j] # None
         /\ table' = [table EXCEPT ![p][k] = h]
    /\ UNCHANGED <<nextKey, queue, made, call>>

-----------------------------------------------------------------------------
(* ch01-02 *)

Permits_01_02(p, k, right) == Permits(p, k, right)
Adding_01_02(p) == \E h \in Handles : AddLowest(p, h)
Removing_01_02(p) == \E k \in Keys : Close(p, k)

Next_01_02 ==
    \/ \E p \in Procs : Adding_01_02(p) \/ Removing_01_02(p)
    \/ \E h \in Handles : KernelDrop(h)
Spec_01_02 == Init /\ [][Next_01_02]_vars

-----------------------------------------------------------------------------
(* ch01-03 *)

Permits_01_03(p, k, right) == Permits(p, k, right)
Adding_01_03(p) == \E h \in Handles : AddLowest(p, h)
Removing_01_03(p) == \E k \in Keys : Close(p, k)
Contents_01_03(q) == Contents(q)
Creating_01_03(h, g) == Creating(h, g)
Reading_01_03(h) == Reading(h)
Writing_01_03(h) == Writing(h)

Next_01_03 ==
    \/ \E p \in Procs : Adding_01_03(p) \/ Removing_01_03(p)
    \/ \E h \in Handles : Reading_01_03(h) \/ Writing_01_03(h) \/ \E g \in Handles : Creating_01_03(h, g)
    \/ Dropping
Spec_01_03 == Init /\ [][Next_01_03]_vars

-----------------------------------------------------------------------------
(* ch02-02 *)

Permits_02_02(p, k, right) == Permits(p, k, right)
Found_02_02(p, ks) == Found(p, ks)
Add_02_02(p, hs) == Add(p, hs)
Contents_02_02(q) == Contents(q)
Creating_02_02(h, g) == Creating(h, g)
Reading_02_02(h) == Reading(h)
Writing_02_02(h) == Writing(h)
Adding_02_02(p) == Adding(p)
Removing_02_02(p) == Removing(p)

Next_02_02 ==
    \/ \E p \in Procs : Adding_02_02(p) \/ Removing_02_02(p)
    \/ \E h \in Handles : Reading_02_02(h) \/ Writing_02_02(h) \/ \E g \in Handles : Creating_02_02(h, g)
    \/ Dropping
Spec_02_02 == Init /\ [][Next_02_02]_vars

-----------------------------------------------------------------------------
(* ch02-03 *)

Permits_02_03(p, k, right) == Permits(p, k, right)
Found_02_03(p, ks) == Found(p, ks)
Add_02_03(p, hs) == Add(p, hs)
Contents_02_03(q) == Contents(q)
Creating_02_03(h, g) == Creating(h, g)
Reading_02_03(h) == Reading(h)
Writing_02_03(h) == Writing(h)
Adding_02_03(p) == Adding(p)
Removing_02_03(p) == Removing(p)

Next_02_03 ==
    \/ \E p \in Procs : Adding_02_03(p) \/ Removing_02_03(p)
    \/ \E h \in Handles : Reading_02_03(h) \/ Writing_02_03(h) \/ \E g \in Handles : Creating_02_03(h, g)
    \/ Dropping
Spec_02_03 == Init /\ [][Next_02_03]_vars

-----------------------------------------------------------------------------
(* ch03-02 *)

Permits_03_02(p, k, right) == Permits(p, k, right)
Found_03_02(p, ks) == Found(p, ks)
Add_03_02(p, hs) == Add(p, hs)
Contents_03_02(q) == Contents(q)
Creating_03_02(h, g) == Creating(h, g)
Reading_03_02(h) == Reading(h)
Writing_03_02(h) == Writing(h)
Adding_03_02(p) == Adding(p)
Removing_03_02(p) == Removing(p)

Next_03_02 ==
    \/ \E p \in Procs : Adding_03_02(p) \/ Removing_03_02(p)
    \/ \E h \in Handles : Reading_03_02(h) \/ Writing_03_02(h) \/ \E g \in Handles : Creating_03_02(h, g)
    \/ Dropping
Spec_03_02 == Init /\ [][Next_03_02]_vars

-----------------------------------------------------------------------------
(* ch03-04 *)

Permits_03_04(p, k, right) == Permits(p, k, right)
Found_03_04(p, ks) == Found(p, ks)
Add_03_04(p, hs) == Add(p, hs)
Contents_03_04(q) == Contents(q)
Creating_03_04(h, g) == Creating(h, g)
Reading_03_04(h) == Reading(h)
Writing_03_04(h) == Writing(h)
Adding_03_04(p) == Adding(p)
Removing_03_04(p) == Removing(p)

Next_03_04 ==
    \/ \E p \in Procs : Adding_03_04(p) \/ Removing_03_04(p)
    \/ \E h \in Handles : Reading_03_04(h) \/ Writing_03_04(h) \/ \E g \in Handles : Creating_03_04(h, g)
    \/ Dropping
Spec_03_04 == Init /\ [][Next_03_04]_vars

-----------------------------------------------------------------------------
(* ch04-01 *)

Permits_04_01(p, k, right) == Permits(p, k, right)
Found_04_01(p, ks) == Found(p, ks)
Add_04_01(p, hs) == Add(p, hs)
Contents_04_01(q) == Contents(q)
Creating_04_01(h, g) == Creating(h, g)
Reading_04_01(h) == Reading(h)
Writing_04_01(h) == Writing(h)
Adding_04_01(p) == Adding(p)
Removing_04_01(p) == Removing(p)

Next_04_01 ==
    \/ \E p \in Procs : Adding_04_01(p) \/ Removing_04_01(p)
    \/ \E h \in Handles : Reading_04_01(h) \/ Writing_04_01(h) \/ \E g \in Handles : Creating_04_01(h, g)
    \/ Dropping
Spec_04_01 == Init /\ [][Next_04_01]_vars
=============================================================================
