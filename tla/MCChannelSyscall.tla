-------------------------- MODULE MCChannelSyscall --------------------------
(* TLC instances of ChannelSyscall: a channel made by the start-up code or  *)
(* by channel_create, and two handles nobody may transfer.                  *)
EXTENDS ChannelPipe, TLC

CONSTANTS p1, p2, t1, t2, a0, a1, other, ha0, ha1, hx, hy

TwoEnds == {a0, a1}
Facing == (a0 :> a1) @@ (a1 :> a0)

Made == {ha0, ha1, hx, hy}
ObjectOf == (ha0 :> a0) @@ (ha1 :> a1) @@ (hx :> other) @@ (hy :> other)
RightsOf == (ha0 :> DefaultChannel) @@ (ha1 :> DefaultChannel) @@ (hx :> {}) @@ (hy :> {})

OneEach == (t1 :> p1) @@ (t2 :> p2)
TwoInOne == (t1 :> p1) @@ (t2 :> p1)

SomeBuffers == {<<0, 0>>, <<1, 2>>}
OneBuffer == {<<0, 1>>}

TwoThreads == Permutations({t1, t2})
TwoOthers == Permutations({hx, hy})
=============================================================================
