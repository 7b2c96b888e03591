----------------------------- MODULE ChannelPipe -----------------------------
(* ChannelSyscall implements Pipe: an end is open while something refers to *)
(* it, and its box is its queue.                                            *)
EXTENDS ChannelSyscall

Stage(e) == IF Unmade(e) THEN "none" ELSE IF Alive(e) THEN "open" ELSE "closed"

Contents(q) == [i \in DOMAIN q |-> q[i].data]

Channels == INSTANCE Pipe WITH
    Data <- Lengths,
    stage <- [e \in Ends |-> Stage(e)],
    box <- [e \in Ends |-> Contents(queue[e])]

\* Messages arrive once, in the order of their sending, and an end that is
\* closed stays closed: nobody brings it back through the Weak pointer, a
\* table or a message, and once PEER_CLOSED was seen no message follows.
PipeSpec == Channels!Spec
=============================================================================
