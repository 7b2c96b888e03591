-------------------------------- MODULE Pipe --------------------------------
(***************************************************************************)
(* What a channel promises: two ends that face each other, each with a box *)
(* the other fills in order.  An end closes once and for ever; then        *)
(* nothing more is sent to it or from it, and what its peer had not read   *)
(* yet can still be read.                                                  *)
(***************************************************************************)
EXTENDS Naturals, Sequences

CONSTANTS Ends, Peer, Data

VARIABLES
    stage,  \* "none", "open" or "closed"
    box     \* the messages an end has yet to read

Init ==
    /\ stage \in [Ends -> {"none", "open"}]
    /\ box = [e \in Ends |-> <<>>]

\* A channel comes into being with both ends.
Create(e) ==
    /\ stage[e] = "none"
    /\ stage[Peer[e]] = "none"
    /\ stage' = [stage EXCEPT ![e] = "open", ![Peer[e]] = "open"]
    /\ UNCHANGED box

Send(e, d) ==
    /\ stage[e] = "open"
    /\ stage[Peer[e]] = "open"
    /\ box' = [box EXCEPT ![Peer[e]] = Append(@, d)]
    /\ UNCHANGED stage

Receive(e) ==
    /\ stage[e] = "open"
    /\ box[e] # <<>>
    /\ box' = [box EXCEPT ![e] = Tail(@)]
    /\ UNCHANGED stage

\* Some ends close, maybe several at once: a list of handles is dropped.
Close ==
    /\ stage' \in [Ends -> {"none", "open", "closed"}]
    /\ \A e \in Ends : stage'[e] = stage[e] \/ (stage[e] = "open" /\ stage'[e] = "closed")

\* What a closed end did not read is dropped, and with it the ends inside.
Drop(e) ==
    /\ stage[e] = "closed"
    /\ box[e] # <<>>
    /\ box' = [box EXCEPT ![e] = Tail(@)]
    /\ Close

Next ==
    \/ \E e \in Ends : \/ Create(e)
                       \/ \E d \in Data : Send(e, d)
                       \/ Receive(e)
                       \/ Drop(e)
    \/ Close /\ UNCHANGED box

Spec == Init /\ [][Next]_<<stage, box>>
=============================================================================
