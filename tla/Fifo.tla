-------------------------------- MODULE Fifo --------------------------------
(* What circbuf promises to one enqueuer and one dequeuer: a bounded queue. *)
EXTENDS Naturals, Sequences

CONSTANTS Items, Capacity

VARIABLES
    q,      \* what was enqueued and not yet dequeued
    out     \* what was dequeued, in this order

Init == q = <<>> /\ out = <<>>

Put(x) ==
    /\ Len(q) < Capacity
    /\ q' = Append(q, x)
    /\ UNCHANGED out

Get ==
    /\ q # <<>>
    /\ out' = Append(out, Head(q))
    /\ q' = Tail(q)

Next == Get \/ \E x \in Items : Put(x)

Spec == Init /\ [][Next]_<<q, out>>
=============================================================================
