---------------------------- MODULE BoundedFifo ----------------------------
(***************************************************************************)
(* What libpi/libc/circular.h promises its two users: a first-in first-out *)
(* queue of at most Capacity elements, with one producer and one consumer. *)
(***************************************************************************)
EXTENDS Naturals, Sequences

CONSTANTS Element,    \* what the queue holds (cqe_t)
          Capacity    \* CQ_N - 1: one slot of the ring is never used

VARIABLES queue,      \* the elements pushed and not yet popped, oldest first
          out         \* the element the last pop returned

vars == <<queue, out>>

Init == queue = <<>> /\ out \in Element

Push(x) ==
    /\ Len(queue) < Capacity
    /\ queue' = Append(queue, x)
    /\ UNCHANGED out

Pop ==
    /\ queue # <<>>
    /\ out' = Head(queue)
    /\ queue' = Tail(queue)

Next == Pop \/ \E x \in Element : Push(x)

Spec == Init /\ [][Next]_vars
=============================================================================
