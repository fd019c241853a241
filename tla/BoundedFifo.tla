----------------------------- MODULE BoundedFifo -----------------------------
(***************************************************************************)
(* What muduo's blocking queues promise their users, with no mutex or     *)
(* condition variables: put() appends to a FIFO that never holds more      *)
(* than Capacity elements, take() removes the oldest, and an element that *)
(* sits in the queue is eventually taken (the users keep calling take()). *)
(***************************************************************************)
EXTENDS Naturals, Sequences

CONSTANTS
    Values,     \* what put() may be given
    Capacity    \* the most the queue may hold

VARIABLE queue

Put == \E v \in Values :
          /\ Len(queue) < Capacity
          /\ queue' = Append(queue, v)

Take == /\ queue # <<>>
        /\ queue' = Tail(queue)

Spec == queue = <<>> /\ [][Put \/ Take]_queue /\ WF_queue(Take)

=============================================================================
