------------------------------ MODULE EventFifo ------------------------------
(***************************************************************************)
(* What the event queue of a port promises (docs/PORTING.md: a bounded     *)
(* queue the interrupt handlers fill and the VM alone drains): events come *)
(* out once, in the order they went in; one is refused only when the queue *)
(* already holds Capacity of them.                                         *)
(***************************************************************************)
EXTENDS Naturals, Sequences

CONSTANTS
    Events,
    Capacity

VARIABLE queue

FifoInit == queue = <<>>

Enqueue(e) == Len(queue) < Capacity /\ queue' = Append(queue, e)

Dequeue == queue # <<>> /\ queue' = Tail(queue)

FifoNext == (\E e \in Events : Enqueue(e)) \/ Dequeue

FifoSpec == FifoInit /\ [][FifoNext]_queue

=============================================================================
