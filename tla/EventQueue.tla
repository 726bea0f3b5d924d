----------------------------- MODULE EventQueue -----------------------------
(***************************************************************************)
(* What the daemon's event pipeline promises, whatever threads, buffers,   *)
(* batches and lock acquisitions it is built from: the syscall events the  *)
(* audit thread hands over are consumed one at a time, each exactly once,  *)
(* in the order they were handed over, and each eventually.                *)
(***************************************************************************)
EXTENDS Sequences

CONSTANT Event      \* what can be queued

VARIABLE queue      \* handed over and not yet consumed, oldest first

Init == queue = <<>>

Push == \E e \in Event : queue' = Append(queue, e)

Consume == queue # <<>> /\ queue' = Tail(queue)

Next == Push \/ Consume

Spec == Init /\ [][Next]_queue /\ WF_queue(Consume)
=============================================================================
