----------------------------- MODULE EventQueue -----------------------------
(* What an event ring promises: the controller posts events, the driver     *)
(* handles each of them once, in the order in which they were posted.       *)
(* Ring sizes, cycle bits and the dequeue pointer register do not show.     *)
EXTENDS Naturals, Sequences

VARIABLE queue      \* posted and not yet handled, oldest first

Init == queue = <<>>

\* One more event, behind all others.
Post == Len(queue') = Len(queue) + 1 /\ SubSeq(queue', 1, Len(queue)) = queue

Handle == queue # <<>> /\ queue' = Tail(queue)

Next == Post \/ Handle

Spec == Init /\ [][Next]_queue
=============================================================================
