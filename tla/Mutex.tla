------------------------------- MODULE Mutex -------------------------------
(***************************************************************************)
(* What a spinlock promises to the code between spin_lock and spin_unlock: *)
(* at most one execution context owns the lock, and only the owner gives   *)
(* it up.  How a context waits is not part of the promise.                 *)
(***************************************************************************)
CONSTANTS
  Contexts,  \* the execution contexts that may own the lock
  Nobody     \* the owner of a free lock, no context

VARIABLE owner

Init == owner = Nobody

Acquire(x) == owner = Nobody /\ owner' = x

Release(x) == owner = x /\ owner' = Nobody

Next == \E x \in Contexts : Acquire(x) \/ Release(x)

Spec == Init /\ [][Next]_owner
=============================================================================
