--------------------------- MODULE FrameAllocator ---------------------------
(***************************************************************************)
(* What the physical memory manager promises its callers: an allocation    *)
(* gives a run of consecutive frames that nobody owned, all of it at once, *)
(* and only the owner of a frame gives it back.                            *)
(***************************************************************************)
EXTENDS Integers

CONSTANT Callers

VARIABLES
  frames,  \* how many frames there are: frames 0..frames - 1
  owned    \* caller -> the frames it owns

Free == (0..frames - 1) \ UNION {owned[c] : c \in Callers}

FreeRun(s, n) == s..(s + n - 1) \subseteq Free

Init == owned = [c \in Callers |-> {}]

Alloc(c, s, n) ==
  /\ FreeRun(s, n)
  /\ owned' = [owned EXCEPT ![c] = @ \cup s..(s + n - 1)]
  /\ UNCHANGED frames

Release(c, f) ==
  /\ f \in owned[c]
  /\ owned' = [owned EXCEPT ![c] = @ \ {f}]
  /\ UNCHANGED frames

Next ==
  \E c \in Callers :
    \/ \E s \in 0..frames - 1 : \E n \in 1..frames : Alloc(c, s, n)
    \/ \E f \in owned[c] : Release(c, f)

Spec == Init /\ [][Next]_<<frames, owned>>
=============================================================================
