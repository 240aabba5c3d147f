---------------------------- MODULE AddressSpace ----------------------------
(***************************************************************************)
(* What the page tables promise the kernel: map installs a whole range or  *)
(* nothing, unmap removes a whole range, and nobody sees the table edits   *)
(* in between.                                                             *)
(***************************************************************************)
EXTENDS Integers

CONSTANTS
  Pages,
  Frames,
  Ranges  \* the ranges <<first page, number of pages>> that are asked for

VARIABLE mapping  \* page -> the frame it is mapped to, 0 for none

Range(va, n) == va..(va + n - 1)

Init == mapping = [p \in Pages |-> 0]

Map(va, phys, n) ==
  /\ \A p \in Range(va, n) : mapping[p] = 0
  /\ mapping' = [p \in Pages |->
                   IF p \in Range(va, n) THEN phys + (p - va) ELSE mapping[p]]

Unmap(va, n) ==
  mapping' = [p \in Pages |-> IF p \in Range(va, n) THEN 0 ELSE mapping[p]]

Next ==
  \E r \in Ranges :
    \/ \E phys \in Frames : Map(r[1], phys, r[2])
    \/ Unmap(r[1], r[2])

Spec == Init /\ [][Next]_mapping
=============================================================================
