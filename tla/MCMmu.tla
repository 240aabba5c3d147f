------------------------------- MODULE MCMmu --------------------------------
(***************************************************************************)
(* Mmu with tables of two entries: eight pages, two per L3 table.  The     *)
(* ranges cross an L3 table's edge and an L1 entry's edge.                 *)
(***************************************************************************)
EXTENDS Mmu, TLC

SmallRanges == {<<1, 2>>, <<3, 2>>}

\* For the runs with every freedom of the hardware: single pages of one table.
OneTable == {<<2, 1>>, <<3, 1>>}

\* The callers are alike; an invariant's run may take them as one orbit.
Symmetry == Permutations(Callers)
=============================================================================
