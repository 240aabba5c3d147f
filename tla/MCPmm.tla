------------------------------- MODULE MCPmm --------------------------------
(***************************************************************************)
(* Pmm on a memory of a few small frames.  Words of three bits, so that    *)
(* the last word is full for one kernel_end and partly padding for the     *)
(* others.                                                                 *)
(***************************************************************************)
EXTENDS Pmm

SmallKernelEnds == {3, 5, 6, 9}
=============================================================================
