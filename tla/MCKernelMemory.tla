-------------------------- MODULE MCKernelMemory ----------------------------
(***************************************************************************)
(* KernelMemory with pages of four bytes, two pages for each heap, three   *)
(* for DMA, and fewer frames than the windows have pages.                  *)
(***************************************************************************)
EXTENDS KernelMemory

\* Grow within a page, over a page's edge, and give both back.
SmallIncrements == {-5, 3, 5}
=============================================================================
