----------------------------- MODULE MCSpinlock -----------------------------
(***************************************************************************)
(* Spinlock on small machines: the boot core, which takes the timer IRQ,   *)
(* and its secondaries.                                                    *)
(***************************************************************************)
EXTENDS Spinlock

CONSTANTS c0, c1, c2

ThreeCores == {c0, c1, c2}
BootOnly == {c0}
=============================================================================
