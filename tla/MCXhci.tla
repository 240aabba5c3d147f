------------------------------- MODULE MCXhci -------------------------------
(* A small instance: rings of two or three TRBs and a link, so that all of them wrap. *)
EXTENDS Xhci

MCTrbs == [cmd |-> 3, ep0 |-> 4, out |-> 4, in |-> 3]
=============================================================================
