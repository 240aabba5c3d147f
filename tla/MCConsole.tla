----------------------------- MODULE MCConsole -----------------------------
(***************************************************************************)
(* An instance of Console: arrays for three rows of six columns, an eight- *)
(* valued byte, and modes that fill the arrays, are smaller, too tall, too *)
(* wide and so wide that the number of columns wraps to one.               *)
(***************************************************************************)
EXTENDS Console

Grid(r, c) == [rows |-> r, cols |-> c]
MCModes == {Grid(3, 6), Grid(2, 5), Grid(4, 6), Grid(2, 7), Grid(3, 9)}

=============================================================================
