------------------------------ MODULE Characters ------------------------------
(***************************************************************************)
(* What files and standard input have in common: the two characters lines  *)
(* end with, and C's null pointer.                                         *)
(***************************************************************************)
CONSTANTS LF, CR, NULL
=============================================================================
