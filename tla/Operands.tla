------------------------------- MODULE Operands -------------------------------
(***************************************************************************)
(* What an instruction takes from the stack of its IP and puts there (the  *)
(* functions of src/src/stack.c, as sequences with the top last). There    *)
(* are zeros below the bottom.                                             *)
(***************************************************************************)
EXTENDS Integers, SequencesExt

(* stack_get_index and stack_pop: the n-th cell from the top, counted from *)
(* 1, and what is left without the top n cells.                            *)
Nth(s, n)   == IF 0 < n /\ n <= Len(s) THEN s[Len(s) - n + 1] ELSE 0
Under(s, n) == SubSeq(s, 1, Len(s) - n)
Top(s)      == Nth(s, 1)

(* The top n cells, the zeros they may be included.                        *)
TopCells(s, n) == [i \in 1 .. n |-> Nth(s, n - i + 1)]

(* stack_pop_vector, with n cells above the vector: y lies on top of x.    *)
VectorAt(s, n) == <<Nth(s, n + 2), Nth(s, n + 1)>>

(* stack_strlen, and what the functions that pop a string leave.           *)
StringLength(s) ==
  LET Ends(n) == n = Len(s) \/ Nth(s, n + 1) = 0
  IN  CHOOSE n \in 0 .. Len(s) : Ends(n) /\ \A k \in 0 .. n - 1 : ~Ends(k)
StringOf(s)    == Reverse(TopCells(s, StringLength(s)))
UnderString(s) == Under(s, StringLength(s) + 1)

(* stack_push_string_multibyte: the cells of z and, below them, the 0 that *)
(* ends it.                                                                *)
PushedString(s, z) == s \o <<0>> \o Reverse(z)
=============================================================================
