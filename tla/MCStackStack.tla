----------------------------- MODULE MCStackStack -----------------------------
(***************************************************************************)
(* StackStack with strings and positions for its model checking run, which *)
(* explores two kinds of programs: those of a single IP with long stacks,  *)
(* and those of two IPs with short ones.                                   *)
(***************************************************************************)
EXTENDS StackStack

VARIABLE program

MCCell    == {-1, 0, 2}
MCStrings == {<<0>>, <<2, 0>>}
MCCorners == {<<2, -1>>}

(* Nothing tells one IP from another.                                      *)
MCSymmetry == Permutations(IP)

MCInit == Init /\ program \in {"alone", "pair"}

(* The bounds of each kind; a program alone needs no third address.        *)
MCBounded ==
  IF program = "alone" THEN Cardinality(Alive) <= 1 /\ 3 \in Free
  ELSE \A a \in Address \ Free :
         /\ heap[a].top <= 2
         /\ \A k \in DOMAIN heap[a].entries : heap[a].entries[k] # -1

MCNext == Next /\ UNCHANGED program /\ MCBounded'

MCSpec == MCInit /\ [][MCNext]_<<vars, program>>
=============================================================================
