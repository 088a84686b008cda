----------------------------- MODULE MCHashTable -----------------------------
(* HashTable with two keys of one hash value and two of another.           *)
EXTENDS HashTable

CONSTANTS a, b, c, d

MCKey  == {a, b, c, d}
MCData == {-1, 100}
MCHash == [k \in MCKey |-> IF k \in {a, b} THEN 1 ELSE 2]

(* Keys of one hash value are treated alike.                               *)
MCSymmetry == Permutations({a, b}) \cup Permutations({c, d})

(* Nothing reads the reply: states that differ in it only are explored     *)
(* once, while every step is compared with the steps of Dictionary.        *)
MCView == <<poolVars, ht, tmp, pc, p_entry, l_key, cursor, p_next, inserts>>
=============================================================================
