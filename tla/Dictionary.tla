------------------------------ MODULE Dictionary ------------------------------
(***************************************************************************)
(* What the hash tables of src/lib/libghthash promise their callers: a     *)
(* dictionary that remembers the order in which its keys were inserted,    *)
(* and an iteration that yields every pair once, the oldest first.         *)
(***************************************************************************)
EXTENDS Integers, Sequences, SequencesExt

CONSTANTS Key, Data

VARIABLES
  pairs,   \* the content, the oldest pair first
  rest,    \* the keys the iteration in progress has still to yield
  reply    \* what the last call returned, <<>> for a null pointer

vars == <<pairs, rest, reply>>

Has(k)  == \E i \in DOMAIN pairs : pairs[i].key = k
At(k)   == CHOOSE i \in DOMAIN pairs : pairs[i].key = k
Keys(s) == [i \in DOMAIN s |-> s[i].key]

Init == /\ pairs = <<>>
        /\ rest = <<>>
        /\ reply = <<>>

(* A key is never inserted twice. An iteration may miss a new pair.        *)
Insert(k, d) ==
  \/ /\ reply' = <<0>>
     /\ ~Has(k)
     /\ pairs' = Append(pairs, [key |-> k, data |-> d])
     /\ rest' \in {rest, Append(rest, k)}
  \/ /\ reply' = <<-1>>
     /\ Has(k)
     /\ UNCHANGED <<pairs, rest>>

Get(k) == /\ reply' = IF Has(k) THEN <<pairs[At(k)].data>> ELSE <<>>
          /\ UNCHANGED <<pairs, rest>>

(* The pair keeps its place in the order.                                  *)
Replace(k, d) ==
  \/ /\ Has(k)
     /\ reply' = <<pairs[At(k)].data>>
     /\ pairs' = [pairs EXCEPT ![At(k)].data = d]
     /\ UNCHANGED rest
  \/ /\ ~Has(k)
     /\ reply' = <<-1>>
     /\ UNCHANGED <<pairs, rest>>

(* The pairs the iteration has still to yield may not be removed.          *)
RemoveKey(k) ==
  /\ k \notin ToSet(rest)
  /\ \/ /\ Has(k)
        /\ reply' = <<pairs[At(k)].data>>
        /\ pairs' = RemoveAt(pairs, At(k))
     \/ /\ ~Has(k)
        /\ reply' = <<0>>
        /\ UNCHANGED pairs
  /\ UNCHANGED rest

First ==
  /\ IF pairs = <<>>
       THEN reply' = <<>> /\ rest' = <<>>
       ELSE /\ reply' = <<pairs[1].key, pairs[1].data>>
            /\ rest' = Keys(Tail(pairs))
  /\ UNCHANGED pairs

NextPair ==
  /\ IF rest = <<>>
       THEN reply' = <<>> /\ UNCHANGED rest
       ELSE /\ reply' = <<Head(rest), pairs[At(Head(rest))].data>>
            /\ rest' = Tail(rest)
  /\ UNCHANGED pairs

Next == \/ \E k \in Key, d \in Data : Insert(k, d) \/ Replace(k, d)
        \/ \E k \in Key : Get(k) \/ RemoveKey(k)
        \/ First \/ NextPair

Spec == Init /\ [][Next]_vars
=============================================================================
