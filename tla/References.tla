----------------------------- MODULE References -----------------------------
(***************************************************************************)
(* The fingerprint REFC: one array of vectors for all IPs. R puts a vector *)
(* into it and pushes its index, D turns an index into its vector again.   *)
(* Index 0 is never given out, so the array is full one item early.        *)
(***************************************************************************)
EXTENDS Integers, Sequences

CONSTANTS Vector, NoVector,
          MaxReferences   \* bound: references made

VARIABLES references,     \* the array, of referencesSize items from index 0
          referencesTop,
          made,           \* history: what every R was given
          answer          \* what the last call pushed

refVars == <<references, referencesTop, made, answer>>

REFCCHUNK == 5
Chunk     == [i \in 1 .. REFCCHUNK |-> NoVector]
referencesSize == Len(references)
Item(i)        == references[i + 1]

RefInit == /\ references = Chunk
           /\ referencesTop = 0
           /\ made = <<>>
           /\ answer = <<>>

Full_Late == referencesSize = referencesTop
Full      == referencesSize = referencesTop + 1

Stored(array, v) == /\ references' = [array EXCEPT ![referencesTop + 2] = v]
                    /\ referencesTop' = referencesTop + 1
                    /\ made' = Append(made, v)
                    /\ answer' = <<referencesTop + 1>>

finger_REFC_reference == \E v \in Vector :
    /\ referencesTop < MaxReferences
    /\ \/ ~Full /\ Stored(references, v)
       \/ Full /\ Stored(references \o Chunk, v)
       \/ /\ Full            \* no memory: reflects
          /\ answer' = <<>>
          /\ UNCHANGED <<references, referencesTop, made>>

finger_REFC_dereference == \E ref \in -1 .. MaxReferences + 1 :
    /\ answer' = IF ref <= 0 \/ ref > referencesTop THEN <<>> ELSE <<ref, Item(ref)>>
    /\ UNCHANGED <<references, referencesTop, made>>

RefNext == finger_REFC_reference \/ finger_REFC_dereference

RefSpec == RefInit /\ [][RefNext]_refVars
-----------------------------------------------------------------------------
(* A reference stands for its vector for ever, whatever was referenced after it
   and however often the array moved; and the item it is in was allocated. *)
ReferencesKept ==
    /\ referencesTop = Len(made)
    /\ \A i \in 1 .. referencesTop : i < referencesSize /\ Item(i) = made[i]
    /\ Len(answer) = 2 => answer[2] = made[answer[1]]
=============================================================================
