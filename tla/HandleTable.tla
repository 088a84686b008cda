---------------------------- MODULE HandleTable -----------------------------
(***************************************************************************)
(* The tables of handles of FILE and SOCK, the same code in both: an array *)
(* of pointers shared by all IPs. A handle is an index, the lowest free one*)
(* is given out next, and the array grows when there is none.              *)
(***************************************************************************)
EXTENDS Integers, Sequences

CONSTANT NoEntry   \* a NULL pointer in the array

ALLOCCHUNK == 2
EmptyTable == [i \in 1 .. ALLOCCHUNK |-> NoEntry]

At(table, h) == table[h + 1]

valid_handle(table, h) == h \in 0 .. Len(table) - 1 /\ At(table, h) # NoEntry
Valid(table) == {h \in 0 .. Len(table) - 1 : At(table, h) # NoEntry}

(* The handle to give out and the array it is in, longer if it has to be. *)
NextFree(table) ==
    LET free == {h \in 0 .. Len(table) - 1 : At(table, h) = NoEntry}
    IN  IF free = {} THEN Len(table) ELSE CHOOSE h \in free : \A g \in free : h <= g
Extended(table) ==
    IF NextFree(table) = Len(table) THEN table \o EmptyTable ELSE table

With(table, h, entry) == [table EXCEPT ![h + 1] = entry]

allocate_handle(table, entry) == With(Extended(table), NextFree(table), entry)
free_handle(table, h)         == With(table, h, NoEntry)

(* Without memory the table stays, or it grows and has no new entry. *)
Starved(table) == {table, Extended(table)}
=============================================================================
