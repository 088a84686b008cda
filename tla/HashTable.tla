------------------------------- MODULE HashTable -------------------------------
(***************************************************************************)
(* The hash tables of src/lib/libghthash (with the fixes of cfunge): every *)
(* bucket is a doubly linked chain of entries, a second doubly linked list *)
(* runs through all entries from the oldest to the newest, and an insert   *)
(* into a crowded table first moves everything to one of twice the size.   *)
(* The entries are blocks of MemPool.                                      *)
(***************************************************************************)
EXTENDS MemPool, FiniteSets, SequencesExt

CONSTANTS
  Key, Data,
  Hash,             \* GHT_HASH_NAME: the hash value of every key
  InitialSize,      \* what ght_create is called with
  MaxInserts        \* bound: how many entries are inserted

ASSUME HashAssumption == /\ Hash \in [Key -> Nat]
                         /\ InitialSize \in Nat \ {0}
                         /\ MaxInserts \in Nat
                         /\ Data # {}

VARIABLES
  ht,       \* the table
  tmp,      \* p_tmp of rehash, NULL otherwise
  pc,       \* what the call in progress does next; idle between two calls
  p_entry,  \* the entry an insert created, NULL when none is pending
  l_key,    \* the bucket that insert computed
  cursor,   \* the entry the loop of rehash copies next
  p_next,   \* the entry the iteration of the caller yields next
  reply,    \* what the last call returned, <<>> for a null pointer
  inserts   \* how many entries were inserted (for the bound)

vars == <<poolVars, ht, tmp, pc, p_entry, l_key, cursor, p_next, reply, inserts>>

-----------------------------------------------------------------------------
(* The blocks met from b on along a field, one of them twice if they go    *)
(* round; a value that is no block ends them.                              *)
Walk(m, b, field) ==
  LET from[n \in 0 .. Cardinality(DOMAIN m) + 1] ==
        [e \in DOMAIN m |->
           IF n = 0 THEN <<>>
           ELSE <<e>> \o IF m[e][field] \in DOMAIN m THEN from[n - 1][m[e][field]]
                         ELSE <<>>]
  IN  IF b \in DOMAIN m THEN from[Cardinality(DOMAIN m) + 1][b] ELSE <<>>

(* The size is rounded up to a power of two.                               *)
Create(i_size) ==
  LET power[i \in 0 .. i_size] == IF i = 0 THEN 1 ELSE 2 * power[i - 1]
      size == CHOOSE n \in Range(power) : i_size <= n /\ n < 2 * i_size
  IN  [items |-> 0, size |-> size, oldest |-> NULL, newest |-> NULL,
       bucket |-> [l \in 0 .. size - 1 |-> NULL],
       nr     |-> [l \in 0 .. size - 1 |-> 0]]

(* The hash value & i_size_mask.                                           *)
BucketOf(t, k) == Hash[k] % t.size

(* search_in_bucket with GHT_HEURISTICS_NONE.                              *)
Search(t, k) ==
  LET chain == Walk(mem, t.bucket[BucketOf(t, k)], "next")
      found == {n \in DOMAIN chain : mem[chain[n]].key = k}
  IN  IF found = {} THEN NULL ELSE chain[Min(found)]

(* he_create in the block the pool hands out.                              *)
WithEntry(m, e, k, d) ==
  [b \in DOMAIN m \cup {e} |->
     IF b = e THEN [data |-> d, next |-> NULL, prev |-> NULL,
                    older |-> NULL, newer |-> NULL, key |-> k] ELSE m[b]]

(* Memory m after entry e was put first in bucket l of t, as the newest.   *)
Linked(m, t, l, e) ==
  [b \in DOMAIN m |->
     IF b = e THEN [m[e] EXCEPT !.next = t.bucket[l], !.prev = NULL,
                                !.older = t.newest]
     ELSE [m[b] EXCEPT !.prev  = IF b = t.bucket[l] THEN e ELSE @,
                       !.newer = IF b = t.newest THEN e ELSE @]]

WithLinked(t, l, e) ==
  [t EXCEPT !.bucket[l] = e, !.nr[l] = @ + 1, !.items = @ + 1,
            !.oldest = IF @ = NULL THEN e ELSE @, !.newest = e]

(* remove_from_chain.                                                      *)
Unlinked(m, e) ==
  [b \in DOMAIN m |->
     [m[b] EXCEPT !.next  = IF b = m[e].prev  THEN m[e].next  ELSE @,
                  !.prev  = IF b = m[e].next  THEN m[e].prev  ELSE @,
                  !.newer = IF b = m[e].older THEN m[e].newer ELSE @,
                  !.older = IF b = m[e].newer THEN m[e].older ELSE @]]

(* Mutant: removing the newest entry leaves p_newest.                      *)
WithUnlinked_KeepsNewest(t, m, l, e) ==
  [t EXCEPT !.bucket[l] = IF m[e].prev = NULL THEN m[e].next ELSE @,
            !.nr[l] = @ - 1, !.items = @ - 1,
            !.oldest = IF m[e].older = NULL THEN m[e].newer ELSE @]

WithUnlinked(t, m, l, e) ==
  [t EXCEPT !.bucket[l] = IF m[e].prev = NULL THEN m[e].next ELSE @,
            !.nr[l] = @ - 1, !.items = @ - 1,
            !.oldest = IF m[e].older = NULL THEN m[e].newer ELSE @,
            !.newest = IF m[e].newer = NULL THEN m[e].older ELSE @]

-----------------------------------------------------------------------------
Init == /\ PoolInit
        /\ ht = Create(InitialSize)
        /\ tmp = NULL
        /\ pc = "idle"
        /\ p_entry = NULL
        /\ l_key = 0
        /\ cursor = NULL
        /\ p_next = NULL
        /\ reply = <<>>
        /\ inserts = 0

Idle == pc = "idle" /\ UNCHANGED <<tmp, pc, p_entry, l_key, cursor, inserts>>

InsertPresent(k) ==
  /\ Idle
  /\ p_next = NULL
  /\ Search(ht, k) # NULL
  /\ reply' = <<-1>>
  /\ UNCHANGED <<poolVars, ht, p_next>>

(* The entry is created before the table is looked at once more.           *)
InsertNew(k, d) ==
  /\ pc = "idle"
  /\ p_next = NULL
  /\ Search(ht, k) = NULL
  /\ inserts < MaxInserts
  /\ inserts' = inserts + 1
  /\ l_key' = BucketOf(ht, k)
  /\ p_entry' = NextBlock
  /\ mem' = WithEntry(mem, NextBlock, k, d)
  /\ Alloc
  /\ IF ht.items > 2 * ht.size
       THEN /\ pc' = "copy"
            /\ tmp' = Create(2 * ht.size)
            /\ cursor' = ht.oldest
       ELSE /\ pc' = "link"
            /\ UNCHANGED <<tmp, cursor>>
  /\ UNCHANGED <<ht, p_next, reply>>

(* rehash, first loop: a copy of every entry, in the order of their age,   *)
(* is inserted into p_tmp.                                                 *)
Copy ==
  /\ pc = "copy" /\ cursor # NULL
  /\ IF Search(tmp, mem[cursor].key) # NULL
       THEN /\ pc' = "critical"
            /\ UNCHANGED <<poolVars, tmp, cursor>>
       ELSE LET l == BucketOf(tmp, mem[cursor].key)
            IN  /\ Alloc
                /\ mem' = Linked(WithEntry(mem, NextBlock, mem[cursor].key,
                                           mem[cursor].data), tmp, l, NextBlock)
                /\ tmp' = WithLinked(tmp, l, NextBlock)
                /\ cursor' = mem[cursor].newer
                /\ UNCHANGED pc
  /\ UNCHANGED <<ht, p_entry, l_key, p_next, reply, inserts>>

(* rehash, second loop: free_entry_chain for one bucket after the other.   *)
FreeChain ==
  /\ pc = "copy" /\ cursor = NULL
  /\ \E l \in DOMAIN ht.bucket :
       /\ ht.bucket[l] # NULL
       /\ \A other \in 0 .. l - 1 : ht.bucket[other] = NULL
       /\ FreeAll(mem, Walk(mem, ht.bucket[l], "next"))
       /\ ht' = [ht EXCEPT !.bucket[l] = NULL]
  /\ UNCHANGED <<tmp, pc, p_entry, l_key, cursor, p_next, reply, inserts>>

(* Mutant: the bucket computed for the smaller table is used.              *)
Swap_KeepsBucket ==
  /\ pc = "copy" /\ cursor = NULL
  /\ \A l \in DOMAIN ht.bucket : ht.bucket[l] = NULL
  /\ ht' = tmp
  /\ tmp' = NULL
  /\ pc' = "link"
  /\ UNCHANGED <<poolVars, p_entry, l_key, cursor, p_next, reply, inserts>>

(* The table takes the place of the old one, insert computes its bucket.   *)
Swap ==
  /\ pc = "copy" /\ cursor = NULL
  /\ \A l \in DOMAIN ht.bucket : ht.bucket[l] = NULL
  /\ ht' = tmp
  /\ tmp' = NULL
  /\ l_key' = BucketOf(tmp, mem[p_entry].key)
  /\ pc' = "link"
  /\ UNCHANGED <<poolVars, p_entry, cursor, p_next, reply, inserts>>

Link ==
  /\ pc = "link"
  /\ mem' = Linked(mem, ht, l_key, p_entry)
  /\ ht' = WithLinked(ht, l_key, p_entry)
  /\ p_entry' = NULL
  /\ l_key' = 0
  /\ pc' = "idle"
  /\ reply' = <<0>>
  /\ UNCHANGED <<free_list, pools_size, first_free, tmp, cursor, p_next, inserts>>

Get(k) ==
  /\ Idle
  /\ LET e == Search(ht, k)
     IN  reply' = IF e = NULL THEN <<>> ELSE <<mem[e].data>>
  /\ UNCHANGED <<poolVars, ht, p_next>>

Replace(k, d) ==
  /\ Idle
  /\ LET e == Search(ht, k)
     IN  IF e = NULL THEN reply' = <<-1>> /\ UNCHANGED mem
         ELSE /\ reply' = <<mem[e].data>>
              /\ mem' = [mem EXCEPT ![e].data = d]
  /\ UNCHANGED <<free_list, pools_size, first_free, ht, p_next>>

(* During an iteration only what it has yielded may be removed.            *)
RemoveKey(k) ==
  /\ Idle
  /\ LET e == Search(ht, k)
         l == BucketOf(ht, k)
     IN  IF e = NULL
           THEN reply' = <<0>> /\ UNCHANGED <<poolVars, ht>>
           ELSE /\ \A b \in ToSet(Walk(mem, p_next, "newer")) : b # e
                /\ reply' = <<mem[e].data>>
                /\ ht' = WithUnlinked(ht, mem, l, e)
                /\ FreeAll(Unlinked(mem, e), <<e>>)
  /\ UNCHANGED p_next

(* ght_first and ght_next yield the key and the data of e, if any.         *)
Yield(e) ==
  /\ Idle
  /\ IF e = NULL
       THEN reply' = <<>> /\ p_next' = NULL
       ELSE /\ reply' = <<mem[e].key, mem[e].data>>
            /\ p_next' = mem[e].newer
  /\ UNCHANGED <<poolVars, ht>>

First    == Yield(ht.oldest)
NextPair == Yield(p_next)

Next == \/ \E k \in Key : \/ InsertPresent(k) \/ Get(k) \/ RemoveKey(k)
                          \/ \E d \in Data : InsertNew(k, d) \/ Replace(k, d)
        \/ Copy \/ FreeChain \/ Swap \/ Link
        \/ First \/ NextPair

Spec == Init /\ [][Next]_vars

-----------------------------------------------------------------------------
Entries(t) == UNION {ToSet(Walk(mem, t.bucket[l], "next")) : l \in DOMAIN t.bucket}
Ages(t)    == Walk(mem, t.oldest, "newer")
FreeList   == Walk(mem, free_list, "data")

Rehashing == pc \in {"copy", "critical"}

(* The table callers see: the old one has lost its content once rehash     *)
(* began to free it.                                                       *)
Current == IF Rehashing /\ cursor = NULL THEN tmp ELSE ht

(* The list from the oldest to the newest entry holds every entry of the   *)
(* chains once, each entry is in the bucket of its key and no two have the *)
(* same, back pointers lead back, and the counters count.                  *)
Agree(t) ==
  /\ IsInjective(Ages(t)) /\ ToSet(Ages(t)) = Entries(t)
  /\ Walk(mem, t.newest, "older") = Reverse(Ages(t))
  /\ t.items = Len(Ages(t))
  /\ \A l \in DOMAIN t.bucket :
       LET chain == Walk(mem, t.bucket[l], "next")
       IN  /\ t.nr[l] = Len(chain)
           /\ \A i \in DOMAIN chain :
                /\ BucketOf(t, mem[chain[i]].key) = l
                /\ mem[chain[i]].prev = IF i = 1 THEN NULL ELSE chain[i - 1]
  /\ \A e, f \in Entries(t) : mem[e].key = mem[f].key => e = f

(* Chains, list and counters of the table agree between any two steps of   *)
(* insert, remove and rehash (hash_table_priv.h).                          *)
WellLinked == Agree(Current)

(* Every block the pool ever handed out is either on the free list, once,  *)
(* or an entry of a table, or the entry an insert is about to link: no     *)
(* block has two owners and none is lost, not even in the middle of a      *)
(* rehash (alloc and free of cfunge_mempool_priv.h).                       *)
OneOwner ==
  LET owned == <<Entries(ht), IF Rehashing THEN Entries(tmp) ELSE {},
                 {p_entry} \ {NULL}>>
  IN  /\ IsInjective(FreeList)
      /\ DOMAIN mem = ToSet(FreeList) \cup owned[1] \cup owned[2] \cup owned[3]
      /\ \A i \in 1 .. 3 :
           /\ owned[i] \cap ToSet(FreeList) = {}
           /\ \A j \in 1 .. i - 1 : owned[i] \cap owned[j] = {}

PairOf(e) == [key |-> mem[e].key, data |-> mem[e].data]
KeyOf(e)  == mem[e].key

(* What callers see of the table: the pairs in the order of their age, and *)
(* the keys of the entries an iteration has yet to reach.                  *)
Pairs == LET ages == Ages(Current) IN [i \in DOMAIN ages |-> PairOf(ages[i])]
Rest  == LET due == Walk(mem, p_next, "newer") IN [i \in DOMAIN due |-> KeyOf(due[i])]

Dict == INSTANCE Dictionary WITH pairs <- Pairs, rest <- Rest

(* The table is a dictionary that remembers the order of insertion, also   *)
(* through a rehash, and an iteration yields every pair once in that order *)
(* (insert, get, replace, remove, first, next of hash_table_priv.h).       *)
ImplementsDictionary == Dict!Spec
=============================================================================
