-------------------------------- MODULE MemPool --------------------------------
(***************************************************************************)
(* The memory pools of src/lib/mempool: arrays of equal blocks, handed out *)
(* from the front of the newest array, and a list of the blocks given back *)
(* that is threaded through the blocks themselves. Blocks are numbered; a  *)
(* block whose number is not in DOMAIN mem was never handed out.           *)
(***************************************************************************)
EXTENDS Integers, Sequences, TLC

CONSTANTS
  POOL_ARRAY_COUNT,  \* an array has this many blocks (and two spare ones)
  NULL

ASSUME PoolAssumption == /\ POOL_ARRAY_COUNT \in Nat \ {0, 1}
                         /\ NULL \notin Int

VARIABLES
  mem,        \* the content of every block ever handed out
  free_list,  \* the last block given back, NULL for none
  pools_size, \* how many arrays there are
  first_free  \* how many blocks of the newest one were handed out

poolVars == <<mem, free_list, pools_size, first_free>>

PoolInit == /\ mem = <<>>
            /\ free_list = NULL
            /\ pools_size = 1
            /\ first_free = 0

Block(pool, index) == (pool - 1) * POOL_ARRAY_COUNT + index

Full == first_free >= POOL_ARRAY_COUNT - 1

(* The block the next alloc returns.                                       *)
NextBlock == IF free_list # NULL THEN free_list
             ELSE IF Full THEN Block(pools_size + 1, 0)
             ELSE Block(pools_size, first_free)

(* freelist_get: the link is in the first field of a block given back.     *)
FreelistGet == /\ free_list # NULL
               /\ free_list' = mem[free_list].data
               /\ UNCHANGED <<pools_size, first_free>>

(* get_next_free, in the newest array or in one more.                      *)
GetNextFree == /\ free_list = NULL
               /\ IF Full THEN /\ pools_size' = pools_size + 1
                               /\ first_free' = 1
                  ELSE /\ first_free' = first_free + 1
                       /\ UNCHANGED pools_size
               /\ UNCHANGED free_list

(* What mem becomes is up to the caller, who fills the block.              *)
Alloc == FreelistGet \/ GetNextFree

(* A block on the free list: the first field of what it held is the link   *)
(* to the next free block, nobody may read the others (the build with      *)
(* assertions clears them).                                                *)
FreeBlock(content, link) ==
  [f \in DOMAIN content |-> IF f = "data" THEN link ELSE NULL]

(* Mutant: the list starts anew at the block given back.                   *)
Freed_NoLink(m, list, blocks) ==
  [b \in DOMAIN m |->
     IF \E i \in DOMAIN blocks : blocks[i] = b THEN FreeBlock(m[b], NULL)
     ELSE m[b]]

(* m after the blocks of a sequence were freed one after the other.        *)
Freed(m, list, blocks) ==
  [b \in DOMAIN m |->
     IF \E i \in DOMAIN blocks : blocks[i] = b
       THEN LET i == CHOOSE j \in DOMAIN blocks : blocks[j] = b
            IN  FreeBlock(m[b], IF i = 1 THEN list ELSE blocks[i - 1])
       ELSE m[b]]

(* freelist_add for each block of a sequence in turn, out of memory m.     *)
FreeAll(m, blocks) ==
  /\ mem' = Freed(m, free_list, blocks)
  /\ free_list' = IF blocks = <<>> THEN free_list ELSE blocks[Len(blocks)]
  /\ UNCHANGED <<pools_size, first_free>>
=============================================================================
