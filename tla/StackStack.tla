------------------------------ MODULE StackStack ------------------------------
(***************************************************************************)
(* Stacks and stack-stacks as src/src/stack.c keeps them: every stack is   *)
(* an allocated array of `size' cells of which the first `top' are in use, *)
(* and a stack-stack is an array of `size' pointers to stacks of which     *)
(* those up to `current' are. The instructions that operate on them are    *)
(* those of src/src/interpreter.c and of the FRTH fingerprint.             *)
(***************************************************************************)
EXTENDS Integers, SequencesExt

CONSTANTS
  IP,          \* the instruction pointers there can be
  Cell,        \* the values the program pushes
  String,      \* the strings it pushes, each with its final 0
  Corner,      \* the positions { makes the storage offset
  Chunk,       \* ALLOCSIZE_STACK
  StackChunk,  \* ALLOCSIZE_STACKSTACK
  MaxTop,      \* bound: the cells of a stack
  MaxStacks,   \* bound: the stacks of a stack-stack
  Addresses,   \* bound: the stacks that can be allocated at a time
  JUNK         \* memory never written

ASSUME CellAssumption == /\ Cell \subseteq Int /\ JUNK \notin Int
                         /\ String \subseteq Seq(Int) /\ Corner \subseteq Int \X Int
ASSUME SizeAssumption == /\ Chunk \in Nat \ {0} /\ StackChunk \in Nat \ {0}
                         /\ MaxTop \in Nat /\ MaxStacks \in Nat
                         /\ Addresses \in Nat \ {0}

Address == 1 .. Addresses

NULL    == 0      \* a null pointer
Nothing == <<>>   \* what is at no address: it has no fields

VARIABLES
  heap,           \* the funge_stack at every address, Nothing when it is free
  stackstack,     \* ip->stackstack, Nothing for no such IP
  stack,          \* ip->stack
  storageOffset   \* ip->storageOffset

vars == <<heap, stackstack, stack, storageOffset>>

Alive == {ip \in IP : stackstack[ip] # Nothing}

-----------------------------------------------------------------------------
(* realloc to newsize items: what was there is kept.                       *)
Resized(array, newsize) ==
  [k \in 0 .. newsize - 1 |-> IF k \in DOMAIN array THEN array[k] ELSE JUNK]

stack_create ==
  [size |-> Chunk, top |-> 0, entries |-> [k \in 0 .. Chunk - 1 |-> JUNK]]

stack_duplicate(old) ==
  [size |-> old.top + 1, top |-> old.top,
   entries |-> [k \in 0 .. old.top |-> IF k < old.top THEN old.entries[k]
                                       ELSE JUNK]]

(* stack_prealloc_space: always at least one item more than asked for.     *)
stack_prealloc_space(s, minfree) ==
  IF s.top + minfree >= s.size
    THEN LET wanted  == s.size + minfree
             newsize == wanted + (Chunk - (wanted % Chunk))
         IN  [s EXCEPT !.size = newsize, !.entries = Resized(@, newsize)]
    ELSE s

(* Writes the cells after top without looking at size.                     *)
Written(s, cells) ==
  [s EXCEPT !.top = @ + Len(cells),
            !.entries = [k \in DOMAIN @ |->
                           IF k \in s.top .. s.top + Len(cells) - 1
                             THEN cells[k - s.top + 1] ELSE @[k]]]

stack_push(s, v) ==
  Written(IF s.top = s.size
            THEN [s EXCEPT !.size = @ + Chunk,
                           !.entries = Resized(@, s.size + Chunk)]
            ELSE s, <<v>>)

stack_peek(s) == IF s.top = 0 THEN 0 ELSE s.entries[s.top - 1]

stack_discard(s, n) == [s EXCEPT !.top = IF @ > n THEN @ - n ELSE 0]

(* stack_pop leaves the value in the array.                                *)
AfterPop(s) == stack_discard(s, 1)

stack_get_index(s, index) == IF s.top < index THEN 0 ELSE s.entries[index - 1]

stack_dup_top(s) ==
  LET t == stack_push(s, stack_peek(s))
  IN  IF t.top = 1 THEN stack_push(t, 0) ELSE t

stack_swap_top(s) ==
  LET t == AfterPop(s)
      u == AfterPop(t)
  IN  Written(stack_prealloc_space(u, 2), <<stack_peek(s), stack_peek(t)>>)

stack_push_string(s, str) ==
  Written(stack_prealloc_space(s, Len(str)), Reverse(str))

(* stack_pop_string: pops up to and including the first 0.                 *)
AfterPopString(s) ==
  LET zeros == {k \in 0 .. s.top - 1 : s.entries[k] = 0}
  IN  [s EXCEPT !.top = IF zeros = {} THEN 0
                        ELSE CHOOSE k \in zeros : \A z \in zeros : z <= k]

(* Mutant: the zeros are counted but not written.                          *)
stack_zero_fill_NoWrite(s, count) ==
  [stack_prealloc_space(s, count) EXCEPT !.top = @ + count]

stack_zero_fill(s, count) ==
  Written(stack_prealloc_space(s, count), [k \in 1 .. count |-> 0])

(* Mutant: the missing zeros come last.                                    *)
stack_bulk_copy_ZerosLast(dest, src, count) ==
  LET enough == IF count > src.top THEN src.top ELSE count
  IN  stack_zero_fill(
        Written(stack_prealloc_space(dest, count),
                [k \in 1 .. enough |-> src.entries[src.top - enough + k - 1]]),
        count - enough)

(* stack_bulk_copy: zeros first when src has too few.                      *)
stack_bulk_copy(dest, src, count) ==
  LET enough == IF count > src.top THEN src.top ELSE count
      filled == IF count > src.top
                  THEN stack_zero_fill(stack_prealloc_space(dest, count),
                                       count - src.top)
                  ELSE stack_prealloc_space(dest, count)
  IN  Written(filled, [k \in 1 .. enough |-> src.entries[src.top - enough + k - 1]])

(* stack_push of every cell, one at a time.                                *)
PushedAll(s, cells) ==
  LET p[n \in 0 .. Len(cells)] ==
        IF n = 0 THEN s ELSE stack_push(p[n - 1], cells[n])
  IN  p[Len(cells)]

(* forth_roll with u and then the n = u + 1 top items: through a copy.     *)
forth_roll(s, u) ==
  IF u >= s.top THEN stack_push(s, 0)
  ELSE PushedAll(stack_discard(s, u + 1),
                 Append([k \in 1 .. u |-> s.entries[s.top - u + k - 1]],
                        s.entries[s.top - (u + 1)]))

forth_pick(s, u) ==
  stack_push(s, IF u >= s.top THEN 0 ELSE stack_get_index(s, s.top - u))

-----------------------------------------------------------------------------
(* Instructions on ip->stack alone.                                        *)
OnTop(ip, s) == /\ heap' = [heap EXCEPT ![stack[ip]] = s]
                /\ UNCHANGED <<stackstack, stack, storageOffset>>

Push(ip)      == \E v \in Cell : OnTop(ip, stack_push(heap[stack[ip]], v))
Pop(ip)       == OnTop(ip, stack_discard(heap[stack[ip]], 1))
Clear(ip)     == OnTop(ip, [heap[stack[ip]] EXCEPT !.top = 0])
DupTop(ip)    == OnTop(ip, stack_dup_top(heap[stack[ip]]))
SwapTop(ip)   == OnTop(ip, stack_swap_top(heap[stack[ip]]))
PushString(ip) ==
  \E str \in String : OnTop(ip, stack_push_string(heap[stack[ip]], str))
PopString(ip) == OnTop(ip, AfterPopString(heap[stack[ip]]))

(* FRTH: D, P and L. A negative index reflects, and so does L without      *)
(* memory for its copy.                                                    *)
StackSize(ip) == OnTop(ip, stack_push(heap[stack[ip]], heap[stack[ip]].top))

Indexed(s, result) == IF stack_peek(s) < 0 THEN AfterPop(s) ELSE result

ForthPick(ip) ==
  LET s == heap[stack[ip]]
  IN  OnTop(ip, Indexed(s, forth_pick(AfterPop(s), stack_peek(s))))

ForthRoll(ip) ==
  LET s == heap[stack[ip]]
  IN  \/ OnTop(ip, Indexed(s, forth_roll(AfterPop(s), stack_peek(s))))
      \/ Pop(ip)

-----------------------------------------------------------------------------
Free == {a \in Address : heap[a] = Nothing}

(* malloc: addresses have no meaning, so it may as well be the lowest.     *)
Fresh == CHOOSE a \in Free : \A f \in Free : a <= f

(* n + 1 times.                                                            *)
Lowest(n) == {fresh \in [0 .. n -> Free] :
                \A m \in 0 .. n : \A a \in Free :
                  a < fresh[m] <=> \E l \in 0 .. m - 1 : fresh[l] = a}

SOSS(ip) == stackstack[ip].stacks[stackstack[ip].current - 1]
TOSS(ip) == stackstack[ip].stacks[stackstack[ip].current]

Magnitude(n) == IF n < 0 THEN -n ELSE n

(* stackstack_begin without memory for it: only the count is gone, and the *)
(* IP reflects.                                                            *)
BeginOutOfMemory(ip) == Pop(ip)

(* { with the new storage offset: the position after it.                   *)
Begin(ip, corner) ==
  LET count == stack_peek(heap[stack[ip]])
      mine  == stackstack[ip]
      size  == IF mine.size - 1 = mine.current THEN mine.size + StackChunk
               ELSE mine.size
      new   == stack_prealloc_space(stack_create, Magnitude(count) + 2)
      below == AfterPop(heap[stack[ip]])
      under == IF count < 0 THEN stack_zero_fill(below, -count)
               ELSE IF count > 0 THEN stack_discard(below, count)
               ELSE below
  IN  /\ Free # {}
      /\ heap' = [heap EXCEPT
           ![Fresh] = IF count > 0 THEN stack_bulk_copy(new, below, count)
                      ELSE new,
           ![TOSS(ip)] = stack_push(stack_push(under, storageOffset[ip][1]),
                                    storageOffset[ip][2])]
      /\ stackstack' = [stackstack EXCEPT ![ip] =
           [size |-> size, current |-> mine.current + 1,
            stacks |-> [Resized(mine.stacks, size)
                          EXCEPT ![mine.current + 1] = Fresh]]]
      /\ stack' = [stack EXCEPT ![ip] = Fresh]
      /\ storageOffset' = [storageOffset EXCEPT ![ip] = corner]

(* }                                                                       *)
End(ip) ==
  LET count == stack_peek(heap[stack[ip]])
      top   == [heap EXCEPT ![stack[ip]] = AfterPop(@)][TOSS(ip)]
      y     == stack_peek(heap[SOSS(ip)])
      x     == stack_peek(AfterPop(heap[SOSS(ip)]))
      below == AfterPop(AfterPop(heap[SOSS(ip)]))
  IN  /\ stackstack[ip].current # 0
      /\ heap' = [heap EXCEPT
           ![SOSS(ip)] = IF count > 0 THEN stack_bulk_copy(below, top, count)
                         ELSE stack_discard(below, -count),
           ![TOSS(ip)] = Nothing]
      /\ storageOffset' = [storageOffset EXCEPT ![ip] = <<x, y>>]
      /\ stack' = [stack EXCEPT ![ip] = SOSS(ip)]
      /\ stackstack' = [stackstack EXCEPT ![ip].stacks =
                          [@ EXCEPT ![stackstack[ip].current] = NULL],
                        ![ip].current = @ - 1]

(* u, one item at a time.                                                  *)
Moved(to, from, count) ==
  LET m[n \in 0 .. count] ==
        IF n = 0 THEN <<to, from>>
        ELSE <<stack_push(m[n - 1][1], stack_peek(m[n - 1][2])),
               AfterPop(m[n - 1][2])>>
  IN  m[count]

Transfer(ip) ==
  LET count == stack_peek(heap[stack[ip]])
      top   == [heap EXCEPT ![stack[ip]] = AfterPop(@)][TOSS(ip)]
      below == heap[SOSS(ip)]
      both  == IF count > 0 THEN Moved(top, below, count)
               ELSE Reverse(Moved(below, top, -count))
  IN  /\ stackstack[ip].current # 0
      /\ heap' = [heap EXCEPT ![TOSS(ip)] = both[1], ![SOSS(ip)] = both[2]]
      /\ UNCHANGED <<stackstack, stack, storageOffset>>

(* } and u with a single stack reflect, and change nothing here.           *)

-----------------------------------------------------------------------------
(* t: ip_duplicate_in_place copies the IP and duplicates its stack-stack;  *)
(* without memory the interpreter gives up.                                *)
Split(ip, child) ==
  LET mine  == stackstack[ip]
  IN  /\ child \notin Alive
      /\ \E fresh \in Lowest(mine.current) :
           /\ heap' = [a \in Address |->
                IF \E n \in 0 .. mine.current : fresh[n] = a
                  THEN stack_duplicate(
                         heap[mine.stacks[CHOOSE n \in 0 .. mine.current :
                                            fresh[n] = a]])
                  ELSE heap[a]]
           /\ stackstack' = [stackstack EXCEPT ![child] =
                [size |-> mine.size, current |-> mine.current,
                 stacks |-> [n \in 0 .. mine.size - 1 |->
                               IF n <= mine.current THEN fresh[n] ELSE JUNK]]]
           /\ stack' = [stack EXCEPT ![child] = fresh[mine.current]]
      /\ storageOffset' = [storageOffset EXCEPT ![child] = storageOffset[ip]]

(* Mutant: only the top stack is freed.                                    *)
Quit_TopOnly(ip) ==
  /\ heap' = [heap EXCEPT ![TOSS(ip)] = Nothing]
  /\ stackstack' = [stackstack EXCEPT ![ip] = Nothing]
  /\ stack' = [stack EXCEPT ![ip] = NULL]
  /\ UNCHANGED storageOffset

(* @: ip_free_resources.                                                   *)
Quit(ip) ==
  /\ heap' = [a \in Address |->
       IF \E n \in 0 .. stackstack[ip].current : stackstack[ip].stacks[n] = a
         THEN Nothing ELSE heap[a]]
  /\ stackstack' = [stackstack EXCEPT ![ip] = Nothing]
  /\ stack' = [stack EXCEPT ![ip] = NULL]
  /\ UNCHANGED storageOffset

-----------------------------------------------------------------------------
(* ip_create_in_place                                                      *)
Init == \E first \in IP :
  /\ heap = [a \in Address |-> IF a = 1 THEN stack_create ELSE Nothing]
  /\ stackstack = [ip \in IP |->
       IF ip = first
         THEN [size |-> StackChunk, current |-> 0,
               stacks |-> [n \in 0 .. StackChunk - 1 |-> IF n = 0 THEN 1
                                                         ELSE JUNK]]
         ELSE Nothing]
  /\ stack = [ip \in IP |-> IF ip = first THEN 1 ELSE NULL]
  /\ storageOffset = [ip \in IP |-> <<0, 0>>]

(* The program keeps to the bounds.                                        *)
Bounded ==
  /\ \A a \in Address : heap[a] # Nothing =>
       /\ heap[a].top <= MaxTop
       /\ \A k \in DOMAIN heap[a].entries : heap[a].entries[k] \in Cell \cup {JUNK}
  /\ \A ip \in Alive : stackstack[ip].current < MaxStacks

Step(ip) ==
  \/ Push(ip) \/ Pop(ip) \/ Clear(ip) \/ DupTop(ip) \/ SwapTop(ip)
  \/ PushString(ip) \/ PopString(ip)
  \/ StackSize(ip) \/ ForthPick(ip) \/ ForthRoll(ip)
  \/ \E corner \in Corner : Begin(ip, corner)
  \/ BeginOutOfMemory(ip) \/ End(ip) \/ Transfer(ip)
  \/ \E child \in IP : Split(ip, child)
  \/ Quit(ip)

Next == \E ip \in Alive : Step(ip) /\ Bounded'

Spec == Init /\ [][Next]_vars

-----------------------------------------------------------------------------
(* The stacks of ip's stack-stack, the bottom one first.                   *)
Owned(ip) == {stackstack[ip].stacks[n] : n \in 0 .. stackstack[ip].current}

(* Whatever {, }, t and @ do in any order, every stack in use is allocated *)
(* and belongs to one place of one stack-stack, no stack that is allocated *)
(* has been lost, and the instructions operate on the top one.             *)
Ownership ==
  /\ \A ip \in Alive : stack[ip] = TOSS(ip)
  /\ UNION {Owned(ip) : ip \in Alive} = Address \ Free
  /\ \A ip, jp \in Alive : ip # jp => Owned(ip) \cap Owned(jp) = {}
  /\ \A ip \in Alive : Cardinality(Owned(ip)) = stackstack[ip].current + 1

(* No instruction reads or writes beyond an array, or sees memory that was *)
(* not written: the capacities on record are those of the arrays, and what *)
(* is in use has room and holds values of the program.                     *)
NoJunk ==
  /\ \A a \in Address \ Free :
       /\ DOMAIN heap[a].entries = 0 .. heap[a].size - 1
       /\ heap[a].top \in 0 .. heap[a].size
       /\ \A k \in 0 .. heap[a].top - 1 : heap[a].entries[k] \in Cell
  /\ \A ip \in Alive :
       /\ DOMAIN stackstack[ip].stacks = 0 .. stackstack[ip].size - 1
       /\ stackstack[ip].current \in 0 .. stackstack[ip].size - 1

(* Arrays that are too long or hold stale items, shared capacities and     *)
(* copies make no difference: the stack-stacks implement the abstract      *)
(* stacks.                                                                 *)
Items(s) == [k \in 1 .. s.top |-> s.entries[k - 1]]

AllItems(ip) ==
  IF ip \in Alive
    THEN [n \in 1 .. stackstack[ip].current + 1 |->
            Items(heap[stackstack[ip].stacks[n - 1]])]
    ELSE <<>>

Abstract == INSTANCE Stacks WITH stacks <- [ip \in IP |-> AllItems(ip)],
                                 offset <- storageOffset
ImplementsStacks == Abstract!Spec
=============================================================================
