--------------------------- MODULE StackStackProofs ---------------------------
(***************************************************************************)
(* Proofs about stack-stacks, for any program, any sizes of the allocated  *)
(* chunks and any number of instruction pointers: no stack is lost, shared *)
(* or holds memory that was not written, and the instructions do to their  *)
(* cells what those of Stacks do.                                          *)
(***************************************************************************)
EXTENDS StackStack, SequenceTheorems, FiniteSetTheorems, FunctionTheorems, TLAPS

-----------------------------------------------------------------------------
(* A single stack: what its operations do to its cells.                    *)

Common == INSTANCE CommonLemmas

(* A stack that never sees memory it did not write.                        *)
WellFormed(s) ==
  /\ s = [size |-> s.size, top |-> s.top, entries |-> s.entries]
  /\ s.size \in Nat /\ s.top \in 0 .. s.size
  /\ s.entries \in [0 .. s.size - 1 -> Int \cup {JUNK}]
  /\ \A k \in 0 .. s.top - 1 : s.entries[k] \in Int

-----------------------------------------------------------------------------
(* Sequences of cells, and the abstract operations on them.                *)

(* Two sequences of cells of one length that agree everywhere are equal.   *)
LEMMA SameCells ==
  ASSUME NEW p \in Seq(Int), NEW q \in Seq(Int), Len(p) = Len(q),
         \A k \in 1 .. Len(p) : p[k] = q[k]
  PROVE  p = q
BY SeqEqual

(* A function from 1 .. n to cells is a sequence of n cells.               *)
LEMMA CellsOf ==
  ASSUME NEW n \in Int, NEW f, DOMAIN f = 1 .. n, f = [k \in 1 .. n |-> f[k]],
         \A k \in 1 .. n : f[k] \in Int
  PROVE  f \in Seq(Int) /\ Len(f) = IF n > 0 THEN n ELSE 0
<1>1. CASE n \in Nat
  BY <1>1, IsASeq
<1>2. CASE n < 0
  <2>1. 1 .. n = {}
    BY <1>2
  <2>2. f = <<>>
    BY <2>1
  <2>3. <<>> \in Seq(Int) /\ Len(<<>>) = 0
    OBVIOUS
  <2>4. f \in Seq(Int) /\ Len(f) = 0
    BY <2>2, <2>3, Zenon
  <2>5. (IF n > 0 THEN n ELSE 0) = 0
    BY <1>2
  <2>6. QED
    BY <2>4, <2>5, Zenon
<1>3. n \in Nat \/ n < 0
  OBVIOUS
<1>4. QED
  BY <1>1, <1>2, <1>3, Zenon

(* The n topmost cells of s, with zeros where s has none.                  *)
LEMMA TopMostOf ==
  ASSUME NEW s \in Seq(Int), NEW n \in Int, NEW f, f = Abstract!TopMost(s, n)
  PROVE  /\ f \in Seq(Int) /\ Len(f) = IF n > 0 THEN n ELSE 0
         /\ \A k \in 1 .. n : f[k] = IF Len(s) - n + k > 0 THEN s[Len(s) - n + k]
                                     ELSE 0
<1>1. /\ DOMAIN f = 1 .. n /\ f = [k \in 1 .. n |-> f[k]]
      /\ \A k \in 1 .. n : f[k] = IF Len(s) - n + k > 0 THEN s[Len(s) - n + k]
                                  ELSE 0
  BY DEF Abstract!TopMost
<1>2. \A k \in 1 .. n : f[k] \in Int
  BY <1>1
<1>3. QED
  BY <1>1, <1>2, CellsOf

(* n zeros, none when n is negative.                                       *)
LEMMA ZerosOf ==
  ASSUME NEW n \in Int, NEW f, f = Abstract!Zeros(n)
  PROVE  /\ f \in Seq(Int) /\ Len(f) = IF n > 0 THEN n ELSE 0
         /\ \A k \in 1 .. n : f[k] = 0
<1>1. /\ DOMAIN f = 1 .. n /\ f = [k \in 1 .. n |-> f[k]]
      /\ \A k \in 1 .. n : f[k] = 0
  BY DEF Abstract!Zeros
<1>2. \A k \in 1 .. n : f[k] \in Int
  BY <1>1
<1>3. QED
  BY <1>1, <1>2, CellsOf

(* What is left of s without its n topmost cells.                          *)
LEMMA DropOf ==
  ASSUME NEW s \in Seq(Int), NEW n \in Int, NEW d, d = Abstract!Drop(s, n)
  PROVE  /\ d \in Seq(Int)
         /\ n <= 0 => d = s
         /\ n > 0  => Len(d) = IF Len(s) > n THEN Len(s) - n ELSE 0
         /\ Len(d) <= Len(s) /\ \A k \in 1 .. Len(d) : d[k] = s[k]
<1>1. CASE n > 0
  <2>1. d = SubSeq(s, 1, Len(s) - n)
    BY <1>1 DEF Abstract!Drop
  <2>2. QED
    BY <1>1, <2>1
<1>2. CASE n <= 0
  BY <1>2 DEF Abstract!Drop
<1>3. QED
  BY <1>1, <1>2

(* The cells of s the other way round.                                     *)
LEMMA ReverseOf ==
  ASSUME NEW s \in Seq(Int), NEW f, f = Reverse(s)
  PROVE  /\ f \in Seq(Int) /\ Len(f) = Len(s)
         /\ \A k \in 1 .. Len(s) : f[k] = s[Len(s) - k + 1]
<1>1. /\ DOMAIN f = 1 .. Len(s) /\ f = [k \in 1 .. Len(s) |-> f[k]]
      /\ \A k \in 1 .. Len(s) : f[k] = s[Len(s) - k + 1]
  BY DEF Reverse
<1>2. \A k \in 1 .. Len(s) : f[k] \in Int
  BY <1>1
<1>3. QED
  BY <1>1, <1>2, CellsOf

(* The cells of s, then those of t.                                        *)
LEMMA Concatenated ==
  ASSUME NEW p \in Seq(Int), NEW q \in Seq(Int), NEW r, r = p \o q
  PROVE  /\ r \in Seq(Int) /\ Len(r) = Len(p) + Len(q)
         /\ \A k \in 1 .. Len(p) : r[k] = p[k]
         /\ \A k \in 1 .. Len(q) : r[Len(p) + k] = q[k]
OBVIOUS

(* A sequence that starts like p and ends like q is p \o q.                *)
LEMMA Joined ==
  ASSUME NEW p \in Seq(Int), NEW q \in Seq(Int), NEW r \in Seq(Int),
         Len(r) = Len(p) + Len(q),
         \A k \in 1 .. Len(p) : r[k] = p[k],
         \A k \in 1 .. Len(q) : r[Len(p) + k] = q[k]
  PROVE  r = p \o q
<1>1. /\ p \o q \in Seq(Int) /\ Len(p \o q) = Len(p) + Len(q)
      /\ \A k \in 1 .. Len(p) : (p \o q)[k] = p[k]
      /\ \A k \in 1 .. Len(q) : (p \o q)[Len(p) + k] = q[k]
  OBVIOUS
<1>2. ASSUME NEW k \in 1 .. Len(r)
      PROVE  r[k] = (p \o q)[k]
  <2>1. CASE k <= Len(p)
    BY <1>1, <2>1
  <2>2. CASE k > Len(p)
    <3>1. k - Len(p) \in 1 .. Len(q) /\ k = Len(p) + (k - Len(p))
      BY <2>2
    <3>2. QED
      BY <1>1, <3>1
  <2>3. QED
    BY <2>1, <2>2
<1> DEFINE c == p \o q
<1> HIDE DEF c
<1>3. c \in Seq(Int) /\ Len(r) = Len(c) /\ \A k \in 1 .. Len(r) : r[k] = c[k]
  BY <1>1, <1>2 DEF c
<1>4. QED
  BY <1>3, SameCells DEF c

-----------------------------------------------------------------------------
(* One stack: every operation keeps it well-formed, and its items are what *)
(* the abstract operation makes of its former ones.                        *)

(* The cells of a stack in use are the items of its array below top.       *)
LEMMA ItemsOf ==
  ASSUME NEW s, WellFormed(s)
  PROVE  /\ Items(s) \in Seq(Int)
         /\ Len(Items(s)) = s.top
         /\ \A k \in 1 .. s.top : Items(s)[k] = s.entries[k - 1]
<1>1. Items(s) \in [1 .. s.top -> Int]
  BY DEF Items, WellFormed
<1>2. QED
  BY <1>1, IsASeq, SMTT(30) DEF Items, WellFormed

(* What a stack is made of is all there is to it.                          *)
LEMMA Fields ==
  ASSUME NEW size, NEW top, NEW entries,
         NEW s \in [size : {size}, top : {top}, entries : {entries}]
  PROVE  /\ s.size = size /\ s.top = top /\ s.entries = entries
         /\ s = [size |-> s.size, top |-> s.top, entries |-> s.entries]
OBVIOUS

(* An array of cells of which the first top hold cells makes a stack.      *)
LEMMA StackOf ==
  ASSUME NEW s, s = [size |-> s.size, top |-> s.top, entries |-> s.entries],
         s.size \in Nat, s.top \in 0 .. s.size,
         s.entries \in [0 .. s.size - 1 -> Int \cup {JUNK}],
         NEW q \in Seq(Int), Len(q) = s.top,
         \A k \in 1 .. s.top : s.entries[k - 1] = q[k]
  PROVE  WellFormed(s) /\ Items(s) = q
<1>1. \A k \in 0 .. s.top - 1 : k + 1 \in 1 .. s.top /\ s.entries[k] = q[k + 1]
  OBVIOUS
<1>2. WellFormed(s)
  BY <1>1 DEF WellFormed
<1>3. q = [k \in 1 .. s.top |-> q[k]]
  OBVIOUS
<1>4. Items(s) = [k \in 1 .. s.top |-> s.entries[k - 1]]
  BY DEF Items
<1>5. QED
  BY <1>2, <1>3, <1>4

(* stack_create: an empty stack.                                           *)
LEMMA NewStack ==
  WellFormed(stack_create) /\ Items(stack_create) = <<>>
<1> DEFINE array == [k \in 0 .. Chunk - 1 |-> JUNK]
<1>1. array \in [0 .. Chunk - 1 -> Int \cup {JUNK}] /\ Chunk \in Nat
  BY SizeAssumption
<1>2. stack_create \in [size : {Chunk}, top : {0}, entries : {array}]
  BY DEF stack_create
<1> HIDE DEF array
<1>3. /\ <<>> \in Seq(Int) /\ Len(<<>>) = 0 /\ 0 \in 0 .. Chunk
      /\ \A k \in 1 .. 0 : array[k - 1] = <<>>[k]
  BY <1>1
<1>4. /\ stack_create.size = Chunk /\ stack_create.top = 0
      /\ stack_create.entries = array
      /\ stack_create = [size |-> stack_create.size, top |-> stack_create.top,
                         entries |-> stack_create.entries]
  BY <1>2, Fields
<1>5. QED
  BY <1>1, <1>3, <1>4, StackOf

(* stack_duplicate: the copy has the cells of the original.                *)
LEMMA DuplicatedStack ==
  ASSUME NEW s, WellFormed(s), NEW t, t = stack_duplicate(s)
  PROVE  WellFormed(t) /\ Items(t) = Items(s)
<1> DEFINE copied == [k \in 0 .. s.top |-> IF k < s.top THEN s.entries[k]
                                          ELSE JUNK]
<1>1. s.top \in Nat /\ \A k \in 0 .. s.top - 1 : s.entries[k] \in Int
  BY DEF WellFormed
<1>2. /\ copied \in [0 .. s.top + 1 - 1 -> Int \cup {JUNK}]
      /\ \A k \in 1 .. s.top : copied[k - 1] = s.entries[k - 1]
      /\ s.top + 1 \in Nat /\ s.top \in 0 .. s.top + 1
  BY <1>1
<1>3. t \in [size : {s.top + 1}, top : {s.top}, entries : {copied}]
  BY DEF stack_duplicate
<1> HIDE DEF copied
<1>4. /\ t = [size |-> t.size, top |-> t.top, entries |-> t.entries]
      /\ t.size = s.top + 1 /\ t.top = s.top /\ t.entries = copied
  BY <1>3, Fields
<1>5. /\ Items(s) \in Seq(Int) /\ Len(Items(s)) = s.top
      /\ \A k \in 1 .. s.top : copied[k - 1] = Items(s)[k]
  BY <1>2, ItemsOf
<1>6. /\ t.size \in Nat /\ t.top \in 0 .. t.size
      /\ t.entries \in [0 .. t.size - 1 -> Int \cup {JUNK}]
  BY <1>2, <1>4
<1>7. QED
  BY <1>4, <1>5, <1>6, StackOf

(* The array is extended: what was there is kept.                          *)
LEMMA ResizedArray ==
  ASSUME NEW s, WellFormed(s), NEW t,
         t = [size |-> t.size, top |-> t.top, entries |-> t.entries],
         t.size \in Nat, s.size <= t.size, t.top = s.top,
         t.entries = Resized(s.entries, t.size)
  PROVE  WellFormed(t) /\ Items(t) = Items(s)
<1>0. /\ s = [size |-> s.size, top |-> s.top, entries |-> s.entries]
      /\ s.size \in Nat /\ s.top \in 0 .. s.size
      /\ s.entries \in [0 .. s.size - 1 -> Int \cup {JUNK}]
  BY DEF WellFormed
<1>1. /\ t.entries \in [0 .. t.size - 1 -> Int \cup {JUNK}]
      /\ \A k \in 1 .. t.top : t.entries[k - 1] = s.entries[k - 1]
      /\ t.top \in 0 .. t.size
  BY <1>0 DEF Resized
<1>2. /\ Items(s) \in Seq(Int) /\ Len(Items(s)) = t.top
      /\ \A k \in 1 .. t.top : t.entries[k - 1] = Items(s)[k]
  BY <1>1, ItemsOf
<1>3. QED
  BY <1>1, <1>2, StackOf

(* There is room for minfree items, and for one more.                      *)
LEMMA SpaceFor ==
  ASSUME NEW s, WellFormed(s), NEW n \in Nat,
         NEW t, t = stack_prealloc_space(s, n)
  PROVE  /\ WellFormed(t) /\ t.top = s.top /\ Items(t) = Items(s)
         /\ s.top + n < t.size /\ s.size <= t.size
<1> DEFINE wanted == s.size + n
           newsize == wanted + (Chunk - (wanted % Chunk))
<1>0. s.size \in Nat /\ s.top \in 0 .. s.size
  BY DEF WellFormed
<1>1. wanted \in Nat /\ wanted % Chunk \in 0 .. Chunk - 1
  BY <1>0, SizeAssumption
<1>2. newsize \in Nat /\ newsize > wanted
  BY <1>1, SizeAssumption
<1>3. CASE s.top + n >= s.size
  <2>1. t = [s EXCEPT !.size = newsize, !.entries = Resized(@, newsize)]
    BY <1>3 DEF stack_prealloc_space
  <2>2. s.size <= newsize /\ s.top + n < newsize
    BY <1>0, <1>2
  <2> HIDE DEF newsize
  <2>3. t \in [size : {newsize}, top : {s.top},
               entries : {Resized(s.entries, newsize)}]
    BY <2>1 DEF WellFormed
  <2>4. /\ t = [size |-> t.size, top |-> t.top, entries |-> t.entries]
        /\ t.size = newsize /\ t.top = s.top
        /\ t.entries = Resized(s.entries, t.size)
    BY <2>3, Fields
  <2>5. QED
    BY <1>2, <2>2, <2>4, ResizedArray
<1>4. CASE ~(s.top + n >= s.size)
  BY <1>0, <1>4 DEF stack_prealloc_space
<1>5. QED
  BY <1>3, <1>4

(* Cells that there is room for.                                           *)
LEMMA WrittenCells ==
  ASSUME NEW s, WellFormed(s), NEW q \in Seq(Int), s.top + Len(q) <= s.size,
         NEW t, t = Written(s, q)
  PROVE  /\ WellFormed(t) /\ t.top = s.top + Len(q) /\ t.size = s.size
         /\ Items(t) = Items(s) \o q
<1> DEFINE top == s.top + Len(q)
           array == [k \in DOMAIN s.entries |->
                       IF k \in s.top .. s.top + Len(q) - 1
                         THEN q[k - s.top + 1] ELSE s.entries[k]]
<1>0. s = [size |-> s.size, top |-> s.top, entries |-> s.entries]
  BY DEF WellFormed
<1>1. /\ s.size \in Nat /\ s.top \in 0 .. s.size /\ top \in 0 .. s.size
      /\ s.entries \in [0 .. s.size - 1 -> Int \cup {JUNK}]
  BY DEF WellFormed
<1>2. t \in [size : {s.size}, top : {top}, entries : {array}]
  <2> HIDE DEF top, array
  <2>1. t = [s EXCEPT !.top = top, !.entries = array]
    BY DEF Written, top, array
  <2>2. QED
    BY <1>0, <2>1
<1>3. /\ Items(s) \in Seq(Int) /\ Len(Items(s)) = s.top
      /\ \A k \in 1 .. s.top : Items(s)[k] = s.entries[k - 1]
  BY ItemsOf
<1>4. /\ Items(s) \o q \in Seq(Int) /\ Len(Items(s) \o q) = top
      /\ \A k \in 1 .. top : (Items(s) \o q)[k]
           = IF k <= s.top THEN Items(s)[k] ELSE q[k - s.top]
  <2> DEFINE i == Items(s)
  <2> HIDE DEF i
  <2>1. i \in Seq(Int) /\ Len(i) = s.top
    BY <1>3 DEF i
  <2>2. /\ i \o q \in Seq(Int) /\ Len(i \o q) = Len(i) + Len(q)
        /\ \A k \in 1 .. Len(i) + Len(q) :
             (i \o q)[k] = IF k <= Len(i) THEN i[k] ELSE q[k - Len(i)]
    BY <2>1, ConcatProperties
  <2>3. QED
    BY <2>1, <2>2 DEF i
<1>5. array \in [0 .. s.size - 1 -> Int \cup {JUNK}]
  BY <1>1
<1>6. ASSUME NEW k \in 1 .. top
      PROVE  array[k - 1] = (Items(s) \o q)[k]
  <2>1. /\ k - 1 \in DOMAIN s.entries /\ k \in Nat
        /\ k - 1 \in s.top .. s.top + Len(q) - 1 <=> ~(k <= s.top)
        /\ k - 1 - s.top + 1 = k - s.top
    BY <1>1, SMTT(30)
  <2>2. CASE k <= s.top
    BY <1>3, <1>4, <2>1, <2>2
  <2>3. CASE ~(k <= s.top)
    BY <1>4, <2>1, <2>3
  <2>4. QED
    BY <2>2, <2>3
<1> HIDE DEF array
<1>7. /\ t = [size |-> t.size, top |-> t.top, entries |-> t.entries]
      /\ t.size = s.size /\ t.top = top /\ t.entries = array
  BY <1>2, Fields
<1>8. QED
  BY <1>1, <1>4, <1>5, <1>6, <1>7, StackOf

(* stack_push: one more cell, on top, and room made for it.                *)
LEMMA Pushes ==
  ASSUME NEW s, WellFormed(s), NEW v \in Int, NEW t, t = stack_push(s, v)
  PROVE  WellFormed(t) /\ Items(t) = Append(Items(s), v) /\ t.top = s.top + 1
<1> DEFINE n == s.size + Chunk
           grown == [s EXCEPT !.size = @ + Chunk,
                              !.entries = Resized(@, s.size + Chunk)]
<1>0. s.size \in Nat /\ s.top \in 0 .. s.size /\ n \in Nat /\ n > s.size
  BY SizeAssumption DEF WellFormed
<1>1. <<v>> \in Seq(Int) /\ Len(<<v>>) = 1
  OBVIOUS
<1>2. \A q \in Seq(Int) : q \o <<v>> = Append(q, v)
  OBVIOUS
<1>3. Items(s) \in Seq(Int)
  BY ItemsOf
<1> DEFINE q == <<v>>
<1> HIDE DEF q
<1>4. CASE s.top = s.size
  <2>1. t = Written(grown, q)
    BY <1>4 DEF stack_push, q
  <2>2. grown \in [size : {n}, top : {s.top}, entries : {Resized(s.entries, n)}]
    BY DEF WellFormed
  <2> HIDE DEF grown, n
  <2>3. /\ grown = [size |-> grown.size, top |-> grown.top,
                    entries |-> grown.entries]
        /\ grown.size = n /\ grown.top = s.top
        /\ grown.entries = Resized(s.entries, grown.size)
    BY <2>2, Fields
  <2>4. WellFormed(grown) /\ Items(grown) = Items(s)
    BY <1>0, <2>3, ResizedArray
  <2>5. q \in Seq(Int) /\ Len(q) = 1 /\ grown.top + Len(q) <= grown.size
    BY <1>0, <1>1, <1>4, <2>3 DEF q
  <2>6. WellFormed(t) /\ t.top = grown.top + Len(q)
        /\ Items(t) = Items(grown) \o q
    BY <2>1, <2>4, <2>5, WrittenCells
  <2>7. QED
    BY <1>2, <1>3, <2>3, <2>4, <2>5, <2>6 DEF q
<1>5. CASE s.top # s.size
  <2>1. t = Written(s, q)
    BY <1>5 DEF stack_push, q
  <2>2. q \in Seq(Int) /\ Len(q) = 1 /\ s.top + Len(q) <= s.size
    BY <1>0, <1>1, <1>5 DEF q
  <2>3. WellFormed(t) /\ t.top = s.top + Len(q) /\ Items(t) = Items(s) \o q
    BY <2>1, <2>2, WrittenCells
  <2>4. QED
    BY <1>2, <1>3, <2>2, <2>3 DEF q
<1>6. QED
  BY <1>4, <1>5

(* stack_peek: the top cell, 0 when there is none.                         *)
LEMMA Peeks ==
  ASSUME NEW s, WellFormed(s)
  PROVE  stack_peek(s) \in Int /\ stack_peek(s) = Abstract!Top(Items(s))
<1>1. /\ s.top \in Nat /\ Len(Items(s)) = s.top
      /\ \A k \in 1 .. s.top : Items(s)[k] = s.entries[k - 1]
      /\ \A k \in 0 .. s.top - 1 : s.entries[k] \in Int
  BY ItemsOf DEF WellFormed
<1>2. Abstract!Top(Items(s)) = IF s.top > 0 THEN Items(s)[s.top] ELSE 0
  BY <1>1 DEF Abstract!Top, Abstract!TopMost
<1>3. QED
  BY <1>1, <1>2 DEF stack_peek

(* A stack of which only the lower part is left in use.                    *)
LEMMA Lowered ==
  ASSUME NEW s, WellFormed(s), NEW t,
         t = [size |-> t.size, top |-> t.top, entries |-> t.entries],
         t.size = s.size, t.top \in 0 .. s.top, t.entries = s.entries,
         NEW q \in Seq(Int), Len(q) = t.top,
         \A k \in 1 .. t.top : q[k] = Items(s)[k]
  PROVE  WellFormed(t) /\ Items(t) = q
<1>1. /\ s.size \in Nat /\ s.top \in 0 .. s.size
      /\ s.entries \in [0 .. s.size - 1 -> Int \cup {JUNK}]
  BY DEF WellFormed
<1>2. ASSUME NEW k \in 1 .. t.top
      PROVE  t.entries[k - 1] = q[k]
  <2>1. k \in 1 .. s.top
    BY <1>1
  <2>2. Items(s)[k] = s.entries[k - 1]
    BY <2>1, ItemsOf
  <2>3. QED
    BY <2>2
<1>3. /\ t.size \in Nat /\ t.top \in 0 .. t.size
      /\ t.entries \in [0 .. t.size - 1 -> Int \cup {JUNK}]
  BY <1>1
<1>4. QED
  BY <1>2, <1>3, StackOf

(* stack_discard: without the n topmost cells, or those there are.         *)
LEMMA Discards ==
  ASSUME NEW s, WellFormed(s), NEW n \in Nat, NEW t, t = stack_discard(s, n)
  PROVE  /\ WellFormed(t) /\ Items(t) = Abstract!Drop(Items(s), n)
         /\ t.size = s.size /\ t.top = IF s.top > n THEN s.top - n ELSE 0
<1> DEFINE top == IF s.top > n THEN s.top - n ELSE 0
           i == Items(s)
           d == Abstract!Drop(i, n)
<1>1. i \in Seq(Int) /\ Len(i) = s.top /\ s.top \in Nat /\ top \in 0 .. s.top
  BY ItemsOf DEF WellFormed
<1>2. t \in [size : {s.size}, top : {top}, entries : {s.entries}]
  BY DEF stack_discard, WellFormed
<1> HIDE DEF i
<1>3. d \in Seq(Int) /\ Len(d) = top /\ \A k \in 1 .. top : d[k] = i[k]
  <2> HIDE DEF d
  <2>1. /\ d \in Seq(Int)
        /\ n <= 0 => d = i
        /\ n > 0  => Len(d) = IF Len(i) > n THEN Len(i) - n ELSE 0
        /\ \A k \in 1 .. Len(d) : d[k] = i[k]
    BY <1>1, DropOf DEF d
  <2>2. CASE n = 0
    BY <1>1, <2>1, <2>2
  <2>3. CASE n > 0
    BY <1>1, <2>1, <2>3
  <2>4. QED
    BY <2>2, <2>3
<1> HIDE DEF top, d
<1>4. /\ t = [size |-> t.size, top |-> t.top, entries |-> t.entries]
      /\ t.size = s.size /\ t.top = top /\ t.entries = s.entries
  BY <1>2, Fields
<1>5. WellFormed(t) /\ Items(t) = d
  BY <1>1, <1>3, <1>4, Lowered DEF i
<1>6. QED
  BY <1>4, <1>5 DEF d, i, top

(* stack_clear: no cells.                                                  *)
LEMMA Cleared ==
  ASSUME NEW s, WellFormed(s), NEW t, t = [s EXCEPT !.top = 0]
  PROVE  WellFormed(t) /\ Items(t) = <<>>
<1>1. s.top \in Nat
  BY DEF WellFormed
<1>2. t = stack_discard(s, s.top)
  BY <1>1 DEF stack_discard, WellFormed
<1>3. WellFormed(t) /\ t.top = 0
  BY <1>1, <1>2, Discards
<1>4. Items(t) \in Seq(Int) /\ Len(Items(t)) = 0
  BY <1>3, ItemsOf
<1>5. QED
  BY <1>3, <1>4

(* : takes a cell of the empty stack for a zero of its own.                *)
LEMMA TopDuplicated ==
  ASSUME NEW s, WellFormed(s), NEW t, t = stack_dup_top(s)
  PROVE  /\ WellFormed(t)
         /\ Items(t) = Abstract!Drop(Items(s), 1)
                         \o <<Abstract!Top(Items(s)), Abstract!Top(Items(s))>>
<1> DEFINE v == stack_peek(s)
           u == stack_push(s, v)
           i == Items(s)
           d == Abstract!Drop(i, 1)
           two == <<v, v>>
<1>1. v \in Int /\ v = Abstract!Top(i)
  BY Peeks
<1>2. i \in Seq(Int) /\ Len(i) = s.top /\ s.top \in Nat
  BY ItemsOf DEF WellFormed
<1> HIDE DEF v
<1>3. WellFormed(u) /\ Items(u) = Append(i, v) /\ u.top = s.top + 1
  BY <1>1, Pushes
<1> HIDE DEF u
<1>4. d \in Seq(Int) /\ Len(d) = (IF s.top > 1 THEN s.top - 1 ELSE 0)
      /\ \A k \in 1 .. Len(d) : d[k] = i[k]
  <2> HIDE DEF i, d
  <2>1. QED
    BY <1>2, DropOf DEF d
<1>5. two \in Seq(Int) /\ Len(two) = 2 /\ two[1] = v /\ two[2] = v
  BY <1>1
<1> HIDE DEF i, d, two
<1>6. CASE s.top = 0
  <2>1. v = 0
    BY <1>6 DEF v, stack_peek
  <2>2. t = stack_push(u, 0)
    BY <1>3, <1>6 DEF stack_dup_top, u, v
  <2>3. WellFormed(t) /\ Items(t) = Append(Items(u), 0)
    BY <1>3, <2>2, Pushes, 0 \in Int
  <2> DEFINE r == Append(Append(i, v), 0)
  <2>4. r \in Seq(Int) /\ Len(r) = 2 /\ r[1] = v /\ r[2] = 0
    BY <1>1, <1>2, <1>6
  <2> HIDE DEF r
  <2>5. Len(d) = 0 /\ Len(r) = Len(d) + Len(two) /\ \A k \in 1 .. Len(d) : r[k] = d[k]
    BY <1>4, <1>5, <1>6, <2>4
  <2>6. \A k \in 1 .. Len(two) : r[Len(d) + k] = two[k]
    BY <1>5, <2>1, <2>4, <2>5
  <2>7. r = d \o two
    BY <1>4, <1>5, <2>4, <2>5, <2>6, Joined
  <2>8. QED
    BY <1>1, <1>3, <2>3, <2>7 DEF i, d, two, r
<1>7. CASE s.top # 0
  <2>1. t = u
    BY <1>2, <1>3, <1>7 DEF stack_dup_top, u, v
  <2>2. i[s.top] = v
    BY <1>2, <1>7, ItemsOf DEF v, stack_peek, i
  <2> DEFINE r == Append(i, v)
  <2>3. /\ r \in Seq(Int) /\ Len(r) = s.top + 1
        /\ \A k \in 1 .. s.top : r[k] = i[k]
        /\ r[s.top + 1] = v
    BY <1>1, <1>2
  <2> HIDE DEF r
  <2>4. Len(d) = s.top - 1
    BY <1>2, <1>4, <1>7
  <2>5. Len(r) = Len(d) + Len(two)
    BY <1>2, <1>5, <2>3, <2>4
  <2>6. \A k \in 1 .. Len(d) : r[k] = d[k]
    BY <1>2, <1>4, <2>3, <2>4
  <2>7. \A k \in 1 .. Len(two) : r[Len(d) + k] = two[k]
    <3>1. /\ Len(d) + 1 = s.top /\ Len(d) + 2 = s.top + 1
          /\ s.top \in 1 .. s.top
      BY <1>2, <1>7, <2>4
    <3>2. r[s.top] = v
      BY <2>2, <2>3, <3>1
    <3>3. r[Len(d) + 1] = two[1] /\ r[Len(d) + 2] = two[2]
      BY <1>5, <2>3, <3>1, <3>2
    <3>4. QED
      BY <1>5, <3>3
  <2>8. r = d \o two
    BY <1>4, <1>5, <2>3, <2>5, <2>6, <2>7, Joined
  <2>9. QED
    BY <1>1, <1>3, <2>1, <2>8 DEF i, d, two, r
<1>8. QED
  BY <1>6, <1>7

(* Dropping m cells and then n is dropping m + n.                          *)
LEMMA DroppedTwice ==
  ASSUME NEW s \in Seq(Int), NEW m \in Nat, NEW n \in Nat
  PROVE  Abstract!Drop(Abstract!Drop(s, m), n) = Abstract!Drop(s, m + n)
<1> DEFINE d == Abstract!Drop(s, m)
           e == Abstract!Drop(d, n)
           f == Abstract!Drop(s, m + n)
<1> HIDE DEF d
<1>1. /\ d \in Seq(Int)
      /\ m <= 0 => d = s
      /\ m > 0  => Len(d) = IF Len(s) > m THEN Len(s) - m ELSE 0
      /\ Len(d) <= Len(s) /\ \A k \in 1 .. Len(d) : d[k] = s[k]
  BY DropOf DEF d
<1> HIDE DEF e, f
<1>2. /\ e \in Seq(Int)
      /\ n <= 0 => e = d
      /\ n > 0  => Len(e) = IF Len(d) > n THEN Len(d) - n ELSE 0
      /\ Len(e) <= Len(d) /\ \A k \in 1 .. Len(e) : e[k] = d[k]
  BY <1>1, DropOf DEF e
<1>3. /\ f \in Seq(Int)
      /\ m + n <= 0 => f = s
      /\ m + n > 0 => Len(f) = IF Len(s) > m + n THEN Len(s) - (m + n) ELSE 0
      /\ Len(f) <= Len(s) /\ \A k \in 1 .. Len(f) : f[k] = s[k]
  BY DropOf DEF f
<1>4. Len(e) = Len(f)
  <2>1. CASE m = 0
    BY <1>1, <1>2, <1>3, <2>1
  <2>2. CASE n = 0
    BY <1>1, <1>2, <1>3, <2>2
  <2>3. CASE m > 0 /\ n > 0
    <3>1. /\ Len(d) = IF Len(s) > m THEN Len(s) - m ELSE 0
          /\ Len(e) = IF Len(d) > n THEN Len(d) - n ELSE 0
          /\ Len(f) = IF Len(s) > m + n THEN Len(s) - (m + n) ELSE 0
          /\ Len(s) \in Nat
      BY <1>1, <1>2, <1>3, <2>3
    <3>2. QED
      BY <2>3, <3>1
  <2>4. QED
    BY <2>1, <2>2, <2>3
<1>5. \A k \in 1 .. Len(e) : e[k] = f[k]
  BY <1>1, <1>2, <1>3, <1>4
<1>6. e = f
  BY <1>2, <1>3, <1>4, <1>5, SameCells
<1>7. QED
  BY <1>6 DEF d, e, f

(* stack_pop: without the top cell.                                        *)
LEMMA Popped ==
  ASSUME NEW s, WellFormed(s), NEW t, t = AfterPop(s)
  PROVE  /\ WellFormed(t) /\ Items(t) = Abstract!Drop(Items(s), 1)
         /\ t.size = s.size /\ t.top = IF s.top > 1 THEN s.top - 1 ELSE 0
BY Discards DEF AfterPop

(* \                                                                       *)
LEMMA TopSwapped ==
  ASSUME NEW s, WellFormed(s), NEW t, t = stack_swap_top(s)
  PROVE  WellFormed(t) /\ Items(t) = Abstract!Swapped(Items(s))
<1> DEFINE p == AfterPop(s)
           u == AfterPop(p)
           w == stack_prealloc_space(u, 2)
           i == Items(s)
           q == <<stack_peek(s), stack_peek(p)>>
           m == Abstract!TopMost(i, 2)
           z == Reverse(m)
<1>1. WellFormed(p) /\ Items(p) = Abstract!Drop(i, 1)
  BY Popped
<1> HIDE DEF p
<1>2. WellFormed(u) /\ Items(u) = Abstract!Drop(Items(p), 1)
  BY <1>1, Popped
<1> HIDE DEF u
<1>3. i \in Seq(Int)
  BY ItemsOf
<1>4. Items(u) = Abstract!Drop(i, 2)
  BY <1>1, <1>2, <1>3, DroppedTwice, 1 \in Nat, 1 + 1 = 2
<1>5. WellFormed(w) /\ Items(w) = Items(u) /\ w.top + 2 <= w.size
  <2>1. /\ WellFormed(w) /\ w.top = u.top /\ Items(w) = Items(u)
        /\ u.top + 2 < w.size
    BY <1>2, SpaceFor, 2 \in Nat
  <2>2. QED
    BY <1>2, <2>1 DEF WellFormed
<1>6. /\ stack_peek(s) \in Int /\ stack_peek(p) \in Int
      /\ stack_peek(s) = Abstract!Top(i)
      /\ stack_peek(p) = Abstract!Top(Abstract!Drop(i, 1))
  BY <1>1, Peeks
<1>7. /\ q \in Seq(Int) /\ Len(q) = 2
      /\ q[1] = stack_peek(s) /\ q[2] = stack_peek(p)
  BY <1>6
<1> HIDE DEF w, q
<1>8. WellFormed(t) /\ Items(t) = Items(w) \o q
  <2>1. t = Written(w, q)
    BY DEF stack_swap_top, p, u, w, q
  <2>2. w.top + Len(q) <= w.size
    BY <1>5, <1>7
  <2>3. QED
    BY <1>5, <1>7, <2>1, <2>2, WrittenCells
<1>9. q = z
  <2> HIDE DEF i
  <2>1. /\ m \in Seq(Int) /\ Len(m) = 2
        /\ m[1] = IF Len(i) > 1 THEN i[Len(i) - 1] ELSE 0
        /\ m[2] = IF Len(i) > 0 THEN i[Len(i)] ELSE 0
    <3> HIDE DEF m
    <3>1. /\ m \in Seq(Int) /\ Len(m) = 2
          /\ \A k \in 1 .. 2 : m[k] = IF Len(i) - 2 + k > 0
                                        THEN i[Len(i) - 2 + k] ELSE 0
      BY <1>3 DEF m, Abstract!TopMost
    <3>2. /\ m[1] = IF Len(i) - 2 + 1 > 0 THEN i[Len(i) - 2 + 1] ELSE 0
          /\ m[2] = IF Len(i) - 2 + 2 > 0 THEN i[Len(i) - 2 + 2] ELSE 0
      BY <3>1
    <3>3. /\ Len(i) - 2 + 1 = Len(i) - 1 /\ Len(i) - 2 + 2 = Len(i)
          /\ Len(i) - 1 > 0 <=> Len(i) > 1
      BY <1>3
    <3>4. QED
      BY <3>1, <3>2, <3>3
  <2> HIDE DEF m
  <2>2. z \in Seq(Int) /\ Len(z) = 2 /\ z[1] = m[2] /\ z[2] = m[1]
    <3>1. /\ z \in Seq(Int) /\ Len(z) = Len(m)
          /\ \A k \in 1 .. Len(m) : z[k] = m[Len(m) - k + 1]
      BY <2>1, ReverseOf
    <3>2. QED
      BY <2>1, <3>1
  <2>3. Abstract!Top(i) = IF Len(i) > 0 THEN i[Len(i)] ELSE 0
    BY <1>3 DEF Abstract!Top, Abstract!TopMost
  <2> DEFINE d == Abstract!Drop(i, 1)
  <2> HIDE DEF d
  <2>4. /\ d \in Seq(Int) /\ Len(d) = IF Len(i) > 1 THEN Len(i) - 1 ELSE 0
        /\ \A k \in 1 .. Len(d) : d[k] = i[k]
    BY <1>3, DropOf DEF d
  <2>5. Abstract!Top(d) = IF Len(d) > 0 THEN d[Len(d)] ELSE 0
    BY <2>4 DEF Abstract!Top, Abstract!TopMost
  <2>6. Abstract!Top(d) = IF Len(i) > 1 THEN i[Len(i) - 1] ELSE 0
    BY <1>3, <2>4, <2>5, SMTT(30)
  <2>7. q[1] = z[1] /\ q[2] = z[2]
    BY <1>6, <1>7, <2>1, <2>2, <2>3, <2>6 DEF d
  <2> HIDE DEF z
  <2>8. QED
    BY <1>7, <2>2, <2>7, SameCells, SMTT(30)
<1>10. QED
  BY <1>4, <1>5, <1>8, <1>9 DEF Abstract!Swapped, Abstract!Reverse, Reverse

(* 0"gnirts", through the reader of strings of the program.                *)
LEMMA StringPushed ==
  ASSUME NEW s, WellFormed(s), NEW str \in Seq(Int),
         NEW t, t = stack_push_string(s, str)
  PROVE  WellFormed(t) /\ Items(t) = Abstract!Pushed(Items(s), str)
<1> DEFINE w == stack_prealloc_space(s, Len(str))
           q == Reverse(str)
<1>1. /\ WellFormed(w) /\ w.top = s.top /\ Items(w) = Items(s)
      /\ s.top + Len(str) < w.size
  BY SpaceFor
<1>2. q \in Seq(Int) /\ Len(q) = Len(str)
  BY ReverseOf
<1>3. w.top + Len(q) <= w.size
  BY <1>1, <1>2 DEF WellFormed
<1>4. t = Written(w, q)
  BY DEF stack_push_string
<1> HIDE DEF w, q
<1>5. WellFormed(t) /\ Items(t) = Items(w) \o q
  BY <1>1, <1>2, <1>3, <1>4, WrittenCells
<1>6. QED
  BY <1>1, <1>5 DEF Abstract!Pushed, Abstract!Reverse, Reverse, q

(* The string ends at the first 0 from the top, or with the stack.         *)
LEMMA StringPopped ==
  ASSUME NEW s, WellFormed(s), NEW t, t = AfterPopString(s)
  PROVE  WellFormed(t) /\ Items(t) = Abstract!Popped(Items(s))
<1> DEFINE i == Items(s)
           zeros == {k \in 0 .. s.top - 1 : s.entries[k] = 0}
           Ends(n) == \/ n = Len(i) + 1
                      \/ n > 0 /\ Abstract!TopMost(i, n)[1] = 0
           First(n) == Ends(n) /\ \A k \in 1 .. n - 1 : ~Ends(k)
           e == CHOOSE n \in 1 .. Len(i) + 1 : First(n)
           d == Abstract!Drop(i, e)
           top == IF zeros = {} THEN 0
                  ELSE CHOOSE k \in zeros : \A z \in zeros : z <= k
<1>1. /\ i \in Seq(Int) /\ Len(i) = s.top /\ s.top \in Nat
      /\ \A k \in 1 .. s.top : i[k] = s.entries[k - 1]
  BY ItemsOf DEF WellFormed
<1>2. t = [s EXCEPT !.top = top]
  BY DEF AfterPopString
<1>3. Abstract!Popped(i) = d
  BY DEF Abstract!Popped
<1> HIDE DEF i
<1>4. \A n \in 1 .. s.top : Ends(n) <=> s.top - n \in zeros
  <2>1. ASSUME NEW n \in 1 .. s.top
        PROVE  Ends(n) <=> s.top - n \in zeros
    <3>1. Abstract!TopMost(i, n)[1] = i[s.top - n + 1]
      BY <1>1 DEF Abstract!TopMost
    <3>2. /\ s.top - n + 1 \in 1 .. s.top /\ s.top - n + 1 - 1 = s.top - n
          /\ s.top - n \in 0 .. s.top - 1
      BY <1>1
    <3>3. i[s.top - n + 1] = s.entries[s.top - n]
      BY <1>1, <3>2, SMTT(30)
    <3>4. QED
      BY <1>1, <3>1, <3>2, <3>3, SMTT(30)
  <2>2. QED
    BY <2>1
<1>5. Ends(s.top + 1)
  BY <1>1
<1> HIDE DEF Ends
<1>6. e \in 1 .. s.top + 1 /\ Ends(e) /\ \A k \in 1 .. e - 1 : ~Ends(k)
  <2> DEFINE N == {n \in 1 .. Len(i) + 1 : Ends(n)}
  <2>1. N \in SUBSET Nat /\ N # {}
    BY <1>1, <1>5
  <2> HIDE DEF N
  <2>2. PICK n \in N : \A k \in N : n <= k
    BY <2>1, Common!Least
  <2> USE DEF N
  <2>3. n \in 1 .. Len(i) + 1 /\ First(n)
    <3>1. n \in 1 .. Len(i) + 1 /\ Ends(n)
      BY <2>2
    <3>2. ASSUME NEW k \in 1 .. n - 1, Ends(k)
          PROVE  FALSE
      BY <1>1, <2>2, <3>1, <3>2
    <3>3. QED
      BY <3>1, <3>2
  <2> HIDE DEF First
  <2>4. e \in 1 .. Len(i) + 1 /\ First(e)
    BY <2>3
  <2>5. QED
    BY <1>1, <2>4 DEF First
<1> HIDE DEF e
<1>7. top = (IF s.top > e THEN s.top - e ELSE 0) /\ top \in 0 .. s.top
  <2>1. CASE e = s.top + 1
    <3>1. ASSUME NEW z \in zeros
          PROVE  FALSE
      <4>1. z \in 0 .. s.top - 1
        OBVIOUS
      <4>2. /\ s.top - z \in 1 .. e - 1 /\ s.top - z \in 1 .. s.top
            /\ s.top - (s.top - z) = z
        <5>1. s.top \in Nat
          BY <1>1
        <5>2. s.top - (s.top - z) = z
          BY <4>1, <5>1
        <5>3. s.top - z \in 1 .. s.top
          BY <4>1, <5>1
        <5>4. s.top - z < e
          BY <5>1, <2>1, <4>1
        <5>5. QED
          BY <1>6, <4>1, <5>1, <5>2, <5>3, <5>4
      <4>3. QED
        BY <1>4, <1>6, <4>2
    <3>2. QED
      BY <1>1, <2>1, <3>1, SMTT(30)
  <2>2. CASE e \in 1 .. s.top
    <3> DEFINE k == s.top - e
    <3>1. k \in zeros
      BY <1>4, <1>6, <2>2
    <3>2. ASSUME NEW z \in zeros, z > k
          PROVE  FALSE
      <4>1. z \in 0 .. s.top - 1
        OBVIOUS
      <4>2. /\ s.top - z \in 1 .. e - 1 /\ s.top - z \in 1 .. s.top
            /\ s.top - (s.top - z) = z
        <5>1. s.top \in Nat
          BY <1>1
        <5>2. s.top - (s.top - z) = z
          BY <4>1, <5>1
        <5>3. s.top - z \in 1 .. s.top
          BY <4>1, <5>1
        <5>4. s.top - z < e
          BY <5>1, <2>2, <3>2, <4>1
        <5>5. QED
          BY <1>6, <4>1, <5>1, <5>2, <5>3, <5>4
      <4>3. QED
        BY <1>4, <1>6, <4>2
    <3> HIDE DEF k
    <3>3. zeros \subseteq Int
      BY <1>1
    <3> HIDE DEF zeros
    <3>4. \A z \in zeros : z <= k
      BY <3>1, <3>2, <3>3
    <3>5. \A z \in zeros : (\A y \in zeros : y <= z) => z = k
      BY <3>1, <3>3, <3>4
    <3>6. top = CHOOSE z \in zeros : \A y \in zeros : y <= z
      BY <3>1
    <3>7. top = k
      BY <3>1, <3>4, <3>5, <3>6
    <3>8. QED
      BY <1>1, <2>2, <3>7 DEF k
  <2>3. e = s.top + 1 \/ e \in 1 .. s.top
    BY <1>1, <1>6
  <2>4. QED
    BY <2>1, <2>2, <2>3, Zenon
<1> HIDE DEF top, d
<1>8. d \in Seq(Int) /\ Len(d) = top /\ \A k \in 1 .. top : d[k] = i[k]
  <2>1. /\ d \in Seq(Int)
        /\ e > 0  => Len(d) = IF Len(i) > e THEN Len(i) - e ELSE 0
        /\ \A k \in 1 .. Len(d) : d[k] = i[k]
    BY <1>1, <1>6, DropOf DEF d
  <2>2. QED
    BY <1>1, <1>6, <1>7, <2>1
<1>9. t \in [size : {s.size}, top : {top}, entries : {s.entries}]
  BY <1>2 DEF WellFormed
<1>10. /\ t = [size |-> t.size, top |-> t.top, entries |-> t.entries]
       /\ t.size = s.size /\ t.top = top /\ t.entries = s.entries
  BY <1>9, Fields
<1>11. QED
  BY <1>3, <1>7, <1>8, <1>10, Lowered DEF i

(* Zeros in front of the items of a stack that is short of them.           *)
LEMMA ZeroFilled ==
  ASSUME NEW s, WellFormed(s), NEW n \in Nat, NEW t, t = stack_zero_fill(s, n)
  PROVE  /\ WellFormed(t) /\ Items(t) = Items(s) \o Abstract!Zeros(n)
         /\ t.top = s.top + n
         /\ t.size >= s.size
<1> DEFINE w == stack_prealloc_space(s, n)
           q == [k \in 1 .. n |-> 0]
<1>1. /\ WellFormed(w) /\ w.top = s.top /\ Items(w) = Items(s)
      /\ s.top + n < w.size /\ w.size >= s.size
  BY SpaceFor
<1>2. q \in Seq(Int) /\ Len(q) = n /\ q = Abstract!Zeros(n)
  <2>1. q = Abstract!Zeros(n)
    BY DEF Abstract!Zeros
  <2> HIDE DEF q
  <2>2. QED
    BY <2>1, ZerosOf
<1>3. t = Written(w, q)
  BY DEF stack_zero_fill
<1> HIDE DEF w, q
<1>4. w.top + Len(q) <= w.size
  BY <1>1, <1>2 DEF WellFormed
<1>5. /\ WellFormed(t) /\ Items(t) = Items(w) \o q
      /\ t.top = w.top + Len(q) /\ t.size = w.size
  BY <1>1, <1>2, <1>3, <1>4, WrittenCells
<1>6. QED
  BY <1>1, <1>2, <1>5

(* The cells { and } move: zeros for those that are missing.               *)
LEMMA BulkCopied ==
  ASSUME NEW dest, WellFormed(dest), NEW src, WellFormed(src),
         NEW n \in Nat, NEW t, t = stack_bulk_copy(dest, src, n)
  PROVE  /\ WellFormed(t)
         /\ Items(t) = Items(dest) \o Abstract!TopMost(Items(src), n)
<1> DEFINE enough == IF n > src.top THEN src.top ELSE n
           w == stack_prealloc_space(dest, n)
           filled == IF n > src.top THEN stack_zero_fill(w, n - src.top) ELSE w
           q == [k \in 1 .. enough |-> src.entries[src.top - enough + k - 1]]
           z == Abstract!Zeros(n - enough)
           i == Items(src)
           m == Abstract!TopMost(i, n)
<1>0. src.top \in Nat /\ dest.top \in Nat /\ enough \in 0 .. n /\ enough <= src.top
  BY DEF WellFormed
<1>1. /\ WellFormed(w) /\ w.top = dest.top /\ Items(w) = Items(dest)
      /\ dest.top + n < w.size /\ w.size \in Nat
  BY SpaceFor, SMTT(30) DEF WellFormed
<1>2. /\ i \in Seq(Int) /\ Len(i) = src.top
      /\ \A k \in 1 .. src.top : i[k] = src.entries[k - 1]
  BY ItemsOf
<1>3. /\ q \in Seq(Int) /\ Len(q) = enough
      /\ \A k \in 1 .. enough : q[k] = i[src.top - enough + k]
  <2>1. ASSUME NEW k \in 1 .. enough
        PROVE  q[k] = i[src.top - enough + k] /\ q[k] \in Int
    <3>1. /\ src.top - enough + k \in 1 .. src.top
          /\ src.top - enough + k - 1 \in 0 .. src.top - 1
      BY <1>0
    <3>2. q[k] = src.entries[src.top - enough + k - 1]
      OBVIOUS
    <3>3. QED
      BY <1>2, <3>1, <3>2, SMTT(30)
  <2>2. DOMAIN q = 1 .. enough /\ q = [k \in 1 .. enough |-> q[k]]
    OBVIOUS
  <2> HIDE DEF q
  <2>3. enough \in Int /\ (IF enough > 0 THEN enough ELSE 0) = enough
    BY <1>0
  <2> HIDE DEF enough
  <2>4. q \in Seq(Int) /\ Len(q) = IF enough > 0 THEN enough ELSE 0
    BY <2>1, <2>2, <2>3, CellsOf
  <2>5. QED
    BY <2>1, <2>3, <2>4
<1>4. t = Written(filled, q)
  BY DEF stack_bulk_copy
<1>5. z \in Seq(Int) /\ Len(z) = n - enough /\ \A k \in 1 .. n - enough : z[k] = 0
  <2>1. n - enough \in Int /\ n - enough >= 0
    BY <1>0
  <2> HIDE DEF enough, z
  <2>2. /\ z \in Seq(Int)
        /\ Len(z) = IF n - enough > 0 THEN n - enough ELSE 0
        /\ \A k \in 1 .. n - enough : z[k] = 0
    BY <2>1, ZerosOf DEF z
  <2>3. QED
    BY <2>1, <2>2
<1> HIDE DEF w, q, i
<1>6. /\ WellFormed(filled) /\ Items(filled) = Items(w) \o z
      /\ filled.top = w.top + (n - enough) /\ filled.size >= w.size
  <2>1. CASE n > src.top
    <3>1. n - src.top \in Nat /\ enough = src.top
          /\ filled = stack_zero_fill(w, n - src.top)
      BY <1>0, <2>1
    <3> HIDE DEF filled, enough, z
    <3>2. /\ WellFormed(filled) /\ filled.top = w.top + (n - src.top)
          /\ Items(filled) = Items(w) \o Abstract!Zeros(n - src.top)
          /\ filled.size >= w.size
      BY <1>1, <3>1, ZeroFilled
    <3>3. QED
      BY <3>1, <3>2 DEF z
  <2>2. CASE ~(n > src.top)
    <3>1. filled = w /\ enough = n
      BY <2>2
    <3> HIDE DEF filled, enough, z
    <3>2. Len(z) = 0 /\ w.top \in Nat
      BY <1>0, <1>1, <1>5, <3>1
    <3>3. z = <<>> /\ Items(w) \in Seq(Int)
      BY <1>1, <1>5, <3>2, ItemsOf
    <3>4. Items(w) \o z = Items(w)
      BY <3>3
    <3>5. QED
      BY <1>0, <1>1, <3>1, <3>2, <3>4
  <2>3. QED
    BY <2>1, <2>2
<1> HIDE DEF filled, enough, z
<1>7. filled.top + Len(q) <= filled.size
  BY <1>0, <1>1, <1>3, <1>6, SMTT(30) DEF WellFormed
<1>8. WellFormed(t) /\ Items(t) = Items(filled) \o q
  BY <1>3, <1>4, <1>6, <1>7, WrittenCells
<1>9. m = z \o q
  <2> HIDE DEF m
  <2>1. /\ m \in Seq(Int) /\ Len(m) = IF n > 0 THEN n ELSE 0
        /\ \A k \in 1 .. n : m[k] = IF Len(i) - n + k > 0 THEN i[Len(i) - n + k]
                                    ELSE 0
    <3>1. m = Abstract!TopMost(i, n) /\ n \in Int
      BY DEF m
    <3>2. QED
      BY <1>2, <3>1, TopMostOf
  <2>2. Len(m) = Len(z) + Len(q)
    BY <1>0, <1>3, <1>5, <2>1
  <2>3. ASSUME NEW k \in 1 .. Len(z)
        PROVE  m[k] = z[k]
    <3>1. CASE n > src.top
      <4>1. enough = src.top /\ k \in 1 .. n - src.top /\ k \in 1 .. n
        BY <1>0, <1>5, <3>1 DEF enough
      <4>2. ~(Len(i) - n + k > 0)
        BY <1>0, <1>2, <4>1
      <4>3. QED
        BY <1>5, <2>1, <4>1, <4>2
    <3>2. CASE ~(n > src.top)
      BY <1>0, <1>5, <3>2 DEF enough
    <3>3. QED
      BY <3>1, <3>2
  <2>4. ASSUME NEW k \in 1 .. Len(q)
        PROVE  m[Len(z) + k] = q[k]
    <3>1. /\ Len(z) + k \in 1 .. n /\ k \in 1 .. enough
          /\ Len(i) - n + (Len(z) + k) = src.top - enough + k
          /\ src.top - enough + k > 0
      BY <1>0, <1>2, <1>3, <1>5
    <3>2. m[Len(z) + k] = i[src.top - enough + k]
      BY <2>1, <3>1
    <3>3. QED
      BY <1>3, <3>1, <3>2
  <2>5. QED
    BY <1>3, <1>5, <2>1, <2>2, <2>3, <2>4, Joined
<1>10. Items(t) = Items(dest) \o m
  <2>1. Items(dest) \in Seq(Int)
    BY ItemsOf
  <2> HIDE DEF m
  <2>2. (Items(dest) \o z) \o q = Items(dest) \o (z \o q)
    BY <1>3, <1>5, <2>1, ConcatAssociative, SMTT(30)
  <2>3. QED
    BY <1>1, <1>6, <1>8, <1>9, <2>2
<1>11. QED
  BY <1>8, <1>10 DEF i, m

-----------------------------------------------------------------------------
(* Loops over the cells of a stack.                                        *)

(* The first n cells of q are the first n - 1 and one more.                *)
LEMMA OneMore ==
  ASSUME NEW i \in Seq(Int), NEW q \in Seq(Int), NEW n \in 1 .. Len(q)
  PROVE  Append(i \o SubSeq(q, 1, n - 1), q[n]) = i \o SubSeq(q, 1, n)
<1> DEFINE m == SubSeq(q, 1, n - 1)
           r == Append(i \o m, q[n])
           l == SubSeq(q, 1, n)
<1>1. Len(q) \in Nat /\ n \in Nat /\ n > 0 /\ n <= Len(q) /\ q[n] \in Int
  OBVIOUS
<1>3. /\ m \in Seq(Int) /\ Len(m) = n - 1 /\ \A k \in 1 .. n - 1 : m[k] = q[k]
      /\ l \in Seq(Int) /\ Len(l) = n /\ \A k \in 1 .. n : l[k] = q[k]
  BY <1>1
<1> HIDE DEF m, l
<1>4. /\ r \in Seq(Int) /\ Len(r) = Len(i) + n
      /\ \A k \in 1 .. Len(i) : r[k] = i[k]
      /\ \A k \in 1 .. n - 1 : r[Len(i) + k] = m[k]
      /\ r[Len(i) + n] = q[n]
  <2> DEFINE c == i \o m
  <2>0. c = i \o m
    OBVIOUS
  <2> HIDE DEF c
  <2>1. /\ c \in Seq(Int) /\ Len(c) = Len(i) + (n - 1)
        /\ \A k \in 1 .. Len(i) : c[k] = i[k]
        /\ \A k \in 1 .. n - 1 : c[Len(i) + k] = m[k]
    <3>1. i \in Seq(Int) /\ m \in Seq(Int)
      BY <1>3
    <3>2. /\ c \in Seq(Int) /\ Len(c) = Len(i) + Len(m)
          /\ \A k \in 1 .. Len(i) : c[k] = i[k]
          /\ \A k \in 1 .. Len(m) : c[Len(i) + k] = m[k]
      BY <2>0, <3>1, Concatenated
    <3>3. QED
      BY <1>3, <3>2
  <2>2. Len(i) \in Nat /\ r = Append(c, q[n])
    BY DEF c
  <2> HIDE DEF r
  <2>3. /\ r \in Seq(Int) /\ Len(r) = Len(c) + 1 /\ r[Len(c) + 1] = q[n]
        /\ \A k \in 1 .. Len(c) : r[k] = c[k]
    BY <1>1, <2>1, <2>2
  <2>4. Len(c) + 1 = Len(i) + n
    BY <1>1, <2>1, <2>2
  <2>5. \A k \in 1 .. Len(i) : k \in 1 .. Len(c)
    BY <1>1, <2>1, <2>2
  <2>6. \A k \in 1 .. n - 1 : Len(i) + k \in 1 .. Len(c)
    BY <1>1, <2>1, <2>2
  <2>7. QED
    BY <2>1, <2>3, <2>4, <2>5, <2>6
<1> HIDE DEF r
<1>5. ASSUME NEW k \in 1 .. Len(l)
      PROVE  r[Len(i) + k] = l[k]
  <2>1. CASE k = n
    BY <1>3, <1>4, <2>1
  <2>2. CASE k # n
    <3>1. k \in 1 .. n - 1
      BY <1>3, <2>2
    <3>2. QED
      BY <1>3, <1>4, <3>1
  <2>3. QED
    BY <2>1, <2>2
<1>6. Len(r) = Len(i) + Len(l)
  BY <1>3, <1>4
<1>7. r = i \o l
  BY <1>3, <1>4, <1>5, <1>6, Joined
<1>8. QED
  BY <1>7 DEF r, l, m

(* FRTH.                                                                   *)

(* A cell that is pushed again: by its index from the top, 0 if none.      *)
LEMMA Picked ==
  ASSUME NEW s, WellFormed(s), NEW u \in Nat, NEW t, t = forth_pick(s, u)
  PROVE  WellFormed(t) /\ Items(t) = Abstract!Pick(Items(s), u)
<1> DEFINE i == Items(s)
           v == IF u >= s.top THEN 0 ELSE stack_get_index(s, s.top - u)
<1>1. /\ i \in Seq(Int) /\ Len(i) = s.top /\ s.top \in Nat
      /\ \A k \in 1 .. s.top : i[k] = s.entries[k - 1]
  BY ItemsOf DEF WellFormed
<1>2. v \in Int /\ v = Abstract!TopMost(i, u + 1)[1]
  <2>1. Abstract!TopMost(i, u + 1)[1]
          = IF Len(i) - (u + 1) + 1 > 0 THEN i[Len(i) - (u + 1) + 1] ELSE 0
    <3> HIDE DEF i
    <3>1. 1 \in 1 .. u + 1
      OBVIOUS
    <3>2. QED
      BY <3>1 DEF Abstract!TopMost
  <2> HIDE DEF i
  <2>2. CASE u >= s.top
    BY <1>1, <2>1, <2>2
  <2>3. CASE u < s.top
    <3>1. s.top - u \in 1 .. s.top /\ Len(i) - (u + 1) + 1 = s.top - u
          /\ ~(u >= s.top) /\ ~(s.top < s.top - u)
      BY <1>1, <2>3
    <3>2. v = s.entries[s.top - u - 1]
      BY <3>1 DEF stack_get_index
    <3>3. v = i[s.top - u]
      BY <1>1, <3>1, <3>2
    <3>4. QED
      BY <1>1, <2>1, <3>1, <3>3
  <2>4. QED
    BY <1>1, <2>2, <2>3
<1>3. t = stack_push(s, v)
  BY DEF forth_pick
<1> HIDE DEF v
<1>4. WellFormed(t) /\ Items(t) = Append(i, v)
  BY <1>2, <1>3, Pushes
<1>5. QED
  BY <1>2, <1>4 DEF Abstract!Pick

(* The loop of pushes has an execution, and only one.                      *)
LEMMA PushLoop ==
  ASSUME NEW s, NEW q \in Seq(Int)
  PROVE  \E p : /\ p[0] = s
                /\ \A n \in 1 .. Len(q) : p[n] = stack_push(p[n - 1], q[n])
                /\ PushedAll(s, q) = p[Len(q)]
<1> DEFINE Run(p, j) == p = [n \in 0 .. j |->
                               IF n = 0 THEN s ELSE stack_push(p[n - 1], q[n])]
           Bad == {j \in 0 .. Len(q) : ~ \E p : Run(p, j)}
<1>1. Len(q) \in Nat
  OBVIOUS
<1>2. ASSUME Bad # {}
      PROVE  FALSE
  <2>1. Bad \in SUBSET Nat
    BY <1>1
  <2> HIDE DEF Bad
  <2>2. PICK j \in Bad : \A k \in Bad : j <= k
    BY <1>2, <2>1, Common!Least
  <2>3. j \in Nat /\ \A k \in Nat : k < j => k \notin Bad
    BY <2>1, <2>2
  <2> USE DEF Bad
  <2>4. j \in 0 .. Len(q) /\ ~ \E p : Run(p, j)
    BY <2>2
  <2>5. CASE j = 0
    <3>1. Run([n \in 0 .. 0 |-> s], 0)
      OBVIOUS
    <3>2. QED
      BY <2>4, <2>5, <3>1
  <2>6. CASE j > 0
    <3>1. j - 1 \in 0 .. Len(q) /\ j - 1 \in Nat /\ j - 1 < j
      BY <1>1, <2>4, <2>6
    <3>2. PICK p : Run(p, j - 1)
      BY <2>3, <3>1
    <3> DEFINE r == [n \in 0 .. j |-> IF n = j THEN stack_push(p[j - 1], q[j])
                                      ELSE p[n]]
    <3>3. ASSUME NEW n \in 0 .. j
          PROVE  r[n] = IF n = 0 THEN s ELSE stack_push(r[n - 1], q[n])
      <4>1. CASE n = j
        <5>1. r[n - 1] = p[j - 1]
          BY <2>4, <2>6, <4>1
        <5>2. QED
          BY <2>6, <4>1, <5>1
      <4>2. CASE n # j
        <5>1. n \in 0 .. j - 1 /\ (n # 0 => n - 1 \in 0 .. j - 1)
          BY <2>4, <4>2
        <5>2. p[n] = IF n = 0 THEN s ELSE stack_push(p[n - 1], q[n])
          BY <3>2, <5>1
        <5>3. n # 0 => r[n - 1] = p[n - 1]
          BY <2>4, <4>2, <5>1
        <5>4. QED
          BY <4>2, <5>2, <5>3
      <4>3. QED
        BY <4>1, <4>2
    <3>4. r = [n \in 0 .. j |-> r[n]]
      OBVIOUS
    <3> HIDE DEF r
    <3>5. Run(r, j)
      BY <3>3, <3>4
    <3>6. QED
      BY <2>4, <3>5
  <2>7. QED
    BY <2>4, <2>5, <2>6
<1>3. \E p : Run(p, Len(q))
  BY <1>1, <1>2
<1>4. Run(CHOOSE p : Run(p, Len(q)), Len(q))
  BY <1>3
<1>5. PushedAll(s, q) = (CHOOSE p : Run(p, Len(q)))[Len(q)]
  BY DEF PushedAll
<1> DEFINE c == CHOOSE p : Run(p, Len(q))
<1>6. \A n \in 0 .. Len(q) :
        c[n] = IF n = 0 THEN s ELSE stack_push(c[n - 1], q[n])
  BY <1>4
<1> HIDE DEF c
<1>7. c[0] = s /\ \A n \in 1 .. Len(q) : c[n] = stack_push(c[n - 1], q[n])
  BY <1>1, <1>6
<1>8. QED
  BY <1>5, <1>7 DEF c

(* Cells pushed one at a time.                                             *)
LEMMA AllPushed ==
  ASSUME NEW s, WellFormed(s), NEW q \in Seq(Int), NEW t, t = PushedAll(s, q)
  PROVE  WellFormed(t) /\ Items(t) = Items(s) \o q
<1>1. PICK p : /\ p[0] = s
               /\ \A n \in 1 .. Len(q) : p[n] = stack_push(p[n - 1], q[n])
               /\ t = p[Len(q)]
  BY PushLoop
<1> DEFINE i == Items(s)
           Pushed(n) == WellFormed(p[n]) /\ Items(p[n]) = i \o SubSeq(q, 1, n)
           Bad == {n \in 0 .. Len(q) : ~Pushed(n)}
<1>2. i \in Seq(Int) /\ Len(q) \in Nat
  BY ItemsOf
<1>3. Pushed(0)
  <2>1. p[0] = s
    BY <1>1, <1>2
  <2> HIDE DEF i
  <2>2. SubSeq(q, 1, 0) = <<>> /\ i \o <<>> = i
    BY <1>2
  <2>3. QED
    BY <2>1, <2>2 DEF i
<1>4. ASSUME NEW n \in 0 .. Len(q), n > 0, Pushed(n - 1)
      PROVE  Pushed(n)
  <2>0. n \in 1 .. Len(q) /\ n \in 0 .. Len(q) /\ n # 0
    BY <1>2, <1>4
  <2>1. p[n] = stack_push(p[n - 1], q[n]) /\ q[n] \in Int
    BY <1>1, <2>0
  <2>2. WellFormed(p[n]) /\ Items(p[n]) = Append(i \o SubSeq(q, 1, n - 1), q[n])
    <3> DEFINE from == p[n - 1]
               to   == p[n]
               cell == q[n]
    <3>1. WellFormed(from) /\ Items(from) = i \o SubSeq(q, 1, n - 1)
      BY <1>4
    <3>2. to = stack_push(from, cell) /\ cell \in Int
      BY <2>1
    <3> HIDE DEF from, to, cell
    <3>3. WellFormed(to) /\ Items(to) = Append(Items(from), cell)
      BY <3>1, <3>2, Pushes
    <3>4. WellFormed(to) /\ Items(to) = Append(i \o SubSeq(q, 1, n - 1), cell)
      BY <3>1, <3>3
    <3> QED
      BY <3>4 DEF to, cell
  <2>3. Append(i \o SubSeq(q, 1, n - 1), q[n]) = i \o SubSeq(q, 1, n)
    BY <1>2, <2>0, OneMore
  <2>4. QED
    BY <2>2, <2>3
<1> HIDE DEF Pushed
<1>5. ASSUME Bad # {}
      PROVE  FALSE
  <2>1. Bad \in SUBSET Nat
    BY <1>2
  <2> HIDE DEF Bad
  <2>2. PICK n \in Bad : \A k \in Bad : n <= k
    BY <1>5, <2>1, Common!Least
  <2>3. n \in Nat /\ \A k \in Nat : k < n => k \notin Bad
    BY <2>1, <2>2
  <2>4. n \in 0 .. Len(q) /\ ~Pushed(n)
    BY <2>2 DEF Bad
  <2>5. n # 0 /\ n - 1 \in 0 .. Len(q) /\ n - 1 \in Nat /\ n - 1 < n
    BY <1>3, <2>3, <2>4
  <2>6. Pushed(n - 1)
    BY <2>3, <2>5 DEF Bad
  <2>7. QED
    BY <1>4, <2>3, <2>4, <2>5, <2>6
<1>6. Pushed(Len(q))
  BY <1>2, <1>5
<1>7. SubSeq(q, 1, Len(q)) = q
  OBVIOUS
<1>8. QED
  BY <1>1, <1>6, <1>7 DEF Pushed

(* The cell that is rolled to the top, and those that were above it.       *)
LEMMA Rolled ==
  ASSUME NEW s, WellFormed(s), NEW u \in Nat, NEW t, t = forth_roll(s, u)
  PROVE  WellFormed(t) /\ Items(t) = Abstract!Roll(Items(s), u)
<1> DEFINE i == Items(s)
<1>1. /\ i \in Seq(Int) /\ Len(i) = s.top /\ s.top \in Nat
      /\ \A k \in 1 .. s.top : i[k] = s.entries[k - 1]
  BY ItemsOf DEF WellFormed
<1>2. CASE u >= s.top
  <2>1. t = stack_push(s, 0) /\ 0 \in Int
    BY <1>2 DEF forth_roll
  <2>2. WellFormed(t) /\ Items(t) = Append(i, 0)
    BY <2>1, Pushes
  <2>3. ~(u < Len(i))
    BY <1>1, <1>2
  <2>4. QED
    BY <2>2, <2>3 DEF Abstract!Roll
<1>3. CASE u < s.top
  <2> DEFINE above == [k \in 1 .. u |-> s.entries[s.top - u + k - 1]]
             x == s.entries[s.top - (u + 1)]
             q == Append(above, x)
             b == stack_discard(s, u + 1)
             m == Abstract!TopMost(i, u)
             d == Abstract!Drop(i, u)
             one == Abstract!TopMost(d, 1)
  <2> HIDE DEF i
  <2>1. x \in Int /\ x = i[s.top - u]
    <3>1. s.top - u \in 1 .. s.top /\ s.top - u - 1 = s.top - (u + 1)
      BY <1>1, <1>3
    <3>2. QED
      BY <1>1, <3>1
  <2>2. above = m
    <3>1. ASSUME NEW k \in 1 .. u
          PROVE  s.entries[s.top - u + k - 1]
                   = IF Len(i) - u + k > 0 THEN i[Len(i) - u + k] ELSE 0
      <4>1. s.top - u + k \in 1 .. s.top /\ Len(i) - u + k = s.top - u + k
        BY <1>1, <1>3
      <4>2. QED
        BY <1>1, <4>1
    <3>2. QED
      BY <3>1 DEF Abstract!TopMost
  <2>3. m \in Seq(Int) /\ Len(m) = u
    <3>1. m = Abstract!TopMost(i, u) /\ u \in Int /\ (IF u > 0 THEN u ELSE 0) = u
      OBVIOUS
    <3> HIDE DEF m
    <3>2. m \in Seq(Int) /\ Len(m) = IF u > 0 THEN u ELSE 0
      BY <1>1, <3>1, TopMostOf
    <3>3. QED
      BY <3>1, <3>2
  <2>4. d \in Seq(Int) /\ Len(d) = s.top - u /\ \A k \in 1 .. Len(d) : d[k] = i[k]
    <3>1. d = Abstract!Drop(i, u) /\ u \in Int
      OBVIOUS
    <3> HIDE DEF d
    <3>2. /\ d \in Seq(Int)
          /\ u <= 0 => d = i
          /\ u > 0  => Len(d) = IF Len(i) > u THEN Len(i) - u ELSE 0
          /\ \A k \in 1 .. Len(d) : d[k] = i[k]
      BY <1>1, <3>1, DropOf
    <3>3. CASE u = 0
      BY <1>1, <3>2, <3>3
    <3>4. CASE u > 0
      BY <1>1, <1>3, <3>2, <3>4
    <3>5. QED
      BY <3>3, <3>4
  <2>5. one = <<x>>
    <3>1. Len(d) - 1 + 1 = s.top - u /\ s.top - u > 0 /\ s.top - u \in 1 .. Len(d)
      BY <1>1, <1>3, <2>4
    <3> HIDE DEF d, x
    <3>2. \A k \in 1 .. 1 : (IF Len(d) - 1 + k > 0 THEN d[Len(d) - 1 + k] ELSE 0) = x
      BY <2>1, <2>4, <3>1
    <3>3. one = [k \in 1 .. 1 |-> x]
      BY <3>2 DEF Abstract!TopMost
    <3>4. QED
      BY <3>3
  <2>6. q = m \o one /\ q \in Seq(Int)
    <3> HIDE DEF m, one, x
    <3>1. q = Append(m, x)
      BY <2>2
    <3>2. Append(m, x) = m \o <<x>> /\ Append(m, x) \in Seq(Int)
      BY <2>1, <2>3
    <3>3. QED
      BY <2>5, <3>1, <3>2
  <2>7. t = PushedAll(b, q)
    <3>1. ~(u >= s.top)
      BY <1>1, <1>3
    <3>2. QED
      BY <3>1 DEF forth_roll
  <2>8. WellFormed(b) /\ Items(b) = Abstract!Drop(i, u + 1)
    BY Discards, u + 1 \in Nat DEF i
  <2> HIDE DEF b, q
  <2>9. WellFormed(t) /\ Items(t) = Abstract!Drop(i, u + 1) \o q
    BY <2>6, <2>7, <2>8, AllPushed
  <2>10. Abstract!Roll(i, u) = Abstract!Drop(i, u + 1) \o m \o one
    <3>1. u < Len(i)
      BY <1>1, <1>3
    <3>2. QED
      BY <3>1 DEF Abstract!Roll
  <2>11. Abstract!Drop(i, u + 1) \in Seq(Int) /\ one \in Seq(Int)
    <3>1. Items(b) \in Seq(Int)
      BY <2>8, ItemsOf
    <3> HIDE DEF one
    <3>2. one \in Seq(Int)
      BY <2>1, <2>5
    <3>3. QED
      BY <2>8, <3>1, <3>2
  <2>12. QED
    <3> DEFINE e == Abstract!Drop(i, u + 1)
    <3> HIDE DEF e, m, one
    <3>1. (e \o m) \o one = e \o (m \o one)
      BY <2>3, <2>11, ConcatAssociative, SMTT(30) DEF e
    <3>2. QED
      BY <2>6, <2>9, <2>10, <3>1 DEF e, i
<1>4. QED
  BY <1>1, <1>2, <1>3

(* So has the loop of u, of which this is one iteration.                   *)
Once(b) == <<stack_push(b[1], stack_peek(b[2])), AfterPop(b[2])>>

(* u, n times around its loop: n cells are popped here, pushed there.      *)
LEMMA MoveLoop ==
  ASSUME NEW to, NEW from, NEW count \in Nat
  PROVE  \E p : /\ p[0] = <<to, from>>
                /\ \A n \in 1 .. count :
                     p[n] = Once(p[n - 1])
                /\ Moved(to, from, count) = p[count]
<1> DEFINE Run(p, j) == p = [n \in 0 .. j |->
                               IF n = 0 THEN <<to, from>> ELSE Once(p[n - 1])]
           Bad == {j \in 0 .. count : ~ \E p : Run(p, j)}
<1>1. count \in Nat
  OBVIOUS
<1>2. ASSUME Bad # {}
      PROVE  FALSE
  <2>1. Bad \in SUBSET Nat
    BY <1>1
  <2> HIDE DEF Bad
  <2>2. PICK j \in Bad : \A k \in Bad : j <= k
    BY <1>2, <2>1, Common!Least
  <2>3. j \in Nat /\ \A k \in Nat : k < j => k \notin Bad
    BY <2>1, <2>2
  <2> USE DEF Bad
  <2>4. j \in 0 .. count /\ ~ \E p : Run(p, j)
    BY <2>2
  <2>5. CASE j = 0
    <3>1. Run([n \in 0 .. 0 |-> <<to, from>>], 0)
      OBVIOUS
    <3>2. QED
      BY <2>4, <2>5, <3>1
  <2>6. CASE j > 0
    <3>1. j - 1 \in 0 .. count /\ j - 1 \in Nat /\ j - 1 < j
      BY <1>1, <2>4, <2>6
    <3>2. PICK p : Run(p, j - 1)
      BY <2>3, <3>1
    <3> DEFINE r == [n \in 0 .. j |-> IF n = j THEN Once(p[j - 1])
                                      ELSE p[n]]
    <3>3. ASSUME NEW n \in 0 .. j
          PROVE  r[n] = IF n = 0 THEN <<to, from>> ELSE Once(r[n - 1])
      <4>1. CASE n = j
        <5>1. r[n - 1] = p[j - 1]
          BY <2>4, <2>6, <4>1
        <5>2. QED
          BY <2>6, <4>1, <5>1
      <4>2. CASE n # j
        <5>1. n \in 0 .. j - 1 /\ (n # 0 => n - 1 \in 0 .. j - 1)
          BY <2>4, <4>2
        <5>2. p[n] = IF n = 0 THEN <<to, from>> ELSE Once(p[n - 1])
          BY <3>2, <5>1
        <5>3. n # 0 => r[n - 1] = p[n - 1]
          BY <2>4, <4>2, <5>1
        <5>4. QED
          BY <4>2, <5>2, <5>3
      <4>3. QED
        BY <4>1, <4>2
    <3>4. r = [n \in 0 .. j |-> r[n]]
      OBVIOUS
    <3> HIDE DEF r
    <3>5. Run(r, j)
      BY <3>3, <3>4
    <3>6. QED
      BY <2>4, <3>5
  <2>7. QED
    BY <2>4, <2>5, <2>6
<1>3. \E p : Run(p, count)
  <2> HIDE DEF Run
  <2>1. count \in 0 .. count
    OBVIOUS
  <2>2. QED
    BY <1>2, <2>1
<1>4. Run(CHOOSE p : Run(p, count), count)
  BY <1>3
<1>5. Moved(to, from, count) = (CHOOSE p : Run(p, count))[count]
  BY DEF Moved, Once
<1> DEFINE c == CHOOSE p : Run(p, count)
<1>6. \A n \in 0 .. count :
        c[n] = IF n = 0 THEN <<to, from>> ELSE Once(c[n - 1])
  BY <1>4
<1> HIDE DEF c
<1>7. c[0] = <<to, from>> /\ \A n \in 1 .. count : c[n] = Once(c[n - 1])
  <2>1. 0 \in 0 .. count /\ \A n \in 1 .. count : n \in 0 .. count /\ n # 0
    BY <1>1
  <2>2. QED
    BY <1>6, <2>1
<1>8. QED
  BY <1>5, <1>7 DEF c

(* u moves the items one by one, in reverse order.                         *)
BothMoved(b, to, from, count) ==
  /\ b = <<b[1], b[2]>>
  /\ WellFormed(b[1])
  /\ Items(b[1]) = Items(to) \o Reverse(Abstract!TopMost(Items(from), count))
  /\ WellFormed(b[2])
  /\ Items(b[2]) = Abstract!Drop(Items(from), count)

(* u: all the cells it was asked to move, in the opposite order.           *)
LEMMA MovedOver ==
  ASSUME NEW to, WellFormed(to), NEW from, WellFormed(from), NEW count \in Nat,
         NEW b, b = Moved(to, from, count)
  PROVE  BothMoved(b, to, from, count)
<1>1. PICK p : /\ p[0] = <<to, from>>
               /\ \A n \in 1 .. count :
                    p[n] = Once(p[n - 1])
               /\ b = p[count]
  BY MoveLoop
<1> DEFINE i == Items(to)
           f == Items(from)
           m == Abstract!TopMost(f, count)
           q == Reverse(m)
           Over(n) == /\ p[n] = <<p[n][1], p[n][2]>>
                      /\ WellFormed(p[n][1])
                      /\ Items(p[n][1]) = i \o SubSeq(q, 1, n)
                      /\ WellFormed(p[n][2])
                      /\ Items(p[n][2]) = Abstract!Drop(f, n)
           Bad == {n \in 0 .. count : ~Over(n)}
<1>2. i \in Seq(Int) /\ f \in Seq(Int)
  BY ItemsOf
<1> HIDE DEF i, f
<1>3. /\ q \in Seq(Int) /\ Len(q) = count
      /\ \A n \in 1 .. count : q[n] = Abstract!Top(Abstract!Drop(f, n - 1))
  <2>1. m = Abstract!TopMost(f, count) /\ count \in Int
    OBVIOUS
  <2> HIDE DEF m
  <2>2. /\ m \in Seq(Int) /\ Len(m) = IF count > 0 THEN count ELSE 0
        /\ \A k \in 1 .. count : m[k] = IF Len(f) - count + k > 0
                                          THEN f[Len(f) - count + k] ELSE 0
    BY <1>2, <2>1, TopMostOf
  <2>3. Len(m) = count
    BY <2>2
  <2>4. /\ q \in Seq(Int) /\ Len(q) = count
        /\ \A n \in 1 .. count : q[n] = m[count - n + 1]
    BY <2>2, <2>3, ReverseOf
  <2>5. ASSUME NEW n \in 1 .. count
        PROVE  q[n] = Abstract!Top(Abstract!Drop(f, n - 1))
    <3> DEFINE d == Abstract!Drop(f, n - 1)
    <3>1. d = Abstract!Drop(f, n - 1) /\ n - 1 \in Int /\ n - 1 >= 0
      OBVIOUS
    <3> HIDE DEF d
    <3>2. /\ d \in Seq(Int)
          /\ n - 1 <= 0 => d = f
          /\ n - 1 > 0  => Len(d) = IF Len(f) > n - 1 THEN Len(f) - (n - 1) ELSE 0
          /\ Len(d) <= Len(f) /\ \A k \in 1 .. Len(d) : d[k] = f[k]
      BY <1>2, <3>1, DropOf
    <3>3. Len(d) = IF Len(f) > n - 1 THEN Len(f) - (n - 1) ELSE 0
      <4>1. CASE n - 1 = 0
        BY <1>2, <3>2, <4>1
      <4>2. CASE n - 1 > 0
        BY <3>2, <4>2
      <4>3. QED
        BY <3>1, <4>1, <4>2
    <3>4. Abstract!Top(d) = IF Len(d) > 0 THEN d[Len(d)] ELSE 0
      BY <3>2 DEF Abstract!Top, Abstract!TopMost
    <3>5. /\ count - n + 1 \in 1 .. count
          /\ Len(f) - count + (count - n + 1) = Len(f) - (n - 1)
      BY <1>2
    <3>6. q[n] = IF Len(f) - (n - 1) > 0 THEN f[Len(f) - (n - 1)] ELSE 0
      BY <2>2, <2>4, <3>5
    <3>7. CASE Len(f) > n - 1
      <4>1. Len(d) = Len(f) - (n - 1) /\ Len(d) > 0 /\ Len(f) - (n - 1) > 0
        BY <1>2, <3>3, <3>7
      <4>2. QED
        BY <3>2, <3>4, <3>6, <4>1 DEF d
    <3>8. CASE ~(Len(f) > n - 1)
      <4>1. Len(d) = 0 /\ ~(Len(f) - (n - 1) > 0)
        BY <1>2, <3>3, <3>8
      <4>2. QED
        BY <3>4, <3>6, <4>1 DEF d
    <3>9. QED
      BY <3>7, <3>8
  <2>6. QED
    BY <2>4, <2>5
<1> HIDE DEF m, q
<1>4. Over(0)
  <2>1. /\ p[0] = <<p[0][1], p[0][2]>> /\ p[0][1] = to /\ p[0][2] = from
    BY <1>1
  <2>2. i \o SubSeq(q, 1, 0) = i
    BY <1>2, <1>3
  <2>3. Abstract!Drop(f, 0) = f
    BY DEF Abstract!Drop
  <2>4. QED
    BY <2>1, <2>2, <2>3 DEF i, f
<1>5. ASSUME NEW n \in 0 .. count, n > 0, Over(n - 1)
      PROVE  Over(n)
  <2>1. n \in 1 .. count /\ n \in 1 .. Len(q) /\ n - 1 \in Nat
    BY <1>3, <1>5
  <2> DEFINE t == p[n - 1][1]
             s == p[n - 1][2]
             v == stack_peek(s)
  <2>2. p[n] = <<stack_push(t, v), AfterPop(s)>>
    BY <1>1, <2>1 DEF Once
  <2>3. /\ WellFormed(t) /\ Items(t) = i \o SubSeq(q, 1, n - 1)
        /\ WellFormed(s) /\ Items(s) = Abstract!Drop(f, n - 1)
    BY <1>5
  <2> HIDE DEF t, s
  <2>4. v \in Int /\ v = q[n]
    BY <1>3, <2>1, <2>3, Peeks
  <2> HIDE DEF v
  <2>5. /\ WellFormed(stack_push(t, v))
        /\ Items(stack_push(t, v)) = Append(i \o SubSeq(q, 1, n - 1), q[n])
    BY <2>3, <2>4, Pushes
  <2>6. Append(i \o SubSeq(q, 1, n - 1), q[n]) = i \o SubSeq(q, 1, n)
    BY <1>2, <1>3, <2>1, OneMore
  <2>7. /\ WellFormed(AfterPop(s))
        /\ Items(AfterPop(s)) = Abstract!Drop(Abstract!Drop(f, n - 1), 1)
    BY <2>3, Popped
  <2>8. Abstract!Drop(Abstract!Drop(f, n - 1), 1) = Abstract!Drop(f, n)
    <3>1. n - 1 + 1 = n /\ 1 \in Nat
      BY <2>1
    <3>2. QED
      BY <1>2, <2>1, <3>1, DroppedTwice
  <2>9. /\ p[n][1] = stack_push(t, v) /\ p[n][2] = AfterPop(s)
        /\ p[n] = <<p[n][1], p[n][2]>>
    <3> HIDE DEF Over
    <3>1. QED
      BY <2>2
  <2>10. QED
    <3>1. Items(p[n][1]) = i \o SubSeq(q, 1, n)
      BY <2>5, <2>6, <2>9
    <3>2. Items(p[n][2]) = Abstract!Drop(f, n)
      BY <2>7, <2>8, <2>9
    <3>3. WellFormed(p[n][1]) /\ WellFormed(p[n][2])
      BY <2>5, <2>7, <2>9
    <3>4. QED
      BY <2>9, <3>1, <3>2, <3>3
<1> HIDE DEF Over
<1>6. ASSUME Bad # {}
      PROVE  FALSE
  <2>1. Bad \in SUBSET Nat
    OBVIOUS
  <2> HIDE DEF Bad
  <2>2. PICK n \in Bad : \A k \in Bad : n <= k
    BY <1>6, <2>1, Common!Least
  <2>3. n \in Nat /\ \A k \in Nat : k < n => k \notin Bad
    BY <2>1, <2>2
  <2>4. n \in 0 .. count /\ ~Over(n)
    BY <2>2 DEF Bad
  <2>5. n # 0 /\ n - 1 \in 0 .. count /\ n - 1 \in Nat /\ n - 1 < n
    BY <1>4, <2>3, <2>4
  <2>6. Over(n - 1)
    BY <2>3, <2>5 DEF Bad
  <2>7. QED
    BY <1>5, <2>3, <2>4, <2>5, <2>6
<1>7. Over(count)
  BY <1>6
<1>8. SubSeq(q, 1, count) = q
  BY <1>3
<1>9. QED
  BY <1>1, <1>7, <1>8 DEF BothMoved, Over, i, f, q, m

(* A stack is something.                                                   *)
LEMMA NotNothing ==
  ASSUME NEW s, WellFormed(s)
  PROVE  s # Nothing
<1>1. DOMAIN s = {"size", "top", "entries"}
  BY DEF WellFormed
<1>2. DOMAIN Nothing = {}
  BY DEF Nothing
<1>3. QED
  BY <1>1, <1>2

(* Of a sequence, only the last item was replaced.                         *)
LEMMA ReplacedTop ==
  ASSUME NEW T, NEW q \in Seq(T), NEW r \in Seq(T), Len(q) > 0, Len(r) = Len(q),
         \A k \in 1 .. Len(q) - 1 : r[k] = q[k]
  PROVE  r = Append(Abstract!Front(q), r[Len(r)])
<1> DEFINE f == SubSeq(q, 1, Len(q) - 1)
           c == Append(f, r[Len(r)])
<1>1. f \in Seq(T) /\ Len(f) = Len(q) - 1 /\ \A k \in 1 .. Len(q) - 1 : f[k] = q[k]
  OBVIOUS
<1>2. Abstract!Front(q) = f
  BY DEF Abstract!Front
<1> HIDE DEF f
<1>3. /\ c \in Seq(T) /\ Len(c) = Len(r) /\ c[Len(r)] = r[Len(r)]
      /\ \A k \in 1 .. Len(q) - 1 : c[k] = q[k]
  BY <1>1
<1> HIDE DEF c
<1>4. \A k \in 1 .. Len(r) : r[k] = c[k]
  BY <1>3
<1>5. r = c
  BY <1>3, <1>4, SeqEqual
<1>6. QED
  BY <1>2, <1>5 DEF c

(* Two items were put on top of a sequence.                                *)
LEMMA TwoOnTop ==
  ASSUME NEW T, NEW f \in Seq(T), NEW r \in Seq(T), Len(r) = Len(f) + 2,
         \A k \in 1 .. Len(f) : r[k] = f[k]
  PROVE  r = f \o <<r[Len(r) - 1], r[Len(r)]>>
<1> DEFINE two == <<r[Len(r) - 1], r[Len(r)]>>
           c == f \o two
<1>1. r[Len(r) - 1] \in T /\ r[Len(r)] \in T
  OBVIOUS
<1>2. /\ two \in Seq(T) /\ Len(two) = 2
      /\ two[1] = r[Len(r) - 1] /\ two[2] = r[Len(r)]
  BY <1>1
<1> HIDE DEF two
<1>3. /\ c \in Seq(T) /\ Len(c) = Len(r)
      /\ \A k \in 1 .. Len(f) : c[k] = f[k]
      /\ c[Len(f) + 1] = two[1] /\ c[Len(f) + 2] = two[2]
  <2>1. /\ c \in Seq(T) /\ Len(c) = Len(f) + Len(two)
        /\ \A k \in 1 .. Len(f) + Len(two) :
             c[k] = IF k <= Len(f) THEN f[k] ELSE two[k - Len(f)]
    BY <1>2, ConcatProperties
  <2> HIDE DEF c
  <2>2. Len(f) \in Nat
    OBVIOUS
  <2>3. /\ Len(f) + 1 \in 1 .. Len(f) + 2 /\ Len(f) + 2 \in 1 .. Len(f) + 2
        /\ Len(f) + 1 - Len(f) = 1 /\ Len(f) + 2 - Len(f) = 2
        /\ ~(Len(f) + 1 <= Len(f)) /\ ~(Len(f) + 2 <= Len(f))
    BY <2>2
  <2>4. c[Len(f) + 1] = two[1] /\ c[Len(f) + 2] = two[2]
    BY <1>2, <2>1, <2>3
  <2>5. \A k \in 1 .. Len(f) : c[k] = f[k]
    BY <1>2, <2>1, <2>2
  <2>6. QED
    BY <1>2, <2>1, <2>4, <2>5
<1> HIDE DEF c
<1>4. ASSUME NEW k \in 1 .. Len(r)
      PROVE  r[k] = c[k]
  <2>1. CASE k <= Len(f)
    BY <1>3, <2>1
  <2>2. CASE k = Len(f) + 1
    BY <1>2, <1>3, <2>2
  <2>3. CASE k = Len(f) + 2
    BY <1>2, <1>3, <2>3
  <2>4. QED
    BY <2>1, <2>2, <2>3
<1>5. r = c
  BY <1>3, <1>4, SeqEqual
<1>6. QED
  BY <1>5 DEF c, two

-----------------------------------------------------------------------------
(* The system: every stack that is allocated has one place, and every      *)
(* place has a stack that is allocated.                                    *)

(* A stack-stack whose array has room for the pointers in use.             *)
Layout(r) ==
  /\ r = [size |-> r.size, current |-> r.current, stacks |-> r.stacks]
  /\ r.size \in Nat /\ r.current \in 0 .. r.size - 1
  /\ r.stacks = [n \in 0 .. r.size - 1 |-> r.stacks[n]]
  /\ \A n \in 0 .. r.current : r.stacks[n] \in Address

At(ip, n)    == stackstack[ip].stacks[n]
Level(ip)    == 0 .. stackstack[ip].current

Arrays ==
  /\ heap = [a \in Address |-> heap[a]]
  /\ stackstack = [ip \in IP |-> stackstack[ip]]
  /\ stack = [ip \in IP |-> stack[ip]]
  /\ storageOffset \in [IP -> Int \X Int]
  /\ \A a \in Address : heap[a] = Nothing \/ WellFormed(heap[a])
  /\ \A ip \in IP : stackstack[ip] = Nothing \/ Layout(stackstack[ip])

Places ==
  /\ \A ip \in Alive : stack[ip] = At(ip, stackstack[ip].current)
  /\ \A ip \in Alive : \A n \in Level(ip) : heap[At(ip, n)] # Nothing
  /\ \A ip, jp \in Alive : \A m \in Level(ip) : \A n \in Level(jp) :
       At(ip, m) = At(jp, n) => ip = jp /\ m = n
  /\ \A a \in Address : heap[a] # Nothing =>
       \E ip \in Alive : \E n \in Level(ip) : At(ip, n) = a

PlacesInv == Arrays /\ Places

(* What an instruction finds.                                              *)
LEMMA Found ==
  ASSUME PlacesInv, NEW ip \in Alive
  PROVE  /\ ip \in IP /\ Layout(stackstack[ip])
         /\ stackstack[ip].current \in Level(ip) /\ 0 \in Level(ip)
         /\ stackstack[ip].current \in Nat
         /\ \A n \in Level(ip) : At(ip, n) \in Address
         /\ \A n \in Level(ip) : WellFormed(heap[At(ip, n)])
         /\ stack[ip] = At(ip, stackstack[ip].current)
         /\ storageOffset[ip] \in Int \X Int
<1>1. ip \in IP /\ stackstack[ip] # Nothing
  BY DEF Alive
<1>2. Layout(stackstack[ip])
  BY <1>1 DEF PlacesInv, Arrays
<1>3. /\ stackstack[ip].current \in Level(ip) /\ 0 \in Level(ip)
      /\ stackstack[ip].current \in Nat
      /\ \A n \in Level(ip) : At(ip, n) \in Address
  BY <1>2 DEF Layout, Level, At
<1>4. \A n \in Level(ip) : WellFormed(heap[At(ip, n)])
  BY <1>3 DEF PlacesInv, Arrays, Places
<1>5. QED
  BY <1>1, <1>2, <1>3, <1>4 DEF PlacesInv, Arrays, Places

(* Instructions on allocated stacks leave them where they are.             *)
LEMMA ContentsChanged ==
  ASSUME PlacesInv, UNCHANGED <<stackstack, stack, storageOffset>>,
         heap' = [a \in Address |-> heap'[a]],
         \A a \in Address : IF heap[a] = Nothing THEN heap'[a] = Nothing
                            ELSE WellFormed(heap'[a])
  PROVE  PlacesInv'
<1>1. Alive' = Alive
  BY DEF Alive
<1>2. /\ \A ip : Level(ip)' = Level(ip)
      /\ \A ip, n : At(ip, n)' = At(ip, n)
  BY DEF Level, At
<1>3. Arrays'
  BY DEF PlacesInv, Arrays
<1>4. \A a \in Address : heap'[a] = Nothing <=> heap[a] = Nothing
  BY NotNothing
<1>5. \A ip \in Alive : \A n \in Level(ip) : At(ip, n) \in Address
  BY Found
<1>6. Places'
  <2>1. \A ip \in Alive' : stack'[ip] = At(ip, stackstack[ip].current)'
    BY <1>1, <1>2 DEF PlacesInv, Places
  <2>2. \A ip \in Alive' : \A n \in Level(ip)' : heap'[At(ip, n)'] # Nothing
    BY <1>1, <1>2, <1>4, <1>5 DEF PlacesInv, Places
  <2>3. \A ip, jp \in Alive' : \A m \in Level(ip)' : \A n \in Level(jp)' :
          At(ip, m)' = At(jp, n)' => ip = jp /\ m = n
    BY <1>1, <1>2 DEF PlacesInv, Places
  <2>4. \A a \in Address : heap'[a] # Nothing =>
          \E ip \in Alive' : \E n \in Level(ip)' : At(ip, n)' = a
    BY <1>1, <1>2, <1>4 DEF PlacesInv, Places
  <2>5. QED
    BY <2>1, <2>2, <2>3, <2>4 DEF Places
<1>7. QED
  BY <1>3, <1>6 DEF PlacesInv

-----------------------------------------------------------------------------
(* What the abstract stacks are.                                           *)

RowsOf(h, r) == [n \in 1 .. r.current + 1 |-> Items(h[r.stacks[n - 1]])]

(* The rows of a stack-stack are sequences of cells, one per stack.        *)
LEMMA Rows ==
  ASSUME NEW h, NEW r, Layout(r),
         \A n \in 0 .. r.current : WellFormed(h[r.stacks[n]]),
         NEW q, q = RowsOf(h, r)
  PROVE  /\ q \in Seq(Seq(Int)) /\ Len(q) = r.current + 1 /\ Len(q) > 0
         /\ \A n \in 0 .. r.current : q[n + 1] = Items(h[r.stacks[n]])
<1>1. r.current \in Nat
  BY DEF Layout
<1>2. \A n \in 1 .. r.current + 1 : n - 1 \in 0 .. r.current
  BY <1>1
<1>3. \A n \in 1 .. r.current + 1 : Items(h[r.stacks[n - 1]]) \in Seq(Int)
  BY <1>2, ItemsOf
<1>4. q = [n \in 1 .. r.current + 1 |-> Items(h[r.stacks[n - 1]])]
  BY DEF RowsOf
<1>5. q \in [1 .. r.current + 1 -> Seq(Int)]
  BY <1>3, <1>4
<1>6. q \in Seq(Seq(Int)) /\ Len(q) = r.current + 1
  BY <1>1, <1>5, IsASeq
<1>7. ASSUME NEW n \in 0 .. r.current
      PROVE  q[n + 1] = Items(h[r.stacks[n]])
  <2>1. n + 1 \in 1 .. r.current + 1 /\ n + 1 - 1 = n
    BY <1>1
  <2>2. QED
    BY <1>4, <2>1
<1>8. QED
  BY <1>1, <1>6, <1>7

(* The abstract stacks of an IP are the rows of its stack-stack.           *)
LEMMA RowsOfIP ==
  ASSUME NEW ip \in Alive
  PROVE  AllItems(ip) = RowsOf(heap, stackstack[ip])
BY DEF AllItems, RowsOf

(* So they are after a step.                                               *)
LEMMA RowsOfIPNext ==
  ASSUME NEW ip \in Alive'
  PROVE  AllItems(ip)' = RowsOf(heap', stackstack'[ip])
BY DEF AllItems, RowsOf

(* What the rows of an IP are after a step that left it r.                 *)
LEMMA RowsNext ==
  ASSUME NEW ip \in IP, NEW r, stackstack'[ip] = r, r # Nothing, Layout(r),
         \A n \in 0 .. r.current : WellFormed(heap'[r.stacks[n]]),
         NEW q, q = AllItems(ip)'
  PROVE  /\ q \in Seq(Seq(Int)) /\ Len(q) = r.current + 1 /\ Len(q) > 0
         /\ \A n \in 0 .. r.current : q[n + 1] = Items(heap'[r.stacks[n]])
<1>1. ip \in Alive'
  BY DEF Alive
<1>2. q = RowsOf(heap', r)
  BY <1>1, RowsOfIPNext
<1>3. QED
  BY <1>2, Rows

(* Those that a step does not touch.                                       *)
LEMMA SameRows ==
  ASSUME PlacesInv, NEW ip \in IP, stackstack'[ip] = stackstack[ip],
         ip \in Alive => \A n \in Level(ip) : heap'[At(ip, n)] = heap[At(ip, n)]
  PROVE  AllItems(ip)' = AllItems(ip)
<1>1. ip \in Alive' <=> ip \in Alive
  BY DEF Alive
<1>2. CASE ip \in Alive
  <2>1. Layout(stackstack[ip])
    BY <1>2, Found
  <2>2. \A n \in 1 .. stackstack[ip].current + 1 :
          heap'[stackstack[ip].stacks[n - 1]] = heap[stackstack[ip].stacks[n - 1]]
    <3>1. stackstack[ip].current \in Nat
      BY <2>1 DEF Layout
    <3>2. \A n \in 1 .. stackstack[ip].current + 1 : n - 1 \in Level(ip)
      BY <3>1 DEF Level
    <3>3. QED
      BY <1>2, <3>2 DEF At
  <2>3. RowsOf(heap', stackstack'[ip]) = RowsOf(heap, stackstack[ip])
    BY <2>2 DEF RowsOf
  <2>4. QED
    BY <1>1, <1>2, <2>3, RowsOfIP, RowsOfIPNext
<1>3. CASE ip \notin Alive
  BY <1>1, <1>3 DEF AllItems
<1>4. QED
  BY <1>2, <1>3

(* A step that changes the rows of one IP changes one abstract item.       *)
LEMMA OneRow ==
  ASSUME NEW ip \in IP, NEW v, AllItems(ip)' = v,
         \A jp \in IP \ {ip} : AllItems(jp)' = AllItems(jp)
  PROVE  [jp \in IP |-> AllItems(jp)]'
           = [[jp \in IP |-> AllItems(jp)] EXCEPT ![ip] = v]
<1>1. \A jp \in IP : AllItems(jp)' = IF jp = ip THEN v ELSE AllItems(jp)
  OBVIOUS
<1>2. [jp \in IP |-> AllItems(jp)]' = [jp \in IP |-> AllItems(jp)']
  OBVIOUS
<1>3. QED
  BY <1>1, <1>2

(* What the rows of an IP are before a step.                               *)
LEMMA RowsFound ==
  ASSUME PlacesInv, NEW ip \in Alive, NEW q, q = AllItems(ip)
  PROVE  /\ q \in Seq(Seq(Int)) /\ Len(q) = stackstack[ip].current + 1
         /\ Len(q) > 0 /\ q # <<>>
         /\ \A n \in Level(ip) : q[n + 1] = Items(heap[At(ip, n)])
         /\ Abstract!Last(q) = Items(heap[stack[ip]])
         /\ q[Len(q)] = Items(heap[stack[ip]])
<1>1. /\ Layout(stackstack[ip])
      /\ \A n \in 0 .. stackstack[ip].current :
           WellFormed(heap[stackstack[ip].stacks[n]])
      /\ stackstack[ip].current \in Level(ip)
      /\ stack[ip] = At(ip, stackstack[ip].current)
  BY Found DEF Level, At
<1>2. q = RowsOf(heap, stackstack[ip])
  BY RowsOfIP
<1>3. /\ q \in Seq(Seq(Int)) /\ Len(q) = stackstack[ip].current + 1
      /\ Len(q) > 0
      /\ \A n \in 0 .. stackstack[ip].current :
           q[n + 1] = Items(heap[stackstack[ip].stacks[n]])
  BY <1>1, <1>2, Rows
<1>4. q[Len(q)] = Items(heap[stack[ip]])
  BY <1>1, <1>3 DEF Level, At
<1>5. Abstract!Last(q) = q[Len(q)]
  BY DEF Abstract!Last
<1>6. q # <<>>
  BY <1>3
<1>7. QED
  BY <1>3, <1>4, <1>5, <1>6 DEF Level, At

(* An instruction on the top stack alone.                                  *)
LEMMA TopReplaced ==
  ASSUME PlacesInv, NEW ip \in Alive, NEW s, WellFormed(s), OnTop(ip, s),
         Items(s) \in Abstract!Changed(Items(heap[stack[ip]]))
  PROVE  PlacesInv' /\ Abstract!Instruction(ip)
<1> DEFINE a == stack[ip]
           r == stackstack[ip]
<1>1. /\ ip \in IP /\ Layout(r) /\ r.current \in Level(ip) /\ a = At(ip, r.current)
      /\ \A n \in Level(ip) : At(ip, n) \in Address
      /\ \A n \in Level(ip) : WellFormed(heap[At(ip, n)])
      /\ r.current \in Nat
  BY Found
<1>2. /\ heap' = [heap EXCEPT ![a] = s]
      /\ UNCHANGED <<stackstack, stack, storageOffset>>
  BY DEF OnTop
<1>3. a \in Address /\ heap = [b \in Address |-> heap[b]]
  BY <1>1 DEF PlacesInv, Arrays
<1>4. /\ heap' = [b \in Address |-> heap'[b]]
      /\ \A b \in Address : heap'[b] = IF b = a THEN s ELSE heap[b]
  BY <1>2, <1>3
<1>5. \A b \in Address : IF heap[b] = Nothing THEN heap'[b] = Nothing
                         ELSE WellFormed(heap'[b])
  <2>1. heap[a] # Nothing
    BY <1>1 DEF PlacesInv, Places
  <2>2. QED
    BY <1>4, <2>1 DEF PlacesInv, Arrays
<1>6. PlacesInv'
  BY <1>2, <1>4, <1>5, ContentsChanged
<1>7. \A jp \in IP \ {ip} : AllItems(jp)' = AllItems(jp)
  <2> SUFFICES ASSUME NEW jp \in IP, jp # ip
               PROVE  AllItems(jp)' = AllItems(jp)
    OBVIOUS
  <2>1. jp \in Alive => \A n \in Level(jp) : heap'[At(jp, n)] = heap[At(jp, n)]
    <3> SUFFICES ASSUME jp \in Alive, NEW n \in Level(jp)
                 PROVE  heap'[At(jp, n)] = heap[At(jp, n)]
      OBVIOUS
    <3>1. At(jp, n) # a
      BY <1>1 DEF PlacesInv, Places
    <3>2. At(jp, n) \in Address
      BY Found
    <3>3. QED
      BY <1>4, <3>1, <3>2
  <2>2. stackstack'[jp] = stackstack[jp]
    BY <1>2
  <2>3. QED
    BY <2>1, <2>2, SameRows
<1> DEFINE old == AllItems(ip)
           new == AllItems(ip)'
           all == [jp \in IP |-> AllItems(jp)]
<1>8. /\ old \in Seq(Seq(Int)) /\ Len(old) = r.current + 1 /\ Len(old) > 0
      /\ \A n \in Level(ip) : old[n + 1] = Items(heap[At(ip, n)])
      /\ Abstract!Last(old) = Items(heap[a])
  BY RowsFound
<1>9. /\ new \in Seq(Seq(Int)) /\ Len(new) = r.current + 1
      /\ \A n \in Level(ip) : new[n + 1] = Items(heap'[At(ip, n)])
  <2>1. \A n \in Level(ip) : WellFormed(heap'[At(ip, n)])
    BY <1>1, <1>4
  <2>2. stackstack'[ip] = r /\ r # Nothing
    BY <1>2 DEF Alive
  <2>3. \A n \in 0 .. r.current : WellFormed(heap'[r.stacks[n]])
    BY <2>1 DEF Level, At
  <2>4. Layout(r) /\ ip \in IP
    BY <1>1
  <2> HIDE DEF new, r
  <2>5. /\ new \in Seq(Seq(Int)) /\ Len(new) = r.current + 1
        /\ \A n \in 0 .. r.current : new[n + 1] = Items(heap'[r.stacks[n]])
    BY <2>2, <2>3, <2>4, RowsNext DEF new
  <2>6. QED
    BY <2>5 DEF r, Level, At
<1> HIDE DEF old, new, r, a
<1>10. new[Len(new)] = Items(s)
  BY <1>1, <1>3, <1>4, <1>9
<1>11. \A k \in 1 .. Len(old) - 1 : new[k] = old[k]
  <2> SUFFICES ASSUME NEW k \in 1 .. Len(old) - 1
               PROVE  new[k] = old[k]
    OBVIOUS
  <2>1. k - 1 \in Level(ip) /\ k - 1 # r.current /\ k - 1 + 1 = k
    BY <1>1, <1>8 DEF Level, r
  <2>2. At(ip, k - 1) # a
    BY <1>1, <2>1 DEF PlacesInv, Places
  <2>3. heap'[At(ip, k - 1)] = heap[At(ip, k - 1)]
    BY <1>1, <1>4, <2>1, <2>2
  <2>4. QED
    BY <1>8, <1>9, <2>1, <2>3
<1>12. new = Append(Abstract!Front(old), Items(s))
  <2>1. Len(new) = Len(old)
    BY <1>8, <1>9
  <2>2. new = Append(Abstract!Front(old), new[Len(new)])
    BY <1>8, <1>9, <1>11, <2>1, ReplacedTop
  <2>3. QED
    BY <1>10, <2>2
<1>13. all' = [all EXCEPT ![ip] = Append(Abstract!Front(old), Items(s))]
  BY <1>1, <1>7, <1>12, OneRow DEF new
<1>14. all[ip] = old
  BY <1>1 DEF old
<1>15. QED
  <2>1. storageOffset' = storageOffset
    BY <1>2
  <2>2. Items(s) \in Abstract!Changed(Abstract!Last(all[ip]))
    BY <1>8, <1>14 DEF a
  <2>3. all' = [all EXCEPT ![ip] = Append(Abstract!Front(all[ip]), Items(s))]
    BY <1>13, <1>14
  <2>4. Abstract!Instruction(ip)
    BY <2>1, <2>2, <2>3 DEF Abstract!Instruction
  <2>5. QED
    BY <1>6, <2>4

(* The instructions that look at the top stack alone.                      *)
LEMMA Instructions ==
  ASSUME PlacesInv, NEW ip \in Alive,
         \/ Push(ip) \/ Pop(ip) \/ Clear(ip) \/ DupTop(ip) \/ SwapTop(ip)
         \/ PushString(ip) \/ PopString(ip)
         \/ StackSize(ip) \/ ForthPick(ip) \/ ForthRoll(ip)
         \/ BeginOutOfMemory(ip)
  PROVE  PlacesInv' /\ Abstract!Instruction(ip)
<1> DEFINE s == heap[stack[ip]]
           i == Items(s)
           Becomes(t) == /\ OnTop(ip, t)
                         /\ WellFormed(t) /\ Items(t) \in Abstract!Changed(i)
<1>1. WellFormed(s)
  BY Found
<1>2. SUFFICES \E t : Becomes(t)
  BY TopReplaced
<1>3. i \in Seq(Int) /\ Len(i) = s.top /\ s.top \in Int
  BY <1>1, ItemsOf DEF WellFormed
<1>4. stack_peek(s) \in Int /\ stack_peek(s) = Abstract!Top(i)
  BY <1>1, Peeks
<1>5. /\ WellFormed(AfterPop(s)) /\ Items(AfterPop(s)) = Abstract!Drop(i, 1)
      /\ AfterPop(s) = stack_discard(s, 1)
  BY <1>1, Popped DEF AfterPop
<1>6. Abstract!Drop(i, 1) \in Abstract!Changed(i)
  BY DEF Abstract!Changed
<1>7. CASE Push(ip)
  <2>1. PICK v \in Cell : OnTop(ip, stack_push(s, v))
    BY <1>7 DEF Push
  <2>2. v \in Int
    BY CellAssumption
  <2>3. /\ WellFormed(stack_push(s, v))
        /\ Items(stack_push(s, v)) = Append(i, v)
    BY <1>1, <2>2, Pushes
  <2>4. QED
    BY <2>1, <2>3 DEF Abstract!Changed
<1>8. CASE Pop(ip) \/ BeginOutOfMemory(ip)
  BY <1>5, <1>6, <1>8 DEF Pop, BeginOutOfMemory
<1>9. CASE Clear(ip)
  <2>1. WellFormed([s EXCEPT !.top = 0]) /\ Items([s EXCEPT !.top = 0]) = <<>>
    BY <1>1, Cleared
  <2>2. QED
    BY <1>9, <2>1 DEF Clear, Abstract!Changed
<1>10. CASE DupTop(ip)
  <2>1. /\ WellFormed(stack_dup_top(s))
        /\ Items(stack_dup_top(s))
             = Abstract!Drop(i, 1) \o <<Abstract!Top(i), Abstract!Top(i)>>
    BY <1>1, TopDuplicated
  <2>2. QED
    BY <1>10, <2>1 DEF DupTop, Abstract!Changed
<1>11. CASE SwapTop(ip)
  <2>1. /\ WellFormed(stack_swap_top(s))
        /\ Items(stack_swap_top(s)) = Abstract!Swapped(i)
    BY <1>1, TopSwapped
  <2>2. QED
    BY <1>11, <2>1 DEF SwapTop, Abstract!Changed
<1>12. CASE PushString(ip)
  <2>1. PICK str \in String : OnTop(ip, stack_push_string(s, str))
    BY <1>12 DEF PushString
  <2>2. str \in Seq(Int)
    BY CellAssumption
  <2>3. /\ WellFormed(stack_push_string(s, str))
        /\ Items(stack_push_string(s, str)) = Abstract!Pushed(i, str)
    BY <1>1, <2>2, StringPushed
  <2>4. QED
    BY <2>1, <2>3 DEF Abstract!Changed
<1>13. CASE PopString(ip)
  <2>1. /\ WellFormed(AfterPopString(s))
        /\ Items(AfterPopString(s)) = Abstract!Popped(i)
    BY <1>1, StringPopped
  <2>2. QED
    BY <1>13, <2>1 DEF PopString, Abstract!Changed
<1>14. CASE StackSize(ip)
  <2>1. /\ WellFormed(stack_push(s, s.top))
        /\ Items(stack_push(s, s.top)) = Append(i, Len(i))
    BY <1>1, <1>3, Pushes
  <2>2. QED
    BY <1>14, <2>1 DEF StackSize, Abstract!Changed
<1>15. CASE ForthPick(ip)
  <2> DEFINE t == forth_pick(AfterPop(s), stack_peek(s))
  <2>1. OnTop(ip, Indexed(s, t))
    BY <1>15 DEF ForthPick
  <2> HIDE DEF t
  <2>2. CASE stack_peek(s) < 0
    BY <1>5, <1>6, <2>1, <2>2 DEF Indexed
  <2>3. CASE ~(stack_peek(s) < 0)
    <3>1. stack_peek(s) \in Nat
      BY <1>4, <2>3
    <3>2. /\ WellFormed(t)
          /\ Items(t) = Abstract!Pick(Abstract!Drop(i, 1), Abstract!Top(i))
      BY <1>4, <1>5, <3>1, Picked DEF t
    <3>3. Items(t) \in Abstract!Changed(i)
      BY <1>4, <2>3, <3>2 DEF Abstract!Changed
    <3>4. QED
      BY <2>1, <2>3, <3>2, <3>3 DEF Indexed
  <2>4. QED
    BY <2>2, <2>3
<1>16. CASE ForthRoll(ip)
  <2> DEFINE t == forth_roll(AfterPop(s), stack_peek(s))
  <2>1. OnTop(ip, Indexed(s, t)) \/ Pop(ip)
    BY <1>16 DEF ForthRoll
  <2> HIDE DEF t
  <2>2. CASE Pop(ip)
    BY <1>8, <2>2
  <2>3. CASE OnTop(ip, Indexed(s, t)) /\ stack_peek(s) < 0
    BY <1>5, <1>6, <2>3 DEF Indexed
  <2>4. CASE OnTop(ip, Indexed(s, t)) /\ ~(stack_peek(s) < 0)
    <3>1. stack_peek(s) \in Nat
      BY <1>4, <2>4
    <3>2. /\ WellFormed(t)
          /\ Items(t) = Abstract!Roll(Abstract!Drop(i, 1), Abstract!Top(i))
      BY <1>4, <1>5, <3>1, Rolled DEF t
    <3>3. Items(t) \in Abstract!Changed(i)
      BY <1>4, <2>4, <3>2 DEF Abstract!Changed
    <3>4. QED
      BY <2>4, <3>2, <3>3 DEF Indexed
  <2>5. QED
    BY <2>1, <2>2, <2>3, <2>4
<1>17. QED
  BY <1>7, <1>8, <1>9, <1>10, <1>11, <1>12, <1>13, <1>14, <1>15, <1>16

(* A step on the stacks of one IP does nothing to those of the others.     *)
LEMMA OthersKept ==
  ASSUME PlacesInv, NEW ip \in Alive,
         \A a \in Address : heap[a] # Nothing /\ a \notin Owned(ip)
                              => heap'[a] = heap[a],
         NEW jp \in IP, jp # ip, stackstack'[jp] = stackstack[jp]
  PROVE  AllItems(jp)' = AllItems(jp)
<1>1. ASSUME jp \in Alive, NEW n \in Level(jp)
      PROVE  heap'[At(jp, n)] = heap[At(jp, n)]
  <2>1. At(jp, n) \notin Owned(ip)
    BY <1>1 DEF PlacesInv, Places, Owned, At, Level
  <2>2. At(jp, n) \in Address /\ heap[At(jp, n)] # Nothing
    BY <1>1, Found DEF PlacesInv, Places
  <2>3. QED
    BY <2>1, <2>2
<1>2. QED
  BY <1>1, SameRows

(* A sequence without its last item.                                       *)
LEMMA FrontOf ==
  ASSUME NEW T, NEW q \in Seq(T), Len(q) > 0, NEW g, g = Abstract!Front(q)
  PROVE  g \in Seq(T) /\ Len(g) = Len(q) - 1 /\ \A k \in 1 .. Len(q) - 1 : g[k] = q[k]
<1> DEFINE f == SubSeq(q, 1, Len(q) - 1)
<1>1. f \in Seq(T) /\ Len(f) = Len(q) - 1 /\ \A k \in 1 .. Len(q) - 1 : f[k] = q[k]
  <2>1. /\ 1 \in Int /\ Len(q) - 1 \in Int
        /\ \A k \in 1 .. Len(q) - 1 : q[k] \in T
    OBVIOUS
  <2>2. /\ f \in Seq(T)
        /\ Len(f) = IF 1 <= Len(q) - 1 THEN Len(q) - 1 - 1 + 1 ELSE 0
        /\ \A k \in 1 .. Len(q) - 1 - 1 + 1 : f[k] = q[1 + k - 1]
    BY <2>1, SubSeqProperties
  <2> HIDE DEF f
  <2> DEFINE n == Len(q) - 1
  <2>3. n \in Nat /\ n - 1 + 1 = n
    OBVIOUS
  <2> HIDE DEF n
  <2>4. /\ f \in Seq(T) /\ Len(f) = IF 1 <= n THEN n - 1 + 1 ELSE 0
        /\ \A k \in 1 .. n - 1 + 1 : f[k] = q[1 + k - 1]
    BY <2>2 DEF n
  <2>5. \A k \in 1 .. n : f[k] = q[k]
    BY <2>3, <2>4
  <2>6. Len(f) = n
    BY <2>3, <2>4
  <2>7. QED
    BY <2>4, <2>5, <2>6 DEF n
<1>2. Abstract!Front(q) = f
  BY DEF Abstract!Front
<1>3. QED
  BY <1>1, <1>2

(* The two topmost items of a sequence, and what is below.                 *)
LEMMA BelowTheTop ==
  ASSUME NEW T, NEW q \in Seq(T), Len(q) > 1,
         NEW f, f = Abstract!Front(Abstract!Front(q))
  PROVE  /\ f \in Seq(T) /\ Len(f) = Len(q) - 2
         /\ \A k \in 1 .. Len(q) - 2 : f[k] = q[k]
         /\ Abstract!Last(Abstract!Front(q)) = q[Len(q) - 1]
<1> DEFINE g == Abstract!Front(q)
<1>2. g \in Seq(T) /\ Len(g) = Len(q) - 1 /\ \A k \in 1 .. Len(q) - 1 : g[k] = q[k]
  BY FrontOf
<1>3. f = Abstract!Front(g)
  OBVIOUS
<1> HIDE DEF g
<1>5. /\ f \in Seq(T) /\ Len(f) = Len(g) - 1
      /\ \A k \in 1 .. Len(g) - 1 : f[k] = g[k]
  BY <1>2, <1>3, FrontOf
<1>6. Abstract!Last(g) = g[Len(g)]
  BY DEF Abstract!Last
<1>7. g[Len(q) - 1] = q[Len(q) - 1]
  BY <1>2
<1>8. /\ f \in Seq(T) /\ Len(f) = Len(q) - 2
      /\ \A k \in 1 .. Len(q) - 2 : f[k] = q[k]
  BY <1>2, <1>5
<1>9. Abstract!Last(g) = q[Len(q) - 1]
  BY <1>2, <1>6, <1>7
<1>10. QED
  BY <1>8, <1>9 DEF g

(* The two topmost items were replaced, or one put in place of both, or    *)
(* two in place of one.                                                    *)
LEMMA TopTwoReplaced ==
  ASSUME NEW T, NEW q \in Seq(T), NEW r \in Seq(T), Len(q) > 1,
         Len(r) = Len(q), \A k \in 1 .. Len(q) - 2 : r[k] = q[k]
  PROVE  r = Abstract!Front(Abstract!Front(q)) \o <<r[Len(r) - 1], r[Len(r)]>>
<1> DEFINE f == Abstract!Front(Abstract!Front(q))
<1>1. /\ f \in Seq(T) /\ Len(f) = Len(q) - 2
      /\ \A k \in 1 .. Len(q) - 2 : f[k] = q[k]
  BY BelowTheTop
<1> HIDE DEF f
<1>2. Len(r) = Len(f) + 2 /\ \A k \in 1 .. Len(f) : r[k] = f[k]
  BY <1>1
<1>3. QED
  BY <1>1, <1>2, TwoOnTop DEF f

(* One item in place of the two topmost.                                   *)
LEMMA TopTwoJoined ==
  ASSUME NEW T, NEW q \in Seq(T), NEW r \in Seq(T), Len(q) > 1,
         Len(r) = Len(q) - 1, \A k \in 1 .. Len(q) - 2 : r[k] = q[k]
  PROVE  r = Append(Abstract!Front(Abstract!Front(q)), r[Len(r)])
<1> DEFINE g == Abstract!Front(q)
<1>1. g = Abstract!Front(q)
  OBVIOUS
<1> HIDE DEF g
<1>2. g \in Seq(T) /\ Len(g) = Len(q) - 1 /\ \A k \in 1 .. Len(q) - 1 : g[k] = q[k]
  BY <1>1, FrontOf
<1>3. /\ Len(g) > 0 /\ Len(r) = Len(g)
      /\ \A k \in 1 .. Len(g) - 1 : r[k] = g[k]
  BY <1>2
<1>4. QED
  BY <1>1, <1>2, <1>3, ReplacedTop

(* Two items in place of the topmost.                                      *)
LEMMA TopSplit ==
  ASSUME NEW T, NEW q \in Seq(T), NEW r \in Seq(T), Len(q) > 0,
         Len(r) = Len(q) + 1, \A k \in 1 .. Len(q) - 1 : r[k] = q[k]
  PROVE  r = Abstract!Front(q) \o <<r[Len(r) - 1], r[Len(r)]>>
<1> DEFINE g == Abstract!Front(q)
<1>1. g = Abstract!Front(q)
  OBVIOUS
<1> HIDE DEF g
<1>2. g \in Seq(T) /\ Len(g) = Len(q) - 1 /\ \A k \in 1 .. Len(q) - 1 : g[k] = q[k]
  BY <1>1, FrontOf
<1>3. Len(r) = Len(g) + 2 /\ \A k \in 1 .. Len(g) : r[k] = g[k]
  BY <1>2, SMTT(30)
<1>4. QED
  BY <1>1, <1>2, <1>3, TwoOnTop

(* An instruction on the two topmost stacks.                               *)
OnTwo(ip, s, t) == /\ heap' = [heap EXCEPT ![TOSS(ip)] = t, ![SOSS(ip)] = s]
                   /\ UNCHANGED <<stackstack, stack, storageOffset>>

(* Two stacks with new cells leave every stack in its place.               *)
LEMMA TwoReplaced ==
  ASSUME PlacesInv, NEW ip \in Alive, stackstack[ip].current # 0,
         NEW s, WellFormed(s), NEW t, WellFormed(t),
         OnTwo(ip, s, t)
  PROVE  /\ PlacesInv'
         /\ [jp \in IP |-> AllItems(jp)]'
              = [[jp \in IP |-> AllItems(jp)] EXCEPT ![ip] =
                   Abstract!Front(Abstract!Front(AllItems(ip)))
                     \o <<Items(s), Items(t)>>]
<1> DEFINE a == TOSS(ip)
           b == SOSS(ip)
           r == stackstack[ip]
           c == r.current
<1>1. /\ ip \in IP /\ Layout(r) /\ c \in Level(ip) /\ c - 1 \in Level(ip)
      /\ \A n \in Level(ip) : At(ip, n) \in Address
      /\ \A n \in Level(ip) : WellFormed(heap[At(ip, n)])
      /\ c \in Nat /\ c # 0 /\ a = At(ip, c) /\ b = At(ip, c - 1) /\ c # c - 1
      /\ Level(ip) = 0 .. c
  <2>1. c - 1 \in Level(ip)
    BY Found DEF Level
  <2>2. QED
    BY <2>1, Found DEF TOSS, SOSS, At, Level
<1>2. a # b /\ a \in Address /\ b \in Address
  BY <1>1 DEF PlacesInv, Places
<1>3. /\ heap' = [d \in Address |-> heap'[d]]
      /\ \A d \in Address : heap'[d] = IF d = a THEN t ELSE IF d = b THEN s
                                       ELSE heap[d]
  BY <1>2 DEF PlacesInv, Arrays, OnTwo
<1> HIDE DEF a, b, c, r
<1>4. PlacesInv'
  <2>1. heap[a] # Nothing /\ heap[b] # Nothing
    BY <1>1 DEF PlacesInv, Places
  <2>2. \A d \in Address : IF heap[d] = Nothing THEN heap'[d] = Nothing
                           ELSE WellFormed(heap'[d])
    BY <1>3, <2>1 DEF PlacesInv, Arrays
  <2>3. QED
    BY <1>3, <2>2, ContentsChanged DEF OnTwo
<1>5. \A jp \in IP \ {ip} : AllItems(jp)' = AllItems(jp)
  <2>1. a \in Owned(ip) /\ b \in Owned(ip)
    BY <1>1 DEF Owned, At, Level, c, r
  <2>2. QED
    BY <1>3, <2>1, OthersKept DEF OnTwo
<1> DEFINE old == AllItems(ip)
           new == AllItems(ip)'
           all == [jp \in IP |-> AllItems(jp)]
           f   == Abstract!Front(Abstract!Front(old))
<1>6. /\ old \in Seq(Seq(Int)) /\ Len(old) = c + 1
      /\ \A n \in Level(ip) : old[n + 1] = Items(heap[At(ip, n)])
  BY RowsFound DEF c, r
<1>7. /\ new \in Seq(Seq(Int)) /\ Len(new) = c + 1
      /\ \A n \in Level(ip) : new[n + 1] = Items(heap'[At(ip, n)])
  <2>1. \A n \in Level(ip) : WellFormed(heap'[At(ip, n)])
    <3>1. \A d \in Address : WellFormed(heap[d]) => WellFormed(heap'[d])
      BY <1>3
    <3>2. QED
      BY <1>1, <3>1
  <2>2. stackstack'[ip] = r /\ r # Nothing
    BY DEF Alive, r, OnTwo
  <2>3. \A n \in 0 .. r.current : WellFormed(heap'[r.stacks[n]])
    BY <2>1 DEF Level, At, r
  <2>4. Layout(r) /\ ip \in IP
    BY <1>1
  <2>9. new = AllItems(ip)'
    OBVIOUS
  <2> HIDE DEF new, old, all, f
  <2>5. /\ new \in Seq(Seq(Int)) /\ Len(new) = r.current + 1
        /\ \A n \in 0 .. r.current : new[n + 1] = Items(heap'[r.stacks[n]])
    BY <2>2, <2>3, <2>4, <2>9, RowsNext
  <2>6. QED
    BY <2>5 DEF r, c, Level, At
<1> HIDE DEF old, new, f
<1>10. new[Len(new)] = Items(t) /\ new[Len(new) - 1] = Items(s)
  <2>1. new[c + 1] = Items(t)
    BY <1>1, <1>2, <1>3, <1>7
  <2>2. new[c - 1 + 1] = Items(s)
    BY <1>1, <1>2, <1>3, <1>7
  <2>3. Len(new) = c + 1 /\ Len(new) - 1 = c - 1 + 1
    BY <1>1, <1>7
  <2>4. QED
    BY <2>1, <2>2, <2>3
<1>11. \A k \in 1 .. Len(old) - 2 : new[k] = old[k]
  <2> SUFFICES ASSUME NEW k \in 1 .. Len(old) - 2
               PROVE  new[k] = old[k]
    OBVIOUS
  <2>1. k - 1 \in Level(ip) /\ k - 1 # c /\ k - 1 # c - 1 /\ k - 1 + 1 = k
    BY <1>1, <1>6
  <2>2. At(ip, k - 1) # a /\ At(ip, k - 1) # b
    BY <1>1, <2>1 DEF PlacesInv, Places
  <2>3. heap'[At(ip, k - 1)] = heap[At(ip, k - 1)]
    BY <1>1, <1>3, <2>1, <2>2
  <2>4. QED
    BY <1>6, <1>7, <2>1, <2>3
<1>12. new = f \o <<Items(s), Items(t)>>
  <2>1. Len(new) = Len(old) /\ Len(old) > 1
    BY <1>1, <1>6, <1>7
  <2>2. new = f \o <<new[Len(new) - 1], new[Len(new)]>>
    BY <1>6, <1>7, <1>11, <2>1, TopTwoReplaced DEF f
  <2>3. QED
    BY <1>10, <2>2
<1>13. QED
  BY <1>1, <1>4, <1>5, <1>12, OneRow DEF new, f, old

(* No cells are moved when there are none to move.                         *)
LEMMA NoCells ==
  ASSUME NEW p \in Seq(Int), NEW q \in Seq(Int), NEW n \in Int, n <= 0
  PROVE  /\ Abstract!TopMost(q, n) = <<>> /\ Abstract!Zeros(n) = <<>>
         /\ p \o Reverse(Abstract!TopMost(q, n)) = p
         /\ p \o Abstract!TopMost(q, n) = p
         /\ Abstract!Drop(p, n) = p
<1>1. 1 .. n = {}
  OBVIOUS
<1>2. Abstract!TopMost(q, n) = <<>> /\ Abstract!Zeros(n) = <<>>
  BY <1>1 DEF Abstract!TopMost, Abstract!Zeros
<1> DEFINE e == Reverse(<<>>)
<1>3. <<>> \in Seq(Int) /\ Len(<<>>) = 0 /\ e = Reverse(<<>>)
  OBVIOUS
<1> HIDE DEF e
<1>4. e \in Seq(Int) /\ Len(e) = 0
  BY <1>3, ReverseOf
<1>5. e = <<>>
  BY <1>4
<1>6. p \o <<>> = p
  OBVIOUS
<1>7. Abstract!Drop(p, n) = p
  BY DEF Abstract!Drop
<1>8. QED
  BY <1>2, <1>5, <1>6, <1>7 DEF e

(* What is found in a stack-stack of more than one stack.                  *)
LEMMA TwoFound ==
  ASSUME PlacesInv, NEW ip \in Alive, stackstack[ip].current # 0
  PROVE  /\ stackstack[ip].current - 1 \in Level(ip)
         /\ SOSS(ip) = At(ip, stackstack[ip].current - 1)
         /\ TOSS(ip) = At(ip, stackstack[ip].current)
         /\ stack[ip] = TOSS(ip) /\ TOSS(ip) # SOSS(ip)
         /\ TOSS(ip) \in Address /\ SOSS(ip) \in Address
         /\ WellFormed(heap[SOSS(ip)]) /\ WellFormed(heap[TOSS(ip)])
         /\ Len(AllItems(ip)) > 1
         /\ Abstract!Last(AllItems(ip)) = Items(heap[TOSS(ip)])
         /\ Abstract!Last(Abstract!Front(AllItems(ip))) = Items(heap[SOSS(ip)])
<1> DEFINE c == stackstack[ip].current
<1>1. c \in Nat /\ c \in Level(ip) /\ c - 1 \in Level(ip) /\ c # c - 1
  BY Found DEF Level
<1>2. SOSS(ip) = At(ip, c - 1) /\ TOSS(ip) = At(ip, c) /\ stack[ip] = TOSS(ip)
  BY Found DEF SOSS, TOSS, At
<1>3. /\ At(ip, c) \in Address /\ At(ip, c - 1) \in Address
      /\ WellFormed(heap[At(ip, c)]) /\ WellFormed(heap[At(ip, c - 1)])
  BY <1>1, Found
<1>4. At(ip, c) # At(ip, c - 1)
  BY <1>1 DEF PlacesInv, Places
<1> DEFINE q == AllItems(ip)
<1>5. /\ q \in Seq(Seq(Int)) /\ Len(q) = c + 1
      /\ \A n \in Level(ip) : q[n + 1] = Items(heap[At(ip, n)])
      /\ Abstract!Last(q) = Items(heap[stack[ip]])
  BY RowsFound
<1> HIDE DEF q
<1>6. Len(q) > 1
  BY <1>1, <1>5
<1>7. Abstract!Last(Abstract!Front(q)) = q[Len(q) - 1]
  BY <1>5, <1>6, BelowTheTop
<1>8. q[c - 1 + 1] = Items(heap[At(ip, c - 1)])
  BY <1>1, <1>5
<1>9. Len(q) - 1 = c - 1 + 1
  BY <1>1, <1>5
<1>10. QED
  BY <1>1, <1>2, <1>3, <1>4, <1>5, <1>6, <1>7, <1>8, <1>9 DEF q

(* What u leaves on the two stacks when it moves count cells up, or down   *)
(* when count is negative.                                                 *)
Shared(both, top, below, count) ==
  /\ WellFormed(both[1])
  /\ Items(both[1]) = Abstract!Drop(Items(top), -count)
                        \o Reverse(Abstract!TopMost(Items(below), count))
  /\ WellFormed(both[2])
  /\ Items(both[2]) = Abstract!Drop(Items(below), count)
                        \o Reverse(Abstract!TopMost(Items(top), -count))

(* u with a positive count.                                                *)
LEMMA MovedUp ==
  ASSUME NEW top, WellFormed(top), NEW below, WellFormed(below), NEW count \in Nat,
         NEW both, both = Moved(top, below, count)
  PROVE  Shared(both, top, below, count)
<1>1. BothMoved(both, top, below, count)
  BY MovedOver
<1> DEFINE n == -count
<1>2. n \in Int /\ n <= 0
  OBVIOUS
<1> HIDE DEF n
<1>3. Items(top) \in Seq(Int) /\ Items(both[2]) \in Seq(Int)
  BY <1>1, ItemsOf DEF BothMoved
<1>4. Abstract!Drop(Items(top), n) = Items(top)
  BY <1>2, <1>3, NoCells
<1>5. Items(both[2]) \o Reverse(Abstract!TopMost(Items(top), n)) = Items(both[2])
  BY <1>2, <1>3, NoCells
<1>6. QED
  BY <1>1, <1>4, <1>5 DEF n, Shared, BothMoved

(* u with a negative count, or none: the other way.                        *)
LEMMA MovedDown ==
  ASSUME NEW top, WellFormed(top), NEW below, WellFormed(below), NEW count \in Int,
         NEW n \in Nat, n = -count,
         NEW both, both = Reverse(Moved(below, top, n))
  PROVE  Shared(both, top, below, count)
<1> DEFINE m == Moved(below, top, n)
<1>1. m = Moved(below, top, n) /\ both = Reverse(m) /\ count <= 0
  OBVIOUS
<1> HIDE DEF m
<1>2. BothMoved(m, below, top, n)
  <2>1. m = Moved(below, top, n)
    BY <1>1
  <2>2. QED
    BY <2>1, MovedOver
<1>3. both[1] = m[2] /\ both[2] = m[1]
  <2>1. m = <<m[1], m[2]>>
    BY <1>2 DEF BothMoved
  <2>2. Len(m) = 2 /\ Reverse(m) = [k \in 1 .. Len(m) |-> m[(Len(m) - k) + 1]]
    BY <2>1 DEF Reverse
  <2>3. QED
    BY <1>1, <2>2
<1>4. Items(below) \in Seq(Int) /\ Items(m[2]) \in Seq(Int)
  BY <1>2, ItemsOf DEF BothMoved
<1>5. Abstract!Drop(Items(below), count) = Items(below)
  BY <1>1, <1>4, NoCells
<1>6. Items(m[2]) \o Reverse(Abstract!TopMost(Items(below), count)) = Items(m[2])
  BY <1>1, <1>4, NoCells
<1>7. QED
  BY <1>2, <1>3, <1>5, <1>6 DEF Shared, BothMoved

(* u                                                                       *)
LEMMA Transferred ==
  ASSUME PlacesInv, NEW ip \in Alive, Transfer(ip)
  PROVE  PlacesInv' /\ Abstract!Transfer(ip)
<1> DEFINE count == stack_peek(heap[stack[ip]])
           top   == AfterPop(heap[stack[ip]])
           below == heap[SOSS(ip)]
           both  == IF count > 0 THEN Moved(top, below, count)
                    ELSE Reverse(Moved(below, top, -count))
           all   == [jp \in IP |-> AllItems(jp)]
           i     == Items(top)
           j     == Items(below)
<1>1. stackstack[ip].current # 0
  BY DEF Transfer
<1>2. /\ WellFormed(heap[stack[ip]]) /\ WellFormed(below)
      /\ stack[ip] = TOSS(ip) /\ stack[ip] \in Address
      /\ Len(AllItems(ip)) > 1
      /\ Abstract!Last(AllItems(ip)) = Items(heap[stack[ip]])
      /\ Abstract!Last(Abstract!Front(AllItems(ip))) = j
  BY <1>1, TwoFound
<1>3. /\ count \in Int /\ count = Abstract!Top(Items(heap[stack[ip]]))
      /\ WellFormed(top)
      /\ i = Abstract!Drop(Items(heap[stack[ip]]), 1)
  BY <1>2, Peeks, Popped
<1>4. [heap EXCEPT ![stack[ip]] = AfterPop(@)][TOSS(ip)] = top
  BY <1>2 DEF PlacesInv, Arrays
<1>5. /\ heap' = [heap EXCEPT ![TOSS(ip)] = both[1], ![SOSS(ip)] = both[2]]
      /\ UNCHANGED <<stackstack, stack, storageOffset>>
  <2> DEFINE found   == [heap EXCEPT ![stack[ip]] = AfterPop(@)][TOSS(ip)]
             Both(t) == IF count > 0 THEN Moved(t, below, count)
                        ELSE Reverse(Moved(below, t, -count))
  <2>1. /\ heap' = [heap EXCEPT ![TOSS(ip)] = Both(found)[1],
                                ![SOSS(ip)] = Both(found)[2]]
        /\ UNCHANGED <<stackstack, stack, storageOffset>>
    BY DEF Transfer
  <2>2. both = Both(top) /\ found = top
    BY <1>4
  <2> HIDE DEF found, Both, both, top, below, count
  <2>3. QED
    BY <2>1, <2>2
<1>6. i \in Seq(Int) /\ j \in Seq(Int)
  BY <1>2, <1>3, ItemsOf
<1> HIDE DEF i, j, top, below, count, both
<1>7. /\ WellFormed(both[1])
      /\ Items(both[1]) = Abstract!Drop(i, -count)
                            \o Reverse(Abstract!TopMost(j, count))
      /\ WellFormed(both[2])
      /\ Items(both[2]) = Abstract!Drop(j, count)
                            \o Reverse(Abstract!TopMost(i, -count))
  <2>1. WellFormed(top) /\ WellFormed(below) /\ count \in Int
    BY <1>2, <1>3
  <2>2. CASE count > 0
    <3>1. both = Moved(top, below, count) /\ count \in Nat
      BY <2>1, <2>2 DEF both
    <3>2. Shared(both, top, below, count)
      BY <2>1, <3>1, MovedUp
    <3>3. QED
      BY <3>2 DEF Shared, i, j
  <2>3. CASE ~(count > 0)
    <3> DEFINE n == -count
    <3>1. n \in Nat /\ n = -count /\ both = Reverse(Moved(below, top, n))
      BY <2>1, <2>3 DEF both
    <3> HIDE DEF n
    <3>2. Shared(both, top, below, count)
      BY <2>1, <3>1, MovedDown
    <3>3. QED
      BY <3>2 DEF Shared, i, j
  <2>4. QED
    BY <2>2, <2>3
<1>8. /\ PlacesInv'
      /\ all' = [all EXCEPT ![ip] =
                   Abstract!Front(Abstract!Front(AllItems(ip)))
                     \o <<Items(both[2]), Items(both[1])>>]
  <2>1. OnTwo(ip, both[2], both[1])
    BY <1>5 DEF OnTwo
  <2>2. QED
    BY <1>1, <1>7, <2>1, TwoReplaced
<1>9. all[ip] = AllItems(ip)
  BY DEF Alive
<1>10. storageOffset' = storageOffset
  BY <1>5
<1>11. Abstract!Transfer(ip)
  <2> HIDE DEF all
  <2>1. /\ all' = [all EXCEPT ![ip] =
                   Abstract!Front(Abstract!Front(all[ip]))
                     \o <<Items(both[2]), Items(both[1])>>]
        /\ count = Abstract!Top(Abstract!Last(all[ip]))
        /\ i = Abstract!Drop(Abstract!Last(all[ip]), 1)
        /\ j = Abstract!Last(Abstract!Front(all[ip]))
    BY <1>2, <1>3, <1>8, <1>9
  <2>2. QED
    BY <1>7, <1>10, <2>1 DEF Abstract!Transfer, Reverse, Abstract!Reverse, all
<1>12. QED
  BY <1>8, <1>11

-----------------------------------------------------------------------------
(* Steps that change which stacks there are: those of one IP.              *)

(* The stacks of the others.                                               *)
Theirs(ip) == {a \in Address : \E jp \in Alive \ {ip} :
                                 \E n \in Level(jp) : At(jp, n) = a}

(* r takes the place of the stack-stack of ip and st that of its top, and  *)
(* the stacks of r are those allocated that are no other IP's.             *)
Change(ip, r, st) ==
  /\ heap' = [a \in Address |-> heap'[a]]
  /\ \A a \in Address : heap'[a] = Nothing \/ WellFormed(heap'[a])
  /\ stackstack' = [jp \in IP |-> IF jp = ip THEN r ELSE stackstack[jp]]
  /\ stack' = [jp \in IP |-> IF jp = ip THEN st ELSE stack[jp]]
  /\ storageOffset' \in [IP -> Int \X Int]
  /\ r # Nothing =>
       /\ Layout(r)
       /\ st = r.stacks[r.current]
       /\ \A m, n \in 0 .. r.current : r.stacks[m] = r.stacks[n] => m = n
       /\ \A n \in 0 .. r.current : /\ r.stacks[n] \notin Theirs(ip)
                                    /\ heap'[r.stacks[n]] # Nothing
  /\ \A a \in Theirs(ip) : heap'[a] # Nothing
  /\ \A a \in Address \ Theirs(ip) : heap'[a] # Nothing =>
       r # Nothing /\ \E n \in 0 .. r.current : r.stacks[n] = a

(* A stack-stack that comes, goes or changes keeps all in their places.    *)
LEMMA OneChanged ==
  ASSUME PlacesInv, NEW ip \in IP, NEW r, NEW st, Change(ip, r, st)
  PROVE  PlacesInv'
<1> USE DEF Change
<1>0. /\ stackstack'[ip] = r /\ stack'[ip] = st
      /\ \A jp \in IP \ {ip} : /\ stackstack'[jp] = stackstack[jp]
                               /\ stack'[jp] = stack[jp]
  OBVIOUS
<1>1. \A jp \in IP \ {ip} : /\ jp \in Alive' <=> jp \in Alive
                            /\ Level(jp)' = Level(jp)
                            /\ \A n : At(jp, n)' = At(jp, n)
  BY <1>0 DEF Alive, Level, At
<1>2. /\ ip \in Alive' <=> r # Nothing
      /\ Level(ip)' = 0 .. r.current
      /\ \A n : At(ip, n)' = r.stacks[n]
  BY <1>0 DEF Alive, Level, At
<1>3. \A jp \in Alive' : jp = ip \/ (jp \in IP \ {ip} /\ jp \in Alive)
  BY <1>1 DEF Alive
<1>4. \A jp \in Alive \ {ip} : /\ jp \in IP \ {ip} /\ jp \in Alive'
                               /\ \A n \in Level(jp) : At(jp, n) \in Theirs(ip)
  <2>1. \A jp \in Alive : jp \in IP /\ \A n \in Level(jp) : At(jp, n) \in Address
    BY Found
  <2>2. QED
    BY <1>1, <2>1 DEF Theirs
<1>5. Arrays'
  <2>1. stackstack' = [jp \in IP |-> stackstack'[jp]]
    OBVIOUS
  <2>2. stack' = [jp \in IP |-> stack'[jp]]
    OBVIOUS
  <2>3. \A jp \in IP : stackstack'[jp] = Nothing \/ Layout(stackstack'[jp])
    BY <1>0 DEF PlacesInv, Arrays
  <2>4. QED
    BY <2>1, <2>2, <2>3 DEF Arrays
<1>6. \A jp \in Alive' : stack'[jp] = At(jp, stackstack[jp].current)'
  <2>1. \A jp \in Alive : stack[jp] = At(jp, stackstack[jp].current)
    BY DEF PlacesInv, Places
  <2>2. QED
    BY <1>0, <1>2, <1>3, <2>1 DEF At
<1>7. \A jp \in Alive' : \A n \in Level(jp)' : heap'[At(jp, n)'] # Nothing
  <2> SUFFICES ASSUME NEW jp \in Alive', NEW n \in Level(jp)'
               PROVE  heap'[At(jp, n)'] # Nothing
    OBVIOUS
  <2>1. CASE jp = ip
    <3>1. ip \in Alive' /\ n \in Level(ip)'
      BY <2>1
    <3>2. r # Nothing /\ n \in 0 .. r.current
      BY <1>2, <3>1
    <3>3. heap'[r.stacks[n]] # Nothing
      BY <3>2
    <3>4. At(jp, n)' = r.stacks[n]
      BY <1>0, <2>1 DEF At
    <3>5. QED
      BY <3>3, <3>4
  <2>2. CASE jp # ip
    <3>1. n \in Level(jp) /\ At(jp, n)' = At(jp, n) /\ At(jp, n) \in Theirs(ip)
      BY <1>1, <1>3, <1>4, <2>2
    <3>2. QED
      BY <3>1
  <2>3. QED
    BY <2>1, <2>2
<1>8. \A jp, kp \in Alive' : \A m \in Level(jp)' : \A n \in Level(kp)' :
        At(jp, m)' = At(kp, n)' => jp = kp /\ m = n
  <2> SUFFICES ASSUME NEW jp \in Alive', NEW kp \in Alive',
                      NEW m \in Level(jp)', NEW n \in Level(kp)',
                      At(jp, m)' = At(kp, n)'
               PROVE  jp = kp /\ m = n
    OBVIOUS
  <2>0. r # Nothing =>
          /\ \A k, l \in 0 .. r.current : r.stacks[k] = r.stacks[l] => k = l
          /\ \A k \in 0 .. r.current : r.stacks[k] \notin Theirs(ip)
    OBVIOUS
  <2> HIDE DEF Change
  <2>a. jp = ip => /\ r # Nothing /\ m \in 0 .. r.current
                   /\ At(jp, m)' = r.stacks[m]
    BY <1>2
  <2>b. kp = ip => /\ r # Nothing /\ n \in 0 .. r.current
                   /\ At(kp, n)' = r.stacks[n]
    BY <1>2
  <2>c. jp # ip => At(jp, m)' \in Theirs(ip)
    BY <1>1, <1>3, <1>4
  <2>d. kp # ip => At(kp, n)' \in Theirs(ip)
    BY <1>1, <1>3, <1>4
  <2>1. CASE jp = ip /\ kp = ip
    BY <2>0, <2>a, <2>b, <2>1
  <2>2. CASE jp = ip /\ kp # ip
    BY <2>0, <2>a, <2>d, <2>2
  <2>3. CASE jp # ip /\ kp = ip
    BY <2>0, <2>b, <2>c, <2>3
  <2>4. CASE jp # ip /\ kp # ip
    BY <1>1, <1>3, <2>4 DEF PlacesInv, Places
  <2>5. QED
    BY <2>1, <2>2, <2>3, <2>4
<1>9. \A a \in Address : heap'[a] # Nothing =>
        \E jp \in Alive' : \E n \in Level(jp)' : At(jp, n)' = a
  <2> SUFFICES ASSUME NEW a \in Address, heap'[a] # Nothing
               PROVE  \E jp \in Alive' : \E n \in Level(jp)' : At(jp, n)' = a
    OBVIOUS
  <2>1. CASE a \in Theirs(ip)
    <3>1. PICK jp \in Alive \ {ip} : \E n \in Level(jp) : At(jp, n) = a
      BY <2>1 DEF Theirs
    <3>2. QED
      BY <1>1, <1>4, <3>1
  <2>2. CASE a \notin Theirs(ip)
    <3>1. ip \in Alive' /\ \E n \in 0 .. r.current : r.stacks[n] = a
      BY <1>2, <2>2
    <3>2. PICK n \in 0 .. r.current : r.stacks[n] = a
      BY <3>1
    <3>3. n \in Level(ip)' /\ At(ip, n)' = a
      BY <1>2, <3>2
    <3>4. QED
      BY <3>1, <3>3
  <2>3. QED
    BY <2>1, <2>2
<1>10. Places'
  BY <1>6, <1>7, <1>8, <1>9 DEF Places
<1>11. QED
  BY <1>5, <1>10 DEF PlacesInv

(* The stacks of ip and those of the others are all there are.             *)
LEMMA MineOrTheirs ==
  ASSUME PlacesInv, NEW ip \in Alive
  PROVE  /\ \A n \in Level(ip) : At(ip, n) \notin Theirs(ip)
         /\ \A a \in Theirs(ip) : a \in Address /\ heap[a] # Nothing
         /\ \A a \in Address \ Theirs(ip) : heap[a] # Nothing =>
              \E n \in Level(ip) : At(ip, n) = a
BY DEF PlacesInv, Places, Theirs

(* What a stack-stack is made of is all there is to it.                    *)
LEMMA LayoutFields ==
  ASSUME NEW size, NEW current, NEW stacks,
         NEW t \in [size : {size}, current : {current}, stacks : {stacks}]
  PROVE  /\ t.size = size /\ t.current = current /\ t.stacks = stacks
         /\ t = [size |-> t.size, current |-> t.current, stacks |-> t.stacks]
         /\ t # Nothing
<1>1. DOMAIN t = {"size", "current", "stacks"}
  OBVIOUS
<1>2. DOMAIN Nothing = {}
  BY DEF Nothing
<1>3. t # Nothing
  BY <1>1, <1>2
<1>4. QED
  BY <1>3

(* An array with one item written.                                         *)
LEMMA ArrayWith ==
  ASSUME NEW size, NEW p, p = [n \in 0 .. size - 1 |-> p[n]],
         NEW k \in 0 .. size - 1, NEW v, NEW q, q = [p EXCEPT ![k] = v]
  PROVE  /\ q = [n \in 0 .. size - 1 |-> q[n]] /\ q[k] = v
         /\ \A n \in 0 .. size - 1 : n # k => q[n] = p[n]
OBVIOUS

(* The array of a stack-stack with one more, one less, or other stacks.    *)
Grown(r)     == IF r.size - 1 = r.current THEN r.size + StackChunk ELSE r.size
Deeper(r, a) == [size |-> Grown(r), current |-> r.current + 1,
                 stacks |-> [Resized(r.stacks, Grown(r))
                               EXCEPT ![r.current + 1] = a]]

(* stackstack_begin: one more pointer, with room made for it.              *)
LEMMA Opened ==
  ASSUME NEW r, Layout(r), NEW a \in Address, NEW t, t = Deeper(r, a)
  PROVE  /\ Layout(t) /\ t.current = r.current + 1 /\ t # Nothing
         /\ \A n \in 0 .. r.current : t.stacks[n] = r.stacks[n]
         /\ t.stacks[r.current + 1] = a
<1> DEFINE size   == Grown(r)
           longer == Resized(r.stacks, size)
           array  == [longer EXCEPT ![r.current + 1] = a]
<1>1. /\ r.size \in Nat /\ r.current \in 0 .. r.size - 1
      /\ r.stacks = [n \in 0 .. r.size - 1 |-> r.stacks[n]]
      /\ \A n \in 0 .. r.current : r.stacks[n] \in Address
  BY DEF Layout
<1>2. size \in Nat /\ r.current + 1 \in 0 .. size - 1 /\ r.size <= size
  <2>1. CASE r.size - 1 = r.current
    <3>1. size = r.size + StackChunk
      BY <2>1 DEF Grown
    <3>2. QED
      BY <1>1, <2>1, <3>1, SizeAssumption
  <2>2. CASE r.size - 1 # r.current
    <3>1. size = r.size
      BY <2>2 DEF Grown
    <3>2. QED
      BY <1>1, <2>2, <3>1
  <2>3. QED
    BY <2>1, <2>2
<1>3. /\ longer = [n \in 0 .. size - 1 |-> longer[n]]
      /\ \A n \in 0 .. r.current : longer[n] = r.stacks[n]
  <2>1. longer = [n \in 0 .. size - 1 |-> IF n \in DOMAIN r.stacks
                                            THEN r.stacks[n] ELSE JUNK]
    BY DEF Resized
  <2>2. DOMAIN r.stacks = 0 .. r.size - 1
    BY <1>1
  <2> HIDE DEF longer
  <2>3. \A n \in 0 .. r.current : n \in 0 .. size - 1 /\ n \in 0 .. r.size - 1
    BY <1>1, <1>2
  <2>4. longer = [n \in 0 .. size - 1 |-> longer[n]]
    BY <2>1
  <2>5. \A n \in 0 .. r.current : longer[n] = r.stacks[n]
    BY <2>1, <2>2, <2>3
  <2>6. QED
    BY <2>4, <2>5
<1>4. t \in [size : {size}, current : {r.current + 1}, stacks : {array}]
  BY DEF Deeper
<1>5. array = [longer EXCEPT ![r.current + 1] = a]
  OBVIOUS
<1> HIDE DEF array, longer, size
<1>6. /\ t.size = size /\ t.current = r.current + 1 /\ t.stacks = array
      /\ t = [size |-> t.size, current |-> t.current, stacks |-> t.stacks]
      /\ t # Nothing
  BY <1>4, LayoutFields
<1> DEFINE c == r.current + 1
<1>7. c \in 0 .. size - 1 /\ array = [longer EXCEPT ![c] = a]
  BY <1>2, <1>5
<1> HIDE DEF c
<1>8. /\ array = [n \in 0 .. size - 1 |-> array[n]] /\ array[c] = a
      /\ \A n \in 0 .. size - 1 : n # c => array[n] = longer[n]
  BY <1>3, <1>7, ArrayWith
<1>9. \A n \in 0 .. r.current : array[n] = r.stacks[n]
  <2>1. \A n \in 0 .. r.current : n \in 0 .. size - 1 /\ n # c
    BY <1>1, <1>2 DEF c
  <2>2. QED
    BY <1>3, <1>8, <2>1
<1>10. \A n \in 0 .. c : array[n] \in Address
  <2>1. \A n \in 0 .. c : n \in 0 .. r.current \/ n = c
    BY <1>1 DEF c
  <2>2. QED
    BY <1>1, <1>8, <1>9, <2>1
<1>11. t.size \in Nat /\ t.current = c /\ t.current \in 0 .. t.size - 1
  BY <1>2, <1>6 DEF c
<1>12. t.stacks = [n \in 0 .. t.size - 1 |-> t.stacks[n]]
  BY <1>6, <1>8
<1>13. \A n \in 0 .. t.current : t.stacks[n] \in Address
  BY <1>6, <1>10, <1>11
<1>14. Layout(t)
  BY <1>6, <1>11, <1>12, <1>13 DEF Layout
<1>15. QED
  BY <1>6, <1>8, <1>9, <1>14 DEF c

(* stackstack_end: one pointer less.                                       *)
LEMMA Closed ==
  ASSUME NEW r, Layout(r), r.current # 0,
         NEW array, array = [r.stacks EXCEPT ![r.current] = NULL],
         NEW t \in [size : {r.size}, current : {r.current - 1}, stacks : {array}]
  PROVE  /\ Layout(t) /\ t.current = r.current - 1 /\ t # Nothing
         /\ \A n \in 0 .. r.current - 1 : t.stacks[n] = r.stacks[n]
<1>1. /\ r.size \in Nat /\ r.current \in 0 .. r.size - 1
      /\ r.stacks = [n \in 0 .. r.size - 1 |-> r.stacks[n]]
      /\ \A n \in 0 .. r.current : r.stacks[n] \in Address
  BY DEF Layout
<1>2. /\ t.size = r.size /\ t.current = r.current - 1 /\ t.stacks = array
      /\ t = [size |-> t.size, current |-> t.current, stacks |-> t.stacks]
      /\ t # Nothing
  BY LayoutFields
<1>3. /\ array = [n \in 0 .. r.size - 1 |-> array[n]]
      /\ \A n \in 0 .. r.size - 1 : n # r.current => array[n] = r.stacks[n]
  BY <1>1, ArrayWith
<1>4. \A n \in 0 .. r.current - 1 :
        /\ n \in 0 .. r.size - 1 /\ n # r.current /\ n \in 0 .. r.current
  BY <1>1
<1>5. \A n \in 0 .. r.current - 1 : array[n] = r.stacks[n]
  BY <1>3, <1>4
<1>6. t.size \in Nat /\ t.current \in 0 .. t.size - 1
  BY <1>1, <1>2
<1>7. \A n \in 0 .. t.current : t.stacks[n] \in Address
  BY <1>1, <1>2, <1>4, <1>5
<1>8. t.stacks = [n \in 0 .. t.size - 1 |-> t.stacks[n]]
  BY <1>2, <1>3
<1>9. Layout(t)
  BY <1>2, <1>6, <1>7, <1>8 DEF Layout
<1>10. QED
  BY <1>2, <1>5, <1>9

(* stackstack_duplicate: pointers of its own to as many stacks.            *)
LEMMA Copied ==
  ASSUME NEW r, Layout(r), NEW fresh, \A n \in 0 .. r.current : fresh[n] \in Address,
         NEW array, array = [n \in 0 .. r.size - 1 |->
                               IF n <= r.current THEN fresh[n] ELSE JUNK],
         NEW t \in [size : {r.size}, current : {r.current}, stacks : {array}]
  PROVE  /\ Layout(t) /\ t.current = r.current /\ t # Nothing
         /\ \A n \in 0 .. r.current : t.stacks[n] = fresh[n]
<1>1. r.size \in Nat /\ r.current \in 0 .. r.size - 1
  BY DEF Layout
<1>2. /\ array = [n \in 0 .. r.size - 1 |-> array[n]]
      /\ \A n \in 0 .. r.current : array[n] = fresh[n]
      /\ \A n \in 0 .. r.current : array[n] \in Address
  BY <1>1
<1>3. /\ t.size = r.size /\ t.current = r.current /\ t.stacks = array
      /\ t = [size |-> t.size, current |-> t.current, stacks |-> t.stacks]
      /\ t # Nothing
  BY LayoutFields
<1>4. Layout(t)
  BY <1>1, <1>2, <1>3 DEF Layout
<1>5. QED
  BY <1>2, <1>3, <1>4

-----------------------------------------------------------------------------
(* {                                                                       *)

(* malloc finds the lowest free address.                                   *)
LEMMA FreshFound ==
  ASSUME Free # {}
  PROVE  Fresh \in Address /\ heap[Fresh] = Nothing
<1>1. Free \in SUBSET Nat
  BY SizeAssumption DEF Free, Address
<1>2. \E a \in Free : \A f \in Free : a <= f
  BY <1>1, Common!Least
<1>3. Fresh \in Free
  BY <1>2 DEF Fresh
<1>4. QED
  BY <1>3 DEF Free

(* The new stack has the cells that move.                                  *)
Upper(below, count) ==
  LET new == stack_prealloc_space(stack_create, Magnitude(count) + 2)
  IN  IF count > 0 THEN stack_bulk_copy(new, below, count) ELSE new

(* { moves cells to the new stack in order, with zeros for those missing.  *)
LEMMA NewTop ==
  ASSUME NEW below, WellFormed(below), NEW count \in Int,
         NEW t, t = Upper(below, count)
  PROVE  WellFormed(t) /\ Items(t) = Abstract!TopMost(Items(below), count)
<1> DEFINE room == Magnitude(count) + 2
           new  == stack_prealloc_space(stack_create, Magnitude(count) + 2)
<1>0. t = IF count > 0 THEN stack_bulk_copy(new, below, count) ELSE new
  BY DEF Upper
<1>1. room \in Nat
  BY DEF Magnitude
<1>2. new = stack_prealloc_space(stack_create, room)
  OBVIOUS
<1> HIDE DEF room, new
<1>3. WellFormed(new) /\ Items(new) = <<>>
  <2>1. WellFormed(stack_create) /\ Items(stack_create) = <<>>
    BY NewStack
  <2>2. WellFormed(new) /\ Items(new) = Items(stack_create)
    BY <1>1, <1>2, <2>1, SpaceFor
  <2>3. QED
    BY <2>1, <2>2
<1> DEFINE i == Items(below)
           m == Abstract!TopMost(i, count)
<1>4. i \in Seq(Int)
  BY ItemsOf
<1>5. CASE count > 0
  <2> DEFINE w == stack_bulk_copy(new, below, count)
  <2>1. t = w /\ w = stack_bulk_copy(new, below, count) /\ count \in Nat
    BY <1>0, <1>5
  <2> HIDE DEF w, m, i
  <2>2. WellFormed(t) /\ Items(t) = Items(new) \o m
    <3>1. WellFormed(new) /\ count \in Nat /\ w = stack_bulk_copy(new, below, count)
      BY <1>3, <2>1
    <3>2. WellFormed(w) /\ Items(w) = Items(new) \o Abstract!TopMost(Items(below), count)
      BY <3>1, BulkCopied
    <3>3. QED
      BY <2>1, <3>2 DEF m, i
  <2>3. m \in Seq(Int)
    <3>1. m = Abstract!TopMost(i, count)
      BY DEF m
    <3>2. QED
      BY <1>4, <3>1, TopMostOf
  <2>4. <<>> \o m = m
    BY <2>3
  <2>5. QED
    BY <1>3, <2>2, <2>4 DEF m, i
<1>6. CASE ~(count > 0)
  <2>1. t = new /\ count <= 0
    BY <1>0, <1>6
  <2> HIDE DEF i
  <2>2. m = <<>>
    BY <1>4, <2>1, NoCells
  <2>3. QED
    BY <1>3, <2>1, <2>2 DEF i
<1>7. QED
  BY <1>5, <1>6

(* The stack below has lost them, or won zeros, and has the storage offset.*)
Under(below, count) ==
  IF count < 0 THEN stack_zero_fill(below, -count)
  ELSE IF count > 0 THEN stack_discard(below, count)
  ELSE below

Lower(below, count, o) ==
  stack_push(stack_push(Under(below, count), o[1]), o[2])

OffsetOnTop(t, below, count, o) ==
  /\ WellFormed(t)
  /\ Items(t) = Abstract!Drop(Items(below), count) \o Abstract!Zeros(-count) \o o

(* { leaves the cells it did not move, or zeros, and the storage offset.   *)
LEMMA OffsetPushed ==
  ASSUME NEW below, WellFormed(below), NEW count \in Int, NEW o \in Int \X Int,
         NEW t, t = Lower(below, count, o)
  PROVE  OffsetOnTop(t, below, count, o)
<1> DEFINE i == Items(below)
           u == Abstract!Drop(i, count) \o Abstract!Zeros(-count)
           n == -count
           under == Under(below, count)
<1>1. i \in Seq(Int) /\ n \in Int
  BY ItemsOf
<1>2. Abstract!Drop(i, count) \in Seq(Int)
  <2> DEFINE d == Abstract!Drop(i, count)
  <2>1. d = Abstract!Drop(i, count)
    OBVIOUS
  <2> HIDE DEF d, i
  <2>2. d \in Seq(Int)
    BY <1>1, <2>1, DropOf
  <2>3. QED
    BY <2>2 DEF d
<1>3. WellFormed(under) /\ Items(under) = u
  <2>1. CASE count < 0
    <3>1. under = stack_zero_fill(below, n) /\ n \in Nat /\ count <= 0
      BY <2>1 DEF Under
    <3> HIDE DEF n, under
    <3>2. WellFormed(under) /\ Items(under) = i \o Abstract!Zeros(n)
      BY <3>1, ZeroFilled
    <3> HIDE DEF i
    <3>3. Abstract!Drop(i, count) = i
      BY <1>1, <3>1, NoCells
    <3>4. QED
      BY <3>2, <3>3 DEF n
  <2>2. CASE count >= 0
    <3>1. n <= 0
      BY <2>2
    <3> HIDE DEF n
    <3>2. Abstract!Zeros(n) = <<>>
      BY <1>1, <3>1, NoCells
    <3>3. u = Abstract!Drop(i, count)
      <4> HIDE DEF i
      <4>1. QED
        BY <1>2, <3>2 DEF n
    <3>4. CASE count > 0
      <4>1. under = stack_discard(below, count) /\ count \in Nat
        BY <3>4 DEF Under
      <4>2. WellFormed(under) /\ Items(under) = Abstract!Drop(i, count)
        BY <4>1, Discards
      <4>3. QED
        BY <3>3, <4>2
    <3>5. CASE count = 0
      <4>1. under = below
        BY <3>5 DEF Under
      <4> HIDE DEF i
      <4>2. Abstract!Drop(i, count) = i
        BY <1>1, <3>5, NoCells
      <4>3. QED
        BY <3>3, <4>1, <4>2 DEF i
    <3>6. QED
      BY <2>2, <3>4, <3>5
  <2>3. QED
    BY <2>1, <2>2
<1> HIDE DEF u
<1>4. o[1] \in Int /\ o[2] \in Int /\ o = <<o[1], o[2]>>
  OBVIOUS
<1> DEFINE v == stack_push(under, o[1])
<1>5. v = stack_push(under, o[1]) /\ t = stack_push(v, o[2])
  BY DEF Lower
<1> HIDE DEF v, under
<1>6. WellFormed(v) /\ Items(v) = Append(u, o[1])
  BY <1>3, <1>4, <1>5, Pushes
<1>7. WellFormed(t) /\ Items(t) = Append(Append(u, o[1]), o[2])
  <2>1. WellFormed(v) /\ o[2] \in Int /\ t = stack_push(v, o[2])
    BY <1>4, <1>5, <1>6
  <2>2. WellFormed(t) /\ Items(t) = Append(Items(v), o[2])
    BY <2>1, Pushes
  <2>3. QED
    BY <1>6, <2>2
<1>8. u \in Seq(Int)
  BY <1>3, ItemsOf
<1>9. Append(Append(u, o[1]), o[2]) = u \o <<o[1], o[2]>>
  <2> DEFINE x == o[1]
             y == o[2]
  <2>1. x \in Int /\ y \in Int
    BY <1>4
  <2> HIDE DEF x, y
  <2>2. Append(Append(u, x), y) = u \o <<x, y>>
    <3> DEFINE r == Append(Append(u, x), y)
    <3>1. /\ r \in Seq(Int) /\ Len(r) = Len(u) + 2
          /\ \A k \in 1 .. Len(u) : r[k] = u[k]
          /\ r[Len(r) - 1] = x /\ r[Len(r)] = y
      BY <1>8, <2>1
    <3> HIDE DEF r
    <3>2. r = u \o <<r[Len(r) - 1], r[Len(r)]>>
      BY <1>8, <3>1, TwoOnTop
    <3>3. QED
      BY <3>1, <3>2 DEF r
  <2>3. QED
    BY <2>2 DEF x, y
<1>10. QED
  BY <1>4, <1>7, <1>9 DEF u, OffsetOnTop

BeginDone(ip, corner, a, upper, lower, t) ==
  /\ heap' = [heap EXCEPT ![a] = upper, ![TOSS(ip)] = lower]
  /\ stackstack' = [stackstack EXCEPT ![ip] = t]
  /\ stack' = [stack EXCEPT ![ip] = a]
  /\ storageOffset' = [storageOffset EXCEPT ![ip] = corner]

(* Where everything is afterwards.                                         *)
LEMMA BeginPlaces ==
  ASSUME PlacesInv, NEW ip \in Alive, NEW corner \in Corner,
         NEW a \in Address, heap[a] = Nothing,
         NEW upper, WellFormed(upper), NEW lower, WellFormed(lower),
         NEW t, t = Deeper(stackstack[ip], a),
         BeginDone(ip, corner, a, upper, lower, t)
  PROVE  /\ PlacesInv'
         /\ [jp \in IP |-> AllItems(jp)]'
              = [[jp \in IP |-> AllItems(jp)] EXCEPT ![ip] =
                   Abstract!Front(AllItems(ip)) \o <<Items(lower), Items(upper)>>]
<1> DEFINE b == TOSS(ip)
           r == stackstack[ip]
           c == stackstack[ip].current
<1>1. /\ ip \in IP /\ Layout(r) /\ c \in Level(ip) /\ c \in Nat
      /\ \A n \in Level(ip) : At(ip, n) \in Address
      /\ \A n \in Level(ip) : WellFormed(heap[At(ip, n)])
      /\ Level(ip) = 0 .. c /\ b = At(ip, c)
      /\ \A n : At(ip, n) = r.stacks[n]
  BY Found DEF Level, TOSS, At
<1>2. /\ b \in Address /\ heap[b] # Nothing /\ a # b
  BY <1>1, NotNothing
<1>3. /\ Layout(t) /\ t.current = c + 1 /\ t # Nothing
      /\ \A n \in 0 .. c : t.stacks[n] = At(ip, n)
      /\ t.stacks[c + 1] = a
  <2>1. /\ Layout(t) /\ t.current = r.current + 1 /\ t # Nothing
        /\ \A n \in 0 .. r.current : t.stacks[n] = r.stacks[n]
        /\ t.stacks[r.current + 1] = a
    BY <1>1, Opened
  <2>2. QED
    BY <1>1, <2>1
<1>4. /\ heap' = [d \in Address |-> heap'[d]]
      /\ \A d \in Address : heap'[d] = IF d = b THEN lower
                                       ELSE IF d = a THEN upper ELSE heap[d]
  BY <1>2 DEF PlacesInv, Arrays, BeginDone
<1>5. /\ stackstack' = [jp \in IP |-> IF jp = ip THEN t ELSE stackstack[jp]]
      /\ stack' = [jp \in IP |-> IF jp = ip THEN a ELSE stack[jp]]
      /\ storageOffset' \in [IP -> Int \X Int]
  BY <1>1, CellAssumption DEF PlacesInv, Arrays, BeginDone
<1> HIDE DEF b, r, c
<1>6. \A n \in 0 .. c + 1 : n \in 0 .. c \/ n = c + 1
  BY <1>1
<1>7. /\ \A n \in Level(ip) : At(ip, n) \notin Theirs(ip)
      /\ \A d \in Theirs(ip) : d \in Address /\ heap[d] # Nothing
      /\ \A d \in Address \ Theirs(ip) : heap[d] # Nothing =>
             \E n \in Level(ip) : At(ip, n) = d
  BY MineOrTheirs
<1>8. \A d \in Address : heap'[d] = Nothing \/ WellFormed(heap'[d])
  BY <1>4 DEF PlacesInv, Arrays
<1>9. heap'[a] = upper /\ heap'[b] = lower /\ upper # Nothing /\ lower # Nothing
  BY <1>2, <1>4, NotNothing
<1>10. \A d \in Address : heap[d] # Nothing => heap'[d] # Nothing
  BY <1>4, <1>9
<1>11. \A n \in 0 .. c : heap[At(ip, n)] # Nothing /\ At(ip, n) # a
  BY <1>1, NotNothing
<1>12. a = t.stacks[t.current]
  BY <1>3
<1>13. \A m, n \in 0 .. t.current : t.stacks[m] = t.stacks[n] => m = n
  <2>1. \A m, n \in Level(ip) : At(ip, m) = At(ip, n) => m = n
    BY DEF PlacesInv, Places
  <2>2. QED
    BY <1>1, <1>3, <1>6, <1>11, <2>1
<1>14. \A n \in 0 .. t.current : /\ t.stacks[n] \notin Theirs(ip)
                                 /\ heap'[t.stacks[n]] # Nothing
  <2>1. a \notin Theirs(ip)
    BY <1>7
  <2>2. QED
    BY <1>1, <1>3, <1>6, <1>7, <1>9, <1>10, <1>11, <2>1
<1>15. \A d \in Address \ Theirs(ip) : heap'[d] # Nothing =>
         \E n \in 0 .. t.current : t.stacks[n] = d
  <2> SUFFICES ASSUME NEW d \in Address \ Theirs(ip), heap'[d] # Nothing
               PROVE  \E n \in 0 .. t.current : t.stacks[n] = d
    OBVIOUS
  <2>1. c + 1 \in 0 .. t.current /\ \A n \in 0 .. c : n \in 0 .. t.current
    BY <1>1, <1>3
  <2>2. CASE d = a
    BY <1>3, <2>1, <2>2
  <2>3. CASE d # a
    <3>1. heap[d] # Nothing
      BY <1>2, <1>4, <2>3
    <3>2. PICK n \in Level(ip) : At(ip, n) = d
      BY <1>7, <3>1
    <3>3. QED
      BY <1>1, <1>3, <2>1, <3>2
  <2>4. QED
    BY <2>2, <2>3
<1>16. \A d \in Theirs(ip) : heap'[d] # Nothing
  BY <1>7, <1>10
<1>17. PlacesInv'
  <2>1. Change(ip, t, a)
    BY <1>3, <1>4, <1>5, <1>8, <1>12, <1>13, <1>14, <1>15, <1>16 DEF Change
  <2>2. ip \in IP
    BY <1>1
  <2>3. QED
    BY <2>1, <2>2, OneChanged
<1>18. \A jp \in IP \ {ip} : AllItems(jp)' = AllItems(jp)
  <2>1. b \in Owned(ip)
    BY <1>1 DEF Owned, r, c
  <2>2. \A d \in Address : heap[d] # Nothing /\ d \notin Owned(ip)
                             => heap'[d] = heap[d]
    BY <1>4, <2>1
  <2>3. \A jp \in IP \ {ip} : stackstack'[jp] = stackstack[jp]
    BY <1>5
  <2>4. QED
    BY <2>2, <2>3, OthersKept
<1> DEFINE old == AllItems(ip)
           new == AllItems(ip)'
<1>19. /\ old \in Seq(Seq(Int)) /\ Len(old) = c + 1 /\ Len(old) > 0
       /\ \A n \in Level(ip) : old[n + 1] = Items(heap[At(ip, n)])
  BY RowsFound DEF c
<1>20. /\ new \in Seq(Seq(Int)) /\ Len(new) = t.current + 1
       /\ \A n \in 0 .. t.current : new[n + 1] = Items(heap'[t.stacks[n]])
  <2>1. stackstack'[ip] = t /\ new = AllItems(ip)'
    BY <1>1, <1>5
  <2> HIDE DEF new
  <2>2. \A n \in 0 .. t.current : WellFormed(heap'[t.stacks[n]])
    BY <1>3, <1>8, <1>14 DEF Layout
  <2>3. ip \in IP /\ stackstack'[ip] = t /\ t # Nothing /\ Layout(t)
    BY <1>1, <1>3, <2>1
  <2>4. QED
    BY <2>1, <2>2, <2>3, RowsNext
<1> HIDE DEF old, new
<1>21. \A k \in 1 .. Len(old) - 1 : new[k] = old[k]
  <2> SUFFICES ASSUME NEW k \in 1 .. Len(old) - 1
               PROVE  new[k] = old[k]
    OBVIOUS
  <2>1. /\ k - 1 \in 0 .. c /\ k - 1 # c /\ k - 1 + 1 = k
        /\ k - 1 \in 0 .. t.current
    BY <1>1, <1>3, <1>19
  <2>2. At(ip, k - 1) # b
    BY <1>1, <2>1 DEF PlacesInv, Places
  <2>3. heap'[At(ip, k - 1)] = heap[At(ip, k - 1)]
    BY <1>1, <1>4, <1>11, <2>1, <2>2
  <2>4. t.stacks[k - 1] = At(ip, k - 1)
    BY <1>3, <2>1
  <2>5. new[k] = Items(heap'[t.stacks[k - 1]])
    BY <1>20, <2>1
  <2>6. old[k] = Items(heap[At(ip, k - 1)])
    BY <1>1, <1>19, <2>1
  <2>7. QED
    BY <2>3, <2>4, <2>5, <2>6
<1>22. new[Len(new) - 1] = Items(lower) /\ new[Len(new)] = Items(upper)
  <2>1. /\ c \in 0 .. t.current /\ c + 1 \in 0 .. t.current /\ c \in 0 .. c
        /\ Len(new) - 1 = c + 1 /\ Len(new) = c + 1 + 1
    BY <1>1, <1>3, <1>20
  <2>2. new[c + 1] = Items(heap'[t.stacks[c]])
    BY <1>20, <2>1
  <2>3. new[c + 1 + 1] = Items(heap'[t.stacks[c + 1]])
    BY <1>20, <2>1
  <2>4. t.stacks[c] = b /\ t.stacks[c + 1] = a
    BY <1>1, <1>3, <2>1
  <2>5. QED
    BY <1>9, <2>1, <2>2, <2>3, <2>4
<1>23. new = Abstract!Front(old) \o <<Items(lower), Items(upper)>>
  <2>1. Len(new) = Len(old) + 1
    BY <1>1, <1>3, <1>19, <1>20
  <2>2. new = Abstract!Front(old) \o <<new[Len(new) - 1], new[Len(new)]>>
    BY <1>19, <1>20, <1>21, <2>1, TopSplit
  <2>3. QED
    BY <1>22, <2>2
<1>24. QED
  BY <1>1, <1>17, <1>18, <1>23, OneRow DEF new, old

(* { keeps every stack in its place and does what the abstract { does.     *)
LEMMA Began ==
  ASSUME PlacesInv, NEW ip \in Alive, NEW corner \in Corner, Begin(ip, corner)
  PROVE  PlacesInv' /\ Abstract!Begin(ip, corner)
<1> DEFINE s     == heap[stack[ip]]
           count == stack_peek(s)
           below == AfterPop(s)
           o     == storageOffset[ip]
           a     == Fresh
           upper == Upper(below, count)
           lower == Lower(below, count, o)
           t     == Deeper(stackstack[ip], a)
           i     == Abstract!Drop(Items(s), 1)
           all   == [jp \in IP |-> AllItems(jp)]
<1>1. Free # {}
  BY DEF Begin
<1>2. BeginDone(ip, corner, a, upper, lower, t)
  BY DEF Begin, BeginDone, Upper, Lower, Under, Deeper, Grown
<1>3. a \in Address /\ heap[a] = Nothing
  BY <1>1, FreshFound
<1>4. ip \in IP /\ WellFormed(s) /\ o \in Int \X Int
  BY Found
<1>5. count \in Int /\ count = Abstract!Top(Items(s))
  BY <1>4, Peeks
<1>6. WellFormed(below) /\ Items(below) = i
  BY <1>4, Popped
<1>7. /\ upper = Upper(below, count) /\ lower = Lower(below, count, o)
      /\ t = Deeper(stackstack[ip], a)
  OBVIOUS
<1> HIDE DEF upper, lower, t, below, count, i, o, a
<1>8. WellFormed(upper) /\ Items(upper) = Abstract!TopMost(Items(below), count)
  BY <1>5, <1>6, <1>7, NewTop
<1> HIDE DEF all, s
<1>9. /\ WellFormed(lower)
      /\ Items(lower) = Abstract!Drop(Items(below), count)
                          \o Abstract!Zeros(-count) \o o
  <2>1. /\ WellFormed(below) /\ count \in Int /\ o \in Int \X Int
        /\ lower = Lower(below, count, o)
    BY <1>4, <1>5, <1>6, <1>7
  <2>2. OffsetOnTop(lower, below, count, o)
    BY <2>1, OffsetPushed
  <2>3. QED
    BY <2>2 DEF OffsetOnTop
<1>10. /\ PlacesInv'
       /\ all' = [all EXCEPT ![ip] =
            Abstract!Front(AllItems(ip)) \o <<Items(lower), Items(upper)>>]
  <2>1. /\ a \in Address /\ heap[a] = Nothing
        /\ WellFormed(upper) /\ WellFormed(lower)
        /\ t = Deeper(stackstack[ip], a)
        /\ BeginDone(ip, corner, a, upper, lower, t)
    BY <1>2, <1>3, <1>7, <1>8, <1>9
  <2>2. QED
    BY <2>1, BeginPlaces DEF all
<1>11. all[ip] = AllItems(ip) /\ Abstract!Last(AllItems(ip)) = Items(s)
  BY <1>4, RowsFound DEF all, s
<1>12. Abstract!Begin(ip, corner)
  <2>1. /\ all' = [all EXCEPT ![ip] = Abstract!Front(all[ip])
                      \o <<Items(lower), Items(upper)>>]
        /\ count = Abstract!Top(Abstract!Last(all[ip]))
        /\ i = Abstract!Drop(Abstract!Last(all[ip]), 1)
    BY <1>5, <1>10, <1>11 DEF i
  <2>2. storageOffset' = [storageOffset EXCEPT ![ip] = corner]
    BY <1>2 DEF BeginDone
  <2>3. /\ Items(upper) = Abstract!TopMost(i, count)
        /\ Items(lower) = Abstract!Drop(i, count) \o Abstract!Zeros(-count)
                            \o storageOffset[ip]
    BY <1>6, <1>8, <1>9 DEF o
  <2>4. QED
    BY <2>1, <2>2, <2>3 DEF Abstract!Begin, all
<1>13. QED
  BY <1>10, <1>12

-----------------------------------------------------------------------------
(* }                                                                       *)

(* The storage offset is the two topmost cells of the stack below.         *)
LEMMA TwoPeeked ==
  ASSUME NEW s, WellFormed(s)
  PROVE  /\ stack_peek(s) \in Int /\ stack_peek(AfterPop(s)) \in Int
         /\ <<stack_peek(AfterPop(s)), stack_peek(s)>> = Abstract!TopMost(Items(s), 2)
<1> DEFINE p == AfterPop(s)
           i == Items(s)
           d == Items(p)
           x == stack_peek(p)
           y == stack_peek(s)
           m == Abstract!TopMost(i, 2)
<1>1. WellFormed(p) /\ d = Abstract!Drop(i, 1) /\ i \in Seq(Int)
  BY Popped, ItemsOf
<1>2. /\ x \in Int /\ y \in Int
      /\ y = Abstract!Top(i) /\ x = Abstract!Top(d)
  BY <1>1, Peeks
<1> HIDE DEF p, x, y, d, i
<1>3. y = IF Len(i) > 0 THEN i[Len(i)] ELSE 0
  BY <1>1, <1>2 DEF Abstract!Top, Abstract!TopMost
<1>4. /\ d \in Seq(Int) /\ Len(d) = IF Len(i) > 1 THEN Len(i) - 1 ELSE 0
      /\ \A k \in 1 .. Len(d) : d[k] = i[k]
  BY <1>1, DropOf, 1 \in Int
<1>5. x = IF Len(d) > 0 THEN d[Len(d)] ELSE 0
  BY <1>2, <1>4 DEF Abstract!Top, Abstract!TopMost
<1>6. x = IF Len(i) > 1 THEN i[Len(i) - 1] ELSE 0
  BY <1>1, <1>4, <1>5
<1> HIDE DEF m
<1>7. /\ m \in Seq(Int) /\ Len(m) = 2
      /\ \A k \in 1 .. 2 : m[k] = IF Len(i) - 2 + k > 0
                                    THEN i[Len(i) - 2 + k] ELSE 0
  BY <1>1 DEF m, Abstract!TopMost
<1>8. /\ m[1] = IF Len(i) - 2 + 1 > 0 THEN i[Len(i) - 2 + 1] ELSE 0
      /\ m[2] = IF Len(i) - 2 + 2 > 0 THEN i[Len(i) - 2 + 2] ELSE 0
  BY <1>7
<1>9. /\ Len(i) - 2 + 1 = Len(i) - 1 /\ Len(i) - 2 + 2 = Len(i)
      /\ Len(i) - 1 > 0 <=> Len(i) > 1
  BY <1>1
<1>10. m[1] = x /\ m[2] = y
  BY <1>3, <1>6, <1>8, <1>9
<1>11. <<x, y>> = m
  BY <1>2, <1>7, <1>10
<1>12. QED
  BY <1>2, <1>11 DEF p, x, y, i, m

(* What the stack below becomes.                                           *)
Received(below, top, count) ==
  IF count > 0 THEN stack_bulk_copy(below, top, count)
  ELSE stack_discard(below, -count)

ReceivedOn(s, below, top, count) ==
  /\ WellFormed(s)
  /\ Items(s) = Abstract!Drop(Items(below), -count)
                  \o Abstract!TopMost(Items(top), count)

(* } gives the stack below cells of the one it closes, or takes some.      *)
LEMMA CellsReceived ==
  ASSUME NEW below, WellFormed(below), NEW top, WellFormed(top), NEW count \in Int,
         NEW s, s = Received(below, top, count)
  PROVE  ReceivedOn(s, below, top, count)
<1> DEFINE n == -count
           i == Items(below)
           j == Items(top)
<1>1. n \in Int /\ i \in Seq(Int) /\ j \in Seq(Int)
  BY ItemsOf
<1>2. CASE count > 0
  <2>1. s = stack_bulk_copy(below, top, count) /\ count \in Nat /\ n <= 0
    BY <1>2 DEF Received
  <2> HIDE DEF n, i, j
  <2>2. WellFormed(s) /\ Items(s) = Items(below) \o Abstract!TopMost(Items(top), count)
    BY <2>1, BulkCopied
  <2>3. Abstract!Drop(i, n) = i
    BY <1>1, <2>1, NoCells
  <2>4. QED
    BY <2>2, <2>3 DEF ReceivedOn, n, i, j
<1>3. CASE ~(count > 0)
  <2>1. s = stack_discard(below, n) /\ n \in Nat /\ count <= 0
    BY <1>3 DEF Received
  <2> HIDE DEF n, j
  <2>2. WellFormed(s) /\ Items(s) = Abstract!Drop(i, n)
    BY <2>1, Discards
  <2> HIDE DEF i
  <2>3. Items(s) \in Seq(Int)
    BY <2>2, ItemsOf
  <2>4. Items(s) \o Abstract!TopMost(j, count) = Items(s)
    BY <1>1, <2>1, <2>3, NoCells
  <2>5. QED
    BY <2>2, <2>4 DEF ReceivedOn, n, i, j
<1>4. QED
  BY <1>2, <1>3

EndDone(ip, s, t, o) ==
  /\ heap' = [heap EXCEPT ![SOSS(ip)] = s, ![TOSS(ip)] = Nothing]
  /\ stackstack' = [stackstack EXCEPT ![ip] = t]
  /\ stack' = [stack EXCEPT ![ip] = SOSS(ip)]
  /\ storageOffset' = [storageOffset EXCEPT ![ip] = o]

(* Where everything is after }.                                            *)
LEMMA EndPlaces ==
  ASSUME PlacesInv, NEW ip \in Alive, stackstack[ip].current # 0,
         NEW s, WellFormed(s), NEW o \in Int \X Int,
         NEW t, Layout(t), t # Nothing, t.current = stackstack[ip].current - 1,
         \A n \in 0 .. t.current : t.stacks[n] = At(ip, n),
         EndDone(ip, s, t, o)
  PROVE  /\ PlacesInv'
         /\ [jp \in IP |-> AllItems(jp)]'
              = [[jp \in IP |-> AllItems(jp)] EXCEPT ![ip] =
                   Append(Abstract!Front(Abstract!Front(AllItems(ip))), Items(s))]
<1> DEFINE a == TOSS(ip)
           b == SOSS(ip)
           c == stackstack[ip].current
<1>1. /\ ip \in IP /\ c \in Nat /\ c # 0 /\ c - 1 \in Level(ip) /\ c \in Level(ip)
      /\ \A n \in Level(ip) : At(ip, n) \in Address
      /\ Level(ip) = 0 .. c /\ a = At(ip, c) /\ b = At(ip, c - 1)
  BY Found, TwoFound DEF Level
<1>2. a \in Address /\ b \in Address /\ a # b
  BY TwoFound
<1>3. /\ heap' = [d \in Address |-> heap'[d]]
      /\ \A d \in Address : heap'[d] = IF d = a THEN Nothing
                                       ELSE IF d = b THEN s ELSE heap[d]
  BY <1>2 DEF PlacesInv, Arrays, EndDone
<1>4. /\ stackstack' = [jp \in IP |-> IF jp = ip THEN t ELSE stackstack[jp]]
      /\ stack' = [jp \in IP |-> IF jp = ip THEN b ELSE stack[jp]]
      /\ storageOffset' \in [IP -> Int \X Int]
  BY <1>1 DEF PlacesInv, Arrays, EndDone
<1> HIDE DEF a, b, c
<1>5. t.current = c - 1 /\ t.current \in Nat /\ t.current \in 0 .. t.current
      /\ \A n \in 0 .. t.current : n \in Level(ip) /\ n # c
  BY <1>1 DEF c
<1>6. \A m, n \in Level(ip) : At(ip, m) = At(ip, n) => m = n
  BY DEF PlacesInv, Places
<1>7. /\ \A n \in Level(ip) : At(ip, n) \notin Theirs(ip)
      /\ \A d \in Theirs(ip) : d \in Address /\ heap[d] # Nothing
      /\ \A d \in Address \ Theirs(ip) : heap[d] # Nothing =>
             \E n \in Level(ip) : At(ip, n) = d
  BY MineOrTheirs
<1>8. \A d \in Address : heap'[d] = Nothing \/ WellFormed(heap'[d])
  BY <1>3 DEF PlacesInv, Arrays
<1>9. \A n \in 0 .. t.current : heap'[At(ip, n)] # Nothing
  <2>1. \A n \in Level(ip) : heap[At(ip, n)] # Nothing
    BY DEF PlacesInv, Places
  <2>2. s # Nothing
    BY NotNothing
  <2>3. \A n \in 0 .. t.current : At(ip, n) # a /\ At(ip, n) \in Address
    BY <1>1, <1>5, <1>6
  <2>4. QED
    BY <1>3, <1>5, <2>1, <2>2, <2>3
<1>10. \A d \in Theirs(ip) : heap'[d] # Nothing
  <2>1. a \notin Theirs(ip) /\ b \notin Theirs(ip)
    BY <1>1, <1>7
  <2>2. QED
    BY <1>3, <1>7, <2>1
<1>11. \A d \in Address \ Theirs(ip) : heap'[d] # Nothing =>
         \E n \in 0 .. t.current : t.stacks[n] = d
  <2> SUFFICES ASSUME NEW d \in Address \ Theirs(ip), heap'[d] # Nothing
               PROVE  \E n \in 0 .. t.current : t.stacks[n] = d
    OBVIOUS
  <2>1. d # a
    BY <1>3
  <2>2. CASE d = b
    <3>1. c - 1 \in 0 .. t.current /\ At(ip, c - 1) = d
      BY <1>1, <1>5, <2>2
    <3>2. QED
      BY <3>1
  <2>3. CASE d # b
    <3>1. heap[d] # Nothing
      BY <1>3, <2>1, <2>3
    <3>2. PICK n \in Level(ip) : At(ip, n) = d
      BY <1>7, <3>1
    <3>3. n \in 0 .. t.current
      BY <1>1, <1>5, <2>1, <3>2
    <3>4. QED
      BY <3>2, <3>3
  <2>4. QED
    BY <2>2, <2>3
<1>12. b = t.stacks[t.current]
  BY <1>1, <1>5
<1>13. /\ \A m, n \in 0 .. t.current : t.stacks[m] = t.stacks[n] => m = n
       /\ \A n \in 0 .. t.current : /\ t.stacks[n] \notin Theirs(ip)
                                    /\ heap'[t.stacks[n]] # Nothing
  BY <1>5, <1>6, <1>7, <1>9
<1>14. PlacesInv'
  <2>1. Change(ip, t, b)
    BY <1>3, <1>4, <1>8, <1>10, <1>11, <1>12, <1>13 DEF Change
  <2>2. ip \in IP
    BY <1>1
  <2>3. QED
    BY <2>1, <2>2, OneChanged
<1>15. \A jp \in IP \ {ip} : AllItems(jp)' = AllItems(jp)
  <2>1. a \in Owned(ip) /\ b \in Owned(ip)
    BY <1>1 DEF Owned, Level, At, c
  <2>2. \A d \in Address : heap[d] # Nothing /\ d \notin Owned(ip)
                             => heap'[d] = heap[d]
    BY <1>3, <2>1
  <2>3. \A jp \in IP \ {ip} : stackstack'[jp] = stackstack[jp]
    BY <1>4
  <2>4. QED
    BY <2>2, <2>3, OthersKept
<1> DEFINE old == AllItems(ip)
           new == AllItems(ip)'
<1>16. /\ old \in Seq(Seq(Int)) /\ Len(old) = c + 1 /\ Len(old) > 1
       /\ \A n \in Level(ip) : old[n + 1] = Items(heap[At(ip, n)])
  BY RowsFound, TwoFound DEF c
<1>17. /\ new \in Seq(Seq(Int)) /\ Len(new) = t.current + 1
       /\ \A n \in 0 .. t.current : new[n + 1] = Items(heap'[t.stacks[n]])
  <2>1. stackstack'[ip] = t /\ ip \in IP /\ new = AllItems(ip)'
    BY <1>1, <1>4
  <2> HIDE DEF new, old
  <2>2. \A n \in 0 .. t.current : WellFormed(heap'[t.stacks[n]])
    BY <1>8, <1>13 DEF Layout
  <2>3. QED
    BY <2>1, <2>2, RowsNext, SMTT(30)
<1> HIDE DEF old, new
<1>18. \A k \in 1 .. Len(old) - 2 : new[k] = old[k]
  <2> SUFFICES ASSUME NEW k \in 1 .. Len(old) - 2
               PROVE  new[k] = old[k]
    OBVIOUS
  <2>1. /\ k - 1 \in 0 .. t.current /\ k - 1 \in Level(ip)
        /\ k - 1 # c /\ k - 1 # c - 1 /\ k - 1 + 1 = k
    BY <1>1, <1>5, <1>16
  <2>2. At(ip, k - 1) # a /\ At(ip, k - 1) # b
    BY <1>1, <1>6, <2>1
  <2>3. heap'[At(ip, k - 1)] = heap[At(ip, k - 1)]
    BY <1>1, <1>3, <2>1, <2>2
  <2>4. t.stacks[k - 1] = At(ip, k - 1)
    BY <2>1
  <2>5. new[k] = Items(heap'[t.stacks[k - 1]])
    BY <1>17, <2>1
  <2>6. old[k] = Items(heap[At(ip, k - 1)])
    BY <1>16, <2>1
  <2>7. QED
    BY <2>3, <2>4, <2>5, <2>6
<1>19. new[Len(new)] = Items(s)
  <2>1. new[t.current + 1] = Items(heap'[t.stacks[t.current]])
    BY <1>5, <1>17
  <2>2. QED
    BY <1>2, <1>3, <1>12, <1>17, <2>1
<1>20. new = Append(Abstract!Front(Abstract!Front(old)), Items(s))
  <2>1. Len(new) = Len(old) - 1
    BY <1>1, <1>5, <1>16, <1>17
  <2>2. new = Append(Abstract!Front(Abstract!Front(old)), new[Len(new)])
    BY <1>16, <1>17, <1>18, <2>1, TopTwoJoined
  <2>3. QED
    BY <1>19, <2>2
<1>21. QED
  BY <1>1, <1>14, <1>15, <1>20, OneRow DEF new, old

(* } keeps every stack in its place and does what the abstract } does.     *)
LEMMA Ended ==
  ASSUME PlacesInv, NEW ip \in Alive, End(ip)
  PROVE  PlacesInv' /\ Abstract!End(ip) /\ Len(AllItems(ip)) > 1
<1> DEFINE s     == heap[stack[ip]]
           count == stack_peek(s)
           top   == AfterPop(s)
           found == [heap EXCEPT ![stack[ip]] = AfterPop(@)][TOSS(ip)]
           j     == heap[SOSS(ip)]
           below == AfterPop(AfterPop(j))
           o     == <<stack_peek(AfterPop(j)), stack_peek(j)>>
           r     == stackstack[ip]
           array == [r.stacks EXCEPT ![r.current] = NULL]
           t     == [r EXCEPT !.stacks = array, !.current = r.current - 1]
           u     == Received(below, top, count)
           all   == [jp \in IP |-> AllItems(jp)]
<1>1. r.current # 0
  BY DEF End
<1>2. /\ ip \in IP /\ Layout(r)
      /\ WellFormed(s) /\ WellFormed(j)
      /\ stack[ip] = TOSS(ip) /\ stack[ip] \in Address
      /\ Len(AllItems(ip)) > 1
      /\ Abstract!Last(AllItems(ip)) = Items(s)
      /\ Abstract!Last(Abstract!Front(AllItems(ip))) = Items(j)
  BY <1>1, Found, TwoFound
<1>3. found = top
  BY <1>2 DEF PlacesInv, Arrays
<1>4. EndDone(ip, u, t, o)
  <2>1. EndDone(ip, Received(below, found, count), t, o)
    BY <1>2 DEF End, EndDone, Received, PlacesInv, Arrays
  <2> HIDE DEF found, top, below, count, t, o
  <2>2. QED
    BY <1>3, <2>1
<1>5. count \in Int /\ count = Abstract!Top(Items(s))
  BY <1>2, Peeks
<1>6. WellFormed(top) /\ Items(top) = Abstract!Drop(Items(s), 1)
  BY <1>2, Popped
<1>7. WellFormed(below) /\ Items(below) = Abstract!Drop(Items(j), 2)
  <2> DEFINE p == AfterPop(j)
  <2>1. WellFormed(p) /\ Items(p) = Abstract!Drop(Items(j), 1)
    BY <1>2, Popped
  <2>2. below = AfterPop(p)
    OBVIOUS
  <2> HIDE DEF p, below, j
  <2>3. WellFormed(below) /\ Items(below) = Abstract!Drop(Items(p), 1)
    BY <2>1, <2>2, Popped
  <2>4. Items(j) \in Seq(Int)
    BY <1>2, ItemsOf
  <2>5. Abstract!Drop(Abstract!Drop(Items(j), 1), 1) = Abstract!Drop(Items(j), 2)
    BY <2>4, DroppedTwice, 1 \in Nat, 1 + 1 = 2
  <2>6. QED
    BY <2>1, <2>3, <2>5
<1>8. o \in Int \X Int /\ o = Abstract!TopMost(Items(j), 2)
  BY <1>2, TwoPeeked
<1>9. t \in [size : {r.size}, current : {r.current - 1}, stacks : {array}]
  BY <1>2 DEF Layout
<1>10. /\ array = [r.stacks EXCEPT ![r.current] = NULL]
       /\ u = Received(below, top, count)
  OBVIOUS
<1> HIDE DEF count, top, below, u, o, t, array, s, j, all
<1>11. /\ Layout(t) /\ t.current = r.current - 1 /\ t # Nothing
       /\ \A n \in 0 .. t.current : t.stacks[n] = At(ip, n)
  <2> HIDE DEF r
  <2>1. Layout(r) /\ r.current # 0
    BY <1>1, <1>2
  <2>2. /\ Layout(t) /\ t.current = r.current - 1 /\ t # Nothing
        /\ \A n \in 0 .. r.current - 1 : t.stacks[n] = r.stacks[n]
    BY <1>9, <1>10, <2>1, Closed
  <2>3. QED
    BY <2>2 DEF r, At
<1>12. ReceivedOn(u, below, top, count)
  BY <1>5, <1>6, <1>7, <1>10, CellsReceived
<1>13. /\ PlacesInv'
       /\ all' = [all EXCEPT ![ip] =
            Append(Abstract!Front(Abstract!Front(AllItems(ip))), Items(u))]
  <2>1. WellFormed(u) /\ o \in Int \X Int
    BY <1>8, <1>12 DEF ReceivedOn
  <2>2. QED
    BY <1>1, <1>4, <1>11, <2>1, EndPlaces DEF all
<1>14. all[ip] = AllItems(ip)
  BY <1>2 DEF all
<1>15. Abstract!End(ip)
  <2>1. /\ all' = [all EXCEPT ![ip] =
                 Append(Abstract!Front(Abstract!Front(all[ip])), Items(u))]
        /\ count = Abstract!Top(Abstract!Last(all[ip]))
        /\ Items(top) = Abstract!Drop(Abstract!Last(all[ip]), 1)
        /\ Items(j) = Abstract!Last(Abstract!Front(all[ip]))
    BY <1>2, <1>5, <1>6, <1>13, <1>14
  <2>2. Items(u) = Abstract!Drop(Abstract!Drop(Items(j), 2), -count)
                     \o Abstract!TopMost(Items(top), count)
    BY <1>7, <1>12 DEF ReceivedOn
  <2>3. storageOffset' = [storageOffset EXCEPT ![ip] = Abstract!TopMost(Items(j), 2)]
    BY <1>4, <1>8 DEF EndDone
  <2>4. QED
    BY <2>1, <2>2, <2>3 DEF Abstract!End, all
<1>16. QED
  BY <1>2, <1>13, <1>15

-----------------------------------------------------------------------------
(* t and @                                                                 *)

(* n + 1 times malloc finds n + 1 stacks, all different.                   *)
LEMMA LowestFound ==
  ASSUME NEW n \in Nat, NEW fresh \in Lowest(n)
  PROVE  /\ \A k \in 0 .. n : fresh[k] \in Address /\ heap[fresh[k]] = Nothing
         /\ \A k, l \in 0 .. n : fresh[k] = fresh[l] => k = l
<1>1. /\ \A k \in 0 .. n : fresh[k] \in Free
      /\ \A k \in 0 .. n : \A a \in Free :
           a < fresh[k] <=> \E l \in 0 .. k - 1 : fresh[l] = a
  BY DEF Lowest
<1>2. \A a \in Free : a \in Address /\ heap[a] = Nothing /\ a \in Int
  BY SizeAssumption DEF Free, Address
<1>3. ASSUME NEW k \in 0 .. n, NEW l \in 0 .. n, l < k
      PROVE  fresh[l] < fresh[k]
  <2>1. l \in 0 .. k - 1
    BY <1>3
  <2>2. QED
    BY <1>1, <2>1
<1>4. ASSUME NEW k \in 0 .. n, NEW l \in 0 .. n, fresh[k] = fresh[l]
      PROVE  k = l
  <2>1. fresh[k] \in Int /\ fresh[l] \in Int
    BY <1>1, <1>2
  <2>2. ~(k < l) /\ ~(l < k)
    BY <1>3, <1>4, <2>1
  <2>3. QED
    BY <2>2
<1>5. QED
  BY <1>1, <1>2, <1>4

SplitDone(ip, child, fresh, t) ==
  /\ heap' = [a \in Address |->
       IF \E n \in 0 .. stackstack[ip].current : fresh[n] = a
         THEN stack_duplicate(
                heap[stackstack[ip].stacks[
                       CHOOSE n \in 0 .. stackstack[ip].current : fresh[n] = a]])
         ELSE heap[a]]
  /\ stackstack' = [stackstack EXCEPT ![child] = t]
  /\ stack' = [stack EXCEPT ![child] = fresh[stackstack[ip].current]]
  /\ storageOffset' = [storageOffset EXCEPT ![child] = storageOffset[ip]]

(* Where everything is after t.                                            *)
LEMMA SplitPlaces ==
  ASSUME PlacesInv, NEW ip \in Alive, NEW child \in IP, child \notin Alive,
         NEW fresh \in Lowest(stackstack[ip].current),
         NEW t, Layout(t), t # Nothing, t.current = stackstack[ip].current,
         \A n \in 0 .. t.current : t.stacks[n] = fresh[n],
         SplitDone(ip, child, fresh, t)
  PROVE  /\ PlacesInv'
         /\ [jp \in IP |-> AllItems(jp)]'
              = [[jp \in IP |-> AllItems(jp)] EXCEPT ![child] = AllItems(ip)]
<1> DEFINE c == stackstack[ip].current
           b == fresh[c]
<1>1. /\ ip \in IP /\ c \in Nat /\ Level(ip) = 0 .. c /\ t.current = c
      /\ \A n \in Level(ip) : At(ip, n) \in Address
      /\ \A n \in Level(ip) : WellFormed(heap[At(ip, n)])
      /\ storageOffset[ip] \in Int \X Int
  BY Found DEF Level
<1>2. /\ \A n \in 0 .. c : fresh[n] \in Address /\ heap[fresh[n]] = Nothing
      /\ \A m, n \in 0 .. c : fresh[m] = fresh[n] => m = n
  BY <1>1, LowestFound
<1>3. heap' = [a \in Address |-> heap'[a]]
  BY DEF SplitDone
<1>4. \A a \in Address : (\A n \in 0 .. c : fresh[n] # a) => heap'[a] = heap[a]
  BY DEF SplitDone
<1>5. ASSUME NEW n \in 0 .. c
      PROVE  heap'[fresh[n]] = stack_duplicate(heap[At(ip, n)])
  <2> DEFINE m == CHOOSE m \in 0 .. c : fresh[m] = fresh[n]
  <2>1. m = n
    BY <1>2
  <2>2. heap'[fresh[n]] = stack_duplicate(heap[stackstack[ip].stacks[m]])
    BY <1>2 DEF SplitDone
  <2> HIDE DEF m
  <2>3. QED
    BY <2>1, <2>2 DEF At
<1>6. /\ stackstack' = [jp \in IP |-> IF jp = child THEN t ELSE stackstack[jp]]
      /\ stack' = [jp \in IP |-> IF jp = child THEN b ELSE stack[jp]]
      /\ storageOffset' \in [IP -> Int \X Int]
  BY <1>1 DEF PlacesInv, Arrays, SplitDone
<1> HIDE DEF b, c
<1>7. \A n \in 0 .. c : /\ WellFormed(heap'[fresh[n]])
                        /\ Items(heap'[fresh[n]]) = Items(heap[At(ip, n)])
  <2> SUFFICES ASSUME NEW n \in 0 .. c
               PROVE  /\ WellFormed(heap'[fresh[n]])
                      /\ Items(heap'[fresh[n]]) = Items(heap[At(ip, n)])
    OBVIOUS
  <2> DEFINE s == heap[At(ip, n)]
             d == heap'[fresh[n]]
  <2>1. WellFormed(s) /\ d = stack_duplicate(s)
    BY <1>1, <1>5
  <2> HIDE DEF s, d
  <2>2. WellFormed(d) /\ Items(d) = Items(s)
    BY <2>1, DuplicatedStack
  <2>3. QED
    BY <2>2 DEF s, d
<1>8. /\ \A d \in Theirs(child) : d \in Address /\ heap[d] # Nothing
      /\ \A d \in Address : heap[d] # Nothing => d \in Theirs(child)
  BY DEF PlacesInv, Places, Theirs
<1>9. \A a \in Address : heap[a] # Nothing => heap'[a] = heap[a]
  BY <1>2, <1>4
<1>10. \A a \in Address : heap'[a] = Nothing \/ WellFormed(heap'[a])
  <2> SUFFICES ASSUME NEW a \in Address
               PROVE  heap'[a] = Nothing \/ WellFormed(heap'[a])
    OBVIOUS
  <2>1. CASE \E n \in 0 .. c : fresh[n] = a
    BY <1>7, <2>1
  <2>2. CASE \A n \in 0 .. c : fresh[n] # a
    BY <1>4, <2>2 DEF PlacesInv, Arrays
  <2>3. QED
    BY <2>1, <2>2
<1>11. \A n \in 0 .. c : /\ fresh[n] \notin Theirs(child)
                         /\ heap'[fresh[n]] # Nothing
  BY <1>2, <1>7, <1>8, NotNothing
<1>12. PlacesInv'
  <2>1. c \in 0 .. c /\ b = t.stacks[t.current]
    BY <1>1 DEF b
  <2>2. \A a \in Address \ Theirs(child) : heap'[a] # Nothing =>
          \E n \in 0 .. t.current : t.stacks[n] = a
    <3> SUFFICES ASSUME NEW a \in Address \ Theirs(child), heap'[a] # Nothing
                 PROVE  \E n \in 0 .. c : fresh[n] = a
      BY <1>1
    <3>1. heap[a] = Nothing
      BY <1>8
    <3>2. QED
      BY <1>4, <3>1
  <2>3. \A a \in Theirs(child) : heap'[a] # Nothing
    BY <1>8, <1>9
  <2>4. /\ \A m, n \in 0 .. t.current : t.stacks[m] = t.stacks[n] => m = n
        /\ \A n \in 0 .. t.current : /\ t.stacks[n] \notin Theirs(child)
                                     /\ heap'[t.stacks[n]] # Nothing
    BY <1>1, <1>2, <1>11
  <2>5. Change(child, t, b)
    BY <1>3, <1>6, <1>10, <2>1, <2>2, <2>3, <2>4 DEF Change
  <2>6. QED
    BY <2>5, OneChanged
<1>13. \A jp \in IP \ {child} : AllItems(jp)' = AllItems(jp)
  <2> SUFFICES ASSUME NEW jp \in IP, jp # child
               PROVE  AllItems(jp)' = AllItems(jp)
    OBVIOUS
  <2>1. stackstack'[jp] = stackstack[jp]
    BY <1>6
  <2>2. jp \in Alive => \A n \in Level(jp) : heap'[At(jp, n)] = heap[At(jp, n)]
    <3>1. jp \in Alive => \A n \in Level(jp) : /\ At(jp, n) \in Address
                                               /\ heap[At(jp, n)] # Nothing
      BY Found DEF PlacesInv, Places
    <3>2. QED
      BY <1>9, <3>1
  <2>3. QED
    BY <2>1, <2>2, SameRows
<1> DEFINE old == AllItems(ip)
           new == AllItems(child)'
<1>14. /\ old \in Seq(Seq(Int)) /\ Len(old) = c + 1
       /\ \A n \in Level(ip) : old[n + 1] = Items(heap[At(ip, n)])
  BY RowsFound DEF c
<1>15. /\ new \in Seq(Seq(Int)) /\ Len(new) = t.current + 1
       /\ \A n \in 0 .. t.current : new[n + 1] = Items(heap'[t.stacks[n]])
  <2>1. stackstack'[child] = t /\ new = AllItems(child)'
    BY <1>6
  <2> HIDE DEF new, old
  <2>2. \A n \in 0 .. t.current : WellFormed(heap'[t.stacks[n]])
    BY <1>1, <1>7
  <2>3. QED
    BY <2>1, <2>2, RowsNext
<1> HIDE DEF old, new
<1>16. new = old
  <2>1. Len(new) = Len(old) /\ Len(old) = c + 1
    BY <1>1, <1>14, <1>15
  <2>2. \A k \in 1 .. Len(old) : new[k] = old[k]
    <3> SUFFICES ASSUME NEW k \in 1 .. Len(old)
                 PROVE  new[k] = old[k]
      OBVIOUS
    <3>1. k - 1 \in 0 .. c /\ k - 1 + 1 = k
      BY <1>1, <2>1
    <3>2. new[k] = Items(heap'[t.stacks[k - 1]])
      BY <1>1, <1>15, <3>1
    <3>3. old[k] = Items(heap[At(ip, k - 1)])
      BY <1>1, <1>14, <3>1
    <3>4. t.stacks[k - 1] = fresh[k - 1]
      BY <1>1, <3>1
    <3>5. QED
      BY <1>7, <3>1, <3>2, <3>3, <3>4
  <2>3. QED
    BY <1>14, <1>15, <2>1, <2>2, SeqEqual
<1>17. QED
  BY <1>12, <1>13, <1>16, OneRow DEF new, old

(* t                                                                       *)
LEMMA Splits ==
  ASSUME PlacesInv, NEW ip \in Alive, NEW child \in IP, Split(ip, child)
  PROVE  PlacesInv' /\ Abstract!Split(ip, child)
<1> DEFINE r   == stackstack[ip]
           all == [jp \in IP |-> AllItems(jp)]
<1>1. child \notin Alive
  BY DEF Split
<1>2. PICK fresh \in Lowest(r.current) :
        SplitDone(ip, child, fresh,
                  [size |-> r.size, current |-> r.current,
                   stacks |-> [n \in 0 .. r.size - 1 |->
                                 IF n <= r.current THEN fresh[n] ELSE JUNK]])
  BY DEF Split, SplitDone
<1> DEFINE array == [n \in 0 .. r.size - 1 |->
                       IF n <= r.current THEN fresh[n] ELSE JUNK]
           t     == [size |-> r.size, current |-> r.current, stacks |-> array]
<1>3. ip \in IP /\ Layout(r) /\ r.current \in Nat
  BY Found
<1>4. \A n \in 0 .. r.current : fresh[n] \in Address
  <2> DEFINE c == r.current
  <2>1. c \in Nat /\ fresh \in Lowest(c)
    BY <1>3
  <2> HIDE DEF c
  <2>2. \A n \in 0 .. c : fresh[n] \in Address
    BY <2>1, LowestFound
  <2>3. QED
    BY <2>2 DEF c
<1>5. /\ Layout(t) /\ t.current = r.current /\ t # Nothing
      /\ \A n \in 0 .. r.current : t.stacks[n] = fresh[n]
  <2>1. t \in [size : {r.size}, current : {r.current}, stacks : {array}]
    OBVIOUS
  <2>2. /\ Layout(r)
        /\ array = [n \in 0 .. r.size - 1 |->
                      IF n <= r.current THEN fresh[n] ELSE JUNK]
    BY <1>3
  <2> HIDE DEF r, t, all, array
  <2>3. QED
    BY <1>4, <2>1, <2>2, Copied
<1>6. SplitDone(ip, child, fresh, t)
  BY <1>2
<1> HIDE DEF t, all
<1>7. PlacesInv' /\ all' = [all EXCEPT ![child] = AllItems(ip)]
  BY <1>1, <1>5, <1>6, SplitPlaces DEF all
<1>8. all[ip] = AllItems(ip) /\ all[child] = <<>>
  BY <1>1, <1>3 DEF all, AllItems
<1>9. Abstract!Split(ip, child)
  <2>1. all' = [all EXCEPT ![child] = all[ip]]
    BY <1>7, <1>8
  <2>2. storageOffset' = [storageOffset EXCEPT ![child] = storageOffset[ip]]
    BY <1>6 DEF SplitDone
  <2>3. QED
    BY <1>8, <2>1, <2>2 DEF Abstract!Split, Abstract!Alive, all
<1>10. QED
  BY <1>7, <1>9

(* @                                                                       *)
LEMMA Quits ==
  ASSUME PlacesInv, NEW ip \in Alive, Quit(ip)
  PROVE  PlacesInv' /\ Abstract!Quit(ip)
<1>1. /\ ip \in IP /\ \A n \in Level(ip) : At(ip, n) \in Address
  BY Found
<1>2. /\ heap' = [a \in Address |-> heap'[a]]
      /\ \A a \in Address : heap'[a] = IF \E n \in Level(ip) : At(ip, n) = a
                                         THEN Nothing ELSE heap[a]
  BY DEF Quit, Level, At
<1>3. /\ stackstack' = [jp \in IP |-> IF jp = ip THEN Nothing ELSE stackstack[jp]]
      /\ stack' = [jp \in IP |-> IF jp = ip THEN NULL ELSE stack[jp]]
      /\ storageOffset' = storageOffset
  BY DEF Quit, PlacesInv, Arrays
<1>4. /\ \A n \in Level(ip) : At(ip, n) \notin Theirs(ip)
      /\ \A d \in Theirs(ip) : d \in Address /\ heap[d] # Nothing
      /\ \A d \in Address \ Theirs(ip) : heap[d] # Nothing =>
             \E n \in Level(ip) : At(ip, n) = d
  BY MineOrTheirs
<1>5. \A a \in Theirs(ip) : heap'[a] # Nothing
  BY <1>2, <1>4
<1>6. \A a \in Address \ Theirs(ip) : heap'[a] = Nothing
  BY <1>2, <1>4
<1>7. \A a \in Address : heap'[a] = Nothing \/ WellFormed(heap'[a])
  BY <1>2 DEF PlacesInv, Arrays
<1>8. PlacesInv'
  <2>1. storageOffset' \in [IP -> Int \X Int]
    BY <1>3 DEF PlacesInv, Arrays
  <2>2. Change(ip, Nothing, NULL)
    BY <1>2, <1>3, <1>5, <1>6, <1>7, <2>1 DEF Change
  <2>3. QED
    BY <1>1, <2>2, OneChanged
<1>9. \A jp \in IP \ {ip} : AllItems(jp)' = AllItems(jp)
  <2>1. \A a \in Address : a \notin Owned(ip) => heap'[a] = heap[a]
    BY <1>2 DEF Owned, Level, At
  <2>2. \A jp \in IP \ {ip} : stackstack'[jp] = stackstack[jp]
    BY <1>3
  <2>3. QED
    BY <2>1, <2>2, OthersKept
<1>10. AllItems(ip)' = <<>>
  <2>1. ip \notin Alive'
    BY <1>1, <1>3 DEF Alive
  <2>2. QED
    BY <2>1 DEF AllItems
<1>11. [jp \in IP |-> AllItems(jp)]' = [[jp \in IP |-> AllItems(jp)] EXCEPT ![ip] = <<>>]
  BY <1>1, <1>9, <1>10, OneRow
<1>12. QED
  BY <1>3, <1>8, <1>11 DEF Abstract!Quit

-----------------------------------------------------------------------------
(* The program.                                                            *)

(* The program starts with one stack in one stack-stack, both empty.       *)
LEMMA Started ==
  ASSUME Init
  PROVE  PlacesInv /\ Abstract!Init
<1> DEFINE array == [n \in 0 .. StackChunk - 1 |-> IF n = 0 THEN 1 ELSE JUNK]
           r     == [size |-> StackChunk, current |-> 0, stacks |-> array]
<1>1. PICK first \in IP :
        /\ heap = [a \in Address |-> IF a = 1 THEN stack_create ELSE Nothing]
        /\ stackstack = [ip \in IP |-> IF ip = first THEN r ELSE Nothing]
        /\ stack = [ip \in IP |-> IF ip = first THEN 1 ELSE NULL]
        /\ storageOffset = [ip \in IP |-> <<0, 0>>]
  BY DEF Init
<1>2. /\ r \in [size : {StackChunk}, current : {0}, stacks : {array}]
      /\ 1 \in Address /\ StackChunk \in Nat /\ 0 \in 0 .. StackChunk - 1
  BY SizeAssumption DEF Address
<1>3. /\ array = [n \in 0 .. StackChunk - 1 |-> array[n]] /\ array[0] = 1
  BY <1>2
<1> HIDE DEF array, r
<1>4. /\ r.size = StackChunk /\ r.current = 0 /\ r.stacks = array
      /\ r = [size |-> r.size, current |-> r.current, stacks |-> r.stacks]
      /\ r # Nothing
  BY <1>2, LayoutFields
<1>5. Layout(r) /\ r.stacks[0] = 1 /\ 0 .. r.current = {0}
  BY <1>2, <1>3, <1>4 DEF Layout
<1>6. /\ WellFormed(stack_create) /\ Items(stack_create) = <<>>
      /\ stack_create # Nothing
  BY NewStack, NotNothing
<1>7. /\ \A ip \in IP : /\ stackstack[ip] = IF ip = first THEN r ELSE Nothing
                        /\ stack[ip] = IF ip = first THEN 1 ELSE NULL
      /\ \A a \in Address : heap[a] = IF a = 1 THEN stack_create ELSE Nothing
  BY <1>1
<1>8. Alive = {first}
  BY <1>4, <1>7 DEF Alive
<1>9. Level(first) = {0} /\ At(first, 0) = 1 /\ stackstack[first].current = 0
  BY <1>4, <1>5, <1>7 DEF Level, At
<1>10. Arrays
  <2>1. storageOffset \in [IP -> Int \X Int]
    BY <1>1
  <2>2. \A a \in Address : heap[a] = Nothing \/ WellFormed(heap[a])
    BY <1>6, <1>7
  <2>3. \A ip \in IP : stackstack[ip] = Nothing \/ Layout(stackstack[ip])
    BY <1>5, <1>7
  <2>4. /\ heap = [a \in Address |-> heap[a]]
        /\ stackstack = [ip \in IP |-> stackstack[ip]]
        /\ stack = [ip \in IP |-> stack[ip]]
    BY <1>1
  <2>5. QED
    BY <2>1, <2>2, <2>3, <2>4 DEF Arrays
<1>11. Places
  <2>1. heap[1] # Nothing /\ stack[first] = 1
    BY <1>2, <1>6, <1>7
  <2>2. \A a \in Address : heap[a] # Nothing => a = 1
    BY <1>7
  <2>3. QED
    BY <1>8, <1>9, <2>1, <2>2 DEF Places
<1>12. AllItems(first) = <<<<>>>>
  <2>1. AllItems(first) = [n \in 1 .. stackstack[first].current + 1 |->
                             Items(heap[stackstack[first].stacks[n - 1]])]
    BY <1>8 DEF AllItems
  <2>2. \A n \in 1 .. 1 : n = 1
    OBVIOUS
  <2>3. \A n \in 1 .. 1 : Items(heap[stackstack[first].stacks[n - 1]]) = <<>>
    BY <1>2, <1>5, <1>6, <1>7, <2>2
  <2>4. 0 + 1 = 1
    OBVIOUS
  <2>5. AllItems(first) = [n \in 1 .. 1 |-> <<>>]
    BY <1>9, <2>1, <2>3, <2>4
  <2>6. [n \in 1 .. 1 |-> <<>>] = <<<<>>>>
    OBVIOUS
  <2>7. QED
    BY <2>5, <2>6
<1>13. \A ip \in IP : AllItems(ip) = IF ip = first THEN <<<<>>>> ELSE <<>>
  BY <1>8, <1>12 DEF AllItems
<1>14. Abstract!Init
  <2>1. [ip \in IP |-> AllItems(ip)]
          = [ip \in IP |-> IF ip = first THEN <<<<>>>> ELSE <<>>]
    BY <1>13
  <2>2. QED
    BY <1>1, <2>1 DEF Abstract!Init
<1>15. QED
  BY <1>10, <1>11, <1>14 DEF PlacesInv

(* What every instruction is to the abstract stacks.                       *)
AbstractStep(ip) ==
  \/ Abstract!Instruction(ip)
  \/ \E corner \in Corner : Abstract!Begin(ip, corner)
  \/ /\ Len(AllItems(ip)) > 1
     /\ Abstract!End(ip) \/ Abstract!Transfer(ip)
  \/ \E child \in IP : Abstract!Split(ip, child)
  \/ Abstract!Quit(ip)

(* Every instruction keeps the stacks in their places and is abstract.     *)
LEMMA Steps ==
  ASSUME PlacesInv, NEW ip \in Alive, Step(ip)
  PROVE  PlacesInv' /\ AbstractStep(ip)
<1>1. CASE \/ Push(ip) \/ Pop(ip) \/ Clear(ip) \/ DupTop(ip) \/ SwapTop(ip)
           \/ PushString(ip) \/ PopString(ip)
           \/ StackSize(ip) \/ ForthPick(ip) \/ ForthRoll(ip)
           \/ BeginOutOfMemory(ip)
  BY <1>1, Instructions DEF AbstractStep
<1>2. CASE \E corner \in Corner : Begin(ip, corner)
  BY <1>2, Began DEF AbstractStep
<1>3. CASE End(ip)
  BY <1>3, Ended DEF AbstractStep
<1>4. CASE Transfer(ip)
  <2>1. stackstack[ip].current # 0
    BY <1>4 DEF Transfer
  <2>2. Len(AllItems(ip)) > 1
    BY <2>1, TwoFound
  <2>3. QED
    BY <1>4, <2>2, Transferred DEF AbstractStep
<1>5. CASE \E child \in IP : Split(ip, child)
  BY <1>5, Splits DEF AbstractStep
<1>6. CASE Quit(ip)
  BY <1>6, Quits DEF AbstractStep
<1>7. QED
  BY <1>1, <1>2, <1>3, <1>4, <1>5, <1>6 DEF Step

(* So does a step that changes nothing.                                    *)
LEMMA Stuttered ==
  ASSUME PlacesInv, UNCHANGED vars
  PROVE  PlacesInv'
<1>1. heap' = heap /\ UNCHANGED <<stackstack, stack, storageOffset>>
  BY DEF vars
<1>2. heap' = [a \in Address |-> heap'[a]]
  BY <1>1 DEF PlacesInv, Arrays
<1>3. \A a \in Address : IF heap[a] = Nothing THEN heap'[a] = Nothing
                         ELSE WellFormed(heap'[a])
  BY <1>1 DEF PlacesInv, Arrays
<1>4. QED
  BY <1>1, <1>2, <1>3, ContentsChanged

(* And so any step.                                                        *)
LEMMA Walked ==
  ASSUME PlacesInv, [Next]_vars
  PROVE  PlacesInv'
<1>1. CASE Next
  BY <1>1, Steps DEF Next
<1>2. CASE UNCHANGED vars
  BY <1>2, Stuttered
<1>3. QED
  BY <1>1, <1>2

(* Every stack that is allocated is in one place of one stack-stack, every *)
(* place in use has one, and no array is shorter than what is in use of it.*)
THEOREM StacksInPlace == Spec => []PlacesInv
<1>1. Init => PlacesInv
  BY Started
<1>2. PlacesInv /\ [Next]_vars => PlacesInv'
  BY Walked
<1>3. QED
  BY <1>1, <1>2, PTL DEF Spec

(* The cells are values of the program, or were never written.             *)
Contents ==
  \A a \in Address : heap[a] # Nothing =>
    \A k \in DOMAIN heap[a].entries : heap[a].entries[k] \in Cell \cup {JUNK}

(* No stack holds memory that was not written, whatever the instructions.  *)
THEOREM NoJunkSeen == Spec => []NoJunk
<1>1. Init => Contents
  <2> SUFFICES ASSUME Init PROVE Contents
    OBVIOUS
  <2>1. \A a \in Address : heap[a] # Nothing => heap[a] = stack_create
    BY DEF Init
  <2>2. \A k \in DOMAIN stack_create.entries : stack_create.entries[k] = JUNK
    BY DEF stack_create
  <2>3. QED
    BY <2>1, <2>2 DEF Contents
<1>2. Contents /\ [Next]_vars => Contents'
  <2>1. CASE Next
    BY <2>1 DEF Next, Bounded, Contents
  <2>2. CASE UNCHANGED vars
    BY <2>2 DEF vars, Contents
  <2>3. QED
    BY <2>1, <2>2
<1>3. PlacesInv /\ Contents => NoJunk
  <2> SUFFICES ASSUME PlacesInv, Contents PROVE NoJunk
    OBVIOUS
  <2>1. ASSUME NEW a \in Address \ Free
        PROVE  /\ DOMAIN heap[a].entries = 0 .. heap[a].size - 1
               /\ heap[a].top \in 0 .. heap[a].size
               /\ \A k \in 0 .. heap[a].top - 1 : heap[a].entries[k] \in Cell
    <3>1. WellFormed(heap[a]) /\ heap[a] # Nothing
      BY DEF PlacesInv, Arrays, Free
    <3>2. /\ DOMAIN heap[a].entries = 0 .. heap[a].size - 1
          /\ heap[a].top \in 0 .. heap[a].size /\ heap[a].size \in Nat
          /\ \A k \in 0 .. heap[a].top - 1 : heap[a].entries[k] \in Int
      BY <3>1 DEF WellFormed
    <3>3. \A k \in 0 .. heap[a].top - 1 : k \in 0 .. heap[a].size - 1
      BY <3>2
    <3>4. \A k \in 0 .. heap[a].top - 1 :
            heap[a].entries[k] \in Cell \cup {JUNK}
      BY <3>1, <3>2, <3>3 DEF Contents
    <3>5. QED
      BY <3>2, <3>4, CellAssumption
  <2>2. ASSUME NEW ip \in Alive
        PROVE  /\ DOMAIN stackstack[ip].stacks = 0 .. stackstack[ip].size - 1
               /\ stackstack[ip].current \in 0 .. stackstack[ip].size - 1
    <3>1. Layout(stackstack[ip])
      BY Found
    <3>2. QED
      BY <3>1 DEF Layout
  <2>3. QED
    BY <2>1, <2>2 DEF NoJunk
<1>4. QED
  BY <1>1, <1>2, <1>3, StacksInPlace, PTL DEF Spec

(* The stacks of a stack-stack are as many as its places.                  *)
LEMMA OneEach ==
  ASSUME PlacesInv, NEW ip \in Alive
  PROVE  Cardinality(Owned(ip)) = stackstack[ip].current + 1
<1> DEFINE c == stackstack[ip].current
           f == [n \in 0 .. c |-> At(ip, n)]
<1>1. c \in Nat /\ Level(ip) = 0 .. c
  BY Found DEF Level
<1>2. \A m, n \in 0 .. c : At(ip, m) = At(ip, n) => m = n
  BY <1>1 DEF PlacesInv, Places
<1>3. Owned(ip) = {At(ip, n) : n \in 0 .. c}
  BY DEF Owned, At
<1> HIDE DEF c
<1>4. f \in [0 .. c -> Owned(ip)]
  BY <1>3
<1>5. \A m, n \in 0 .. c : f[m] = f[n] => m = n
  BY <1>2
<1>6. \A a \in Owned(ip) : \E n \in 0 .. c : f[n] = a
  BY <1>3
<1>7. f \in Bijection(0 .. c, Owned(ip))
  <2> HIDE DEF f
  <2>1. QED
    BY <1>4, <1>5, <1>6, Fun_IsBij
<1>8. ExistsBijection(0 .. c, Owned(ip))
  BY <1>7 DEF ExistsBijection
<1>9. IsFiniteSet(0 .. c) /\ Cardinality(0 .. c) = c + 1
  BY <1>1, FS_Interval
<1>10. Cardinality(Owned(ip)) = Cardinality(0 .. c)
  BY <1>8, <1>9, FS_Bijection
<1>11. QED
  BY <1>9, <1>10 DEF c

(* No stack is lost, freed twice or shared, whatever {, }, u, t and @ do.  *)
THEOREM StacksOwned == Spec => []Ownership
<1>1. PlacesInv => Ownership
  <2> SUFFICES ASSUME PlacesInv PROVE Ownership
    OBVIOUS
  <2>1. \A ip \in Alive : stack[ip] = TOSS(ip)
    BY Found DEF TOSS, At
  <2>2. \A ip \in Alive : Owned(ip) = {At(ip, n) : n \in Level(ip)}
    BY DEF Owned, At, Level
  <2>3. UNION {Owned(ip) : ip \in Alive} = Address \ Free
    <3>1. ASSUME NEW ip \in Alive, NEW a \in Owned(ip)
          PROVE  a \in Address \ Free
      <4>1. PICK n \in Level(ip) : a = At(ip, n)
        BY <2>2, <3>1
      <4>2. a \in Address /\ heap[a] # Nothing
        BY <4>1, Found DEF PlacesInv, Places
      <4>3. QED
        BY <4>2 DEF Free
    <3>2. ASSUME NEW a \in Address \ Free
          PROVE  \E ip \in Alive : a \in Owned(ip)
      <4>1. heap[a] # Nothing
        BY DEF Free
      <4>2. \E ip \in Alive : \E n \in Level(ip) : At(ip, n) = a
        BY <4>1 DEF PlacesInv, Places
      <4>3. QED
        BY <2>2, <4>2
    <3>3. QED
      BY <3>1, <3>2
  <2>4. \A ip, jp \in Alive : ip # jp => Owned(ip) \cap Owned(jp) = {}
    BY <2>2 DEF PlacesInv, Places
  <2>5. QED
    BY <2>1, <2>3, <2>4, OneEach DEF Ownership
<1>2. QED
  BY <1>1, StacksInPlace, PTL

(* The stack-stacks implement the abstract stacks: every instruction, or   *)
(* the copy or the loss of an IP, is one of theirs.                        *)
THEOREM StacksImplemented == Spec => ImplementsStacks
<1>1. Init => Abstract!Init
  BY Started
<1>2. PlacesInv /\ [Next]_vars => [Abstract!Next]_(Abstract!vars)
  <2> SUFFICES ASSUME PlacesInv, [Next]_vars
               PROVE  [Abstract!Next]_(Abstract!vars)
    OBVIOUS
  <2>1. CASE Next
    <3>1. PICK ip \in Alive : Step(ip)
      BY <2>1 DEF Next
    <3> DEFINE all == [jp \in IP |-> AllItems(jp)]
    <3>2. ip \in Abstract!Alive
      <4>1. ip \in IP /\ AllItems(ip) # <<>>
        BY Found, RowsFound
      <4>2. QED
        BY <4>1 DEF Abstract!Alive
    <3>3. AbstractStep(ip)
      BY <3>1, Steps
    <3>4. all[ip] = AllItems(ip)
      BY Found
    <3>5. Len(AllItems(ip)) > 1 => Len(all[ip]) > 1
      BY <3>4
    <3>6. Abstract!Next
      BY <3>2, <3>3, <3>5 DEF AbstractStep, Abstract!Next
    <3>7. QED
      BY <3>6
  <2>2. CASE UNCHANGED vars
    <3>1. UNCHANGED <<heap, stackstack, storageOffset>>
      BY <2>2 DEF vars
    <3>2. [jp \in IP |-> AllItems(jp)]' = [jp \in IP |-> AllItems(jp)]
      BY <3>1 DEF AllItems, Alive
    <3>3. QED
      BY <3>1, <3>2 DEF Abstract!vars
  <2>3. QED
    BY <2>1, <2>2
<1>3. QED
  BY <1>1, <1>2, StacksInPlace, PTL DEF Spec, ImplementsStacks, Abstract!Spec
===============================================================================
