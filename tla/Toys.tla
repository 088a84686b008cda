--------------------------------- MODULE Toys ---------------------------------
(***************************************************************************)
(* TOYS (src/src/fingerprints/TOYS/TOYS.c): areas of funge-space copied,   *)
(* moved, filled, shifted and carried over the stack, and small            *)
(* instructions on the stack and the IP. L and R are in the module Wrap.   *)
(***************************************************************************)
EXTENDS Machine

CONSTANTS
  Fields,    \* funge-spaces: from positions to cells that are no spaces
  Corners,   \* the corners of areas
  Sizes,     \* the sizes of areas
  Counts,    \* numbers the program pushes
  MaxToys    \* bound on the instructions executed

(* The proofs take fields to be finite and everything else to be numbers.  *)
ASSUME ToysAssumption ==
  /\ \A f \in Fields : /\ DOMAIN f \subseteq Int \X Int /\ DOMAIN f # {}
                       /\ IsFiniteSet(DOMAIN f) /\ f \in [DOMAIN f -> Int]
  /\ Corners \subseteq Int \X Int /\ Sizes \subseteq Int \X Int /\ Counts \subseteq Int

VARIABLES
  toys,      \* the machine
  toysSteps  \* the instructions executed, -1 in a program that has none of these

toysVars == <<toys, toysSteps>>

-----------------------------------------------------------------------------
(* A loop: one step after the other for what it runs over.                 *)
Loop(s, order, Step(_, _)) ==
  LET r[i \in 0 .. Len(order)] == IF i = 0 THEN s ELSE Step(r[i - 1], order[i])
  IN  r[Len(order)]

(* The cells of an area in the order of "low" and "high" instructions.     *)
LowOrder(d)  == [i \in 1 .. d[1] * d[2] |-> <<(i - 1) % d[1], (i - 1) \div d[1]>>]
HighOrder(d) == Reverse(LowOrder(d))
Empty(d)     == d[1] = 0 \/ d[2] = 0
Negative(d)  == d[1] < 0 \/ d[2] < 0

(* What the instructions about areas take: the target, the size, the       *)
(* source. The storage offset is not theirs.                               *)
From(s)   == VectorAt(s.stack, 4)
SizeOf(s) == VectorAt(s.stack, 2)
To(s)     == VectorAt(s.stack, 0)

Over(s, d, order, Step(_, _)) ==
  IF Empty(d) THEN s ELSE IF Negative(d) THEN ip_reverse(s) ELSE Loop(s, order, Step)

(* The cell at q becomes that at p, and p a space where it is moved.       *)
Copy(s, p, q) == fungespace_set(s, q, At(s, p))
Move(s, p, q) == fungespace_set(Copy(s, p, q), p, Code.blank)

Copied(s, order) ==
  Over(Popped(s, 6), SizeOf(s), order, LAMBDA r, c : Copy(r, Plus(c, From(s)), Plus(c, To(s))))
Moved(s, order) ==
  Over(Popped(s, 6), SizeOf(s), order, LAMBDA r, c : Move(r, Plus(c, From(s)), Plus(c, To(s))))

Order(d, O(_)) == IF Empty(d) \/ Negative(d) THEN <<>> ELSE O(d)

(* Mutant: C in the order of K.                                            *)
finger_TOYS_bracelet_High(s) == Copied(s, Order(SizeOf(s), HighOrder))

finger_TOYS_bracelet(s) == Copied(s, Order(SizeOf(s), LowOrder))
finger_TOYS_scissors(s) == Copied(s, Order(SizeOf(s), HighOrder))
finger_TOYS_kittycat(s) == Moved(s, Order(SizeOf(s), LowOrder))
finger_TOYS_dixiecup(s) == Moved(s, Order(SizeOf(s), HighOrder))

finger_TOYS_chicane(s) ==
  LET o == VectorAt(s.stack, 0)
      d == VectorAt(s.stack, 2)
      c == Nth(s.stack, 5)
  IN  Over(Popped(s, 5), d, Order(d, LowOrder), LAMBDA r, p : fungespace_set(r, Plus(p, o), c))

(* F and G: their size is i columns and j rows, j on top; an area of no or *)
(* negative size is none.                                                  *)
Matrix(s) == LET i == Nth(s.stack, 4)
                 j == Nth(s.stack, 3)
             IN  IF i <= 0 \/ j <= 0 THEN <<>> ELSE LowOrder(<<i, j>>)

finger_TOYS_calipers(s) ==
  Loop(Popped(s, 4), Matrix(s),
       LAMBDA r, c : fungespace_set(Popped(r, 1), Plus(c, To(s)), Top(r.stack)))
finger_TOYS_counterclockwise(s) ==
  Loop(Popped(s, 4), Reverse(Matrix(s)), LAMBDA r, c : Pushed(r, At(r, Plus(c, To(s)))))

(* J and O: the bounds are those before, and the far end goes first.       *)
Upwards(lo, hi) == [i \in 1 .. hi - lo + 1 |-> lo + i - 1]
FarFirst(lo, hi, n) == IF n < 0 THEN Upwards(lo, hi) ELSE Reverse(Upwards(lo, hi))

finger_TOYS_fishhook(s) ==
  LET n == Top(s.stack)
      r == Popped(s, 1)
  IN  IF n = 0 THEN r
      ELSE Loop(r, FarFirst(r.tl[2], r.br[2], n),
                LAMBDA u, y : Copy(u, <<r.pos[1], y>>, <<r.pos[1], y + n>>))
finger_TOYS_boulder(s) ==
  LET n == Top(s.stack)
      r == Popped(s, 1)
  IN  IF n = 0 THEN r
      ELSE Loop(r, FarFirst(r.tl[1], r.br[1], n),
                LAMBDA u, x : Copy(u, <<x, r.pos[2]>>, <<x + n, r.pos[2]>>))

-----------------------------------------------------------------------------
Replaced(s, c) == Pushed(Popped(s, 1), c)
ip_backward(s) == [s EXCEPT !.pos = fungespace_wrap(s, Minus(@, s.delta),
                                                    Line(s.tl, s.br)!Back(s.delta))]

finger_TOYS_gable(s) ==
  LET n == Top(s.stack)
      c == Nth(s.stack, 2)
  IN  IF n < 0 THEN ip_reverse(Popped(s, 2))
      ELSE [Popped(s, 2) EXCEPT !.stack = @ \o [i \in 1 .. n |-> c]]
finger_TOYS_pair_of_shoes(s) ==
  LET x == Nth(s.stack, 2)
      y == Nth(s.stack, 1)
  IN  Pushed(Result(s, x + y), x - y)
finger_TOYS_toilet_seat(s)    == Replaced(s, Top(s.stack) - 1)
finger_TOYS_doric_column(s)   == Replaced(s, Top(s.stack) + 1)
finger_TOYS_lightning_bolt(s) == Replaced(s, -Top(s.stack))
finger_TOYS_pitchfork_head(s) ==
  [s EXCEPT !.stack = <<Loop(0, s.stack, LAMBDA a, b : a + b)>>]
finger_TOYS_mailbox(s) ==
  [s EXCEPT !.stack = <<Loop(1, s.stack, LAMBDA a, b : a * b)>>]

(* H: a shift by as many bits as a cell has, or more, is undefined in C.   *)
finger_TOYS_pair_of_stilts(s) ==
  LET a == Nth(s.stack, 2)
      b == Nth(s.stack, 1)
  IN  Result(s, IF b < 0 THEN a \div 2 ^ (-b) ELSE a * 2 ^ b)

finger_TOYS_necklace(s) ==
  LET back == ip_backward(Popped(s, 1))
  IN  ip_forward(fungespace_set(back, back.pos, Top(s.stack)))
finger_TOYS_barstool(s) ==
  CASE Top(s.stack) = 0 -> if_east_west(Popped(s, 1))
    [] Top(s.stack) = 1 -> if_north_south(Popped(s, 1))
    [] OTHER            -> ip_reverse(Popped(s, 1))
finger_TOYS_tumbler(s, random) ==
  LET c == <<Code.north, Code.east, Code.south, Code.west>>
      d == <<North, East, South, West>>
  IN  Turned(fungespace_set(s, s.pos, c[random + 1]), d[random + 1])

(* W waits until a cell is the value: until then it is executed again, for *)
(* a vector the storage offset has been taken from, though it looks at the *)
(* cell without adding it.                                                 *)
finger_TOYS_television_antenna(s) ==
  LET p == To(s)
      v == Nth(s.stack, 3)
      r == Popped(s, 3)
  IN  IF At(s, p) < v THEN ip_backward([r EXCEPT !.stack = @ \o <<v>> \o Minus(p, s.offset)])
      ELSE IF At(s, p) > v THEN ip_reverse(r) ELSE r

finger_TOYS_buried_treasure(s) == [s EXCEPT !.pos = Plus(@, East)]
finger_TOYS_slingshot(s)       == [s EXCEPT !.pos = Plus(@, South)]
finger_TOYS_barn_door(s)       == ip_reverse(s)

-----------------------------------------------------------------------------
ToysInit ==
  /\ \E f \in Fields :
       LET x == Stretch(DOMAIN f, 1)
           y == Stretch(DOMAIN f, 2)
       IN  toys = [cells |-> f, tl |-> <<x[1], y[1]>>, br |-> <<x[2], y[2]>>,
                   pos |-> <<x[1], y[2]>>, delta |-> East, offset |-> <<1, 1>>, stack |-> <<>>]
  /\ toysSteps = 0

Leads(s) == toysSteps < MaxToys /\ toysSteps' = toysSteps + 1 /\ toys' = s
With(args) == [toys EXCEPT !.stack = @ \o args]

Area(Op(_)) == \E o, g \in Corners, d \in Sizes : Leads(Op(With(o \o d \o g)))
Bracelet == Area(finger_TOYS_bracelet)
Scissors == Area(finger_TOYS_scissors)
Kittycat == Area(finger_TOYS_kittycat)
Dixiecup == Area(finger_TOYS_dixiecup)
Chicane  == \E o \in Corners, d \in Sizes, c \in {Code.blank, 7} :
              Leads(finger_TOYS_chicane(With(<<c>> \o d \o o)))
Calipers == \E o \in Corners, d \in Sizes : Leads(finger_TOYS_calipers(With(d \o o)))
Counterclockwise ==
  \E o \in Corners, d \in Sizes : Leads(finger_TOYS_counterclockwise(With(d \o o)))
Shifts(Op(_)) == \E n \in Counts : \E s \in Bounded(With(<<n>>)) : Leads(Op(s))
Fishhook == Shifts(finger_TOYS_fishhook)
Boulder  == Shifts(finger_TOYS_boulder)
Ones(Op(_)) == \E n \in Counts : Leads(Op(With(<<n>>)))
OnStack ==
  \/ Ones(finger_TOYS_gable) \/ Ones(finger_TOYS_pair_of_shoes) \/ Ones(finger_TOYS_toilet_seat)
  \/ Ones(finger_TOYS_doric_column) \/ Ones(finger_TOYS_lightning_bolt)
  \/ Ones(finger_TOYS_pair_of_stilts) \/ Leads(finger_TOYS_pitchfork_head(toys))
  \/ Leads(finger_TOYS_mailbox(toys))
OnIP ==
  \/ Ones(finger_TOYS_necklace) \/ Ones(finger_TOYS_barstool)
  \/ \E r \in 0 .. 3 : Leads(finger_TOYS_tumbler(toys, r))
  \/ \E p \in Corners, v \in Counts : Leads(finger_TOYS_television_antenna(With(<<v>> \o p)))
  \/ Leads(finger_TOYS_buried_treasure(toys)) \/ Leads(finger_TOYS_slingshot(toys))
  \/ Leads(finger_TOYS_barn_door(toys))

ToysNext == \/ Bracelet \/ Scissors \/ Kittycat \/ Dixiecup \/ Chicane \/ Calipers
            \/ Counterclockwise \/ Fishhook \/ Boulder \/ OnStack \/ OnIP

ToysSpec == ToysInit /\ [][ToysNext]_toysVars

-----------------------------------------------------------------------------
Cells(p, d)    == {Plus(p, <<x, y>>) : x \in 0 .. d[1] - 1, y \in 0 .. d[2] - 1}
Before(p, q)   == p[2] < q[2] \/ (p[2] = q[2] /\ p[1] < q[1])
Disjoint(o, g, d) == Cells(o, d) \cap Cells(g, d) = {}

(* Every cell that holds something, before or after; the others are blank  *)
(* in both.                                                                *)
Everywhere(r) == DOMAIN toys.cells \cup DOMAIN r.cells

(* The target holds what the source held, and nothing else has changed,    *)
(* anywhere in funge-space, but what was to be erased.                     *)
Arrives(r, o, g, d, Erased) ==
  \A p \in Everywhere(r) \cup Cells(o, d) \cup Cells(g, d) :
    At(r, p) = IF p \in Cells(g, d) THEN At(toys, Plus(o, Minus(p, g)))
               ELSE IF p \in Erased THEN Code.blank ELSE At(toys, p)

(* Each cell of a line is found that far on, and nothing else has changed: *)
(* where the line has moved from, the last cells stay.                     *)
Shifted(r, line, far) ==
  \A p \in Everywhere(r) \cup {Plus(q, far) : q \in line} :
    At(r, p) = IF Minus(p, far) \in line THEN At(toys, Minus(p, far)) ELSE At(toys, p)
RowOfIP    == {<<x, toys.pos[2]>> : x \in toys.tl[1] .. toys.br[1]}
ColumnOfIP == {<<toys.pos[1], y>> : y \in toys.tl[2] .. toys.br[2]}

(* An area arrives whole where the order of copying fits the way it goes:  *)
(* C and M when it goes up or to the left, K and V when down or to the     *)
(* right, all four when source and target have nothing in common; C and K  *)
(* also in place. G and F carry it anywhere. J and O shift every cell of   *)
(* their column or row. None of them changes a cell it has no business     *)
(* with.                                                                   *)
AreasArrive == toysSteps >= 0 =>
  /\ \A o, g \in Corners, d \in {e \in Sizes : ~Empty(e) /\ ~Negative(e)} :
       LET s == With(o \o d \o g)
           carried == finger_TOYS_calipers([finger_TOYS_counterclockwise(With(d \o o))
                                              EXCEPT !.stack = @ \o d \o g])
           none == Disjoint(o, g, d)
       IN  /\ none \/ ~Before(o, g) => Arrives(finger_TOYS_bracelet(s), o, g, d, {})
           /\ none \/ ~Before(g, o) => Arrives(finger_TOYS_scissors(s), o, g, d, {})
           /\ none \/ Before(g, o)  => Arrives(finger_TOYS_kittycat(s), o, g, d, Cells(o, d))
           /\ none \/ Before(o, g)  => Arrives(finger_TOYS_dixiecup(s), o, g, d, Cells(o, d))
           /\ Arrives(carried, o, g, d, {}) /\ carried.stack = toys.stack
  /\ \A n \in Counts :
       /\ Shifted(finger_TOYS_boulder(With(<<n>>)), RowOfIP, <<n, 0>>)
       /\ Shifted(finger_TOYS_fishhook(With(<<n>>)), ColumnOfIP, <<0, n>>)
=============================================================================
