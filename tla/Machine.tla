------------------------------- MODULE Machine -------------------------------
(***************************************************************************)
(* What an instruction works on: a record of the IP (ip.h: pos, delta, its *)
(* storage offset and its stack), of funge-space (cells that are no        *)
(* spaces, and the bounds tl and br) and of the random numbers to come.    *)
(* Each operator leads from a machine to the machine after it.             *)
(***************************************************************************)
EXTENDS Operands, Vectors, FiniteSets, TLC

Line(tl, br) == INSTANCE Lines

(* The characters of the instructions.                                     *)
Code == [blank |-> 32, not |-> 33, quote |-> 34, trampoline |-> 35, discard |-> 36,
         modulo |-> 37, fetch |-> 39, multiply |-> 42, add |-> 43, subtract |-> 45,
         divide |-> 47, duplicate |-> 58, semicolon |-> 59, west |-> 60, east |-> 62,
         random |-> 63, stop |-> 64, A |-> 65, C |-> 67, J |-> 74, O |-> 79, R |-> 82,
         left |-> 91, swap |-> 92, right |-> 93, north |-> 94, east_west |-> 95,
         greater |-> 96, get |-> 103, jump |-> 106, k |-> 107, clear |-> 110, put |-> 112,
         quit |-> 113, reverse |-> 114, store |-> 115, south |-> 118, compare |-> 119,
         delta |-> 120, z |-> 122, north_south |-> 124]

-----------------------------------------------------------------------------
(* Funge-space: the bounds grow with what is written.                      *)
At(s, p)   == IF p \in DOMAIN s.cells THEN s.cells[p] ELSE Code.blank
Here(s)    == At(s, s.pos)
Lesser(p, q)  == <<IF p[1] < q[1] THEN p[1] ELSE q[1], IF p[2] < q[2] THEN p[2] ELSE q[2]>>
Greater(p, q) == Plus(p, Minus(q, Lesser(p, q)))

fungespace_set(s, p, c) ==
  IF c = Code.blank
    THEN [s EXCEPT !.cells = [q \in DOMAIN @ \ {p} |-> @[q]]]
    ELSE [s EXCEPT !.cells = [q \in DOMAIN @ \cup {p} |-> IF q = p THEN c ELSE @[q]],
                   !.tl = Lesser(@, p), !.br = Greater(@, p)]

fungespace_wrap(s, p, d) == Line(s.tl, s.br)!fungespace_wrap(p, d)
ip_forward(s)            == [s EXCEPT !.pos = fungespace_wrap(s, Plus(@, s.delta), s.delta)]
ip_reverse(s)            == [s EXCEPT !.delta = Line(s.tl, s.br)!Back(@)]
ip_set_position(s, p)    == [s EXCEPT !.pos = fungespace_wrap(s, p, s.delta)]

Turned(s, d)  == [s EXCEPT !.delta = d]
North == <<0, -1>>
East  == <<1, 0>>
South == <<0, 1>>
West  == <<-1, 0>>
Left(s)  == Turned(s, Line(s.tl, s.br)!Left(s.delta))
Right(s) == Turned(s, Line(s.tl, s.br)!Right(s.delta))

Popped(s, n)  == [s EXCEPT !.stack = Under(@, n)]
Pushed(s, c)  == [s EXCEPT !.stack = Append(@, c)]
Result(s, c)  == Pushed(Popped(s, 2), c)

(* if_east_west, if_north_south                                            *)
if_east_west(s)   == Turned(Popped(s, 1), IF Top(s.stack) = 0 THEN East ELSE West)
if_north_south(s) == Turned(Popped(s, 1), IF Top(s.stack) = 0 THEN South ELSE North)

(* fungespace_get_bounds_rect: it may have shrunk the bounds to the cells  *)
(* in use.                                                                 *)
Stretch(P, i) == LET S == {p[i] : p \in P}
                 IN  <<CHOOSE a \in S : \A b \in S : a <= b,
                       CHOOSE a \in S : \A b \in S : b <= a>>
Shrunk(s) == LET x == Stretch(DOMAIN s.cells, 1)
                 y == Stretch(DOMAIN s.cells, 2)
             IN  [s EXCEPT !.tl = <<x[1], y[1]>>, !.br = <<x[2], y[2]>>]
Bounded(s) == {s} \cup IF DOMAIN s.cells = {} THEN {} ELSE {Shrunk(s)}
=============================================================================
