-------------------------------- MODULE Lines --------------------------------
(***************************************************************************)
(* Where an IP comes to when it leaves the bounds of funge-space: the      *)
(* arithmetic of fungespace_wrap and wrap (src/src/funge-space/            *)
(* funge-space.c) and the macros of src/src/ip.h.                          *)
(***************************************************************************)
EXTENDS Vectors

CONSTANTS tl, br  \* fspace.topLeftCorner, fspace.bottomRightCorner

-----------------------------------------------------------------------------
(* C's / and %: the quotient is truncated towards zero.                    *)
Magnitude(n)   == IF n < 0 THEN -n ELSE n
Quotient(n, d) == LET q == Magnitude(n) \div Magnitude(d)
                  IN  IF (n < 0) = (d < 0) THEN q ELSE -q

wrap_frac(n, d) == IF n = Quotient(n, d) * d THEN Quotient(n, d)
                   ELSE Quotient(n + d, d)

(* Mutant: the edges are swapped.                                         *)
wrap_frac_dir_Swapped(a, r, s, da) == IF da > 0 THEN wrap_frac(a - s, da)
                                      ELSE wrap_frac(a - r, da)

wrap_frac_dir(a, r, s, da) == IF da > 0 THEN wrap_frac(a - r, da)
                              ELSE wrap_frac(a - s, da)

fungespace_in_range(p) == /\ tl[1] <= p[1] /\ p[1] <= br[1]
                          /\ tl[2] <= p[2] /\ p[2] <= br[2]

(* fspace_vector_is_cardinal                                               *)
Cardinal(d) == d \in {<<1, 0>>, <<-1, 0>>, <<0, 1>>, <<0, -1>>}

(* wrap: back by the steps to the nearer of the two edges it came from.    *)
wrap(p, d) ==
  LET f(k) == wrap_frac_dir(p[k], tl[k], br[k], d[k])
      m    == IF d[1] = 0 THEN f(2)
              ELSE IF d[2] = 0 THEN f(1)
              ELSE IF f(1) < f(2) THEN f(1) ELSE f(2)
  IN  IF d = <<0, 0>> THEN p ELSE Minus(p, Times(d, m))

(* Mutant: to the edge it left.                                            *)
Opposite_Same(p) ==
  LET Across(k) == IF p[k] < tl[k] THEN tl[k] - 1
                   ELSE IF p[k] > br[k] THEN br[k] + 1
                   ELSE p[k]
  IN  <<Across(1), Across(2)>>

(* A cardinal delta: just outside the opposite edge.                       *)
Opposite(p) ==
  LET Across(k) == IF p[k] < tl[k] THEN br[k] + 1
                   ELSE IF p[k] > br[k] THEN tl[k] - 1
                   ELSE p[k]
  IN  <<Across(1), Across(2)>>

fungespace_wrap(p, d) ==
  IF fungespace_in_range(p) THEN p
  ELSE IF Cardinal(d) THEN Opposite(p)
  ELSE wrap(p, d)

ip_forward(p, d)  == fungespace_wrap(Plus(p, d), d)
ip_backward(p, d) == fungespace_wrap(Minus(p, d), d)

(* ip_reverse, ip_turn_left and ip_turn_right, on the delta                *)
Back(d)  == <<-d[1], -d[2]>>
Left(d)  == <<d[2], -d[1]>>
Right(d) == <<-d[2], d[1]>>
=============================================================================
