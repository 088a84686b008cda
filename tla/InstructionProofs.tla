-------------------------- MODULE InstructionProofs --------------------------
(***************************************************************************)
(* Proofs about components that compute what instructions leave: the       *)
(* wrapping of IPs, for any bounds, positions and deltas; DATE, where days *)
(* and dates are the same thing, for every day and every date; and y, for  *)
(* any environment, stacks and requests.                                   *)
(***************************************************************************)
EXTENDS Wrap, Calendar, SystemInfo, CommonLemmas

(* Division of natural numbers.                                            *)
LEMMA DivRange ==
  ASSUME NEW a \in Nat, NEW b \in Nat, b > 0
  PROVE  /\ a \div b \in Nat
         /\ (a \div b) * b <= a
         /\ a < (a \div b) * b + b
  OBVIOUS

(* C's division is an integer, and what it leaves is less than the divisor *)
(* and has the sign of the dividend.                                       *)
LEMMA QuotientRange ==
  ASSUME NEW n \in Int, NEW d \in Int, d # 0
  PROVE  /\ Quotient(n, d) \in Int
         /\ n >= 0 => /\ Quotient(n, d) * d <= n
                      /\ n < Quotient(n, d) * d + Magnitude(d)
         /\ n <= 0 => /\ Quotient(n, d) * d >= n
                      /\ n > Quotient(n, d) * d - Magnitude(d)
<1> DEFINE a == Magnitude(n)
           b == Magnitude(d)
           q == a \div b
<1>1. /\ a \in Nat /\ b \in Nat /\ b > 0
      /\ n = a \/ n = -a 
      /\ d = b \/ d = -b
  BY DEF Magnitude
<1> HIDE DEF a, b
<1>2. q \in Nat /\ q * b <= a /\ a < q * b + b
  BY <1>1, DivRange
<1> HIDE DEF q
<1>3. Quotient(n, d) = IF (n < 0) = (d < 0) THEN q ELSE -q
  BY DEF Quotient, q, a, b
<1> DEFINE r == q * b
<1>4. r \in Int /\ r <= a /\ a < r + b
  BY <1>1, <1>2
<1>5. /\ q * d = (IF d < 0 THEN -r ELSE r)
      /\ (-q) * d = (IF d < 0 THEN r ELSE -r)
  BY <1>1, <1>2
<1> HIDE DEF r
<1>6. Quotient(n, d) * d = IF n < 0 THEN -r ELSE r
  BY <1>3, <1>4, <1>5
<1>7. Quotient(n, d) \in Int
  BY <1>2, <1>3
<1>8. Magnitude(d) = b
  BY DEF b
<1> QED
  BY <1>1, <1>4, <1>6, <1>7, <1>8

(* What wrap_frac computes are steps enough to reach the edge or pass it.  *)
LEMMA FracPasses ==
  ASSUME NEW n \in Int, NEW d \in Int, d # 0
  PROVE  /\ wrap_frac(n, d) \in Int
         /\ d > 0 => n <= wrap_frac(n, d) * d
         /\ d < 0 => n >= wrap_frac(n, d) * d
<1>1. Quotient(n, d) \in Int
  BY QuotientRange
<1>2. CASE n = Quotient(n, d) * d
  BY <1>1, <1>2 DEF wrap_frac
<1>3. CASE n # Quotient(n, d) * d
  <2> DEFINE e == n + d
             w == Quotient(e, d)
             r == w * d
  <2>1. e \in Int /\ wrap_frac(n, d) = w
    BY <1>3 DEF wrap_frac
  <2> HIDE DEF e
  <2>2. /\ w \in Int
        /\ e >= 0 => r <= e /\ e < r + Magnitude(d)
        /\ e <= 0 => r >= e /\ e > r - Magnitude(d)
    BY <2>1, QuotientRange
  <2> HIDE DEF w
  <2>3. r \in Int
    BY <2>2
  <2>4. Magnitude(d) = IF d < 0 THEN -d ELSE d
    BY DEF Magnitude
  <2> HIDE DEF r
  <2>5. /\ d > 0 => n <= r
        /\ d < 0 => n >= r
    BY <2>1, <2>2, <2>3, <2>4 DEF e
  <2> QED
    BY <2>1, <2>2, <2>5 DEF r
<1> QED
  BY <1>2, <1>3

-----------------------------------------------------------------------------
(* The edge an IP with this delta comes in through, along an axis.         *)
Edge(k, d) == IF d[k] > 0 THEN tl[k] ELSE br[k]

Bounds == tl \in Vectors /\ br \in Vectors

(* The number of steps that wrap goes back is that to or past the edge of  *)
(* an axis along which the IP moves.                                       *)
LEMMA WrapGoesBack ==
  ASSUME Bounds, NEW p \in Vectors, NEW d \in Vectors, d # <<0, 0>>
  PROVE  \E m \in Int, k \in {1, 2} :
           /\ wrap(p, d) = Minus(p, Times(d, m))
           /\ d[k] # 0
           /\ d[k] > 0 => p[k] - Edge(k, d) <= m * d[k]
           /\ d[k] < 0 => p[k] - Edge(k, d) >= m * d[k]
<1> DEFINE f(k) == wrap_frac_dir(p[k], tl[k], br[k], d[k])
<1>1. \A k \in {1, 2} : p[k] \in Int /\ d[k] \in Int /\ tl[k] \in Int /\ br[k] \in Int
  BY DEF Bounds, Vectors
<1>2. \A k \in {1, 2} : d[k] # 0 => f(k) = wrap_frac(p[k] - Edge(k, d), d[k])
  BY <1>1 DEF wrap_frac_dir, Edge
<1>3. ASSUME NEW k \in {1, 2}, d[k] # 0
      PROVE  /\ f(k) \in Int
             /\ d[k] > 0 => p[k] - Edge(k, d) <= f(k) * d[k]
             /\ d[k] < 0 => p[k] - Edge(k, d) >= f(k) * d[k]
  <2> DEFINE n == p[k] - Edge(k, d)
             e == d[k]
  <2>1. n \in Int /\ e \in Int /\ e # 0 /\ f(k) = wrap_frac(n, e)
    BY <1>1, <1>2, <1>3 DEF Edge
  <2> HIDE DEF n, e, f
  <2>2. /\ f(k) \in Int
        /\ e > 0 => n <= f(k) * e
        /\ e < 0 => n >= f(k) * e
    BY <2>1, FracPasses
  <2> QED
    BY <2>2 DEF n, e
<1>4. d[1] # 0 \/ d[2] # 0
  BY DEF Vectors
<1>5. \E k \in {1, 2} : d[k] # 0 /\ wrap(p, d) = Minus(p, Times(d, f(k)))
  BY <1>4 DEF wrap
<1> QED
  BY <1>3, <1>5

(* Back inside, a wrapped IP is on the edge itself, so that the cell       *)
(* before it on its line is outside.                                       *)
LEMMA WrapEnters ==
  ASSUME Bounds, NEW p \in Vectors, NEW d \in Vectors, ~fungespace_in_range(p),
         fungespace_in_range(fungespace_wrap(p, d))
  PROVE  ~fungespace_in_range(Minus(fungespace_wrap(p, d), d))
<1>1. CASE Cardinal(d)
  <2>1. fungespace_wrap(p, d) = Opposite(p)
    BY <1>1 DEF fungespace_wrap
  <2>2. ~fungespace_in_range(Opposite(p))
    BY DEF Opposite, fungespace_in_range, Bounds, Vectors
  <2> QED
    BY <2>1, <2>2
<1>2. CASE ~Cardinal(d)
  <2> DEFINE q == fungespace_wrap(p, d)
  <2>1. q = wrap(p, d)
    BY <1>2 DEF fungespace_wrap
  <2>2. d # <<0, 0>>
    BY <2>1 DEF wrap
  <2> HIDE DEF q
  <2>3. PICK m \in Int, k \in {1, 2} :
           /\ wrap(p, d) = Minus(p, Times(d, m))
           /\ d[k] # 0
           /\ d[k] > 0 => p[k] - Edge(k, d) <= m * d[k]
           /\ d[k] < 0 => p[k] - Edge(k, d) >= m * d[k]
    BY <2>2, WrapGoesBack
  <2>4. /\ p[k] \in Int /\ d[k] \in Int /\ tl[k] \in Int /\ br[k] \in Int
        /\ q[k] = p[k] - m * d[k] /\ m * d[k] \in Int
        /\ Minus(q, d)[k] = q[k] - d[k]
    BY <2>1, <2>3 DEF Bounds, Vectors, Minus, Times
  <2>5. tl[k] <= q[k] /\ q[k] <= br[k]
    BY DEF fungespace_in_range, q
  <2>6. ~(tl[k] <= Minus(q, d)[k] /\ Minus(q, d)[k] <= br[k])
    BY <2>3, <2>4, <2>5 DEF Edge
  <2>7. ~fungespace_in_range(Minus(q, d))
    BY <2>6 DEF fungespace_in_range
  <2> QED
    BY <2>7 DEF q
<1> QED
  BY <1>1, <1>2

-----------------------------------------------------------------------------
(* A number is not farther from zero than its multiples.                   *)
LEMMA MultipleFarther ==
  ASSUME NEW m \in Int, NEW a \in Int, a # 0
  PROVE  m * a \in Int /\ Magnitude(m) <= Magnitude(m * a)
<1>1. m * a \in Int
  OBVIOUS
<1>2. CASE m >= 0 /\ a > 0
  BY <1>2 DEF Magnitude
<1>3. CASE m >= 0 /\ a < 0
  BY <1>3 DEF Magnitude
<1>4. CASE m < 0 /\ a > 0
  BY <1>4 DEF Magnitude
<1>5. CASE m < 0 /\ a < 0
  BY <1>5 DEF Magnitude
<1> QED
  BY <1>1, <1>2, <1>3, <1>4, <1>5

(* A cell is a whole number of steps away.                                 *)
Reaches(c, p, d) == \E m \in Int : c[1] - p[1] = m * d[1] /\ c[2] - p[2] = m * d[2]

(* What OnLine says with a bound on the steps it says without one.         *)
LEMMA OnLineReaches ==
  ASSUME NEW c \in Vectors, NEW p \in Vectors, NEW d \in Vectors
  PROVE  OnLine(c, p, d) <=> Reaches(c, p, d)
<1> DEFINE v == Minus(c, p)
           n == Magnitude(v[1]) + Magnitude(v[2])
<1>1. /\ \A k \in {1, 2} : c[k] \in Int /\ p[k] \in Int /\ d[k] \in Int /\ v[k] \in Int
      /\ v = <<c[1] - p[1], c[2] - p[2]>>
  BY DEF Vectors, Minus
<1>2. n \in Nat /\ -n .. n \subseteq Int
  BY <1>1 DEF Magnitude
<1>3. OnLine(c, p, d) <=> \E m \in -n .. n : v = Times(d, m)
  BY DEF OnLine
<1>4. \A m \in Int : v = Times(d, m) <=> c[1] - p[1] = m * d[1] /\ c[2] - p[2] = m * d[2]
  BY <1>1 DEF Times
<1>5. OnLine(c, p, d) => Reaches(c, p, d)
  BY <1>2, <1>3, <1>4 DEF Reaches
<1>6. ASSUME NEW m \in Int, v = Times(d, m)
      PROVE  \E x \in -n .. n : v = Times(d, x)
  <2>1. v[1] = m * d[1] /\ v[2] = m * d[2]
    BY <1>6 DEF Times
  <2>2. CASE d[1] = 0 /\ d[2] = 0
    <3>1. v = Times(d, 0) /\ 0 \in -n .. n
      BY <1>1, <1>2, <2>1, <2>2, <1>6 DEF Times
    <3> QED
      BY <3>1
  <2>3. ASSUME NEW k \in {1, 2}, d[k] # 0
        PROVE  m \in -n .. n
    <3>1. Magnitude(m) <= Magnitude(m * d[k])
      BY <1>1, <2>3, MultipleFarther
    <3>2. Magnitude(m) <= Magnitude(v[k])
      BY <2>1, <3>1
    <3> HIDE DEF v
    <3>3. Magnitude(m) <= n
      BY <1>1, <3>2 DEF Magnitude
    <3> QED
      BY <1>2, <3>3 DEF Magnitude
  <2> QED
    BY <1>6, <2>2, <2>3
<1>7. Reaches(c, p, d) => OnLine(c, p, d)
  <2> SUFFICES ASSUME NEW m \in Int, c[1] - p[1] = m * d[1], c[2] - p[2] = m * d[2]
               PROVE  OnLine(c, p, d)
    BY DEF Reaches
  <2>1. v = Times(d, m)
    BY <1>4
  <2> QED
    BY <1>3, <1>6, <2>1
<1> QED
  BY <1>5, <1>7

(* The steps of two walks along an axis add up.                            *)
LEMMA Distributes ==
  ASSUME NEW m \in Int, NEW n \in Int, NEW a \in Int
  PROVE  /\ m * a \in Int /\ n * a \in Int
         /\ (m + n) * a = m * a + n * a
         /\ (m - n) * a = m * a - n * a
  OBVIOUS

(* Positions a number of steps apart have the same cells on their line.    *)
LEMMA SameTrack ==
  ASSUME Bounds, NEW p \in Vectors, NEW q \in Vectors, NEW d \in Vectors, NEW n \in Int,
         q[1] = p[1] + n * d[1], q[2] = p[2] + n * d[2]
  PROVE  Track(q, d) = Track(p, d)
<1>1. ASSUME NEW c \in Vectors PROVE Reaches(c, p, d) <=> Reaches(c, q, d)
  <2>1. \A k \in {1, 2} : c[k] \in Int /\ p[k] \in Int /\ d[k] \in Int /\ q[k] \in Int
    BY DEF Vectors
  <2>2. ASSUME NEW m \in Int, c[1] - p[1] = m * d[1], c[2] - p[2] = m * d[2]
        PROVE  Reaches(c, q, d)
    <3>1. \A k \in {1, 2} : (m - n) * d[k] = (m * d[k]) - (n * d[k])
                           /\ m * d[k] \in Int /\ n * d[k] \in Int
      BY <2>1, Distributes
    <3>2. m - n \in Int /\ c[1] - q[1] = (m - n) * d[1] /\ c[2] - q[2] = (m - n) * d[2]
      BY <2>1, <2>2, <3>1
    <3> QED
      BY <3>2 DEF Reaches
  <2>3. ASSUME NEW m \in Int, c[1] - q[1] = m * d[1], c[2] - q[2] = m * d[2]
        PROVE  Reaches(c, p, d)
    <3>1. \A k \in {1, 2} : (m + n) * d[k] = (m * d[k]) + (n * d[k])
                           /\ m * d[k] \in Int /\ n * d[k] \in Int
      BY <2>1, Distributes
    <3>2. m + n \in Int /\ c[1] - p[1] = (m + n) * d[1] /\ c[2] - p[2] = (m + n) * d[2]
      BY <2>1, <2>3, <3>1
    <3> QED
      BY <3>2 DEF Reaches
  <2> QED
    BY <2>2, <2>3 DEF Reaches
<1>2. ASSUME NEW c \in (tl[1] .. br[1]) \X (tl[2] .. br[2])
      PROVE  OnLine(c, p, d) <=> OnLine(c, q, d)
  <2>1. c \in Vectors
    BY DEF Bounds, Vectors
  <2> QED
    BY <1>1, <2>1, OnLineReaches
<1> QED
  BY <1>2 DEF Track

(* A step is one step: the cell after or before on the line.               *)
LEMMA StepKeepsTrack ==
  ASSUME Bounds, NEW p \in Vectors, NEW d \in Vectors
  PROVE  /\ Plus(p, d) \in Vectors /\ Track(Plus(p, d), d) = Track(p, d)
         /\ Minus(p, d) \in Vectors /\ Track(Minus(p, d), d) = Track(p, d)
<1>1. p[1] \in Int /\ p[2] \in Int /\ d[1] \in Int /\ d[2] \in Int
  BY DEF Vectors
<1> DEFINE q == Plus(p, d)
           r == Minus(p, d)
<1>2. /\ q \in Vectors /\ q[1] = p[1] + 1 * d[1] /\ q[2] = p[2] + 1 * d[2]
      /\ r \in Vectors /\ r[1] = p[1] + (-1) * d[1] /\ r[2] = p[2] + (-1) * d[2]
  BY <1>1 DEF Vectors, Plus, Minus
<1> HIDE DEF q, r
<1>3. Track(q, d) = Track(p, d) /\ Track(r, d) = Track(p, d)
  <2>1. -1 \in Int /\ 1 \in Int
    OBVIOUS
  <2> DEFINE back == -1
  <2>2. back \in Int /\ r[1] = p[1] + back * d[1] /\ r[2] = p[2] + back * d[2]
    BY <1>2, <2>1
  <2> HIDE DEF back
  <2> QED
    BY <1>2, <2>1, <2>2, SameTrack
<1> QED
  BY <1>2, <1>3 DEF q, r

(* Outside of the rows, or columns, of funge-space a line along them has   *)
(* no cells.                                                               *)
LEMMA NoTrack ==
  ASSUME Bounds, NEW p \in Vectors, NEW d \in Vectors, NEW k \in {1, 2}, d[k] = 0,
         p[k] < tl[k] \/ p[k] > br[k]
  PROVE  Track(p, d) = {}
<1> SUFFICES ASSUME NEW c \in (tl[1] .. br[1]) \X (tl[2] .. br[2]), OnLine(c, p, d)
             PROVE  FALSE
  BY DEF Track
<1>1. c \in Vectors /\ c[k] \in tl[k] .. br[k] /\ p[k] \in Int /\ tl[k] \in Int /\ br[k] \in Int
  BY DEF Bounds, Vectors
<1>2. Reaches(c, p, d)
  BY <1>1, OnLineReaches
<1>3. c[k] - p[k] = 0
  BY <1>2 DEF Reaches
<1> QED
  BY <1>1, <1>3

(* Wherever wrapping leads to, the line is the same, or there was none.    *)
LEMMA WrapKeepsTrack ==
  ASSUME Bounds, NEW p \in Vectors, NEW d \in Vectors
  PROVE  /\ fungespace_wrap(p, d) \in Vectors
         /\ Track(fungespace_wrap(p, d), d) = Track(p, d)
<1>0. /\ \A k \in {1, 2} : p[k] \in Int /\ d[k] \in Int /\ tl[k] \in Int /\ br[k] \in Int
      /\ p = <<p[1], p[2]>> /\ d = <<d[1], d[2]>>
  BY DEF Bounds, Vectors
<1>1. CASE fungespace_in_range(p)
  BY <1>1 DEF fungespace_wrap
<1>2. CASE ~fungespace_in_range(p) /\ Cardinal(d)
  <2> DEFINE q == Opposite(p)
  <2>1. fungespace_wrap(p, d) = q
    BY <1>2 DEF fungespace_wrap
  <2>2. /\ q \in Vectors
        /\ \A k \in {1, 2} :
             q[k] = IF p[k] < tl[k] THEN br[k] + 1
                    ELSE IF p[k] > br[k] THEN tl[k] - 1 ELSE p[k]
    BY <1>0 DEF Opposite, Vectors
  <2>3. PICK k \in {1, 2}, j \in {1, 2} : k # j /\ d[j] = 0 /\ d[k] \in {1, -1}
    BY <1>2 DEF Cardinal
  <2> HIDE DEF q
  <2>4. CASE p[j] < tl[j] \/ p[j] > br[j]
    <3>1. q[j] < tl[j] \/ q[j] > br[j]
      BY <1>0, <2>2, <2>4
    <3>2. Track(p, d) = {} /\ Track(q, d) = {}
      BY <2>2, <2>3, <2>4, <3>1, NoTrack
    <3> QED
      BY <2>1, <2>2, <3>2
  <2>5. CASE ~(p[j] < tl[j] \/ p[j] > br[j])
    <3>1. q[j] = p[j]
      BY <1>0, <2>2, <2>5
    <3> DEFINE n == (q[k] - p[k]) * d[k]
    <3>2. n \in Int /\ q[k] = p[k] + n * d[k] /\ q[j] = p[j] + n * d[j]
      BY <1>0, <2>2, <2>3, <3>1 DEF Vectors
    <3> HIDE DEF n
    <3>3. q[1] = p[1] + n * d[1] /\ q[2] = p[2] + n * d[2]
      BY <2>3, <3>2
    <3>4. Track(q, d) = Track(p, d)
      BY <2>2, <3>2, <3>3, SameTrack
    <3> QED
      BY <2>1, <2>2, <3>4
  <2> QED
    BY <2>4, <2>5
<1>3. CASE ~fungespace_in_range(p) /\ ~Cardinal(d)
  <2> DEFINE q == fungespace_wrap(p, d)
  <2>1. q = wrap(p, d)
    BY <1>3 DEF fungespace_wrap
  <2> HIDE DEF q
  <2>2. CASE d = <<0, 0>>
    BY <2>1, <2>2 DEF wrap, q
  <2>3. CASE d # <<0, 0>>
    <3>1. PICK m \in Int : q = Minus(p, Times(d, m))
      BY <2>1, <2>3, WrapGoesBack
    <3> DEFINE n == -m
    <3>2. /\ n \in Int /\ q \in Vectors
          /\ q[1] = p[1] + n * d[1] /\ q[2] = p[2] + n * d[2]
      BY <1>0, <3>1 DEF Vectors, Minus, Times
    <3> HIDE DEF n
    <3>3. Track(q, d) = Track(p, d)
      BY <3>2, SameTrack
    <3> QED
      BY <3>2, <3>3 DEF q
  <2> QED
    BY <2>2, <2>3
<1> QED
  BY <1>1, <1>2, <1>3

-----------------------------------------------------------------------------
(* Types of the variables.                                                 *)
TypeInv == Bounds /\ pos \in Vectors /\ delta \in Vectors /\ seen \in Vectors

(* One step on along a line.                                               *)
LEMMA ForwardOnLine ==
  ASSUME Bounds, NEW p \in Vectors, NEW d \in Vectors
  PROVE  /\ ip_forward(p, d) \in Vectors /\ Track(ip_forward(p, d), d) = Track(p, d)
         /\ ip_backward(p, d) \in Vectors /\ Track(ip_backward(p, d), d) = Track(p, d)
<1> DEFINE q == Plus(p, d)
           r == Minus(p, d)
<1>1. q \in Vectors /\ r \in Vectors /\ Track(q, d) = Track(p, d) /\ Track(r, d) = Track(p, d)
  BY StepKeepsTrack
<1> HIDE DEF q, r
<1>2. /\ fungespace_wrap(q, d) \in Vectors /\ Track(fungespace_wrap(q, d), d) = Track(q, d)
      /\ fungespace_wrap(r, d) \in Vectors /\ Track(fungespace_wrap(r, d), d) = Track(r, d)
  BY <1>1, WrapKeepsTrack
<1> QED
  BY <1>1, <1>2 DEF ip_forward, ip_backward, q, r

(* A turned delta is a vector.                                             *)
LEMMA TurnTypes ==
  ASSUME NEW d \in Vectors
  PROVE  Left(d) \in Vectors /\ Right(d) \in Vectors
  BY DEF Left, Right, Vectors

(* Init and the steps keep the bounds in order and the vectors vectors.    *)
LEMMA InitTypes == Init => TypeInv
  BY WrapAssumption DEF Init, TypeInv, Bounds

(* No step changes the bounds, and every delta and position is a vector.   *)
LEMMA NextTypes ==
  ASSUME TypeInv, [Next]_vars
  PROVE  TypeInv'
<1>0. Bounds /\ pos \in Vectors /\ delta \in Vectors /\ seen \in Vectors
  BY DEF TypeInv
<1>1. CASE Move
  BY <1>0, <1>1, ForwardOnLine DEF Move, TypeInv, Bounds
<1>2. CASE Turn
  BY <1>0, <1>2, WrapAssumption DEF Turn, Execute, TypeInv, Bounds
<1>3. CASE FetchChar
  BY <1>0, <1>3, ForwardOnLine DEF FetchChar, Execute, TypeInv, Bounds
<1>4. ASSUME NEW d \in Vectors, seen' = ip_forward(pos, d), pos' = ip_backward(seen', d),
             tl' = tl, br' = br, delta' = delta
      PROVE  TypeInv'
  <2>1. seen' \in Vectors
    BY <1>0, <1>4, ForwardOnLine
  <2>2. pos' \in Vectors
    BY <1>0, <1>4, <2>1, ForwardOnLine
  <2> QED
    BY <1>0, <1>4, <2>1, <2>2 DEF TypeInv, Bounds
<1>5. CASE Begin
  BY <1>0, <1>4, <1>5 DEF Begin, Execute
<1>6. CASE Corner \/ CanOpener
  BY <1>0, <1>4, <1>6, TurnTypes DEF Corner, CanOpener, Aside, Execute
<1>7. ASSUME NEW n \in Jumps, Jump(n) PROVE TypeInv'
  <2> DEFINE over == ip_forward(pos, delta)
             far  == Times(delta, n)
  <2>1. over \in Vectors /\ far \in Vectors
    <3>1. n \in Int
      BY WrapAssumption
    <3>2. delta[1] \in Int /\ delta[2] \in Int
      BY <1>0 DEF Vectors
    <3> QED
      BY <1>0, <3>1, <3>2, ForwardOnLine DEF Times, Vectors
  <2>2. pos' = (IF n = 0 THEN over ELSE ip_forward(over, far)) /\ UNCHANGED <<tl, br, delta, seen>>
    BY <1>7 DEF Jump, Execute
  <2> HIDE DEF over, far
  <2>3. pos' \in Vectors
    BY <1>0, <2>1, <2>2, ForwardOnLine
  <2> QED
    BY <1>0, <2>2, <2>3 DEF TypeInv, Bounds
<1>8. CASE UNCHANGED vars
  BY <1>0, <1>8 DEF vars, TypeInv, Bounds
<1> QED
  BY <1>1, <1>2, <1>3, <1>5, <1>6, <1>7, <1>8 DEF Next

(* The type invariant of funge-space and the IP in it, for any bounds.     *)
THEOREM TypesKept == Spec => []TypeInv
<1> QED
  BY InitTypes, NextTypes, PTL DEF Spec

-----------------------------------------------------------------------------
(* Where an IP comes to in a step: the next cell, or the first of its line.*)
LEMMA StepInOrder ==
  ASSUME Bounds, NEW p \in Vectors, NEW d \in Vectors
  PROVE  LET q == ip_forward(p, d)
         IN  /\ fungespace_in_range(Plus(p, d)) => q = Plus(p, d)
             /\ fungespace_in_range(q) /\ q # Plus(p, d) => q \in Entry(p, d)
<1> DEFINE n == Plus(p, d)
           q == fungespace_wrap(n, d)
<1>1. ip_forward(p, d) = q
  BY DEF ip_forward
<1>2. fungespace_in_range(n) => q = n
  BY DEF fungespace_wrap
<1>3. n \in Vectors /\ q \in Vectors /\ Track(q, d) = Track(p, d)
  BY <1>1, StepKeepsTrack, ForwardOnLine
<1>4. ASSUME fungespace_in_range(q), q # n
      PROVE  q \in Entry(p, d)
  <2>1. ~fungespace_in_range(n)
    BY <1>2, <1>4
  <2>2. ~fungespace_in_range(Minus(q, d))
    BY <1>3, <1>4, <2>1, WrapEnters
  <2> HIDE DEF q
  <2>3. q \in Track(q, d)
    <3>1. q[1] \in Int /\ q[2] \in Int /\ q = <<q[1], q[2]>> /\ d[1] \in Int /\ d[2] \in Int
      BY <1>3 DEF Vectors
    <3>2. q \in (tl[1] .. br[1]) \X (tl[2] .. br[2])
      BY <1>4, <3>1 DEF fungespace_in_range, Bounds, Vectors
    <3>3. q[1] - q[1] = 0 * d[1] /\ q[2] - q[2] = 0 * d[2]
      BY <3>1
    <3>4. OnLine(q, q, d)
      BY <1>3, <3>3, OnLineReaches DEF Reaches
    <3> QED
      BY <3>2, <3>4 DEF Track
  <2> QED
    BY <1>3, <2>2, <2>3 DEF Entry
<1> QED
  BY <1>1, <1>2, <1>4

(* Cells are executed in the order of their line, with any delta and from  *)
(* anywhere.                                                               *)
THEOREM LinesInOrder == Spec => LineInOrder
<1>1. ASSUME TypeInv, [Next]_vars
      PROVE  [/\ Move => /\ fungespace_in_range(Plus(pos, delta)) => pos' = Plus(pos, delta)
                         /\ fungespace_in_range(pos') /\ pos' # Plus(pos, delta)
                              => pos' \in Entry(pos, delta)
              /\ Move \/ FetchChar \/ Begin => Track(pos', delta) = Track(pos, delta)]_vars
  <2>0. Bounds /\ pos \in Vectors /\ delta \in Vectors
    BY <1>1 DEF TypeInv
  <2>1. ASSUME Move \/ FetchChar
        PROVE  Track(pos', delta) = Track(pos, delta)
    BY <2>0, <2>1, ForwardOnLine DEF Move, FetchChar
  <2>2. ASSUME Begin
        PROVE  Track(pos', delta) = Track(pos, delta)
    <3>1. seen' = ip_forward(pos, delta) /\ pos' = ip_backward(seen', delta)
      BY <2>2 DEF Begin
    <3>2. seen' \in Vectors /\ Track(seen', delta) = Track(pos, delta)
      BY <2>0, <3>1, ForwardOnLine
    <3>3. Track(pos', delta) = Track(seen', delta)
      BY <2>0, <3>1, <3>2, ForwardOnLine
    <3> QED
      BY <3>2, <3>3
  <2>3. ASSUME Move
        PROVE  /\ fungespace_in_range(Plus(pos, delta)) => pos' = Plus(pos, delta)
               /\ fungespace_in_range(pos') /\ pos' # Plus(pos, delta)
                     => pos' \in Entry(pos, delta)
    <3>1. pos' = ip_forward(pos, delta)
      BY <2>3 DEF Move
    <3> QED
      BY <2>0, <3>1, StepInOrder
  <2> QED
    BY <2>1, <2>2, <2>3
<1> QED
  BY <1>1, TypesKept, PTL DEF Spec, LineInOrder

-----------------------------------------------------------------------------
(* In a cardinal direction, there and back again is where it was or        *)
(* outside of the bounds.                                                  *)
LEMMA ThereAndBack ==
  ASSUME Bounds, NEW p \in Vectors, NEW d, Cardinal(d), fungespace_in_range(p)
  PROVE  LET q == ip_backward(ip_forward(p, d), d)
         IN  q = p \/ ~fungespace_in_range(q)
<1> DEFINE n == Plus(p, d)
           q == fungespace_wrap(n, d)
           b == Minus(q, d)
           r == fungespace_wrap(b, d)
<1>0. /\ \A k \in {1, 2} : p[k] \in Int /\ d[k] \in Int /\ tl[k] \in Int /\ br[k] \in Int
      /\ p = <<p[1], p[2]>>
  BY DEF Bounds, Vectors, Cardinal
<1>1. ip_backward(ip_forward(p, d), d) = r
  BY DEF ip_forward, ip_backward
<1>2. CASE fungespace_in_range(n)
  <2>1. q = n /\ b = p
    BY <1>0, <1>2 DEF fungespace_wrap, Plus, Minus
  <2>2. r = p
    BY <2>1 DEF fungespace_wrap
  <2> QED
    BY <1>1, <2>2
<1>3. CASE ~fungespace_in_range(n)
  <2>1. CASE fungespace_in_range(b)
    <3>1. q = Opposite(n)
      BY <1>3 DEF fungespace_wrap
    <3>2. FALSE
      BY <1>0, <1>3, <2>1, <3>1 DEF Opposite, Plus, Minus, fungespace_in_range, Cardinal
    <3> QED
      BY <3>2
  <2>2. CASE ~fungespace_in_range(b)
    <3>1. r = Opposite(b)
      BY <2>2 DEF fungespace_wrap
    <3>2. b[1] \in Int /\ b[2] \in Int
      <4>1. n \in Vectors /\ d \in Vectors
        BY <1>0 DEF Plus, Vectors, Cardinal
      <4>2. q \in Vectors
        BY <4>1, WrapKeepsTrack
      <4> HIDE DEF q
      <4> QED
        BY <4>1, <4>2 DEF Minus, Vectors
    <3> HIDE DEF b
    <3>3. ~fungespace_in_range(r)
      BY <1>0, <2>2, <3>1, <3>2 DEF Opposite, fungespace_in_range
    <3> QED
      BY <1>1, <3>3
  <2> QED
    BY <2>1, <2>2
<1> QED
  BY <1>2, <1>3

(* { and L and R of TOYS do not leave an IP with a cardinal delta on a     *)
(* cell that is not its own.                                               *)
THEOREM LooksComeBack == Spec => LookComesBack
<1>1. ASSUME TypeInv, [Next]_vars
      PROVE  [Cardinal(delta) /\ (Begin \/ Corner \/ CanOpener) =>
                \/ pos' = pos
                \/ /\ ~fungespace_in_range(pos')
                   /\ Begin => Track(pos', delta) = Track(pos, delta)]_vars
  <2>0. Bounds /\ pos \in Vectors /\ delta \in Vectors
    BY <1>1 DEF TypeInv
  <2>1. ASSUME Begin
        PROVE  Track(pos', delta) = Track(pos, delta)
    <3>1. seen' = ip_forward(pos, delta) /\ pos' = ip_backward(seen', delta)
      BY <2>1 DEF Begin
    <3>2. seen' \in Vectors /\ Track(seen', delta) = Track(pos, delta)
      BY <2>0, <3>1, ForwardOnLine
    <3>3. Track(pos', delta) = Track(seen', delta)
      BY <2>0, <3>1, <3>2, ForwardOnLine
    <3> QED
      BY <3>2, <3>3
  <2>2. ASSUME Cardinal(delta), Begin \/ Corner \/ CanOpener
        PROVE  pos' = pos \/ ~fungespace_in_range(pos')
    <3>1. PICK d \in {delta, Left(delta), Right(delta)} :
            pos' = ip_backward(ip_forward(pos, d), d) /\ fungespace_in_range(pos)
      BY <2>2 DEF Begin, Corner, CanOpener, Aside, Execute
    <3>2. Cardinal(d)
      BY <2>2 DEF Cardinal, Left, Right
    <3> QED
      BY <2>0, <3>1, <3>2, ThereAndBack
  <2> QED
    BY <2>1, <2>2
<1> QED
  BY <1>1, TypesKept, PTL DEF Spec, LookComesBack

-----------------------------------------------------------------------------
(* Years that begin in March: the leap day is the last of them.            *)

Leap(y) == y % 4 = 0 /\ (y % 100 # 0 \/ y % 400 = 0)

(* The days before the year y, and before its month m, counted from 0.     *)
YearDays(y)  == 365 * y + y \div 4 - y \div 100 + y \div 400
MonthDays(m) == (153 * m + 2) \div 5

(* The parts of a year's number: 400 years, centuries, four years, years.  *)
Cycles(y)    == y \div 400
Centuries(y) == (y % 400) \div 100
Fours(y)     == ((y % 400) % 100) \div 4
Ones(y)      == ((y % 400) % 100) % 4

(* A year comes so many days after year 0 as its parts hold.               *)
LEMMA YearParts ==
  ASSUME NEW y \in Int
  PROVE  /\ Cycles(y) \in Int /\ Centuries(y) \in 0 .. 3 /\ Fours(y) \in 0 .. 24
         /\ Ones(y) \in 0 .. 3
         /\ y = 400 * Cycles(y) + 100 * Centuries(y) + 4 * Fours(y) + Ones(y)
         /\ YearDays(y) = 146097 * Cycles(y) + 36524 * Centuries(y) + 1461 * Fours(y)
                          + 365 * Ones(y)
<1> DEFINE a == y \div 400
           r == y % 400
           b == r \div 100
           s == r % 100
           c == s \div 4
           e == s % 4
<1>0. a = Cycles(y) /\ b = Centuries(y) /\ c = Fours(y) /\ e = Ones(y)
  BY DEF Cycles, Centuries, Fours, Ones
<1>1. a \in Int /\ r \in 0 .. 399 /\ y = 400 * a + r
  OBVIOUS
<1>2. b \in 0 .. 3 /\ s \in 0 .. 99 /\ r = 100 * b + s
  BY <1>1
<1>3. c \in 0 .. 24 /\ e \in 0 .. 3 /\ s = 4 * c + e
  BY <1>2
<1> HIDE DEF a, r, b, s, c, e
<1>4. y = 400 * a + 100 * b + 4 * c + e
  BY <1>1, <1>2, <1>3
<1>5. y \div 4 = 100 * a + 25 * b + c /\ y \div 100 = 4 * a + b /\ y \div 400 = a
  BY <1>1, <1>2, <1>3, <1>4
<1>6. YearDays(y) = 146097 * a + 36524 * b + 1461 * c + 365 * e
  BY <1>1, <1>2, <1>3, <1>4, <1>5 DEF YearDays
<1> QED
  BY <1>0, <1>1, <1>2, <1>3, <1>4, <1>6

(* A later year begins at least 365 days later.                            *)
LEMMA YearsInOrder ==
  ASSUME NEW y \in Int, NEW z \in Int, y < z
  PROVE  YearDays(y) + 365 * (z - y) <= YearDays(z) /\ YearDays(y) \in Int
<1> DEFINE a == Cycles(y)
           b == Centuries(y)
           c == Fours(y)
           e == Ones(y)
           A == Cycles(z)
           B == Centuries(z)
           C == Fours(z)
           E == Ones(z)
<1>1. /\ a \in Int /\ b \in 0 .. 3 /\ c \in 0 .. 24 /\ e \in 0 .. 3
      /\ y = 400 * a + 100 * b + 4 * c + e
      /\ YearDays(y) = 146097 * a + 36524 * b + 1461 * c + 365 * e
  BY YearParts
<1>2. /\ A \in Int /\ B \in 0 .. 3 /\ C \in 0 .. 24 /\ E \in 0 .. 3
      /\ z = 400 * A + 100 * B + 4 * C + E
      /\ YearDays(z) = 146097 * A + 36524 * B + 1461 * C + 365 * E
  BY YearParts
<1> HIDE DEF a, b, c, e, A, B, C, E
<1>3. a <= A /\ (a = A => b <= B /\ (b = B => c <= C))
  BY <1>1, <1>2
<1>4. 97 * a + 24 * b + c <= 97 * A + 24 * B + C
  BY <1>1, <1>2, <1>3
<1> QED
  BY <1>1, <1>2, <1>4

(* The length of a year: the leap day is that of the next January's year.  *)
LEMMA YearLength ==
  ASSUME NEW y \in Int
  PROVE  YearDays(y + 1) = YearDays(y) + IF Leap(y + 1) THEN 366 ELSE 365
<1>1. (y + 1) \div 4 = y \div 4 + IF (y + 1) % 4 = 0 THEN 1 ELSE 0
  OBVIOUS
<1>2. (y + 1) \div 100 = y \div 100 + IF (y + 1) % 100 = 0 THEN 1 ELSE 0
  OBVIOUS
<1>3. (y + 1) \div 400 = y \div 400 + IF (y + 1) % 400 = 0 THEN 1 ELSE 0
  OBVIOUS
<1>4. (y + 1) % 400 = 0 => (y + 1) % 100 = 0
  OBVIOUS
<1>5. (y + 1) % 100 = 0 => (y + 1) % 4 = 0
  OBVIOUS
<1> QED
  BY <1>1, <1>2, <1>3, <1>4, <1>5 DEF YearDays, Leap

(* The months that begin a year in March.                                  *)
LEMMA MonthTable ==
  /\ MonthDays(0) = 0 /\ MonthDays(1) = 31 /\ MonthDays(2) = 61 /\ MonthDays(3) = 92
  /\ MonthDays(4) = 122 /\ MonthDays(5) = 153 /\ MonthDays(6) = 184 /\ MonthDays(7) = 214
  /\ MonthDays(8) = 245 /\ MonthDays(9) = 275 /\ MonthDays(10) = 306 /\ MonthDays(11) = 337
BY DEF MonthDays

-----------------------------------------------------------------------------
(* From dates to days.                                                     *)

(* A date in years that begin in March.                                    *)
Shift(d)    == (14 - d[2]) \div 12
YearOf(d)   == Astronomical(d[1]) + 4800 - Shift(d)
MonthOf(d)  == d[2] + 12 * Shift(d) - 3
InYear(d)   == MonthDays(MonthOf(d)) + d[3] - 1

Triple == Int \X Int \X Int

(* What ymd_to_julian computes of a date: the days before its year, and in *)
(* the year, in years from March.                                          *)
LEMMA DayOfDate ==
  ASSUME NEW d \in Triple, d[2] \in 1 .. 12
  PROVE  /\ Shift(d) = (IF d[2] <= 2 THEN 1 ELSE 0)
         /\ YearOf(d) \in Int /\ MonthOf(d) \in 0 .. 11 /\ Astronomical(d[1]) \in Int
         /\ YearDays(YearOf(d)) \in Int /\ MonthDays(MonthOf(d)) \in Int
         /\ ymd_to_julian(d) = YearDays(YearOf(d)) + InYear(d) - 32044
         /\ ymd_to_julian(d) \in Int /\ InYear(d) \in Int
<1>0. d[1] \in Int /\ d[2] \in Int /\ d[3] \in Int
  BY DEF Triple
<1>1. Shift(d) = (IF d[2] <= 2 THEN 1 ELSE 0)
  BY DEF Shift
<1>2. Astronomical(d[1]) \in Int
  BY <1>0 DEF Astronomical
<1>3. YearOf(d) \in Int /\ MonthOf(d) \in 0 .. 11
  BY <1>0, <1>1, <1>2 DEF YearOf, MonthOf
<1>4. YearDays(YearOf(d)) \in Int /\ MonthDays(MonthOf(d)) \in Int
  BY <1>3 DEF YearDays, MonthDays
<1>5. ymd_to_julian(d) = YearDays(YearOf(d)) + InYear(d) - 32044
  <2> DEFINE y == YearOf(d)
             m == MonthOf(d)
  <2>1. ymd_to_julian(d) = d[3] + (153 * m + 2) \div 5 + 365 * y + y \div 4 - y \div 100
                             + y \div 400 - 32045
    BY DEF ymd_to_julian, YearOf, MonthOf, Shift
  <2> HIDE DEF y, m
  <2>2. ymd_to_julian(d) = YearDays(y) + (MonthDays(m) + d[3] - 1) - 32044
    BY <1>0, <1>3, <2>1 DEF YearDays, MonthDays, y, m
  <2> QED
    BY <2>2 DEF y, m, InYear
<1> QED
  BY <1>0, <1>1, <1>2, <1>3, <1>4, <1>5 DEF InYear

(* The length of a month, and the days up to its end in a year from March. *)
LEMMA MonthEnds ==
  ASSUME NEW d \in Triple, d[2] \in 1 .. 12
  PROVE  /\ MonthOf(d) < 11 =>
              MonthDays(MonthOf(d) + 1) = MonthDays(MonthOf(d)) + month_length(d[1], d[2])
         /\ MonthOf(d) = 11 => d[2] = 2 /\ YearOf(d) + 1 = Astronomical(d[1]) + 4800
         /\ MonthOf(d) = 11 =>
              month_length(d[1], d[2]) = IF Leap(YearOf(d) + 1) THEN 29 ELSE 28
<1>1. MonthOf(d) = (IF d[2] <= 2 THEN d[2] + 9 ELSE d[2] - 3)
  BY DayOfDate DEF MonthOf
<1>2. d[2] # 2 => MonthDays(MonthOf(d) + 1) = MonthDays(MonthOf(d)) + month_length(d[1], d[2])
  <2> SUFFICES ASSUME d[2] # 2
               PROVE  MonthDays(MonthOf(d) + 1) = MonthDays(MonthOf(d)) + month_length(d[1], d[2])
    OBVIOUS
  <2>1. month_length(d[1], d[2]) = IF d[2] \in {1, 3, 5, 7, 8, 10, 12} THEN 31 ELSE 30
    BY DEF month_length
  <2> QED
    BY <1>1, <2>1, MonthTable
<1>3. ASSUME d[2] = 2
      PROVE  /\ YearOf(d) + 1 = Astronomical(d[1]) + 4800
             /\ month_length(d[1], d[2]) = IF Leap(YearOf(d) + 1) THEN 29 ELSE 28
  <2>1. YearOf(d) + 1 = Astronomical(d[1]) + 4800 /\ Astronomical(d[1]) \in Int
    BY <1>3, DayOfDate DEF YearOf
  <2>2. month_length(d[1], d[2]) = IF is_leap_year(d[1]) THEN 29 ELSE 28
    BY <1>3 DEF month_length
  <2> DEFINE y == Astronomical(d[1])
  <2>3. is_leap_year(d[1]) <=> Leap(y)
    BY DEF is_leap_year, Leap
  <2> HIDE DEF y
  <2>4. Leap(y) <=> Leap(y + 4800)
    <3>1. y \in Int
      BY <2>1 DEF y
    <3>2. (y + 4800) % 4 = y % 4 /\ (y + 4800) % 100 = y % 100 /\ (y + 4800) % 400 = y % 400
      BY <3>1
    <3> QED
      BY <3>2 DEF Leap
  <2> QED
    BY <2>1, <2>2, <2>3, <2>4 DEF y
<1> QED
  BY <1>1, <1>2, <1>3

(* A date lies in its year and its month.                                  *)
LEMMA DatesInYear ==
  ASSUME NEW d \in Triple, IsDate(d)
  PROVE  /\ d[2] \in 1 .. 12 /\ MonthOf(d) \in 0 .. 11 /\ InYear(d) \in Nat
         /\ MonthDays(MonthOf(d)) <= InYear(d)
         /\ MonthOf(d) < 11 => InYear(d) < MonthDays(MonthOf(d) + 1)
         /\ YearDays(YearOf(d)) + InYear(d) < YearDays(YearOf(d) + 1)
<1>0. d[2] \in 1 .. 12 /\ d[3] \in 1 .. month_length(d[1], d[2])
  BY DEF IsDate
<1>1. month_length(d[1], d[2]) \in 28 .. 31
  BY DEF month_length
<1>2. d[3] \in Int /\ 1 <= d[3] /\ d[3] <= month_length(d[1], d[2])
  BY <1>0, <1>1
<1>3. MonthOf(d) \in 0 .. 11 /\ YearOf(d) \in Int /\ MonthDays(MonthOf(d)) \in Int
  BY <1>0, DayOfDate
<1>4. MonthDays(MonthOf(d)) \in 0 .. 337
  BY <1>3, MonthTable
<1>5. /\ MonthDays(MonthOf(d)) <= InYear(d) /\ InYear(d) \in Nat
      /\ InYear(d) < MonthDays(MonthOf(d)) + month_length(d[1], d[2])
  BY <1>1, <1>2, <1>4 DEF InYear
<1>6. MonthOf(d) < 11 => InYear(d) < MonthDays(MonthOf(d) + 1)
  BY <1>0, <1>5, MonthEnds
<1>7. InYear(d) < IF Leap(YearOf(d) + 1) THEN 366 ELSE 365
  <2>1. CASE MonthOf(d) < 11
    <3>1. MonthDays(MonthOf(d) + 1) <= 337 /\ MonthDays(MonthOf(d) + 1) \in Int
      BY <1>3, <2>1, MonthTable
    <3> QED
      BY <1>5, <1>6, <2>1, <3>1
  <2>2. CASE MonthOf(d) = 11
    BY <1>0, <1>1, <1>5, <2>2, MonthEnds, MonthTable
  <2> QED
    BY <1>3, <2>1, <2>2
<1> QED
  <2>1. YearDays(YearOf(d)) \in Int
    BY <1>0, DayOfDate
  <2>2. YearDays(YearOf(d)) + InYear(d) < YearDays(YearOf(d) + 1)
    BY <1>3, <1>5, <1>7, <2>1, YearLength
  <2> QED
    BY <1>0, <1>3, <1>5, <1>6, <2>2

(* No two dates are the same day.                                          *)
LEMMA OneDateADay ==
  ASSUME NEW d \in Triple, NEW e \in Triple, IsDate(d), IsDate(e),
         ymd_to_julian(d) = ymd_to_julian(e)
  PROVE  d = e
<1>0. d[2] \in 1 .. 12 /\ e[2] \in 1 .. 12
  BY DatesInYear
<1>1. YearDays(YearOf(d)) + InYear(d) = YearDays(YearOf(e)) + InYear(e)
  BY <1>0, DayOfDate
<1>2. /\ YearOf(d) \in Int /\ YearOf(e) \in Int /\ InYear(d) \in Nat /\ InYear(e) \in Nat
      /\ YearDays(YearOf(d)) \in Int /\ YearDays(YearOf(e)) \in Int
      /\ YearDays(YearOf(d)) + InYear(d) < YearDays(YearOf(d) + 1)
      /\ YearDays(YearOf(e)) + InYear(e) < YearDays(YearOf(e) + 1)
  BY <1>0, DayOfDate, DatesInYear
<1>3. \A y, z \in Int : y < z => YearDays(y + 1) <= YearDays(z)
  <2> SUFFICES ASSUME NEW y \in Int, NEW z \in Int, y < z
               PROVE  YearDays(y + 1) <= YearDays(z)
    OBVIOUS
  <2>1. CASE y + 1 = z
    BY <2>1 DEF YearDays
  <2>2. CASE y + 1 < z
    <3>1. y + 1 \in Int /\ z - (y + 1) > 0
      BY <2>2
    <3>2. YearDays(y + 1) + 365 * (z - (y + 1)) <= YearDays(z) /\ YearDays(y + 1) \in Int
      BY <2>2, <3>1, YearsInOrder
    <3>3. YearDays(z) \in Int
      BY DEF YearDays
    <3> QED
      BY <3>1, <3>2, <3>3
  <2> QED
    BY <2>1, <2>2
<1>4. YearOf(d) = YearOf(e)
  <2> DEFINE y == YearOf(d)
             z == YearOf(e)
  <2>1. YearDays(y + 1) \in Int /\ YearDays(z + 1) \in Int
    BY <1>2 DEF YearDays
  <2> HIDE DEF y, z
  <2>2. ~(y < z) /\ ~(z < y)
    BY <1>1, <1>2, <1>3, <2>1 DEF y, z
  <2> QED
    BY <1>2, <2>2 DEF y, z
<1>5. InYear(d) = InYear(e)
  BY <1>1, <1>2, <1>4
<1>6. MonthOf(d) = MonthOf(e)
  <2> DEFINE m == MonthOf(d)
             n == MonthOf(e)
             k == InYear(d)
  <2>1. /\ m \in 0 .. 11 /\ n \in 0 .. 11 /\ k \in Nat
        /\ MonthDays(m) <= k /\ MonthDays(n) <= k
        /\ m < 11 => k < MonthDays(m + 1)
        /\ n < 11 => k < MonthDays(n + 1)
    BY <1>5, DatesInYear
  <2> HIDE DEF m, n, k
  <2>2. \A p, q \in 0 .. 11 : p < q => MonthDays(p + 1) <= MonthDays(q)
    BY DEF MonthDays
  <2>3. \A p \in 0 .. 12 : MonthDays(p) \in Int
    BY DEF MonthDays
  <2>4. ~(m < n) /\ ~(n < m)
    BY <2>1, <2>2, <2>3
  <2> QED
    BY <2>1, <2>4 DEF m, n
<1>7. d[2] = e[2]
  <2>1. /\ MonthOf(d) = (IF d[2] <= 2 THEN d[2] + 9 ELSE d[2] - 3)
        /\ MonthOf(e) = (IF e[2] <= 2 THEN e[2] + 9 ELSE e[2] - 3)
    BY <1>0, DayOfDate DEF MonthOf
  <2> DEFINE m == MonthOf(d)
             p == d[2]
             q == e[2]
  <2>3. /\ m = (IF p <= 2 THEN p + 9 ELSE p - 3) /\ m = (IF q <= 2 THEN q + 9 ELSE q - 3)
        /\ p \in 1 .. 12 /\ q \in 1 .. 12
    <3>1. m = (IF p <= 2 THEN p + 9 ELSE p - 3)
      BY <2>1, Zenon
    <3>2. m = (IF q <= 2 THEN q + 9 ELSE q - 3)
      BY <1>6, <2>1, Zenon
    <3> QED
      BY <1>0, <3>1, <3>2
  <2> HIDE DEF m, p, q
  <2>4. p = q
    BY <2>3
  <2> QED
    BY <2>4 DEF p, q
<1>8. d[3] = e[3]
  <2>1. d[3] \in Int /\ e[3] \in Int /\ MonthDays(MonthOf(d)) \in Int
    BY <1>0, DayOfDate DEF Triple
  <2> QED
    BY <1>5, <1>6, <2>1 DEF InYear
<1>9. d[1] = e[1]
  <2>1. Astronomical(d[1]) = Astronomical(e[1])
    <3>1. Shift(d) = Shift(e) /\ Shift(d) \in Int
      BY <1>0, <1>7, DayOfDate
    <3> QED
      BY <1>0, <1>4, <3>1, DayOfDate DEF YearOf
  <2>2. d[1] \in Int \ {0} /\ e[1] \in Int \ {0}
    BY DEF IsDate, Triple
  <2> QED
    BY <2>1, <2>2 DEF Astronomical
<1> QED
  BY <1>7, <1>8, <1>9 DEF Triple

-----------------------------------------------------------------------------
(* From days to dates.                                                     *)

(* A century, the day in it, the year in it, the day in that year and its  *)
(* month: what julian_to_ymd computes on its way.                          *)
CenturyOf(n)  == (4 * (n + 68569)) \div 146097
InCentury(n)  == n + 68569 - (146097 * CenturyOf(n) + 3) \div 4
YearAt(l)     == (4000 * (l + 1)) \div 1461001
DayAt(l)      == l - (1461 * YearAt(l)) \div 4
MonthAt(k)    == (80 * (k + 31)) \div 2447
YearIn(n)     == YearAt(InCentury(n))
DayIn(n)      == DayAt(InCentury(n))
MonthIn(n)    == MonthAt(DayIn(n))

Century == {l \in Int : 0 <= l /\ l <= 36524}

CenturySound(n) ==
  /\ CenturyOf(n) \in Int /\ InCentury(n) \in Century
  /\ InCentury(n) = 36524 => CenturyOf(n) % 4 = 0
  /\ n + 68569 = 36525 + YearDays(100 * (CenturyOf(n) - 1)) + InCentury(n)

(* The first division of julian_to_ymd finds the century the day is in.    *)
LEMMA CenturyFound == ASSUME NEW n \in Int PROVE CenturySound(n)
<1> DEFINE c == CenturyOf(n)
           x == n + 68569
           t == (146097 * c + 3) \div 4
           u == (146097 * c + 3) % 4
           l == InCentury(n)
<1>1. c \in Int /\ 146097 * c <= 4 * x /\ 4 * x < 146097 * c + 146097 /\ x \in Int
  BY DEF CenturyOf
<1>2. l = x - t
  <2>1. t \in Int
    BY <1>1
  <2>2. l = n + 68569 - t
    BY DEF InCentury
  <2> HIDE DEF t, l
  <2> QED
    BY <2>1, <2>2
<1> HIDE DEF c, x, l
<1>3. t \in Int /\ u \in 0 .. 3 /\ 146097 * c + 3 = 4 * t + u
  BY <1>1
<1>4. u = 3 => c % 4 = 0
  BY <1>1
<1> HIDE DEF t, u
<1>5. l \in Century
  <2>1. l \in Int /\ 0 <= l /\ l <= 36524
    BY <1>1, <1>2, <1>3
  <2> QED
    BY <2>1 DEF Century
<1>6. l = 36524 => u = 3
  BY <1>1, <1>2, <1>3
<1>7. YearDays(100 * (c - 1)) = t - 36525
  <2>1. (100 * (c - 1)) \div 4 = 25 * (c - 1)
    BY <1>1
  <2>2. (100 * (c - 1)) \div 100 = c - 1
    BY <1>1
  <2>3. (100 * (c - 1)) \div 400 = (c - 1) \div 4
    BY <1>1
  <2>4. t = 36524 * c + (c + 3) \div 4
    BY <1>1, <1>3
  <2>5. (c + 3) \div 4 = (c - 1) \div 4 + 1
    BY <1>1
  <2> QED
    BY <1>1, <2>1, <2>2, <2>3, <2>4, <2>5 DEF YearDays
<1>8. x = 36525 + YearDays(100 * (c - 1)) + l
  BY <1>1, <1>2, <1>3, <1>7
<1> QED
  BY <1>1, <1>4, <1>5, <1>6, <1>8 DEF c, x, l, CenturySound

(* The day in the century gives the year in it.                            *)
YearSound(l) ==
  /\ YearAt(l) \in 0 .. 99 /\ DayAt(l) \in 0 .. 365
  /\ DayAt(l) = 365 => YearAt(l) % 4 = 3
  /\ DayAt(l) = l - (365 * YearAt(l) + YearAt(l) \div 4)
  /\ YearAt(l) = 99 /\ DayAt(l) = 365 => l = 36524

(* The second one finds the year in the century.                           *)
LEMMA YearFound == ASSUME NEW l \in Century PROVE YearSound(l)
<1> DEFINE p == l \div 1461
           q == l % 1461
           e == (4000 * (q + 1) - 4 * p) \div 1461001
           i == (4000 * (l + 1)) \div 1461001
           k == l - (1461 * i) \div 4
<1>1. p \in 0 .. 24 /\ q \in 0 .. 1460 /\ l = 1461 * p + q
  <2>0. l \in Int /\ 0 <= l /\ l <= 36524
    BY DEF Century
  <2>1. p \in Int /\ q \in 0 .. 1460 /\ l = 1461 * p + q
    BY <2>0
  <2> HIDE DEF p, q
  <2> QED
    BY <2>0, <2>1
<1> HIDE DEF p, q
<1>2. i = 4 * p + e
  <2>1. 4000 * (l + 1) = 1461001 * (4 * p) + (4000 * (q + 1) - 4 * p)
    BY <1>1
  <2> QED
    BY <1>1, <2>1
<1>3. /\ q <= 364 => e = 0
      /\ q >= 365 /\ q <= 729 => e = 1
      /\ q >= 730 /\ q <= 1094 => e = 2
      /\ q >= 1095 => e = 3
  BY <1>1
<1>4. e \in 0 .. 3
  BY <1>1, <1>3
<1> HIDE DEF e, i
<1>5. (1461 * i) \div 4 = 1461 * p + 365 * e
  BY <1>1, <1>2, <1>4
<1>6. i \div 4 = p /\ i % 4 = e
  BY <1>1, <1>2, <1>4
<1>7. k = q - 365 * e
  BY <1>1, <1>4, <1>5
<1> HIDE DEF k
<1>8. i \in 0 .. 99 /\ k \in 0 .. 365 /\ (k = 365 => e = 3)
  BY <1>1, <1>2, <1>3, <1>4, <1>7
<1>9. (1461 * i) \div 4 = 365 * i + i \div 4
  BY <1>1, <1>2, <1>4, <1>5, <1>6
<1>10. i = 99 /\ k = 365 => l = 36524
  BY <1>1, <1>2, <1>4, <1>7
<1>11. k = l - (365 * i + i \div 4)
  <2>1. k = l - (1461 * i) \div 4
    BY DEF k
  <2> QED
    BY <1>9, <2>1
<1>12. i = YearAt(l) /\ k = DayAt(l)
  BY DEF i, k, YearAt, DayAt
<1> QED
  BY <1>6, <1>8, <1>10, <1>11, <1>12 DEF YearSound

(* The day in the year, counted from March, gives the month.               *)
MonthSound(k) ==
  /\ MonthAt(k) \in 1 .. 12
  /\ MonthAt(k) \div 11 = (IF MonthAt(k) >= 11 THEN 1 ELSE 0)
  /\ (2447 * MonthAt(k)) \div 80 = 30 + MonthDays(MonthAt(k) - 1)
  /\ MonthDays(MonthAt(k) - 1) <= k
  /\ MonthAt(k) < 12 => k < MonthDays(MonthAt(k))

(* The third one finds the month in the year.                              *)
LEMMA MonthFound == ASSUME NEW k \in 0 .. 365 PROVE MonthSound(k)
<1> DEFINE j == (80 * (k + 31)) \div 2447
<1>0. k \in Int /\ 0 <= k /\ k <= 365
  OBVIOUS
<1>1. j \in 1 .. 12
  BY <1>0
<1>2. 2447 * j <= 80 * (k + 31) /\ 80 * (k + 31) < 2447 * j + 2447
  OBVIOUS
<1> HIDE DEF j
<1>3. (2447 * j) \div 80 = 30 + MonthDays(j - 1)
  BY <1>1 DEF MonthDays
<1>4. MonthDays(j - 1) <= k /\ (j < 12 => k < MonthDays(j))
  BY <1>1, <1>2, MonthTable
<1>5. j \div 11 = (IF j >= 11 THEN 1 ELSE 0)
  BY <1>1
<1> QED
  BY <1>1, <1>3, <1>4, <1>5 DEF j, MonthAt, MonthSound

(* All three of one day.                                                   *)
LEMMA OnTheWay ==
  ASSUME NEW n \in Int
  PROVE  CenturySound(n) /\ YearSound(InCentury(n)) /\ MonthSound(DayIn(n))
<1>1. CenturySound(n)
  BY CenturyFound
<1>2. InCentury(n) \in Century
  BY <1>1 DEF CenturySound
<1>3. YearSound(InCentury(n))
  BY <1>2, YearFound
<1>4. DayIn(n) \in 0 .. 365
  BY <1>3 DEF YearSound, DayIn
<1> QED
  BY <1>1, <1>3, <1>4, MonthFound

(* A year of a century begins so many days after the century.              *)
LEMMA YearInCentury ==
  ASSUME NEW b \in Int, NEW i \in 0 .. 99
  PROVE  YearDays(100 * b + i) = YearDays(100 * b) + 365 * i + i \div 4
<1>1. (100 * b + i) \div 4 = 25 * b + i \div 4 /\ (100 * b) \div 4 = 25 * b
  OBVIOUS
<1>2. (100 * b + i) \div 100 = b /\ (100 * b) \div 100 = b
  OBVIOUS
<1>3. (100 * b + i) \div 400 = b \div 4 /\ (100 * b) \div 400 = b \div 4
  OBVIOUS
<1> QED
  BY <1>1, <1>2, <1>3 DEF YearDays

(* The last day of a year of 366 days is before a leap year.               *)
LEMMA LeapFound ==
  ASSUME NEW c \in Int, NEW i \in 0 .. 99, i % 4 = 3, i = 99 => c % 4 = 0
  PROVE  Leap(100 * (c - 1) + i + 1)
<1> DEFINE y == 100 * (c - 1) + i + 1
<1>1. y % 4 = 0
  OBVIOUS
<1>2. CASE i = 99
  <2>1. y = 100 * c
    BY <1>2
  <2>2. (100 * c) % 400 = 0
    BY <1>2
  <2> QED
    BY <1>1, <2>1, <2>2 DEF Leap
<1>3. CASE i # 99
  <2>1. y % 100 = i + 1
    BY <1>3
  <2> QED
    BY <1>1, <2>1 DEF Leap
<1> QED
  BY <1>2, <1>3

(* The parts of the date of a day.                                         *)
LEMMA DateParts ==
  ASSUME NEW n \in Int
  PROVE  LET d == julian_to_ymd(n)
         IN  /\ d \in Triple /\ d[1] # 0 /\ d[2] \in 1 .. 12
             /\ YearOf(d) = 100 * (CenturyOf(n) - 1) + YearIn(n)
             /\ MonthOf(d) = MonthIn(n) - 1 /\ d[3] = DayIn(n) + 1 - MonthDays(MonthIn(n) - 1)
             /\ InYear(d) = DayIn(n)
<1>0. CenturySound(n) /\ YearSound(InCentury(n)) /\ MonthSound(DayIn(n))
  BY OnTheWay
<1> DEFINE d == julian_to_ymd(n)
           c == CenturyOf(n)
           i == YearIn(n)
           k == DayIn(n)
           j == MonthIn(n)
           f == j \div 11
           z == 100 * (c - 49) + i + f
<1>1. c \in Int
  BY <1>0 DEF CenturySound
<1>2. i \in 0 .. 99 /\ k \in 0 .. 365
  BY <1>0 DEF YearSound, YearIn, DayIn
<1>3. /\ j \in 1 .. 12 /\ f = (IF j >= 11 THEN 1 ELSE 0)
      /\ (2447 * j) \div 80 = 30 + MonthDays(j - 1)
  BY <1>0 DEF MonthSound, MonthIn
<1>4. d = <<IF z <= 0 THEN z - 1 ELSE z, j + 2 - 12 * f, k + 31 - (2447 * j) \div 80>>
  BY DEF julian_to_ymd, CenturyOf, InCentury, YearIn, DayIn, MonthIn, YearAt, DayAt, MonthAt
<1>5. MonthDays(j - 1) \in Int
  BY <1>3 DEF MonthDays
<1> HIDE DEF c, i, k, j, f, d
<1>6. z \in Int
  BY <1>1, <1>2, <1>3
<1> HIDE DEF z
<1>7. d[3] = k + 1 - MonthDays(j - 1) /\ d[3] \in Int
  BY <1>2, <1>3, <1>4, <1>5
<1>8. d[2] = j + 2 - 12 * f /\ d[2] \in 1 .. 12
  BY <1>3, <1>4
<1>9. d[1] = (IF z <= 0 THEN z - 1 ELSE z)
  BY <1>4
<1>10. d[1] \in Int /\ d[1] # 0 /\ Astronomical(d[1]) = z
  BY <1>6, <1>9 DEF Astronomical
<1>11. Shift(d) = f
  <2>1. Shift(d) = (14 - d[2]) \div 12
    BY DEF Shift
  <2> QED
    BY <1>3, <1>8, <2>1
<1>12. d \in Triple
  BY <1>4, <1>7, <1>8, <1>10 DEF Triple
<1>13. YearOf(d) = 100 * (c - 1) + i
  BY <1>1, <1>2, <1>3, <1>10, <1>11 DEF YearOf, z
<1>14. MonthOf(d) = j - 1
  BY <1>3, <1>8, <1>11 DEF MonthOf
<1>15. InYear(d) = k
  BY <1>2, <1>5, <1>7, <1>14 DEF InYear
<1> QED
  BY <1>7, <1>8, <1>10, <1>12, <1>13, <1>14, <1>15 DEF d, c, i, k, j

(* Every day has a date, which leads back to it.                           *)
LEMMA DateFound ==
  ASSUME NEW n \in Int
  PROVE  /\ julian_to_ymd(n) \in Triple /\ IsDate(julian_to_ymd(n))
         /\ ymd_to_julian(julian_to_ymd(n)) = n
<1>0. CenturySound(n) /\ YearSound(InCentury(n)) /\ MonthSound(DayIn(n))
  BY OnTheWay
<1> DEFINE d == julian_to_ymd(n)
           c == CenturyOf(n)
           i == YearIn(n)
           k == DayIn(n)
           j == MonthIn(n)
           l == InCentury(n)
<1>1. /\ c \in Int /\ l \in Century /\ (l = 36524 => c % 4 = 0)
      /\ n + 68569 = 36525 + YearDays(100 * (c - 1)) + l
  BY <1>0 DEF CenturySound
<1>2. /\ i \in 0 .. 99 /\ k \in 0 .. 365 /\ (k = 365 => i % 4 = 3)
      /\ k = l - (365 * i + i \div 4) /\ (i = 99 /\ k = 365 => l = 36524)
  BY <1>0 DEF YearSound, YearIn, DayIn
<1>3. /\ j \in 1 .. 12 /\ MonthDays(j - 1) <= k /\ (j < 12 => k < MonthDays(j))
  BY <1>0 DEF MonthSound, MonthIn
<1>4. /\ d \in Triple /\ d[1] # 0 /\ d[2] \in 1 .. 12
      /\ YearOf(d) = 100 * (c - 1) + i /\ MonthOf(d) = j - 1
      /\ d[3] = k + 1 - MonthDays(j - 1) /\ InYear(d) = k
  BY DateParts
<1> HIDE DEF d, c, i, k, j, l
<1>5. ymd_to_julian(d) = n
  <2>1. YearDays(100 * (c - 1) + i) = YearDays(100 * (c - 1)) + 365 * i + i \div 4
    <3> DEFINE b == c - 1
    <3>1. b \in Int
      BY <1>1
    <3> HIDE DEF b
    <3>2. YearDays(100 * b + i) = YearDays(100 * b) + 365 * i + i \div 4
      BY <1>2, <3>1, YearInCentury
    <3> QED
      BY <3>2 DEF b
  <2>2. ymd_to_julian(d) = YearDays(100 * (c - 1) + i) + k - 32044
    BY <1>4, DayOfDate
  <2>3. YearDays(100 * (c - 1)) \in Int /\ i \div 4 \in Int
    BY <1>1, <1>2 DEF YearDays
  <2>4. l \in Int
    BY <1>1 DEF Century
  <2> QED
    BY <1>1, <1>2, <2>1, <2>2, <2>3, <2>4
<1>6. MonthDays(j - 1) \in Int /\ MonthDays(j) \in Int
  BY <1>3 DEF MonthDays
<1>7. d[3] \in 1 .. month_length(d[1], d[2])
  <2>0. month_length(d[1], d[2]) \in Int
    BY DEF month_length
  <2>1. CASE j < 12
    <3>1. MonthDays(j) = MonthDays(j - 1) + month_length(d[1], d[2])
      <4>1. MonthOf(d) + 1 = j /\ MonthOf(d) < 11
        BY <1>3, <1>4, <2>1
      <4> QED
        BY <1>4, <4>1, MonthEnds
    <3> QED
      BY <1>2, <1>3, <1>4, <1>6, <2>0, <2>1, <3>1
  <2>2. CASE j = 12
    <3>1. month_length(d[1], d[2]) = IF Leap(100 * (c - 1) + i + 1) THEN 29 ELSE 28
      BY <1>4, <2>2, MonthEnds
    <3>2. k = 365 => Leap(100 * (c - 1) + i + 1)
      <4> SUFFICES ASSUME k = 365 PROVE Leap(100 * (c - 1) + i + 1)
        OBVIOUS
      <4>1. i % 4 = 3 /\ (i = 99 => c % 4 = 0) /\ c \in Int /\ i \in 0 .. 99
        BY <1>1, <1>2
      <4> QED
        BY <4>1, LeapFound
    <3>3. d[3] = k - 336 /\ k >= 337
      BY <1>2, <1>3, <1>4, <2>2, MonthTable
    <3> QED
      BY <1>2, <3>1, <3>2, <3>3
  <2> QED
    BY <1>3, <2>1, <2>2
<1>8. IsDate(d)
  BY <1>4, <1>7 DEF IsDate
<1> QED
  BY <1>4, <1>5, <1>8 DEF d

(* Every date has a day, which leads back to it.                           *)
LEMMA DayFound ==
  ASSUME NEW d \in Triple, IsDate(d)
  PROVE  ymd_to_julian(d) \in Int /\ julian_to_ymd(ymd_to_julian(d)) = d
<1>1. ymd_to_julian(d) \in Int
  BY DatesInYear, DayOfDate
<1> QED
  BY <1>1, DateFound, OneDateADay

-----------------------------------------------------------------------------
(* The calendar on the wall.                                               *)

(* The next year, of which there is no 0.                                  *)
NextYear(y) == IF y = -1 THEN 1 ELSE y + 1

(* The day after a date is a date.                                         *)
LEMMA TomorrowIsDate ==
  ASSUME NEW d \in Triple, IsDate(d)
  PROVE  Tomorrow(d) \in Triple /\ IsDate(Tomorrow(d))
<1>1. /\ d[1] \in Int /\ d[2] \in 1 .. 12 /\ d[3] \in 1 .. month_length(d[1], d[2])
      /\ d[1] # 0 /\ d[3] \in Int
  BY DEF IsDate, Triple
<1>2. \A y, m : month_length(y, m) \in 28 .. 31
  BY DEF month_length
<1>3. CASE d[3] < month_length(d[1], d[2])
  BY <1>1, <1>2, <1>3 DEF Tomorrow, IsDate, Triple
<1>4. CASE ~(d[3] < month_length(d[1], d[2])) /\ d[2] < 12
  BY <1>1, <1>2, <1>4 DEF Tomorrow, IsDate, Triple
<1>5. CASE ~(d[3] < month_length(d[1], d[2])) /\ ~(d[2] < 12)
  <2>1. Tomorrow(d) = <<NextYear(d[1]), 1, 1>>
    BY <1>5 DEF Tomorrow, NextYear
  <2>2. NextYear(d[1]) \in Int /\ NextYear(d[1]) # 0
    BY <1>1 DEF NextYear
  <2> QED
    BY <1>2, <2>1, <2>2 DEF IsDate, Triple
<1> QED
  BY <1>3, <1>4, <1>5

(* The day after a date is one day more.                                   *)
LEMMA TomorrowIsNext ==
  ASSUME NEW d \in Triple, IsDate(d)
  PROVE  ymd_to_julian(Tomorrow(d)) = ymd_to_julian(d) + 1
<1> DEFINE e == Tomorrow(d)
           len == month_length(d[1], d[2])
<1>1. /\ d[1] \in Int /\ d[2] \in 1 .. 12 /\ d[3] \in Int /\ d[3] <= len /\ len \in 28 .. 31
      /\ d[1] # 0
  <2>1. len \in 28 .. 31
    BY DEF month_length
  <2> QED
    BY <2>1 DEF IsDate, Triple
<1>2. e \in Triple /\ e[2] \in 1 .. 12
  BY TomorrowIsDate, DatesInYear
<1>3. /\ ymd_to_julian(d) = YearDays(YearOf(d)) + InYear(d) - 32044
      /\ ymd_to_julian(e) = YearDays(YearOf(e)) + InYear(e) - 32044
      /\ MonthDays(MonthOf(d)) \in Int /\ MonthDays(MonthOf(e)) \in Int
      /\ YearDays(YearOf(d)) \in Int /\ YearDays(YearOf(e)) \in Int
      /\ InYear(d) \in Int /\ InYear(e) \in Int /\ MonthOf(d) \in 0 .. 11
      /\ YearOf(d) \in Int /\ Astronomical(d[1]) \in Int
  BY <1>1, <1>2, DayOfDate
<1>4. CASE d[3] < len
  <2>1. e = <<d[1], d[2], d[3] + 1>>
    BY <1>4 DEF Tomorrow
  <2>2. YearOf(e) = YearOf(d) /\ MonthOf(e) = MonthOf(d)
    BY <2>1 DEF YearOf, MonthOf, Shift
  <2>3. InYear(e) = InYear(d) + 1
    BY <1>1, <1>3, <2>1, <2>2 DEF InYear
  <2> QED
    BY <1>3, <2>2, <2>3
<1>5. CASE d[3] = len /\ d[2] < 12
  <2>1. e = <<d[1], d[2] + 1, 1>>
    <3>1. ~(d[3] < len)
      BY <1>1, <1>5
    <3> QED
      BY <1>5, <3>1 DEF Tomorrow
  <2>2. /\ Shift(d) = (IF d[2] <= 2 THEN 1 ELSE 0)
        /\ Shift(e) = (IF d[2] + 1 <= 2 THEN 1 ELSE 0)
    BY <1>1, <1>2, <2>1, DayOfDate
  <2>3. CASE d[2] # 2
    <3>1. Shift(e) = Shift(d) /\ Shift(d) \in 0 .. 1
      BY <1>1, <2>2, <2>3
    <3>2. YearOf(e) = YearOf(d) /\ MonthOf(e) = MonthOf(d) + 1
      BY <1>1, <2>1, <3>1 DEF YearOf, MonthOf
    <3>3. MonthOf(d) < 11
      BY <1>1, <1>3, <2>3, MonthEnds
    <3>4. MonthDays(MonthOf(e)) = MonthDays(MonthOf(d)) + len
      BY <1>1, <3>2, <3>3, MonthEnds
    <3>5. InYear(e) = InYear(d) + 1
      BY <1>1, <1>3, <1>5, <2>1, <3>4 DEF InYear
    <3> QED
      BY <1>3, <3>2, <3>5
  <2>4. CASE d[2] = 2
    <3>1. Shift(d) = 1 /\ Shift(e) = 0
      BY <2>2, <2>4
    <3>2. YearOf(e) = YearOf(d) + 1 /\ MonthOf(e) = 0 /\ MonthOf(d) = 11
      BY <1>3, <2>1, <2>4, <3>1 DEF YearOf, MonthOf
    <3>3. len = IF Leap(YearOf(d) + 1) THEN 29 ELSE 28
      BY <1>1, <3>2, MonthEnds
    <3>4. InYear(d) = 336 + len /\ InYear(e) = 0
      BY <1>1, <1>5, <2>1, <3>2, MonthTable DEF InYear
    <3>5. YearDays(YearOf(e)) = YearDays(YearOf(d)) + IF Leap(YearOf(d) + 1) THEN 366 ELSE 365
      BY <1>3, <3>2, YearLength
    <3> QED
      BY <1>3, <3>3, <3>4, <3>5
  <2> QED
    BY <2>3, <2>4
<1>6. CASE d[3] = len /\ d[2] = 12
  <2>1. e = <<NextYear(d[1]), 1, 1>>
    <3>1. ~(d[3] < len) /\ ~(d[2] < 12)
      BY <1>1, <1>6
    <3> QED
      BY <3>1 DEF Tomorrow, NextYear
  <2>2. Astronomical(NextYear(d[1])) = Astronomical(d[1]) + 1
    BY <1>1 DEF Astronomical, NextYear
  <2>3. Shift(d) = 0 /\ Shift(e) = 1
    BY <1>1, <1>2, <1>6, <2>1, DayOfDate
  <2>4. YearOf(e) = YearOf(d) /\ MonthOf(e) = 10 /\ MonthOf(d) = 9
    BY <1>3, <1>6, <2>1, <2>2, <2>3 DEF YearOf, MonthOf
  <2>5. len = 31
    BY <1>6 DEF month_length
  <2>6. InYear(e) = 306 /\ InYear(d) = 305
    BY <1>6, <2>1, <2>4, <2>5, MonthTable DEF InYear
  <2> QED
    BY <1>3, <2>4, <2>6
<1> QED
  BY <1>1, <1>4, <1>5, <1>6

(* The week goes on.                                                       *)
LEMMA WeekGoesOn ==
  ASSUME NEW n \in Nat
  PROVE  Remainder(n + 1, 7) = (Remainder(n, 7) + 1) % 7
BY DEF Remainder

-----------------------------------------------------------------------------
(* The days of a year.                                                     *)

(* The days before the end of each month of a year.                        *)
Ends(year) ==
  [k \in 0 .. 12 |-> LET f == IF is_leap_year(year) THEN 1 ELSE 0
                     IN  CASE k = 0 -> 0 [] k = 1 -> 31 [] k = 2 -> 59 + f
                           [] k = 3 -> 90 + f [] k = 4 -> 120 + f [] k = 5 -> 151 + f
                           [] k = 6 -> 181 + f [] k = 7 -> 212 + f [] k = 8 -> 243 + f
                           [] k = 9 -> 273 + f [] k = 10 -> 304 + f [] k = 11 -> 334 + f
                           [] OTHER -> 365 + f]

(* Each month ends as many days after the one before as it is long.        *)
LEMMA EndsAdded ==
  ASSUME NEW year
  PROVE  /\ Ends(year)[0] = 0
         /\ \A k \in 1 .. 12 : Ends(year)[k] = Ends(year)[k - 1] + month_length(year, k)
         /\ \A k \in 0 .. 12 : Ends(year)[k] \in Int
         /\ Ends(year)[12] = IF is_leap_year(year) THEN 366 ELSE 365
<1>1. /\ Ends(year)[0] = 0
      /\ \A k \in 0 .. 12 : Ends(year)[k] \in Int
      /\ Ends(year)[12] = IF is_leap_year(year) THEN 366 ELSE 365
  BY DEF Ends
<1>2. ASSUME NEW k \in 1 .. 12
      PROVE  Ends(year)[k] = Ends(year)[k - 1] + month_length(year, k)
  BY DEF Ends, month_length
<1> QED
  BY <1>1, <1>2

(* The months' lengths add up to them.                                     *)
LEMMA MonthsAre ==
  ASSUME NEW year
  PROVE  \A k \in 0 .. 12 : Months(year)[k] = Ends(year)[k]
<1> DEFINE Sum(f) == f = [i \in 0 .. 12 |-> IF i = 0 THEN 0
                                            ELSE f[i - 1] + month_length(year, i)]
           sum == CHOOSE f : Sum(f)
<1>1. Sum(Ends(year))
  <2> DEFINE g == [i \in 0 .. 12 |-> IF i = 0 THEN 0
                                     ELSE Ends(year)[i - 1] + month_length(year, i)]
  <2>1. \A i \in 0 .. 12 : Ends(year)[i] = g[i]
    BY EndsAdded
  <2>2. Ends(year) = [i \in 0 .. 12 |-> Ends(year)[i]]
    BY DEF Ends
  <2> QED
    BY <2>1, <2>2
<1>2. Sum(sum)
  BY <1>1
<1>3. \A k \in 0 .. 12 : Months(year)[k] = sum[k]
  BY DEF Months
<1> HIDE DEF sum
<1>4. sum[0] = 0 /\ \A k \in 1 .. 12 : sum[k] = sum[k - 1] + month_length(year, k)
  BY <1>2
<1> HIDE DEF Sum
<1>5. /\ sum[0] = Ends(year)[0] /\ sum[1] = Ends(year)[1] /\ sum[2] = Ends(year)[2]
      /\ sum[3] = Ends(year)[3] /\ sum[4] = Ends(year)[4] /\ sum[5] = Ends(year)[5]
      /\ sum[6] = Ends(year)[6] /\ sum[7] = Ends(year)[7] /\ sum[8] = Ends(year)[8]
      /\ sum[9] = Ends(year)[9] /\ sum[10] = Ends(year)[10] /\ sum[11] = Ends(year)[11]
      /\ sum[12] = Ends(year)[12]
  BY <1>4, EndsAdded
<1> QED
  BY <1>3, <1>5

(* The first of a month, so many days after the first of the year.         *)
LEMMA DaysOfYear ==
  ASSUME NEW year \in Int, NEW month \in 1 .. 12, NEW n \in Int
  PROVE  ymd_to_julian(<<year, month, n>>) =
           ymd_to_julian(<<year, 1, 1>>) + Ends(year)[month - 1] + n - 1
<1> DEFINE d == <<year, month, n>>
           e == <<year, 1, 1>>
           y == Astronomical(year) + 4799
<1>1. /\ d \in Triple /\ e \in Triple /\ d[1] = year /\ d[2] = month /\ d[3] = n
      /\ e[1] = year /\ e[2] = 1 /\ e[3] = 1
  BY DEF Triple
<1>2. y \in Int /\ Astronomical(year) \in Int
  BY DEF Astronomical
<1> HIDE DEF d, e
<1>3. /\ YearOf(d) = (IF month <= 2 THEN y ELSE y + 1) /\ YearOf(e) = y
      /\ MonthOf(d) = (IF month <= 2 THEN month + 9 ELSE month - 3) /\ MonthOf(e) = 10
      /\ ymd_to_julian(d) = YearDays(YearOf(d)) + InYear(d) - 32044
      /\ ymd_to_julian(e) = YearDays(YearOf(e)) + InYear(e) - 32044
  <2>1. Shift(d) = (IF month <= 2 THEN 1 ELSE 0) /\ Shift(e) = 1
    BY <1>1, DayOfDate
  <2> QED
    BY <1>1, <1>2, <2>1, DayOfDate DEF YearOf, MonthOf
<1>4. InYear(e) = 306 /\ InYear(d) = MonthDays(MonthOf(d)) + n - 1
  BY <1>1, <1>3, MonthTable DEF InYear
<1>5. YearDays(y + 1) = YearDays(y) + (IF is_leap_year(year) THEN 366 ELSE 365)
      /\ YearDays(y) \in Int
  <2>1. Leap(y + 1) <=> is_leap_year(year)
    <3> DEFINE a == Astronomical(year)
    <3>1. /\ (a + 4800) % 4 = a % 4 /\ (a + 4800) % 100 = a % 100
          /\ (a + 4800) % 400 = a % 400
      BY <1>2
    <3>2. y + 1 = a + 4800
      BY <1>2
    <3> HIDE DEF a, y
    <3>3. Leap(a + 4800) <=> is_leap_year(year)
      BY <3>1 DEF Leap, is_leap_year, a
    <3> QED
      BY <3>2, <3>3
  <2>2. YearDays(y) \in Int
    BY <1>2 DEF YearDays
  <2> HIDE DEF y
  <2> QED
    BY <1>2, <2>1, <2>2, YearLength
<1> HIDE DEF y
<1>6. CASE month <= 2
  <2>1. Ends(year)[month - 1] = IF month = 1 THEN 0 ELSE 31
    BY <1>6 DEF Ends
  <2>2. MonthDays(MonthOf(d)) = IF month = 1 THEN 306 ELSE 337
    BY <1>3, <1>6, MonthTable
  <2> QED
    BY <1>3, <1>4, <1>5, <1>6, <2>1, <2>2 DEF d, e
<1>7. CASE month > 2
  <2>1. Ends(year)[month - 1] = MonthDays(month - 3) + IF is_leap_year(year) THEN 60 ELSE 59
    <3>1. MonthDays(month - 3) \in Int
      BY DEF MonthDays
    <3> QED
      BY <1>7, <3>1, MonthTable DEF Ends
  <2>2. MonthDays(month - 3) \in Int
    BY DEF MonthDays
  <2>3. YearOf(d) = y + 1 /\ MonthOf(d) = month - 3
    BY <1>3, <1>7
  <2>4. /\ ymd_to_julian(d) = YearDays(y + 1) + (MonthDays(month - 3) + n - 1) - 32044
        /\ ymd_to_julian(e) = YearDays(y) + 306 - 32044
    BY <1>3, <1>4, <2>3
  <2> QED
    BY <1>5, <2>1, <2>2, <2>4 DEF d, e
<1> QED
  BY <1>6, <1>7

(* Months end in order.                                                    *)
LEMMA EndsInOrder ==
  ASSUME NEW year, NEW i \in 0 .. 12, NEW k \in 0 .. 12, i <= k
  PROVE  Ends(year)[i] <= Ends(year)[k]
BY DEF Ends

(* The month T stops at.                                                   *)
LEMMA FullFound ==
  ASSUME NEW year \in Int, NEW doy \in Int, ~TooFar(year, doy)
  PROVE  \E month \in 1 .. 12 :
           /\ Full(year, doy) = <<year, month, doy + 1 - Ends(year)[month - 1]>>
           /\ doy + 1 <= Ends(year)[month]
           /\ month = 1 \/ doy + 1 > Ends(year)[month - 1]
<1> DEFINE Stop(k) == /\ \A i \in 1 .. k - 1 : doy + 1 > Months(year)[i]
                      /\ doy + 1 <= Months(year)[k]
           S == {k \in 1 .. 12 : doy + 1 <= Months(year)[k]}
           month == CHOOSE k \in 1 .. 12 : Stop(k)
<1>1. \A k \in 0 .. 12 : Months(year)[k] = Ends(year)[k] /\ Ends(year)[k] \in Int
  BY MonthsAre, EndsAdded
<1>2. 12 \in S
  BY <1>1, EndsAdded DEF TooFar
<1>3. S \in SUBSET Nat
  OBVIOUS
<1>4. PICK k \in S : \A i \in S : k <= i
  <2> HIDE DEF S
  <2> QED
    BY <1>2, <1>3, Least
<1>5. k \in 1 .. 12 /\ Stop(k)
  <2>1. ASSUME NEW i \in 1 .. k - 1 PROVE doy + 1 > Months(year)[i]
    <3>1. i \in 1 .. 12 /\ i \notin S /\ Months(year)[i] \in Int
      BY <1>1, <1>4
    <3> QED
      BY <3>1
  <2> QED
    BY <1>4, <2>1
<1>6. month \in 1 .. 12 /\ Stop(month)
  <2> HIDE DEF Stop
  <2> QED
    BY <1>5
<1>7. Full(year, doy) = <<year, month, doy + 1 - Months(year)[month - 1]>>
  BY DEF Full
<1> HIDE DEF month
<1>8. month = 1 \/ doy + 1 > Months(year)[month - 1]
  BY <1>6
<1> QED
  BY <1>1, <1>6, <1>7, <1>8

(* T finds the date again that Y gave the day of the year of.              *)
LEMMA FullFindsDate ==
  ASSUME NEW d \in Triple, IsDate(d)
  PROVE  Full(d[1], DayOfYear(d)) = d
<1>0. \A k \in 0 .. 12 : Ends(d[1])[k] \in Int
  BY EndsAdded
<1> DEFINE year == d[1]
           doy == DayOfYear(d)
<1>1. /\ year \in Int /\ d[2] \in 1 .. 12 /\ d[3] \in Int /\ 1 <= d[3]
      /\ d[3] <= month_length(year, d[2]) /\ month_length(year, d[2]) \in Int
      /\ d = <<year, d[2], d[3]>>
  <2>1. month_length(year, d[2]) \in Int
    BY DEF month_length
  <2> QED
    BY <2>1 DEF IsDate, Triple
<1>2. \A k \in 0 .. 12 : Ends(year)[k] \in Int
  BY <1>0
<1>3. Ends(year)[d[2]] = Ends(year)[d[2] - 1] + month_length(year, d[2])
  BY <1>1, EndsAdded
<1>4. doy = Ends(year)[d[2] - 1] + d[3] - 1 /\ doy \in Int
  <2>1. ymd_to_julian(d) = ymd_to_julian(<<year, 1, 1>>) + Ends(year)[d[2] - 1] + d[3] - 1
    BY <1>1, DaysOfYear
  <2>2. ymd_to_julian(<<year, 1, 1>>) \in Int
    <3>1. <<year, 1, 1>> \in Triple /\ <<year, 1, 1>>[2] \in 1 .. 12
      BY <1>1 DEF Triple
    <3> QED
      BY <3>1, DayOfDate
  <2>3. d[2] - 1 \in 0 .. 12
    BY <1>1
  <2> QED
    BY <1>1, <1>2, <2>1, <2>2, <2>3 DEF DayOfYear
<1> HIDE DEF year, doy
<1>5. /\ d[2] - 1 \in 0 .. 12 /\ d[2] \in 0 .. 12
      /\ Ends(year)[d[2] - 1] < doy + 1 /\ doy + 1 <= Ends(year)[d[2]]
  BY <1>1, <1>2, <1>3, <1>4
<1>6. ~TooFar(year, doy)
  <2>1. Ends(year)[d[2]] <= Ends(year)[12]
    BY <1>5, EndsInOrder
  <2> QED
    BY <1>2, <1>4, <1>5, <2>1, EndsAdded DEF TooFar
<1>7. PICK month \in 1 .. 12 :
        /\ Full(year, doy) = <<year, month, doy + 1 - Ends(year)[month - 1]>>
        /\ doy + 1 <= Ends(year)[month]
        /\ month = 1 \/ doy + 1 > Ends(year)[month - 1]
  BY <1>1, <1>4, <1>6, FullFound
<1>8. month = d[2]
  <2>1. month \in 0 .. 12 /\ month - 1 \in 0 .. 12
    OBVIOUS
  <2>2. ~(month < d[2])
    <3> SUFFICES ASSUME month < d[2] PROVE FALSE
      OBVIOUS
    <3>1. month <= d[2] - 1
      BY <1>1
    <3>2. Ends(year)[month] <= Ends(year)[d[2] - 1]
      BY <1>5, <2>1, <3>1, EndsInOrder
    <3> QED
      BY <1>2, <1>4, <1>5, <1>7, <2>1, <3>2
  <2>3. ~(d[2] < month)
    <3> SUFFICES ASSUME d[2] < month PROVE FALSE
      OBVIOUS
    <3>1. d[2] <= month - 1 /\ month # 1
      BY <1>1
    <3>2. Ends(year)[d[2]] <= Ends(year)[month - 1]
      BY <1>5, <2>1, <3>1, EndsInOrder
    <3> QED
      BY <1>2, <1>4, <1>5, <1>7, <2>1, <3>1, <3>2
  <2> QED
    BY <1>1, <2>2, <2>3
<1>9. doy + 1 - Ends(year)[d[2] - 1] = d[3]
  BY <1>1, <1>2, <1>4, <1>5
<1>10. Full(year, doy) = d
  BY <1>1, <1>7, <1>8, <1>9
<1> QED
  BY <1>10 DEF year, doy

-----------------------------------------------------------------------------
(* The program and its dates.                                              *)

(* The inductive invariant: the date on the stack, if it is one, is that   *)
(* of the day it was counted by.                                           *)
DateInv == /\ date \in Triple /\ day \in Int
           /\ IsDate(date) => ymd_to_julian(date) = day

(* A program starts with the date of a day.                                *)
LEMMA DateInitSound == DateInit => DateInv
<1> SUFFICES ASSUME DateInit PROVE DateInv
  OBVIOUS
<1>1. day \in Int /\ date = julian_to_ymd(day)
  BY DateAssumption DEF DateInit
<1> QED
  BY <1>1, DateFound DEF DateInv

(* A day and its date.                                                     *)
LEMMA BecomesDateOf ==
  ASSUME NEW n \in Int, Becomes(julian_to_ymd(n), n)
  PROVE  DateInv'
<1>1. date' = julian_to_ymd(n) /\ day' = n
  BY DEF Becomes
<1> QED
  BY <1>1, DateFound DEF DateInv

(* Every instruction keeps the invariant.                                  *)
LEMMA DateNextSound == DateInv /\ [DateNext]_dateVars => DateInv'
<1> SUFFICES ASSUME DateInv, [DateNext]_dateVars PROVE DateInv'
  OBVIOUS
<1>0. date \in Triple /\ day \in Int /\ (IsDate(date) => ymd_to_julian(date) = day)
  BY DEF DateInv
<1>1. ASSUME UNCHANGED <<date, day>> PROVE DateInv'
  BY <1>0, <1>1 DEF DateInv
<1>2. CASE finger_DATE_jdn_to_ymd
  BY <1>0, <1>2, BecomesDateOf DEF finger_DATE_jdn_to_ymd
<1>3. CASE MakesUp
  <2>1. PICK d \in Dates : Becomes(d, IF IsDate(d) THEN ymd_to_julian(d) ELSE day)
    BY <1>3 DEF MakesUp
  <2>2. d \in Triple
    BY DateAssumption DEF Triple
  <2>3. date' = d /\ day' = IF IsDate(d) THEN ymd_to_julian(d) ELSE day
    BY <2>1 DEF Becomes
  <2>4. IsDate(d) => ymd_to_julian(d) \in Int
    BY <2>2, DayFound
  <2> QED
    BY <1>0, <2>2, <2>3, <2>4 DEF DateInv
<1>4. CASE finger_DATE_add_days
  <2>1. PICK n \in Spans :
          \/ Refused
          \/ IsDate(date) /\ Becomes(julian_to_ymd(ymd_to_julian(date) + n), day + n)
    BY <1>4 DEF finger_DATE_add_days
  <2>2. CASE Refused
    BY <1>1, <2>2 DEF Refused
  <2>3. CASE IsDate(date) /\ Becomes(julian_to_ymd(ymd_to_julian(date) + n), day + n)
    <3>1. Becomes(julian_to_ymd(day + n), day + n)
      BY <1>0, <2>3
    <3>2. PICK m \in Int : m = day + n
      BY <1>0, DateAssumption
    <3> QED
      BY <3>1, <3>2, BecomesDateOf
  <2> QED
    BY <2>1, <2>2, <2>3
<1>5. CASE finger_DATE_year_day_to_full
  <2>1. PICK year \in Years, doy \in YDays :
          IF TooFar(year, doy) THEN Refused
          ELSE Becomes(Full(year, doy), ymd_to_julian(<<year, 1, 1>>) + doy)
    BY <1>5 DEF finger_DATE_year_day_to_full
  <2>2. year \in Int /\ doy \in Int
    BY DateAssumption
  <2>3. CASE TooFar(year, doy)
    BY <1>1, <2>1, <2>3 DEF Refused
  <2>4. CASE ~TooFar(year, doy)
    <3>1. date' = Full(year, doy) /\ day' = ymd_to_julian(<<year, 1, 1>>) + doy
      BY <2>1, <2>4 DEF Becomes
    <3>2. PICK month \in 1 .. 12 :
            Full(year, doy) = <<year, month, doy + 1 - Ends(year)[month - 1]>>
      BY <2>2, <2>4, FullFound
    <3>3. month \in 1 .. 12 /\ month - 1 \in 0 .. 12 /\ Ends(year)[month - 1] \in Int
      <4>1. month - 1 \in 0 .. 12
        OBVIOUS
      <4> QED
        BY <4>1, EndsAdded
    <3> DEFINE n == doy + 1 - Ends(year)[month - 1]
    <3>4. n \in Int /\ Ends(year)[month - 1] + n - 1 = doy
      BY <2>2, <3>3
    <3>5. date' = <<year, month, n>>
      BY <3>1, <3>2
    <3> HIDE DEF n
    <3>6. ymd_to_julian(<<year, month, n>>) =
            ymd_to_julian(<<year, 1, 1>>) + Ends(year)[month - 1] + n - 1
      <4>1. n \in Int
        BY <3>4
      <4>2. year \in Int /\ month \in 1 .. 12
        BY <2>2, <3>3
      <4> QED
        BY ONLY <4>1, <4>2, DaysOfYear
    <3>7. ymd_to_julian(<<year, 1, 1>>) \in Int
      <4>1. <<year, 1, 1>> \in Triple /\ <<year, 1, 1>>[2] \in 1 .. 12
        BY <2>2 DEF Triple
      <4> QED
        BY <4>1, DayOfDate
    <3>8. ymd_to_julian(date') = day' /\ day' \in Int
      BY <2>2, <3>1, <3>3, <3>4, <3>5, <3>6, <3>7
    <3>9. date' \in Triple
      BY <2>2, <3>4, <3>5 DEF Triple
    <3> QED
      BY <3>8, <3>9 DEF DateInv
  <2> QED
    BY <2>3, <2>4
<1>6. CASE \/ finger_DATE_ymd_to_jdn \/ finger_DATE_day_diff \/ finger_DATE_week_day
           \/ finger_DATE_year_day \/ UNCHANGED dateVars
  <2>1. UNCHANGED <<date, day>>
    BY <1>6 DEF finger_DATE_ymd_to_jdn, finger_DATE_day_diff, finger_DATE_week_day,
                finger_DATE_year_day, Answers, Refused, dateVars
  <2> QED
    BY <1>1, <2>1
<1> QED
  BY <1>2, <1>3, <1>4, <1>5, <1>6 DEF DateNext

(* The date on the stack stands for the day the program counted, whatever  *)
(* instructions of DATE led to it.                                         *)
THEOREM DatesCounted == DateSpec => []DateInv
<1> QED
  BY DateInitSound, DateNextSound, PTL DEF DateSpec

(* Days and dates are the same thing, for every day, before the year 1 and *)
(* in leap years as well: the conversions are inverse to each other, the   *)
(* next day is the next on the wall and of the week, and the day of the    *)
(* year leads back.                                                        *)
THEOREM EveryDateFound == DateSpec => []CalendarSound
<1>1. DateInv => CalendarSound
  <2> SUFFICES ASSUME DateInv PROVE CalendarSound
    OBVIOUS
  <2> DEFINE n == ymd_to_julian(date)
             next == julian_to_ymd(n + 1)
  <2>0. date \in Triple /\ day \in Int /\ (IsDate(date) => n = day)
    BY DEF DateInv
  <2>1. IsDate(date) <=> date[1] # 0 /\ date[2] \in 1 .. 12 /\ julian_to_ymd(n) = date
    <3>1. ASSUME IsDate(date)
          PROVE  date[1] # 0 /\ date[2] \in 1 .. 12 /\ julian_to_ymd(n) = date
      BY <2>0, <3>1, DayFound DEF IsDate
    <3>2. ASSUME date[2] \in 1 .. 12, julian_to_ymd(n) = date
          PROVE  IsDate(date)
      <4>1. n \in Int
        BY <2>0, <3>2, DayOfDate
      <4> QED
        BY <3>2, <4>1, DateFound
    <3> QED
      BY <3>1, <3>2
  <2>2. ASSUME IsDate(date)
        PROVE  /\ n = day /\ next = Tomorrow(date)
               /\ day >= 0 => WeekDay(next) = (WeekDay(date) + 1) % 7
               /\ Full(date[1], DayOfYear(date)) = date
    <3>1. Tomorrow(date) \in Triple /\ IsDate(Tomorrow(date))
      BY <2>0, <2>2, TomorrowIsDate
    <3>2. ymd_to_julian(Tomorrow(date)) = n + 1
      BY <2>0, <2>2, TomorrowIsNext
    <3>3. next = Tomorrow(date)
      BY <3>1, <3>2, DayFound
    <3>4. day >= 0 => WeekDay(next) = (WeekDay(date) + 1) % 7
      <4> SUFFICES ASSUME day >= 0 PROVE WeekDay(next) = (WeekDay(date) + 1) % 7
        OBVIOUS
      <4>1. WeekDay(next) = Remainder(day + 1, 7) /\ WeekDay(date) = Remainder(day, 7)
        BY <2>0, <2>2, <3>2, <3>3 DEF WeekDay
      <4>2. day \in Nat
        BY <2>0
      <4> QED
        BY <4>1, <4>2, WeekGoesOn
    <3>5. Full(date[1], DayOfYear(date)) = date
      BY <2>0, <2>2, FullFindsDate
    <3> QED
      BY <2>0, <2>2, <3>3, <3>4, <3>5
  <2> QED
    BY <2>1, <2>2 DEF CalendarSound
<1> QED
  BY <1>1, DatesCounted, PTL

-----------------------------------------------------------------------------
(* y: what one cell is, and where it lies in all of them.                  *)

(* Cells of a stack; the memory before it may be read for one.             *)
Cell == Int \cup {Junk}

(* The stacks and the cache hold cells, and there is a stack.              *)
SysTyped == /\ stacks \in Seq(Seq(Cell)) /\ stacks # <<>>
            /\ cache \in Seq(Cell) /\ ip \in IPs

(* A text on the stack is cells, whatever order it is pushed in.           *)
LEMMA PushedCells ==
  ASSUME NEW z \in Seq(Int)
  PROVE  PushedString(<<>>, z) \in Seq(Cell)
<1>1. Reverse(z) \in Seq(Int) /\ \A k \in 1 .. Len(Reverse(z)) : Reverse(z)[k] \in Cell
  BY DEF Reverse, Cell
<1>2. Reverse(z) \in Seq(Cell)
  BY <1>1
<1>3. <<>> \o <<0>> \in Seq(Cell)
  BY DEF Cell
<1> QED
  BY <1>2, <1>3, ConcatProperties DEF PushedString

(* What is cached for y is cells.                                          *)
LEMMA CacheIsCells == CacheStack \in Seq(Cell)
<1>1. \A s \in Seq(Cell) : In109(s) \in Seq(Cell)
  BY DEF In109
<1>2. Environment \in Seq(Cell)
  <2> DEFINE N == Len(Variables)
             ss == [i \in DOMAIN Variables |->
                      IF Shown(Variables[i]) THEN PushedString(<<>>, Variables[i].text) ELSE <<>>]
  <2>1. N \in Nat /\ DOMAIN Variables = 1 .. N
    BY SysAssumption
  <2>2. ASSUME NEW i \in 1 .. N PROVE ss[i] \in Seq(Cell)
    <3>1. Variables[i] \in [name : STRING, text : Seq(Int), assigned : BOOLEAN]
      BY SysAssumption, <2>1, ElementOfSeq
    <3>2. <<>> \in Seq(Cell)
      OBVIOUS
    <3> QED
      BY <2>1, <3>1, <3>2, PushedCells
  <2>3. ss \in [1 .. N -> Seq(Cell)]
    BY <2>1, <2>2
  <2>4. Environment = FlattenSeq(ss)
    BY DEF Environment
  <2> HIDE DEF N, ss
  <2>5. FlattenSeq(ss) \in Seq(Cell)
    BY ONLY <2>1, <2>3, Joined
  <2> QED
    BY <2>4, <2>5
<1>3. Strings(Reverse(Arguments)) \in Seq(Cell)
  <2> DEFINE a == Reverse(Arguments)
             N == Len(Arguments)
             ss == [i \in DOMAIN a |-> PushedString(<<>>, a[i])]
  <2>1. N \in Nat /\ DOMAIN a = 1 .. N /\ \A i \in 1 .. N : a[i] \in Seq(Int)
    BY SysAssumption DEF Reverse
  <2> HIDE DEF a
  <2>2. ss \in [1 .. N -> Seq(Cell)]
    BY <2>1, PushedCells
  <2>3. Strings(a) = FlattenSeq(ss)
    BY DEF Strings
  <2> HIDE DEF N, ss
  <2>4. FlattenSeq(ss) \in Seq(Cell)
    BY ONLY <2>1, <2>2, Joined
  <2> QED
    BY <2>3, <2>4 DEF a
<1>4. environ_count \in Int
  <2>1. IsFiniteSet({i \in DOMAIN Variables : Shown(Variables[i])})
    <3>1. IsFiniteSet(1 .. Len(Variables)) /\ DOMAIN Variables = 1 .. Len(Variables)
      BY SysAssumption, FS_Interval
    <3> QED
      BY <3>1, FS_Subset
  <2> QED
    BY <2>1, FS_CardinalityType DEF environ_count
<1>5. /\ <<0>> \in Seq(Cell) /\ <<0, 0>> \in Seq(Cell) /\ <<environ_count>> \in Seq(Cell)
      /\ <<Len(Arguments)>> \in Seq(Cell)
  BY <1>4, SysAssumption DEF Cell
<1>6. PushedString(<<>>, Handprint) \in Seq(Cell)
  BY PushedCells, SysAssumption
<1> QED
  BY <1>1, <1>2, <1>3, <1>5, <1>6, ConcatProperties DEF CacheStack

(* A cell of two sequences of cells, counted from the end.                 *)
LEMMA NthOfBoth ==
  ASSUME NEW s \in Seq(Cell), NEW t \in Seq(Cell), NEW n \in Nat \ {0}
  PROVE  Nth(s \o t, n) = IF n <= Len(t) THEN t[Len(t) - n + 1] ELSE Nth(s, n - Len(t))
<1>1. /\ Len(s) \in Nat /\ Len(t) \in Nat /\ s \o t \in Seq(Cell) /\ Len(s \o t) = Len(s) + Len(t)
      /\ \A i \in 1 .. Len(s) + Len(t) :
           (s \o t)[i] = IF i <= Len(s) THEN s[i] ELSE t[i - Len(s)]
  BY ConcatProperties, LenProperties
<1>2. CASE n <= Len(t)
  <2>1. /\ Len(s) + Len(t) - n + 1 \in 1 .. Len(s) + Len(t)
        /\ ~(Len(s) + Len(t) - n + 1 <= Len(s))
        /\ Len(s) + Len(t) - n + 1 - Len(s) = Len(t) - n + 1
    BY <1>1, <1>2
  <2>2. Nth(s \o t, n) = (s \o t)[Len(s) + Len(t) - n + 1]
    BY <1>1, <1>2 DEF Nth
  <2> QED
    BY <1>1, <1>2, <2>1, <2>2
<1>3. CASE n > Len(t) /\ n <= Len(s) + Len(t)
  <2>1. /\ Len(s) + Len(t) - n + 1 \in 1 .. Len(s) + Len(t)
        /\ Len(s) + Len(t) - n + 1 <= Len(s)
        /\ Len(s) + Len(t) - n + 1 = Len(s) - (n - Len(t)) + 1
        /\ 0 < n - Len(t) /\ n - Len(t) <= Len(s)
    BY <1>1, <1>3
  <2>2. Nth(s \o t, n) = (s \o t)[Len(s) + Len(t) - n + 1]
    BY <1>1, <1>3 DEF Nth
  <2>3. Nth(s, n - Len(t)) = s[Len(s) - (n - Len(t)) + 1]
    BY <2>1 DEF Nth
  <2> QED
    BY <1>1, <1>3, <2>1, <2>2, <2>3
<1>4. CASE n > Len(s) + Len(t)
  <2>1. Nth(s \o t, n) = 0
    BY <1>1, <1>4 DEF Nth
  <2>2. ~(n <= Len(t)) /\ ~(n - Len(t) <= Len(s))
    BY <1>1, <1>4
  <2> QED
    BY <2>1, <2>2 DEF Nth
<1> QED
  BY <1>1, <1>2, <1>3, <1>4

(* A cell of a stack is a cell, and so is what lies below its bottom.      *)
LEMMA NthIsCell ==
  ASSUME NEW s \in Seq(Cell), NEW n \in Nat \ {0}
  PROVE  Nth(s, n) \in Cell
<1>1. CASE n <= Len(s)
  <2>1. Len(s) - n + 1 \in 1 .. Len(s)
    BY <1>1, LenProperties
  <2>2. s[Len(s) - n + 1] \in Cell
    BY <2>1, ElementOfSeq
  <2> QED
    BY <1>1, <2>2 DEF Nth
<1>2. CASE ~(n <= Len(s))
  BY <1>2 DEF Nth, Cell
<1> QED
  BY <1>1, <1>2

(* The first 23 cells of all are those that are looked up directly.        *)
LEMMA FirstCells ==
  ASSUME SysTyped, NEW cached \in Seq(Cell), NEW size \in Nat
  PROVE  /\ push_all(cached, size) \in Seq(Cell)
         /\ Len(push_all(cached, size)) >= 23
         /\ \A request \in 1 .. 23 : Nth(push_all(cached, size), request) = push_yval(request, size)
<1> DEFINE t1 == <<Len(stacks), Scalars.time, Scalars.date>>
           t7 == <<0, ip.id, 2, Scalars.separator, Paradigm, Scalars.version, Scalars.handprint,
                   Scalars.size, Flags>>
           s0 == cached \o Sizes(size)
           s1 == s0 \o t1
           s2 == s1 \o ip.greatest
           s3 == s2 \o ip.least
           s4 == s3 \o ip.offset
           s5 == s4 \o ip.delta
           s6 == s5 \o ip.pos
           s7 == s6 \o t7
<1>1. /\ ip \in [id : Int, pos : Int \X Int, delta : Int \X Int, offset : Int \X Int,
                 least : Int \X Int, greatest : Int \X Int]
      /\ Scalars \in [time : Int, date : Int, separator : Int, version : Int,
                      handprint : Int, size : Int]
      /\ Len(stacks) \in Nat \ {0}
  BY SysAssumption, EmptySeq, LenProperties DEF SysTyped
<1>2. ASSUME NEW v \in Int \X Int
      PROVE  v \in Seq(Cell) /\ Len(v) = 2 /\ v = <<v[1], v[2]>>
  <2>1. v = <<v[1], v[2]>> /\ v[1] \in Int /\ v[2] \in Int
    OBVIOUS
  <2>2. <<v[1], v[2]>> \in Seq(Cell) /\ Len(<<v[1], v[2]>>) = 2
    BY <2>1 DEF Cell
  <2> QED
    BY <2>1, <2>2
<1>3. t1 \in Seq(Cell) /\ Len(t1) = 3
  BY <1>1 DEF Cell
<1>4. Flags \in Int /\ Paradigm \in Int
  BY DEF Flags, Paradigm
<1>5. t7 \in Seq(Cell) /\ Len(t7) = 9
  BY <1>1, <1>4 DEF Cell
<1>6. /\ Sizes(size) \in Seq(Cell) /\ Len(Sizes(size)) = Len(stacks)
      /\ Sizes(size)[Len(stacks)] = size
  <2>1. stacks \in Seq(Seq(Cell)) /\ DOMAIN stacks = 1 .. Len(stacks)
    BY DEF SysTyped
  <2>2. \A i \in 1 .. Len(stacks) : Len(stacks[i]) \in Nat
    BY <2>1, ElementOfSeq, LenProperties
  <2>3. Sizes(size) = [i \in 1 .. Len(stacks) |-> IF i = Len(stacks) THEN size ELSE Len(stacks[i])]
    BY <2>1 DEF Sizes
  <2> DEFINE n == Len(stacks)
             f == [i \in 1 .. n |-> IF i = n THEN size ELSE Len(stacks[i])]
  <2>4. \A i \in 1 .. n : f[i] \in Cell
    BY <2>2 DEF Cell
  <2>5. n \in 1 .. n /\ n \in Nat /\ f[n] = size
    <3>1. n \in Nat \ {0}
      BY <1>1
    <3> HIDE DEF n
    <3>2. n \in 1 .. n /\ n \in Nat
      BY ONLY <3>1
    <3> QED
      BY ONLY <3>2
  <2>6. f \in [1 .. n -> Cell]
    BY <2>4
  <2> HIDE DEF n
  <2>7. f \in Seq(Cell) /\ Len(f) = n
    BY <2>5, <2>6
  <2> QED
    BY <2>3, <2>5, <2>7 DEF n
<1>7. /\ ip.greatest \in Int \X Int /\ ip.least \in Int \X Int /\ ip.offset \in Int \X Int
      /\ ip.delta \in Int \X Int /\ ip.pos \in Int \X Int
  BY <1>1
<1>8. /\ s0 = cached \o Sizes(size) /\ s1 = s0 \o t1 /\ s2 = s1 \o ip.greatest
      /\ s3 = s2 \o ip.least /\ s4 = s3 \o ip.offset /\ s5 = s4 \o ip.delta
      /\ s6 = s5 \o ip.pos /\ s7 = s6 \o t7
  OBVIOUS
<1>9. s7 = push_all(cached, size)
  BY DEF push_all
<1>10. /\ t1[1] = Len(stacks) /\ t1[2] = Scalars.time /\ t1[3] = Scalars.date
  OBVIOUS
<1>11. \A n \in 1 .. 9 : t7[9 - n + 1] = push_yval(n, size)
  <2> SUFFICES ASSUME NEW n \in 1 .. 9 PROVE t7[9 - n + 1] = push_yval(n, size)
    OBVIOUS
  <2>1. n \in {1, 2, 3, 4, 5, 6, 7, 8, 9}
    OBVIOUS
  <2>2. /\ push_yval(1, size) = t7[9] /\ push_yval(2, size) = t7[8]
        /\ push_yval(3, size) = t7[7] /\ push_yval(4, size) = t7[6]
        /\ push_yval(5, size) = t7[5] /\ push_yval(6, size) = t7[4]
        /\ push_yval(7, size) = t7[3] /\ push_yval(8, size) = t7[2]
        /\ push_yval(9, size) = t7[1]
    BY DEF push_yval
  <2> HIDE DEF t1, t7, s0, s1, s2, s3, s4, s5, s6, s7
  <2> QED
    BY ONLY <2>1, <2>2
<1> HIDE DEF t1, t7, s0, s1, s2, s3, s4, s5, s6, s7
<1>12. ASSUME NEW s \in Seq(Cell), NEW t \in Seq(Cell)
       PROVE  s \o t \in Seq(Cell) /\ Len(s \o t) = Len(s) + Len(t)
  BY ConcatProperties
<1>13. /\ s0 \in Seq(Cell) /\ s1 \in Seq(Cell) /\ s2 \in Seq(Cell) /\ s3 \in Seq(Cell)
       /\ s4 \in Seq(Cell) /\ s5 \in Seq(Cell) /\ s6 \in Seq(Cell) /\ s7 \in Seq(Cell)
       /\ Len(s0) = Len(cached) + Len(stacks) /\ Len(s1) = Len(s0) + 3
       /\ Len(s2) = Len(s1) + 2 /\ Len(s3) = Len(s2) + 2 /\ Len(s4) = Len(s3) + 2
       /\ Len(s5) = Len(s4) + 2 /\ Len(s6) = Len(s5) + 2 /\ Len(s7) = Len(s6) + 9
  <2>1. s0 \in Seq(Cell) /\ Len(s0) = Len(cached) + Len(stacks)
    BY <1>6, <1>8, <1>12
  <2>2. s1 \in Seq(Cell) /\ Len(s1) = Len(s0) + 3
    BY <1>3, <1>8, <1>12, <2>1
  <2>3. s2 \in Seq(Cell) /\ Len(s2) = Len(s1) + 2
    BY <1>2, <1>7, <1>8, <1>12, <2>2
  <2>4. s3 \in Seq(Cell) /\ Len(s3) = Len(s2) + 2
    BY <1>2, <1>7, <1>8, <1>12, <2>3
  <2>5. s4 \in Seq(Cell) /\ Len(s4) = Len(s3) + 2
    BY <1>2, <1>7, <1>8, <1>12, <2>4
  <2>6. s5 \in Seq(Cell) /\ Len(s5) = Len(s4) + 2
    BY <1>2, <1>7, <1>8, <1>12, <2>5
  <2>7. s6 \in Seq(Cell) /\ Len(s6) = Len(s5) + 2
    BY <1>2, <1>7, <1>8, <1>12, <2>6
  <2>8. s7 \in Seq(Cell) /\ Len(s7) = Len(s6) + 9
    <3>1. s6 \o t7 \in Seq(Cell) /\ Len(s6 \o t7) = Len(s6) + Len(t7)
      BY ONLY <1>5, <1>12, <2>7
    <3> QED
      BY ONLY <1>5, <1>8, <3>1
  <2> QED
    BY <2>1, <2>2, <2>3, <2>4, <2>5, <2>6, <2>7, <2>8
<1>14. Len(s7) >= 23
  <2>1. Len(cached) \in Nat
    BY LenProperties
  <2> QED
    BY <1>1, <1>13, <2>1
<1>15. \A n \in 1 .. 9 : Nth(s7, n) = push_yval(n, size)
  <2>1. ASSUME NEW n \in 1 .. 9 PROVE Nth(s6 \o t7, n) = t7[9 - n + 1]
    <3>1. n \in Nat \ {0} /\ n <= Len(t7)
      BY <1>5
    <3>2. Nth(s6 \o t7, n) = t7[Len(t7) - n + 1]
      BY ONLY <1>5, <1>13, <3>1, NthOfBoth
    <3> QED
      BY <1>5, <3>2
  <2> QED
    BY <1>8, <1>11, <2>1
<1>16. \A n \in Nat : n > 9 => Nth(s7, n) = Nth(s6, n - 9)
  <2> SUFFICES ASSUME NEW n \in Nat, n > 9 PROVE Nth(s7, n) = Nth(s6, n - 9)
    OBVIOUS
  <2>1. n \in Nat \ {0} /\ ~(n <= Len(t7))
    BY <1>5
  <2>2. Nth(s6 \o t7, n) = Nth(s6, n - Len(t7))
    BY ONLY <1>5, <1>13, <2>1, NthOfBoth
  <2> QED
    BY <1>5, <1>8, <2>2
<1>17. ASSUME NEW s \in Seq(Cell), NEW v \in Int \X Int
       PROVE  /\ Nth(s \o v, 1) = v[2] /\ Nth(s \o v, 2) = v[1]
              /\ \A n \in Nat : n > 2 => Nth(s \o v, n) = Nth(s, n - 2)
  <2>1. v \in Seq(Cell) /\ Len(v) = 2
    BY <1>2
  <2>2. \A n \in Nat \ {0} : Nth(s \o v, n) = IF n <= Len(v) THEN v[Len(v) - n + 1] ELSE Nth(s, n - Len(v))
    BY ONLY <2>1, NthOfBoth, s \in Seq(Cell)
  <2>3. \A n \in Nat \ {0} : Nth(s \o v, n) = IF n <= 2 THEN v[2 - n + 1] ELSE Nth(s, n - 2)
    BY ONLY <2>1, <2>2
  <2>4. Nth(s \o v, 1) = v[2 - 1 + 1] /\ Nth(s \o v, 2) = v[2 - 2 + 1]
    BY ONLY <2>3
  <2>5. \A n \in Nat : n > 2 => Nth(s \o v, n) = Nth(s, n - 2)
    BY ONLY <2>3
  <2> QED
    BY <2>4, <2>5
<1>18. /\ Nth(s6, 1) = ip.pos[2] /\ Nth(s6, 2) = ip.pos[1]
       /\ \A n \in Nat : n > 2 => Nth(s6, n) = Nth(s5, n - 2)
  <2>1. /\ Nth(s5 \o ip.pos, 1) = ip.pos[2] /\ Nth(s5 \o ip.pos, 2) = ip.pos[1]
        /\ \A n \in Nat : n > 2 => Nth(s5 \o ip.pos, n) = Nth(s5, n - 2)
    BY ONLY <1>7, <1>13, <1>17
  <2> QED
    BY ONLY <1>8, <2>1
<1>19. /\ Nth(s5, 1) = ip.delta[2] /\ Nth(s5, 2) = ip.delta[1]
       /\ \A n \in Nat : n > 2 => Nth(s5, n) = Nth(s4, n - 2)
  <2>1. /\ Nth(s4 \o ip.delta, 1) = ip.delta[2] /\ Nth(s4 \o ip.delta, 2) = ip.delta[1]
        /\ \A n \in Nat : n > 2 => Nth(s4 \o ip.delta, n) = Nth(s4, n - 2)
    BY ONLY <1>7, <1>13, <1>17
  <2> QED
    BY ONLY <1>8, <2>1
<1>20. /\ Nth(s4, 1) = ip.offset[2] /\ Nth(s4, 2) = ip.offset[1]
       /\ \A n \in Nat : n > 2 => Nth(s4, n) = Nth(s3, n - 2)
  <2>1. /\ Nth(s3 \o ip.offset, 1) = ip.offset[2] /\ Nth(s3 \o ip.offset, 2) = ip.offset[1]
        /\ \A n \in Nat : n > 2 => Nth(s3 \o ip.offset, n) = Nth(s3, n - 2)
    BY ONLY <1>7, <1>13, <1>17
  <2> QED
    BY ONLY <1>8, <2>1
<1>21. /\ Nth(s3, 1) = ip.least[2] /\ Nth(s3, 2) = ip.least[1]
       /\ \A n \in Nat : n > 2 => Nth(s3, n) = Nth(s2, n - 2)
  <2>1. /\ Nth(s2 \o ip.least, 1) = ip.least[2] /\ Nth(s2 \o ip.least, 2) = ip.least[1]
        /\ \A n \in Nat : n > 2 => Nth(s2 \o ip.least, n) = Nth(s2, n - 2)
    BY ONLY <1>7, <1>13, <1>17
  <2> QED
    BY ONLY <1>8, <2>1
<1>22. /\ Nth(s2, 1) = ip.greatest[2] /\ Nth(s2, 2) = ip.greatest[1]
       /\ \A n \in Nat : n > 2 => Nth(s2, n) = Nth(s1, n - 2)
  <2>1. /\ Nth(s1 \o ip.greatest, 1) = ip.greatest[2] /\ Nth(s1 \o ip.greatest, 2) = ip.greatest[1]
        /\ \A n \in Nat : n > 2 => Nth(s1 \o ip.greatest, n) = Nth(s1, n - 2)
    BY ONLY <1>7, <1>13, <1>17
  <2> QED
    BY ONLY <1>8, <2>1
<1>23. /\ Nth(s1, 1) = Scalars.date /\ Nth(s1, 2) = Scalars.time /\ Nth(s1, 3) = Len(stacks)
       /\ Nth(s1, 4) = Nth(s0, 1)
  <2>1. \A n \in Nat \ {0} : Nth(s0 \o t1, n) =
          IF n <= Len(t1) THEN t1[Len(t1) - n + 1] ELSE Nth(s0, n - Len(t1))
    BY ONLY <1>3, <1>13, NthOfBoth
  <2>2. \A n \in Nat \ {0} : Nth(s1, n) = IF n <= 3 THEN t1[3 - n + 1] ELSE Nth(s0, n - 3)
    BY ONLY <1>3, <1>8, <2>1
  <2>3. /\ Nth(s1, 1) = t1[3 - 1 + 1] /\ Nth(s1, 2) = t1[3 - 2 + 1] /\ Nth(s1, 3) = t1[3 - 3 + 1]
        /\ Nth(s1, 4) = Nth(s0, 4 - 3)
    BY ONLY <2>2
  <2> QED
    BY <1>10, <2>3
<1>24. Nth(s0, 1) = size
  <2>1. 1 \in Nat \ {0} /\ 1 <= Len(Sizes(size)) /\ Len(Sizes(size)) - 1 + 1 = Len(stacks)
    BY <1>1, <1>6
  <2>2. Nth(cached \o Sizes(size), 1) = Sizes(size)[Len(Sizes(size)) - 1 + 1]
    BY ONLY <1>6, <2>1, NthOfBoth, cached \in Seq(Cell)
  <2> QED
    BY <1>6, <1>8, <2>1, <2>2
<1>25. ASSUME NEW n \in 10 .. 23
       PROVE  Nth(s7, n) = push_yval(n, size)
  <2>1. n \in {10, 11, 12, 13, 14, 15, 16, 17, 18, 19, 20, 21, 22, 23}
    OBVIOUS
  <2>2. \A k \in Nat : /\ k > 9 => Nth(s7, k) = Nth(s6, k - 9)
                       /\ k > 11 => Nth(s7, k) = Nth(s5, k - 11)
                       /\ k > 13 => Nth(s7, k) = Nth(s4, k - 13)
                       /\ k > 15 => Nth(s7, k) = Nth(s3, k - 15)
                       /\ k > 17 => Nth(s7, k) = Nth(s2, k - 17)
                       /\ k > 19 => Nth(s7, k) = Nth(s1, k - 19)
    <3> SUFFICES ASSUME NEW k \in Nat
                 PROVE  /\ k > 9 => Nth(s7, k) = Nth(s6, k - 9)
                        /\ k > 11 => Nth(s7, k) = Nth(s5, k - 11)
                        /\ k > 13 => Nth(s7, k) = Nth(s4, k - 13)
                        /\ k > 15 => Nth(s7, k) = Nth(s3, k - 15)
                        /\ k > 17 => Nth(s7, k) = Nth(s2, k - 17)
                        /\ k > 19 => Nth(s7, k) = Nth(s1, k - 19)
      OBVIOUS
    <3>1. k > 9 => Nth(s7, k) = Nth(s6, k - 9)
      BY <1>16
    <3>2. k > 11 => Nth(s6, k - 9) = Nth(s5, (k - 9) - 2) /\ (k - 9) - 2 = k - 11
      BY <1>18
    <3>3. k > 13 => Nth(s5, k - 11) = Nth(s4, (k - 11) - 2) /\ (k - 11) - 2 = k - 13
      BY <1>19
    <3>4. k > 15 => Nth(s4, k - 13) = Nth(s3, (k - 13) - 2) /\ (k - 13) - 2 = k - 15
      BY <1>20
    <3>5. k > 17 => Nth(s3, k - 15) = Nth(s2, (k - 15) - 2) /\ (k - 15) - 2 = k - 17
      BY <1>21
    <3>6. k > 19 => Nth(s2, k - 17) = Nth(s1, (k - 17) - 2) /\ (k - 17) - 2 = k - 19
      BY <1>22
    <3> QED
      BY <3>1, <3>2, <3>3, <3>4, <3>5, <3>6
  <2>3. /\ Nth(s7, 10) = Nth(s6, 10 - 9) /\ Nth(s7, 11) = Nth(s6, 11 - 9)
        /\ Nth(s7, 12) = Nth(s5, 12 - 11) /\ Nth(s7, 13) = Nth(s5, 13 - 11)
        /\ Nth(s7, 14) = Nth(s4, 14 - 13) /\ Nth(s7, 15) = Nth(s4, 15 - 13)
        /\ Nth(s7, 16) = Nth(s3, 16 - 15) /\ Nth(s7, 17) = Nth(s3, 17 - 15)
        /\ Nth(s7, 18) = Nth(s2, 18 - 17) /\ Nth(s7, 19) = Nth(s2, 19 - 17)
        /\ Nth(s7, 20) = Nth(s1, 20 - 19) /\ Nth(s7, 21) = Nth(s1, 21 - 19)
        /\ Nth(s7, 22) = Nth(s1, 22 - 19) /\ Nth(s7, 23) = Nth(s1, 23 - 19)
    BY ONLY <2>2
  <2>4. /\ Nth(s7, 10) = ip.pos[2] /\ Nth(s7, 11) = ip.pos[1]
        /\ Nth(s7, 12) = ip.delta[2] /\ Nth(s7, 13) = ip.delta[1]
        /\ Nth(s7, 14) = ip.offset[2] /\ Nth(s7, 15) = ip.offset[1]
        /\ Nth(s7, 16) = ip.least[2] /\ Nth(s7, 17) = ip.least[1]
        /\ Nth(s7, 18) = ip.greatest[2] /\ Nth(s7, 19) = ip.greatest[1]
    BY <1>18, <1>19, <1>20, <1>21, <1>22, <2>3
  <2>5. /\ Nth(s7, 20) = Scalars.date /\ Nth(s7, 21) = Scalars.time
        /\ Nth(s7, 22) = Len(stacks) /\ Nth(s7, 23) = size
    BY <1>23, <1>24, <2>3
  <2>6. /\ push_yval(10, size) = ip.pos[2] /\ push_yval(11, size) = ip.pos[1]
        /\ push_yval(12, size) = ip.delta[2] /\ push_yval(13, size) = ip.delta[1]
        /\ push_yval(14, size) = ip.offset[2] /\ push_yval(15, size) = ip.offset[1]
        /\ push_yval(16, size) = ip.least[2] /\ push_yval(17, size) = ip.least[1]
        /\ push_yval(18, size) = ip.greatest[2] /\ push_yval(19, size) = ip.greatest[1]
        /\ push_yval(20, size) = Scalars.date /\ push_yval(21, size) = Scalars.time
        /\ push_yval(22, size) = Len(stacks) /\ push_yval(23, size) = size
    BY DEF push_yval
  <2> QED
    BY ONLY <2>1, <2>4, <2>5, <2>6
<1>26. \A n \in 1 .. 23 : n \in 1 .. 9 \/ n \in 10 .. 23
  OBVIOUS
<1> QED
  BY <1>9, <1>13, <1>14, <1>15, <1>25, <1>26

(* What y would tell, and the TOSS it would tell it on, are cells.         *)
LEMMA AllIsCells ==
  ASSUME SysTyped
  PROVE  /\ TOSS \in Seq(Cell) /\ Front(stacks) \in Seq(Seq(Cell))
         /\ Filled \in Seq(Cell) /\ All \in Seq(Cell) /\ Len(All) >= 23
         /\ \A request \in 1 .. 23 : Nth(All, request) = push_yval(request, Len(TOSS))
<1>1. stacks \in Seq(Seq(Cell)) /\ Len(stacks) \in 1 .. Len(stacks) /\ Len(stacks) \in Nat \ {0}
  BY EmptySeq, LenProperties DEF SysTyped
<1>2. TOSS \in Seq(Cell)
  BY <1>1, ElementOfSeq DEF TOSS, Last
<1>3. Front(stacks) \in Seq(Seq(Cell))
  <2>1. \A i \in 1 .. Len(stacks) - 1 : stacks[i] \in Seq(Cell)
    BY <1>1, ElementOfSeq
  <2>2. 1 \in Int /\ Len(stacks) - 1 \in Int
    BY <1>1
  <2>3. SubSeq(stacks, 1, Len(stacks) - 1) \in Seq(Seq(Cell))
    BY ONLY <2>1, <2>2, SubSeqProperties
  <2> QED
    BY <2>3 DEF Front
<1>4. Filled \in Seq(Cell)
  BY CacheIsCells DEF Filled, SysTyped
<1>5. Len(TOSS) \in Nat
  BY <1>2, LenProperties
<1> QED
  BY <1>2, <1>3, <1>4, <1>5, FirstCells DEF All

(* A cell y was asked for is a cell, unless the interpreter aborts.        *)
LEMMA OutcomeIsCell ==
  ASSUME SysTyped, NEW request \in Requests, request > 0
  PROVE  Outcomes(request) \subseteq Cell \cup {Aborts}
<1>1. request \in Nat \ {0}
  BY SysAssumption
<1>2. CASE request <= 23
  <2>1. request \in 1 .. 23
    BY <1>1, <1>2
  <2>2. Nth(All, request) \in Cell /\ Nth(All, request) = push_yval(request, Len(TOSS))
    BY <1>1, <2>1, AllIsCells, NthIsCell
  <2> QED
    BY <1>2, <2>2 DEF Outcomes
<1>3. CASE request > 23 /\ Picks(request)
  <2>1. \A index \in DOMAIN TOSS : TOSS[index] \in Cell
    <3>1. TOSS \in Seq(Cell) /\ DOMAIN TOSS = 1 .. Len(TOSS)
      BY AllIsCells
    <3> QED
      BY ONLY <3>1, ElementOfSeq
  <2>2. 0 \in Cell /\ Junk \in Cell
    BY DEF Cell
  <2>3. Got(PickIndex(request)) \subseteq Cell \cup {Aborts}
    BY <2>1, <2>2, Zenon DEF Got
  <2>4. ~(request <= 23)
    BY <1>1, <1>3
  <2> QED
    BY <1>3, <2>3, <2>4 DEF Outcomes
<1>4. CASE request > 23 /\ ~Picks(request)
  <2>1. Nth(All, request) \in Cell
    BY <1>1, AllIsCells, NthIsCell
  <2>2. ~(request <= 23)
    BY <1>1, <1>4
  <2> QED
    BY <1>4, <2>1, <2>2 DEF Outcomes
<1> QED
  BY <1>1, <1>2, <1>3, <1>4

(* The stacks and the cache are cells.                                     *)
LEMMA SysTypedKept == SysSpec => []SysTyped
<1>1. SysInit => SysTyped
  <2> SUFFICES ASSUME SysInit PROVE SysTyped
    OBVIOUS
  <2>1. <<>> \in Seq(Cell)
    OBVIOUS
  <2>2. <<<<>>>> \in Seq(Seq(Cell)) /\ <<<<>>>> # <<>>
    BY <2>1
  <2> QED
    BY <2>1, <2>2 DEF SysInit, NoCache, SysTyped
<1>2. SysTyped /\ [SysNext]_sysVars => SysTyped'
  <2> SUFFICES ASSUME SysTyped, [SysNext]_sysVars PROVE SysTyped'
    OBVIOUS
  <2>1. ASSUME NEW s \in Seq(Cell), stacks' = Append(Front(stacks), s),
               cache' \in Seq(Cell), ip' = ip
        PROVE  SysTyped'
    <3>1. Front(stacks) \in Seq(Seq(Cell)) /\ s \in Seq(Cell)
      BY <2>1, AllIsCells
    <3>2. /\ Append(Front(stacks), s) \in Seq(Seq(Cell))
          /\ Append(Front(stacks), s) # <<>>
      BY ONLY <3>1, AppendProperties
    <3>3. stacks' \in Seq(Seq(Cell)) /\ stacks' # <<>>
      BY <2>1, <3>2
    <3> QED
      BY <2>1, <3>3 DEF SysTyped
  <2>2. CASE Push
    <3>1. PICK c \in Cells : stacks' = Append(Front(stacks), Append(TOSS, c))
      BY <2>2 DEF Push
    <3>2. c \in Cell
      BY SysAssumption DEF Cell
    <3>3. Append(TOSS, c) \in Seq(Cell)
      BY <3>2, AllIsCells, AppendProperties
    <3>4. cache' \in Seq(Cell) /\ ip' = ip
      BY <2>2 DEF Push, SysTyped
    <3> QED
      BY <2>1, <3>1, <3>3, <3>4
  <2>3. CASE NewStack
    <3>1. <<>> \in Seq(Cell) /\ stacks \in Seq(Seq(Cell))
      BY DEF SysTyped
    <3>2. stacks' \in Seq(Seq(Cell)) /\ stacks' # <<>>
      BY <2>3, <3>1, AppendProperties, EmptySeq DEF NewStack
    <3> QED
      BY <2>3, <3>2 DEF NewStack, SysTyped
  <2>4. ASSUME NEW request \in Requests, run_sys_info_all(request) PROVE SysTyped'
    <3>1. TOSS \o All \in Seq(Cell)
      BY AllIsCells, ConcatProperties
    <3>2. stacks' = Append(Front(stacks), TOSS \o All) /\ cache' = Filled /\ ip' = ip
      BY <2>4 DEF run_sys_info_all, Leaves, Asks
    <3> QED
      BY <2>1, <3>1, <3>2, AllIsCells
  <2>5. ASSUME NEW request \in Requests, run_sys_info_one(request) PROVE SysTyped'
    <3>1. PICK c \in Outcomes(request) :
            IF c = Aborts THEN stacks' = <<<<>>>> ELSE Leaves(Append(TOSS, c))
      BY <2>5 DEF run_sys_info_one
    <3>2. ip' = ip /\ cache' \in Seq(Cell)
      BY <2>5, AllIsCells DEF run_sys_info_one, Asks, SysTyped
    <3>3. CASE c = Aborts
      <4>1. <<>> \in Seq(Cell)
        OBVIOUS
      <4>2. <<<<>>>> \in Seq(Seq(Cell)) /\ <<<<>>>> # <<>>
        BY <4>1
      <4>3. stacks' = <<<<>>>>
        BY <3>1, <3>3
      <4> QED
        BY <3>2, <4>2, <4>3 DEF SysTyped
    <3>4. CASE c # Aborts
      <4>1. c \in Cell
        BY <2>5, <3>1, <3>4, OutcomeIsCell DEF run_sys_info_one
      <4>2. Append(TOSS, c) \in Seq(Cell)
        BY <4>1, AllIsCells, AppendProperties
      <4>3. stacks' = Append(Front(stacks), Append(TOSS, c))
        BY <3>1, <3>4 DEF Leaves
      <4> QED
        BY <2>1, <3>2, <4>2, <4>3
    <3> QED
      BY <3>3, <3>4
  <2>6. CASE UNCHANGED sysVars
    BY <2>6 DEF sysVars, SysTyped
  <2> QED
    BY <2>2, <2>3, <2>4, <2>5, <2>6 DEF SysNext
<1> QED
  BY <1>1, <1>2, PTL DEF SysSpec

(* The one cell y tells is the one the program would find at that depth    *)
(* had y told all, or a 0 if that is below the bottom of its stack, for    *)
(* any environment, arguments, stacks and request: the table of the first  *)
(* cells, the detour over another stack and the pick from the program's    *)
(* own agree. Left out is the depth for which the index is 0.              *)
THEOREM OneCellOfAll == SysSpec => []OneOfAll
<1>1. SysTyped => OneOfAll
  <2> SUFFICES ASSUME SysTyped, NEW request \in Requests, request > 0,
                      ~(Picks(request) /\ PickIndex(request) = 0)
               PROVE  Outcomes(request) = {Nth(TOSS \o All, request)}
    BY DEF OneOfAll
  <2> DEFINE T == Len(TOSS)
             L == Len(All)
  <2>1. /\ request \in Nat \ {0} /\ T \in Nat /\ L \in Nat /\ L >= 23 /\ DOMAIN TOSS = 1 .. T
    BY SysAssumption, AllIsCells, LenProperties
  <2>2. Nth(TOSS \o All, request) =
          IF request <= L THEN All[L - request + 1] ELSE Nth(TOSS, request - L)
    BY <2>1, AllIsCells, NthOfBoth
  <2>3. request <= L => Nth(All, request) = All[L - request + 1]
    BY <2>1 DEF Nth
  <2> HIDE DEF T, L
  <2>4. CASE request <= 23
    <3>1. request \in 1 .. 23 /\ request <= L
      BY <2>1, <2>4
    <3>2. Nth(All, request) = push_yval(request, Len(TOSS))
      BY <3>1, AllIsCells
    <3> QED
      BY <2>2, <2>3, <2>4, <3>1, <3>2 DEF Outcomes
  <2>5. CASE request > 23 /\ request <= L
    <3>1. ~(request <= 23) /\ ~Picks(request)
      BY <2>1, <2>5 DEF Picks, L
    <3> QED
      BY <2>2, <2>3, <2>5, <3>1 DEF Outcomes
  <2>6. CASE request > L
    <3>1. ~(request <= 23) /\ Picks(request) /\ ~(request <= L)
      BY <2>1, <2>6 DEF Picks, L
    <3>2. PickIndex(request) = T + 1 - (request - L) /\ PickIndex(request) # 0
      BY <3>1 DEF PickIndex, T, L
    <3>3. Outcomes(request) = Got(PickIndex(request))
      BY <3>1 DEF Outcomes
    <3>4. CASE request - L <= T
      <4>1. PickIndex(request) \in DOMAIN TOSS /\ PickIndex(request) = T - (request - L) + 1
        BY <2>1, <2>6, <3>2, <3>4
      <4>2. Nth(TOSS, request - L) = TOSS[T - (request - L) + 1]
        BY <2>1, <2>6, <3>4 DEF Nth, T
      <4> QED
        BY <2>2, <3>1, <3>3, <4>1, <4>2 DEF Got
    <3>5. CASE request - L > T
      <4>1. PickIndex(request) \notin DOMAIN TOSS
        BY <2>1, <2>6, <3>2, <3>5
      <4>2. Nth(TOSS, request - L) = 0
        BY <2>1, <2>6, <3>5 DEF Nth, T
      <4> QED
        BY <2>2, <3>1, <3>2, <3>3, <4>1, <4>2 DEF Got
    <3> QED
      BY <2>1, <3>4, <3>5
  <2> QED
    BY <2>1, <2>4, <2>5, <2>6
<1> QED
  BY <1>1, SysTypedKept, PTL DEF SysSpec
==============================================================================
