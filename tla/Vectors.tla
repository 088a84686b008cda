-------------------------------- MODULE Vectors --------------------------------
(* Positions and deltas <<x, y>> (src/src/vector.h).                        *)
EXTENDS Integers

Plus(p, d)  == <<p[1] + d[1], p[2] + d[2]>>
Minus(p, d) == <<p[1] - d[1], p[2] - d[2]>>
Times(d, n) == <<n * d[1], n * d[2]>>
=============================================================================
