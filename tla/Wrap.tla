--------------------------------- MODULE Wrap ---------------------------------
(***************************************************************************)
(* An IP travelling along its line (ip_forward in src/src/ip.h) and the    *)
(* wrapping at the edges of funge-space (fungespace_wrap and wrap in       *)
(* src/src/funge-space/funge-space.c). Funge-space wraps around lines, not *)
(* edges: an IP that leaves the bounds comes back at the other end of the  *)
(* line it was on. The code computes where in a constant number of steps.  *)
(***************************************************************************)
EXTENDS Integers

CONSTANTS
  TopLefts, BottomRights,  \* the corners funge-space may have
  Starts,                  \* where the IP may be at first: anywhere
  Deltas,                  \* the directions it may go, none included
  Jumps                    \* the distances j may pop

Vectors == Int \X Int

ASSUME WrapAssumption == /\ TopLefts \subseteq Vectors
                         /\ BottomRights \subseteq Vectors
                         /\ Starts \subseteq Vectors
                         /\ Deltas \subseteq Vectors
                         /\ Jumps \subseteq Int

VARIABLES
  tl, br,  \* fspace.topLeftCorner, fspace.bottomRightCorner
  pos,     \* ip->position
  delta,   \* ip->delta
  seen     \* the position the last instruction looked at besides its own

vars == <<tl, br, pos, delta, seen>>

INSTANCE Lines

-----------------------------------------------------------------------------
Init == /\ tl \in TopLefts /\ br \in BottomRights
        /\ tl[1] <= br[1] /\ tl[2] <= br[2]
        /\ pos \in Starts
        /\ delta \in Deltas
        /\ seen = pos

(* On to the next cell: after an instruction, or over a space.             *)
Move == /\ pos' = ip_forward(pos, delta)
        /\ UNCHANGED <<tl, br, delta, seen>>

(* There is nothing but spaces outside the bounds.                         *)
Execute == fungespace_in_range(pos) /\ UNCHANGED <<tl, br>>

(* Everything that changes nothing but the delta.                          *)
Turn == /\ Execute
        /\ delta' \in Deltas
        /\ UNCHANGED <<pos, seen>>

(* ' and #                                                                 *)
FetchChar == /\ Execute
             /\ pos' = ip_forward(pos, delta)
             /\ seen' = pos'
             /\ UNCHANGED delta

(* Mutant: { does not go back.                                             *)
Begin_StaysAhead == /\ Execute
                    /\ seen' = ip_forward(pos, delta)
                    /\ pos' = seen'
                    /\ UNCHANGED delta

(* { looks up the position after it for the storage offset and goes back.  *)
Begin == /\ Execute
         /\ seen' = ip_forward(pos, delta)
         /\ pos' = ip_backward(seen', delta)
         /\ UNCHANGED delta

(* L and R of TOYS: turn, look, go back, turn back.                        *)
Aside(d) == /\ Execute
            /\ seen' = ip_forward(pos, d)
            /\ pos' = ip_backward(seen', d)
            /\ UNCHANGED delta

Corner    == Aside(Left(delta))
CanOpener == Aside(Right(delta))

(* j                                                                       *)
Jump(n) == /\ Execute
           /\ pos' = IF n = 0 THEN ip_forward(pos, delta)
                     ELSE ip_forward(ip_forward(pos, delta), Times(delta, n))
           /\ UNCHANGED <<delta, seen>>

Next == \/ Move \/ Turn \/ FetchChar \/ Begin \/ Corner \/ CanOpener
        \/ \E n \in Jumps : Jump(n)

Spec == Init /\ [][Next]_vars

(* Over spaces the interpreter moves on without waiting for anything.      *)
FairSpec == Spec /\ WF_vars(Move)

-----------------------------------------------------------------------------
(* The cells within the bounds on the line through p along d, and the      *)
(* first of them: the one with no cell of the line before it.              *)
OnLine(c, p, d) ==
  LET v == Minus(c, p)
      n == Magnitude(v[1]) + Magnitude(v[2])
  IN  \E m \in -n .. n : v = Times(d, m)

Track(p, d) == {c \in (tl[1] .. br[1]) \X (tl[2] .. br[2]) : OnLine(c, p, d)}
Entry(p, d) == {c \in Track(p, d) : ~fungespace_in_range(Minus(c, d))}

(* The cells of a line are executed one after the other, whatever the      *)
(* direction and wherever outside the bounds an IP was: from one cell it   *)
(* goes on to the next, and into the bounds it comes through the first.    *)
(* Neither moving nor looking ahead takes it off the line: every cell on   *)
(* it stays ahead.                                                         *)
LineInOrder ==
  [][/\ Move => /\ fungespace_in_range(Plus(pos, delta)) => pos' = Plus(pos, delta)
                /\ fungespace_in_range(pos') /\ pos' # Plus(pos, delta)
                     => pos' \in Entry(pos, delta)
     /\ Move \/ FetchChar \/ Begin => Track(pos', delta) = Track(pos, delta)]_vars

(* An IP on a line with cells on it comes to one of them, it is never      *)
(* caught jumping back and forth outside of the bounds.                    *)
ComesBack ==
  Track(pos, delta) # {} /\ ~fungespace_in_range(pos)
    ~> fungespace_in_range(pos)

(* In the cardinal directions {, L and R look at a neighbouring cell and   *)
(* go back, each of which can wrap: the IP is where it was afterwards, or  *)
(* outside of the bounds, never on another cell, which it would execute.   *)
(* After a { it is still on its line.                                      *)
LookComesBack ==
  [][Cardinal(delta) /\ (Begin \/ Corner \/ CanOpener) =>
       \/ pos' = pos
       \/ /\ ~fungespace_in_range(pos')
          /\ Begin => Track(pos', delta) = Track(pos, delta)]_vars
=============================================================================
