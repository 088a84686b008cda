------------------------------- MODULE CellMap -------------------------------
(***************************************************************************)
(* What funge-space promises the rest of the interpreter, independently of *)
(* how the cells are stored (src/src/funge-space/funge-space.h): an        *)
(* unbounded plane of cells, all of them spaces at first, that remembers   *)
(* the last value written to each, and a bounding rectangle that "won't be *)
(* too small, but it may be too big".                                      *)
(***************************************************************************)
EXTENDS Integers

CONSTANTS
  Position,  \* the coordinates <<x, y>> the program uses
  Value,     \* the values a cell can hold
  Space,     \* the value of an empty cell
  NoRect     \* no rectangle was asked for since the last write

VARIABLES
  cells,     \* what a read of each position returns
  rect,      \* the rectangle reported since the last write, if any
  written      \* value and position of the last write called for, or <<>>

vars == <<cells, rect, written>>

(* The rectangle r (w and h are the distance between opposite edges) holds *)
(* position p.                                                             *)
Within(p, r) == /\ r.x <= p[1] /\ p[1] <= r.x + r.w
                /\ r.y <= p[2] /\ p[2] <= r.y + r.h

Init == /\ cells = [p \in Position |-> Space]
        /\ rect = NoRect
        /\ written = <<>>

(* A write stores the value it was called with at the position it was      *)
(* called with, and nothing anywhere else.                                 *)
Write == /\ \E v \in Value, p \in Position :
              /\ written' = <<v, p>>
              /\ cells' = [cells EXCEPT ![p] = v]
         /\ rect' = NoRect

(* Any rectangle that leaves no used cell out may be reported.             *)
Report == /\ \A p \in Position : cells[p] # Space => Within(p, rect')
          /\ UNCHANGED <<cells, written>>

Next == Write \/ Report

Spec == Init /\ [][Next]_vars
=============================================================================
