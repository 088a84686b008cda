-------------------------------- MODULE Turtle --------------------------------
(***************************************************************************)
(* TURT (src/src/fingerprints/TURT/TURT.c): a turtle that all IPs share    *)
(* draws paths and dots, and I writes them as SVG. It turns by quarters    *)
(* here; the rounding of other angles is left out. A, E, Q and U only push *)
(* what it knows, memory is taken to suffice (the code does not check it). *)
(***************************************************************************)
EXTENDS Vectors, SequencesExt

CONSTANTS
  Distances,        \* how far it is told to go
  Places,           \* where it is told to be
  Colours,          \* 0 is among them: it is the pen's at first
  TurtMin, TurtMax, \* TURT_MIN, TURT_MAX
  MaxCalls          \* bound on the instructions executed

(* What the proofs take of the constants.                                  *)
ASSUME TurtAssumption ==
  /\ TurtMin \in Int /\ TurtMax \in Int
  /\ Distances \subseteq Int /\ Places \subseteq Int \X Int

VARIABLES
  p, heading, colour, penDown, movedWithoutDraw,  \* turt
  least, greatest,                                \* turt.min, turt.max
  path,     \* the list that starts at pic.pathBeg
  dots,     \* pic.dots, by place
  calls,
  strokes,  \* what has been drawn since the paper was cleared
  touched,  \* the places where the pen came down on it
  stands    \* the turtle stands where it drew to before the paper was cleared

turtle    == <<p, heading, colour, penDown, movedWithoutDraw>>
drawing   == <<least, greatest, path, dots>>
paper     == <<strokes, touched, stands>>
turtVars  == <<turtle, drawing, paper, calls>>

Origin == <<0, 0>>

-----------------------------------------------------------------------------
Coordinate(c) == IF c > TurtMax THEN TurtMax ELSE IF c < TurtMin THEN TurtMin ELSE c
Ahead(n) == LET q == Plus(p, Times(<<<<1, 0>>, <<0, 1>>, <<-1, 0>>, <<0, -1>>>>[heading + 1], n))
            IN  <<Coordinate(q[1]), Coordinate(q[2])>>

(* The bounds take in a place.                                             *)
newDraw(lo, hi, q) ==
  /\ least'    = <<IF q[1] < lo[1] THEN q[1] ELSE lo[1], IF q[2] < lo[2] THEN q[2] ELSE lo[2]>>
  /\ greatest' = <<IF q[1] > hi[1] THEN q[1] ELSE hi[1], IF q[2] > hi[2] THEN q[2] ELSE hi[2]>>

(* Mutant: the pen goes to where the turtle is only if nothing was drawn.  *)
Started_Once(q) ==
  IF penDown /\ movedWithoutDraw /\ path = <<>>
    THEN Append(path, [p |-> q, down |-> FALSE, colour |-> 0])
    ELSE path

(* A move with the pen up is remembered when the next stroke begins.       *)
Started(q) == IF penDown /\ movedWithoutDraw
                THEN Append(path, [p |-> q, down |-> FALSE, colour |-> 0])
                ELSE path

move(n) ==
  /\ p' = Ahead(n) /\ UNCHANGED <<heading, colour, penDown, dots>>
  /\ movedWithoutDraw' = ~penDown
  /\ stands' = FALSE
  /\ IF penDown
       THEN /\ path' = Append(Started(p), [p |-> p', down |-> TRUE, colour |-> colour])
            /\ newDraw(least, greatest, p')
            /\ strokes' = strokes \cup {<<IF stands THEN Origin ELSE p, p', colour>>}
            /\ touched' = touched \cup {p'}
       ELSE UNCHANGED <<path, least, greatest, strokes, touched>>

(* tryAddPoint: a dot where the pen came down after a move.                *)
tryAddPoint ==
  IF movedWithoutDraw /\ penDown
    THEN /\ dots' = [q \in DOMAIN dots \cup {p} |-> IF q = p THEN colour ELSE dots[q]]
         /\ IF p \in DOMAIN dots THEN UNCHANGED <<least, greatest>> ELSE newDraw(least, greatest, p)
         /\ UNCHANGED path
    ELSE UNCHANGED drawing

-----------------------------------------------------------------------------
TurtInit ==
  /\ p = Origin /\ heading = 0 /\ colour = 0 /\ penDown = FALSE /\ movedWithoutDraw = TRUE
  /\ least = Origin /\ greatest = Origin /\ path = <<>> /\ dots = [q \in {} |-> 0]
  /\ calls = 0 /\ strokes = {} /\ touched = {} /\ stands = FALSE

Called == calls < MaxCalls /\ calls' = calls + 1

finger_TURT_forward == Called /\ \E n \in Distances : move(n)
finger_TURT_back    == Called /\ \E n \in Distances : move(-n)

Turns(h) == heading' = h % 4 /\ UNCHANGED <<p, colour, penDown, movedWithoutDraw, drawing, paper>>
finger_TURT_turn_left   == Called /\ Turns(heading - 1)
finger_TURT_turn_right  == Called /\ Turns(heading + 1)
finger_TURT_set_heading == Called /\ Turns(0)

finger_TURT_pen_colour ==
  /\ Called /\ tryAddPoint /\ \E c \in Colours : colour' = c
  /\ UNCHANGED <<p, heading, penDown, movedWithoutDraw, paper>>

finger_TURT_pen_position ==
  /\ Called /\ \E down \in BOOLEAN :
       /\ penDown' = down
       /\ IF down THEN UNCHANGED drawing ELSE tryAddPoint
       /\ touched' = IF down /\ ~stands THEN touched \cup {p} ELSE touched
  /\ UNCHANGED <<p, heading, colour, movedWithoutDraw, strokes, stands>>

(* D with 1, and I.                                                        *)
Looks == tryAddPoint /\ UNCHANGED <<turtle, paper>>
finger_TURT_show_display  == Called /\ Looks
finger_TURT_print_drawing == Called /\ Looks

finger_TURT_teleport ==
  /\ Called /\ tryAddPoint /\ p' \in Places /\ movedWithoutDraw' = TRUE
  /\ stands' = FALSE /\ touched' = IF penDown THEN touched \cup {p'} ELSE touched
  /\ UNCHANGED <<heading, colour, penDown, strokes>>

(* N: clear paper.                                                         *)
finger_TURT_clear_paper ==
  /\ Called /\ least' = Origin /\ greatest' = Origin /\ path' = <<>> /\ dots' = [q \in {} |-> 0]
  /\ UNCHANGED turtle
  /\ strokes' = {} /\ stands' = ~movedWithoutDraw
  /\ touched' = IF penDown /\ movedWithoutDraw THEN {p} ELSE {}

TurtNext ==
  \/ finger_TURT_forward \/ finger_TURT_back \/ finger_TURT_turn_left \/ finger_TURT_turn_right
  \/ finger_TURT_set_heading \/ finger_TURT_pen_colour \/ finger_TURT_pen_position
  \/ finger_TURT_show_display \/ finger_TURT_print_drawing \/ finger_TURT_teleport
  \/ finger_TURT_clear_paper

TurtSpec == TurtInit /\ [][TurtNext]_turtVars

-----------------------------------------------------------------------------
(* Where the colour changes after a point, a piece ends. The first stroke  *)
(* of a piece says where it comes from, and the others go on from there.   *)
Cut(i)       == i < Len(path) /\ path[i].colour # path[i + 1].colour
Lead(cut, i) == IF ~path[i].down THEN <<>>
                ELSE IF i = 1 THEN <<<<"M", Origin>>>>
                ELSE IF cut THEN <<<<"M", path[i - 1].p>>>> ELSE <<>>
Mark(i)      == IF path[i].down THEN <<<<"L", path[i].p>>>>
                ELSE IF i < Len(path) THEN <<<<"M", path[i].p>>>> ELSE <<>>

(* A round of the loop over the list: r has the pieces that have ended,    *)
(* the one being written, and whether one ended at the point before.       *)
Written(r, i) ==
  LET text == r.open \o Lead(r.cut, i) \o Mark(i)
  IN  [pieces |-> IF Cut(i) THEN r.pieces \cup {<<path[i].colour, text>>} ELSE r.pieces,
       open   |-> IF Cut(i) THEN <<>> ELSE text,
       cut    |-> Cut(i)]

generate_paths ==
  LET after[i \in 0 .. Len(path)] ==
        IF i = 0 THEN [pieces |-> {}, open |-> <<>>, cut |-> FALSE] ELSE Written(after[i - 1], i)
      all == after[Len(path)]
  IN  IF path = <<>> THEN {} ELSE all.pieces \cup {<<Last(path).colour, all.open>>}

(* What a viewer of SVG draws: "M" moves the pen, "L" draws a line.        *)
Shown(piece) == {<<piece[2][i - 1][2], piece[2][i][2], piece[1]>> :
                   i \in {j \in 2 .. Len(piece[2]) : piece[2][j][1] = "L"}}
Lines == UNION {Shown(piece) : piece \in generate_paths}
Marks == DOMAIN dots \cup {s[1] : s \in strokes} \cup {s[2] : s \in strokes}

(* The drawing shows the strokes, each in its colour and from where the    *)
(* pen was, and no other; where the pen came down and nothing was drawn it *)
(* shows a dot, once the turtle goes on. Dots and the ends of strokes are  *)
(* within the bounds; where a stroke starts after a move without the pen   *)
(* need not be. (After N the first stroke of a turtle that does not move   *)
(* before is shown from the origin: that is what strokes then has of it.)  *)
DrawingShowsStrokes ==
  /\ Lines = strokes
  /\ touched \ (IF penDown THEN {p} ELSE {}) \subseteq Marks
  /\ \A q \in DOMAIN dots \cup {s[2] : s \in strokes} :
       \A i \in 1 .. 2 : q[i] \in least[i] .. greatest[i]
=============================================================================
