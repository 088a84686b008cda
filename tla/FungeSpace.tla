------------------------------ MODULE FungeSpace ------------------------------
(***************************************************************************)
(* The storage behind funge-space (src/src/funge-space/funge-space.c,      *)
(* built with CFUN_EXACT_BOUNDS): a static array for the cells near the    *)
(* origin, a hash table for the rest, a count of the non-space cells of    *)
(* every column and row (again array plus hash table), and the bounding    *)
(* rectangle, kept lazily: writes only grow it, an erased cell on its edge *)
(* clears `boundsexact', and it is shrunk again when somebody needs it.    *)
(***************************************************************************)
EXTENDS Integers, FiniteSets

CONSTANTS
  Xs, Ys,               \* the columns and rows the program uses
  Char,                 \* the values other than a space
  Space, NoRect,
  OffsetX, StaticX,     \* FUNGESPACE_STATIC_OFFSET_X, FUNGESPACE_STATIC_X
  OffsetY, StaticY,
  SimpleBoundsMax,      \* SIMPLEBOUNDS_MAX
  Modulus               \* 2 to the width of a funge_cell

ASSUME SpaceAssumption == /\ IsFiniteSet(Xs) /\ Xs \subseteq Int
                          /\ IsFiniteSet(Ys) /\ Ys \subseteq Int
                          /\ Space \notin Char
ASSUME SizeAssumption  == /\ OffsetX \in Nat /\ StaticX \in Nat \ {0}
                          /\ OffsetY \in Nat /\ StaticY \in Nat \ {0}
                          /\ SimpleBoundsMax \in Nat
ASSUME WidthAssumption == /\ Modulus \in Nat
                          /\ \A x \in Xs : /\ -Modulus + StaticX <= x + OffsetX
                                           /\ x + OffsetX < Modulus
                          /\ \A y \in Ys : /\ -Modulus + StaticY <= y + OffsetY
                                           /\ y + OffsetY < Modulus

VARIABLES
  static,       \* cfun_static_space, one array for all its rows
  entries,      \* fspace.entries: the used cells outside the static array
  cols, rows,   \* the counts: cfun_static_use_count_* and fspace.*_count
  tl, br,       \* fspace.topLeftCorner, fspace.bottomRightCorner
  boundsexact,  \* fspace.boundsexact
  boundsvalid,  \* fspace.boundsvalid
  loading,      \* the program file is still being read
  rect,         \* the rectangle handed out since the last write
  written       \* history: value and position of the last write called for

vars == <<static, entries, cols, rows, tl, br, boundsexact, boundsvalid,
          loading, rect, written>>

Position == Xs \X Ys
Value    == Char \cup {Space}

-----------------------------------------------------------------------------
(* A coordinate is converted to unsigned before the offset is added: one   *)
(* left of the array or above it becomes a huge number, so that a single   *)
(* comparison refuses it as it does one beyond the other edge.             *)
Unsigned(n) == IF n < 0 THEN n + Modulus ELSE n

(* Mutant: one column too many is taken to be in the array.                *)
FUNGESPACE_RANGE_CHECK_Late(rx, ry) == rx <= StaticX /\ ry < StaticY

FUNGESPACE_RANGE_CHECK(rx, ry) == rx < StaticX /\ ry < StaticY

STATIC_COORD(rx, ry) == rx + ry * StaticX

InStatic(p) == FUNGESPACE_RANGE_CHECK(Unsigned(p[1] + OffsetX),
                                      Unsigned(p[2] + OffsetY))
Index(p)    == STATIC_COORD(Unsigned(p[1] + OffsetX),
                            Unsigned(p[2] + OffsetY))

Indices    == 0 .. StaticX * StaticY - 1

(* The lines through the array, which the counts in arrays are for.        *)
StaticCols == -OffsetX .. StaticX - OffsetX - 1
StaticRows == -OffsetY .. StaticY - OffsetY - 1

(* Hash tables as partial functions.                                       *)
Without(f, k) == [x \in DOMAIN f \ {k} |-> f[x]]
With(f, k, v) == [x \in DOMAIN f \cup {k} |-> IF x = k THEN v ELSE f[x]]

(* fungespace_get                                                          *)
Get(p) == IF InStatic(p) THEN static[Index(p)]
          ELSE IF p \in DOMAIN entries THEN entries[p]
          ELSE Space

(* get_count_col, get_count_row                                            *)
Count(use, c) == IF c \in DOMAIN use.array THEN use.array[c]
                 ELSE IF c \in DOMAIN use.hash THEN use.hash[c]
                 ELSE 0

(* Mutant: a count that reaches zero stays in the hash table.              *)
Counted_KeepsZero(use, c, d) ==
  IF c \in DOMAIN use.array
    THEN [use EXCEPT !.array[c] = @ + d]
    ELSE [use EXCEPT !.hash = With(@, c, Count(use, c) + d)]

(* One axis of fungespace_count. A count that reaches zero leaves the hash *)
(* table; a missing one is inserted as 1, or as 0 when it should be        *)
(* decremented.                                                            *)
Counted(use, c, d) ==
  IF c \in DOMAIN use.array
    THEN [use EXCEPT !.array[c] = @ + d]
  ELSE IF c \notin DOMAIN use.hash
    THEN [use EXCEPT !.hash = With(@, c, IF d = 1 THEN 1 ELSE 0)]
  ELSE IF use.hash[c] + d = 0
    THEN [use EXCEPT !.hash = Without(@, c)]
    ELSE [use EXCEPT !.hash = With(@, c, use.hash[c] + d)]

(* Mutant: the far edges are forgotten.                                    *)
OnEdge_NearOnly(p) == p[1] = tl[1] \/ p[2] = tl[2]

(* fungespace_check_pos                                                    *)
OnEdge(p) == p[1] = br[1] \/ p[2] = br[2] \/ p[1] = tl[1] \/ p[2] = tl[2]

(* fungespace_count                                                        *)
CountCell(isset, p) ==
  LET d == IF isset THEN 1 ELSE -1
  IN  /\ cols' = Counted(cols, p[1], d)
      /\ rows' = Counted(rows, p[2], d)
      /\ boundsexact' = (boundsexact /\ (isset \/ ~OnEdge(p)))

(* Mutant: a space is stored like any other value.                         *)
Store_KeepsSpaces(v, p) ==
  /\ IF InStatic(p)
       THEN static' = [static EXCEPT ![Index(p)] = v] /\ UNCHANGED entries
       ELSE entries' = With(entries, p, v) /\ UNCHANGED static
  /\ IF (Get(p) = Space) # (v = Space)
       THEN CountCell(v # Space, p)
       ELSE UNCHANGED <<cols, rows, boundsexact>>

(* fungespace_set_no_bounds_update: only a change between space and        *)
(* non-space is counted.                                                   *)
Store(v, p) ==
  /\ IF InStatic(p)
       THEN static' = [static EXCEPT ![Index(p)] = v] /\ UNCHANGED entries
       ELSE /\ entries' = IF v = Space THEN Without(entries, p)
                          ELSE With(entries, p, v)
            /\ UNCHANGED static
  /\ IF (Get(p) = Space) # (v = Space)
       THEN CountCell(v # Space, p)
       ELSE UNCHANGED <<cols, rows, boundsexact>>

Lesser(a, b)  == IF a <= b THEN a ELSE b
Greater(a, b) == IF a <= b THEN b ELSE a

(* Mutant: the bounds only grow to the east and the south.                 *)
GrowBounds_FarOnly(p) ==
  tl' = tl /\ br' = <<Greater(br[1], p[1]), Greater(br[2], p[2])>>

GrowBounds(p) == /\ tl' = <<Lesser(tl[1], p[1]), Lesser(tl[2], p[2])>>
                 /\ br' = <<Greater(br[1], p[1]), Greater(br[2], p[2])>>

-----------------------------------------------------------------------------
(* fungespace_minimize_bounds, one axis: the pairs <<low, high>> it can    *)
(* leave there, exactly one as long as a cell is used.                     *)

(* largemodel_minimise: the extremes of the hash table's keys, or 0 and 0  *)
(* when it has none, and then of the array's non-zero counts.              *)
SparseScan(use) ==
  LET keys  == DOMAIN use.hash
      used  == {c \in DOMAIN use.array : use.array[c] > 0}
      found == (IF keys = {} THEN {0} ELSE keys) \cup used
  IN  {b \in found \X found : \A c \in found : b[1] <= c /\ c <= b[2]}

(* Scan inwards from both edges up to the first non-zero count.            *)
InwardScan(use, min, max) ==
  {b \in (min .. max) \X (min .. max) :
     /\ \A c \in min .. b[1] - 1 : Count(use, c) = 0
     /\ b[1] = max \/ Count(use, b[1]) # 0
     /\ b[1] <= b[2]
     /\ \A c \in b[2] + 1 .. max : Count(use, c) = 0
     /\ b[2] = b[1] \/ Count(use, b[2]) # 0}

TooLarge(min, max) == max - min > SimpleBoundsMax

ScanAxis(use, min, max) == IF TooLarge(min, max) THEN SparseScan(use)
                           ELSE InwardScan(use, min, max)

MinimizeBounds ==
  IF boundsexact THEN UNCHANGED <<tl, br, boundsexact>>
  ELSE \E bx \in ScanAxis(cols, tl[1], br[1]),
          by \in ScanAxis(rows, tl[2], br[2]) :
         /\ tl' = <<bx[1], by[1]>>
         /\ br' = <<bx[2], by[2]>>
         /\ boundsexact' = TRUE

-----------------------------------------------------------------------------
EmptyUse(lines) == [array |-> [c \in lines |-> 0], hash |-> [c \in {} |-> 0]]

(* fungespace_create                                                       *)
Init == /\ static  = [k \in Indices |-> Space]
        /\ entries = [p \in {} |-> Space]
        /\ cols = EmptyUse(StaticCols) /\ rows = EmptyUse(StaticRows)
        /\ tl = <<0, 0>> /\ br = <<0, 0>>
        /\ boundsexact = TRUE /\ boundsvalid = FALSE
        /\ loading = TRUE
        /\ rect = NoRect /\ written = <<>>

Used == {p \in Position : Get(p) # Space}

(* fungespace_set_initial: a character of the program file that is not a   *)
(* space. The file starts at the origin and is read line by line.          *)
SetInitial(v, p) ==
  /\ loading /\ v # Space /\ p[1] >= 0 /\ p[2] >= 0
  /\ \A q \in Used : q[2] < p[2] \/ (q[2] = p[2] /\ q[1] < p[1])
  /\ IF boundsvalid THEN GrowBounds(p) ELSE tl' = p /\ br' = p
  /\ boundsvalid' = TRUE
  /\ Store(v, p)
  /\ rect' = NoRect /\ written' = <<v, p>>
  /\ UNCHANGED loading

(* The end of the file. A program without a single character other than    *)
(* spaces never executes an instruction, so nothing follows it.            *)
Loaded == /\ loading /\ boundsvalid
          /\ loading' = FALSE
          /\ UNCHANGED <<static, entries, cols, rows, tl, br, boundsexact,
                         boundsvalid, rect, written>>

(* fungespace_set, fungespace_set_offset: what p, s, i and the             *)
(* fingerprints write through.                                             *)
Set(v, p) ==
  /\ ~loading
  /\ IF v # Space THEN GrowBounds(p) ELSE UNCHANGED <<tl, br>>
  /\ Store(v, p)
  /\ rect' = NoRect /\ written' = <<v, p>>
  /\ UNCHANGED <<boundsvalid, loading>>

(* fungespace_get_bounds_rect. A used cell is in funge-space whenever the  *)
(* bounds are minimised: the instruction being executed. Once the last one *)
(* is erased the next instruction is a space, and the search for another   *)
(* one never ends.                                                         *)
GetBoundsRect ==
  /\ ~loading /\ Used # {}
  /\ MinimizeBounds
  /\ rect' = [x |-> tl'[1], y |-> tl'[2],
              w |-> br'[1] - tl'[1], h |-> br'[2] - tl'[2]]
  /\ UNCHANGED <<static, entries, cols, rows, boundsvalid, loading, written>>

(* The part of fungespace_wrap that changes funge-space: it minimises the  *)
(* bounds only when they are inexact and far apart.                        *)
WrapMinimize ==
  /\ ~loading /\ Used # {}
  /\ ~boundsexact /\ (TooLarge(tl[1], br[1]) \/ TooLarge(tl[2], br[2]))
  /\ MinimizeBounds
  /\ UNCHANGED <<static, entries, cols, rows, boundsvalid, loading, rect,
                 written>>

Next == \/ \E v \in Value, p \in Position : SetInitial(v, p) \/ Set(v, p)
        \/ Loaded \/ GetBoundsRect \/ WrapMinimize

Spec == Init /\ [][Next]_vars

-----------------------------------------------------------------------------
UseType(use, lines, coords) ==
  /\ DOMAIN use = {"array", "hash"}
  /\ use.array \in [lines -> Nat]
  /\ DOMAIN use.hash \subseteq coords
  /\ use.hash \in [DOMAIN use.hash -> Nat]

(* Types of the variables. No space and no cell of the static region is    *)
(* ever kept in the hash table.                                            *)
TypeOK ==
  /\ static \in [Indices -> Value]
  /\ DOMAIN entries \subseteq {p \in Position : ~InStatic(p)}
  /\ entries \in [DOMAIN entries -> Char]
  /\ UseType(cols, StaticCols, Xs) /\ UseType(rows, StaticRows, Ys)
  /\ tl \in Int \X Int /\ br \in Int \X Int
  /\ boundsexact \in BOOLEAN /\ boundsvalid \in BOOLEAN
  /\ loading \in BOOLEAN
  /\ rect = NoRect \/ rect \in [x : Int, y : Int, w : Int, h : Int]
  /\ written \in {<<>>} \cup (Value \X Position)

Column(x) == {y \in Ys : Get(<<x, y>>) # Space}
Row(y)    == {x \in Xs : Get(<<x, y>>) # Space}

(* The counts follow the cells: after any sequence of writes, overwrites   *)
(* and erasures, wherever the cells and the counters are stored, the count *)
(* of a line is the number of its used cells, and the hash tables list     *)
(* exactly the used lines outside the arrays, since largemodel_minimise    *)
(* reads their keys without looking at the counts.                         *)
CountsMatch ==
  /\ \A x \in Xs : Count(cols, x) = Cardinality(Column(x))
  /\ \A y \in Ys : Count(rows, y) = Cardinality(Row(y))
  /\ DOMAIN cols.hash = {x \in Xs \ StaticCols : Column(x) # {}}
  /\ DOMAIN rows.hash = {y \in Ys \ StaticRows : Row(y) # {}}

(* The stored bounds are never too small, whether exact or not: a used     *)
(* cell outside of them could not be reached by wrapping.                  *)
BoundsCover ==
  \A p \in Used : /\ tl[1] <= p[1] /\ p[1] <= br[1]
                  /\ tl[2] <= p[2] /\ p[2] <= br[2]

(* "Are the bounds stored currently exact already?"                        *)
(* (src/src/funge-space/funge-space.c:73): while boundsexact is set, every *)
(* edge of the bounds touches a used cell - or runs through the origin,    *)
(* where the sparse scan starts (largemodel_minimise, line 291).           *)
ExactBoundsTightOrAtOrigin ==
  boundsexact /\ Used # {} =>
    /\ tl[1] = 0 \/ \E p \in Used : p[1] = tl[1]
    /\ br[1] = 0 \/ \E p \in Used : p[1] = br[1]
    /\ tl[2] = 0 \/ \E p \in Used : p[2] = tl[2]
    /\ br[2] = 0 \/ \E p \in Used : p[2] = br[2]

(* Funge-space implements the abstract plane of cells: a write stores what *)
(* it was called with where it was called for and changes no other cell,   *)
(* on either side of all the edges of the static array, and reported       *)
(* rectangles cover all the used cells.                                    *)
Plane == INSTANCE CellMap WITH cells <- [p \in Position |-> Get(p)]
ImplementsCellMap == Plane!Spec
=============================================================================
