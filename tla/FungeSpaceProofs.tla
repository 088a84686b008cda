--------------------------- MODULE FungeSpaceProofs ---------------------------
(***************************************************************************)
(* Proofs about FungeSpace for all sizes of the static array, all sets of  *)
(* columns and rows, and all values of SIMPLEBOUNDS_MAX.                   *)
(***************************************************************************)
EXTENDS FungeSpace, FiniteSetTheorems, TLAPS

(* The number of used cells of every column and row.                       *)
ColumnUse == [x \in Xs |-> Cardinality(Column(x))]
RowUse    == [y \in Ys |-> Cardinality(Row(y))]

(* A count of lines agrees with the numbers f.                             *)
Matches(use, lines, coords, f) ==
  /\ UseType(use, lines, coords)
  /\ \A c \in coords : Count(use, c) = f[c]
  /\ DOMAIN use.hash = {c \in coords \ lines : f[c] # 0}

-----------------------------------------------------------------------------
(* Counting one cell more or less on line c keeps the count right.         *)
LEMMA CountedMatches ==
  ASSUME NEW use, NEW lines, NEW coords, NEW f \in [coords -> Nat],
         Matches(use, lines, coords, f),
         NEW c \in coords, NEW d \in {1, -1}, f[c] + d \in Nat
  PROVE  Matches(Counted(use, c, d), lines, coords, [f EXCEPT ![c] = @ + d])
<1> DEFINE new == Counted(use, c, d)
           g   == [f EXCEPT ![c] = @ + d]
<1>0. /\ DOMAIN use = {"array", "hash"}
      /\ use.array \in [lines -> Nat]
      /\ DOMAIN use.hash \subseteq coords
      /\ use.hash \in [DOMAIN use.hash -> Nat]
      /\ \A k \in coords : Count(use, k) = f[k]
      /\ DOMAIN use.hash = {k \in coords \ lines : f[k] # 0}
  BY DEF Matches, UseType
<1>1. /\ g \in [coords -> Nat] /\ g[c] = f[c] + d
      /\ \A k \in coords : k # c => g[k] = f[k]
  OBVIOUS
<1>2. CASE c \in lines
  <2>1. new = [use EXCEPT !.array = [use.array EXCEPT ![c] = use.array[c] + d]]
    BY <1>0, <1>2 DEF Counted
  <2>2. /\ DOMAIN new = {"array", "hash"} /\ new.hash = use.hash
        /\ new.array = [use.array EXCEPT ![c] = use.array[c] + d]
    BY <2>1, <1>0
  <2>3. use.array[c] = f[c]
    BY <1>0, <1>2 DEF Count
  <2>4. new.array \in [lines -> Nat]
    BY <2>2, <2>3, <1>0, <1>2
  <2>5. \A k \in coords : Count(new, k) = g[k]
    BY <2>2, <2>3, <2>4, <1>0, <1>1, <1>2 DEF Count
  <2>6. DOMAIN new.hash = {k \in coords \ lines : g[k] # 0}
    BY <2>2, <1>0, <1>1, <1>2
  <2> QED
    BY <2>2, <2>4, <2>5, <2>6, <1>0 DEF Matches, UseType
<1>3. CASE c \notin lines
  <2>1. DOMAIN use.array = lines
    BY <1>0
  <2>2. /\ DOMAIN new = {"array", "hash"} /\ new.array = use.array
        /\ new.hash \in [DOMAIN new.hash -> Nat]
        /\ DOMAIN new.hash = {k \in coords \ lines : g[k] # 0}
        /\ \A k \in DOMAIN new.hash : new.hash[k] = g[k]
    <3>1. CASE c \notin DOMAIN use.hash
      <4>1. f[c] = 0 /\ d = 1 /\ g[c] = 1
        BY <3>1, <1>0, <1>1, <1>3
      <4>2. new = [use EXCEPT !.hash = With(use.hash, c, 1)]
        BY <4>1, <3>1, <2>1, <1>3 DEF Counted
      <4>3. \A k \in DOMAIN use.hash : use.hash[k] = g[k]
        BY <3>1, <2>1, <1>0, <1>1 DEF Count
      <4>4. /\ DOMAIN new = {"array", "hash"} /\ new.array = use.array
            /\ new.hash = With(use.hash, c, 1)
        BY <4>2, <1>0
      <4> HIDE DEF new, g
      <4> QED
        BY <4>1, <4>3, <4>4, <1>0, <1>1, <1>3 DEF With
    <3>2. CASE c \in DOMAIN use.hash /\ use.hash[c] + d = 0
      <4>1. use.hash[c] = f[c] /\ g[c] = 0
        BY <3>2, <2>1, <1>0, <1>1, <1>3 DEF Count
      <4>2. new = [use EXCEPT !.hash = Without(use.hash, c)]
        BY <3>2, <2>1, <1>3 DEF Counted
      <4>3. \A k \in DOMAIN use.hash : k # c => use.hash[k] = g[k]
        BY <2>1, <1>0, <1>1 DEF Count
      <4>4. /\ DOMAIN new = {"array", "hash"} /\ new.array = use.array
            /\ new.hash = Without(use.hash, c)
        BY <4>2, <1>0
      <4> HIDE DEF new, g
      <4> QED
        BY <4>1, <4>3, <4>4, <1>0, <1>1, <1>3 DEF Without
    <3>3. CASE c \in DOMAIN use.hash /\ use.hash[c] + d # 0
      <4>1. use.hash[c] = f[c] /\ g[c] # 0
        BY <3>3, <2>1, <1>0, <1>1, <1>3 DEF Count
      <4>2. new = [use EXCEPT !.hash = With(use.hash, c, use.hash[c] + d)]
        BY <3>3, <2>1, <1>3 DEF Counted
      <4>3. \A k \in DOMAIN use.hash : k # c => use.hash[k] = g[k]
        BY <2>1, <1>0, <1>1 DEF Count
      <4>4. /\ DOMAIN new = {"array", "hash"} /\ new.array = use.array
            /\ new.hash = With(use.hash, c, use.hash[c] + d)
        BY <4>2, <1>0
      <4> HIDE DEF new, g
      <4> QED
        BY <4>1, <4>3, <4>4, <1>0, <1>1, <1>3 DEF With
    <3> QED
      BY <3>1, <3>2, <3>3
  <2>3. \A k \in coords : Count(new, k) = g[k]
    BY <2>1, <2>2, <1>0, <1>1, <1>3 DEF Count
  <2> HIDE DEF new, g
  <2> QED
    BY <2>2, <2>3, <1>0 DEF Matches, UseType, new, g
<1> QED
  BY <1>2, <1>3

-----------------------------------------------------------------------------
(* A multiple of the length of a row.                                      *)
LEMMA TimesMonotone ==
  ASSUME NEW a \in Nat, NEW b \in Nat, a < b, NEW w \in Nat
  PROVE  a * w + w <= b * w
<1>1. PICK d \in Nat : b = a + 1 + d
  <2>1. b - a - 1 \in Nat /\ b = a + 1 + (b - a - 1)
    OBVIOUS
  <2> QED
    BY <2>1
<1>2. b * w = a * w + w + d * w
  BY <1>1
<1>3. d * w \in Nat /\ a * w \in Nat
  OBVIOUS
<1> QED
  BY <1>2, <1>3

(* Where rows are stored one after the other, no two places coincide.      *)
LEMMA RowsApart ==
  ASSUME NEW w \in Nat, NEW x \in 0 .. w - 1, NEW u \in 0 .. w - 1,
         NEW y \in Nat, NEW v \in Nat, x + y * w = u + v * w
  PROVE  x = u /\ y = v
<1>1. y * w \in Nat /\ v * w \in Nat
  OBVIOUS
<1>2. ~(y < v)
  <2>1. y < v => y * w + w <= v * w
    BY TimesMonotone
  <2> QED
    BY <1>1, <2>1
<1>3. ~(v < y)
  <2>1. v < y => v * w + w <= y * w
    BY TimesMonotone
  <2> QED
    BY <1>1, <2>1
<1>4. y = v
  BY <1>2, <1>3
<1> QED
  BY <1>1, <1>4

(* The offsets into the static array: what passes the range check lies     *)
(* within the region, however the conversion to unsigned wrapped.          *)
LEMMA OffsetsSound ==
  ASSUME NEW p \in Position, InStatic(p)
  PROVE  /\ Unsigned(p[1] + OffsetX) = p[1] + OffsetX
         /\ p[1] + OffsetX \in 0 .. StaticX - 1
         /\ Unsigned(p[2] + OffsetY) = p[2] + OffsetY
         /\ p[2] + OffsetY \in 0 .. StaticY - 1
<1>1. /\ p[1] \in Xs /\ p[1] \in Int /\ p[2] \in Ys /\ p[2] \in Int
  BY SpaceAssumption DEF Position
<1>2. /\ -Modulus + StaticX <= p[1] + OffsetX /\ p[1] + OffsetX < Modulus
      /\ -Modulus + StaticY <= p[2] + OffsetY /\ p[2] + OffsetY < Modulus
  BY <1>1, WidthAssumption
<1>3. Unsigned(p[1] + OffsetX) < StaticX /\ Unsigned(p[2] + OffsetY) < StaticY
  BY DEF InStatic, FUNGESPACE_RANGE_CHECK
<1> QED
  BY <1>1, <1>2, <1>3, SizeAssumption, WidthAssumption DEF Unsigned

(* The offset of a cell in the array is within it.                         *)
LEMMA IndexInArray ==
  ASSUME NEW p \in Position, InStatic(p)
  PROVE  Index(p) \in Indices
<1> DEFINE x == p[1] + OffsetX
           y == p[2] + OffsetY
<1>1. Index(p) = x + y * StaticX /\ x \in 0 .. StaticX - 1 /\ y \in 0 .. StaticY - 1
  BY OffsetsSound DEF Index, STATIC_COORD
<1> HIDE DEF x, y
<1>2. y * StaticX + StaticX <= StaticY * StaticX
  BY <1>1, SizeAssumption, TimesMonotone
<1>3. y * StaticX \in Nat /\ StaticX * StaticY = StaticY * StaticX /\ StaticX * StaticY \in Nat
  BY <1>1, SizeAssumption
<1> QED
  BY <1>1, <1>2, <1>3, SizeAssumption DEF Indices

(* No two cells share a place in the array.                                *)
LEMMA IndexInjective ==
  ASSUME NEW p \in Position, InStatic(p), NEW q \in Position, InStatic(q),
         Index(p) = Index(q)
  PROVE  p = q
<1> DEFINE x == p[1] + OffsetX
           y == p[2] + OffsetY
           u == q[1] + OffsetX
           v == q[2] + OffsetY
<1>1. /\ Index(p) = x + y * StaticX /\ x \in 0 .. StaticX - 1 /\ y \in 0 .. StaticY - 1
      /\ Index(q) = u + v * StaticX /\ u \in 0 .. StaticX - 1 /\ v \in 0 .. StaticY - 1
  BY OffsetsSound DEF Index, STATIC_COORD
<1>2. x = u /\ y = v
  <2> HIDE DEF x, y, u, v
  <2>1. x + y * StaticX = u + v * StaticX
    BY <1>1
  <2> QED
    BY <1>1, <2>1, SizeAssumption, RowsApart
<1>3. PICK a \in Xs, b \in Ys : p = <<a, b>> /\ p[1] = a /\ p[2] = b
  BY DEF Position
<1>4. PICK c \in Xs, d \in Ys : q = <<c, d>> /\ q[1] = c /\ q[2] = d
  BY DEF Position
<1>5. a \in Int /\ b \in Int /\ c \in Int /\ d \in Int
  BY SpaceAssumption
<1>6. a = c /\ b = d
  BY <1>2, <1>3, <1>4, <1>5, SizeAssumption
<1> QED
  BY <1>3, <1>4, <1>6

(* Reads after a write: wherever the cell is stored, only it changes.      *)
LEMMA StoreGet ==
  ASSUME TypeOK, NEW v \in Value, NEW p \in Position, Store(v, p)
  PROVE  \A q \in Position : Get(q)' = IF q = p THEN v ELSE Get(q)
<1>1. CASE InStatic(p)
  <2>1. /\ static' = [static EXCEPT ![Index(p)] = v] /\ entries' = entries
        /\ static \in [Indices -> Value]
    BY <1>1 DEF Store, TypeOK
  <2>2. Index(p) \in Indices
    BY <1>1, IndexInArray
  <2>3. ASSUME NEW q \in Position PROVE Get(q)' = IF q = p THEN v ELSE Get(q)
    <3>1. CASE ~InStatic(q)
      BY <1>1, <2>1, <3>1 DEF Get
    <3>2. CASE InStatic(q) /\ q = p
      BY <2>1, <2>2, <3>2 DEF Get
    <3>3. CASE InStatic(q) /\ q # p
      <4>1. Index(q) # Index(p) /\ Index(q) \in Indices
        BY <1>1, <3>3, IndexInjective, IndexInArray
      <4> QED
        BY <2>1, <3>3, <4>1 DEF Get
    <3> QED
      BY <3>1, <3>2, <3>3
  <2> QED
    BY <2>3
<1>2. CASE ~InStatic(p)
  <2>1. /\ static' = static
        /\ entries' = IF v = Space THEN Without(entries, p)
                      ELSE With(entries, p, v)
    BY <1>2 DEF Store
  <2> QED
    BY <2>1, <1>2 DEF Get, With, Without
<1> QED
  BY <1>1, <1>2

(* The storage keeps its shape.                                            *)
LEMMA StoreTypes ==
  ASSUME TypeOK, NEW v \in Value, NEW p \in Position, Store(v, p)
  PROVE  /\ static' \in [Indices -> Value]
         /\ DOMAIN entries' \subseteq {q \in Position : ~InStatic(q)}
         /\ entries' \in [DOMAIN entries' -> Char]
<1>1. CASE InStatic(p)
  BY <1>1 DEF Store, TypeOK
<1>2. CASE ~InStatic(p)
  BY <1>2 DEF Store, TypeOK, With, Without, Value
<1> QED
  BY <1>1, <1>2

-----------------------------------------------------------------------------
(* CountsMatch says that both counts agree with the numbers of used cells. *)
LEMMA LinesFinite ==
  /\ \A x \in Xs : IsFiniteSet(Column(x))
  /\ \A y \in Ys : IsFiniteSet(Row(y))
  /\ ColumnUse \in [Xs -> Nat] /\ RowUse \in [Ys -> Nat]
<1>1. \A x \in Xs : IsFiniteSet(Column(x))
  BY FS_Subset, SpaceAssumption DEF Column
<1>2. \A y \in Ys : IsFiniteSet(Row(y))
  BY FS_Subset, SpaceAssumption DEF Row
<1> QED
  BY <1>1, <1>2, FS_CardinalityType DEF ColumnUse, RowUse

(* In terms of the numbers, the two counts can be treated alike.            *)
LEMMA CountsMatchIsMatches ==
  /\ UseType(cols, StaticCols, Xs) /\ UseType(rows, StaticRows, Ys)
  /\ CountsMatch
  <=> /\ Matches(cols, StaticCols, Xs, ColumnUse)
      /\ Matches(rows, StaticRows, Ys, RowUse)
<1>1. \A x \in Xs : Column(x) # {} <=> ColumnUse[x] # 0
  BY LinesFinite, FS_EmptySet DEF ColumnUse
<1>2. \A y \in Ys : Row(y) # {} <=> RowUse[y] # 0
  BY LinesFinite, FS_EmptySet DEF RowUse
<1>3. {x \in Xs \ StaticCols : Column(x) # {}}
         = {x \in Xs \ StaticCols : ColumnUse[x] # 0}
  BY <1>1
<1>4. {y \in Ys \ StaticRows : Row(y) # {}}
         = {y \in Ys \ StaticRows : RowUse[y] # 0}
  BY <1>2
<1>5. /\ \A x \in Xs : ColumnUse[x] = Cardinality(Column(x))
      /\ \A y \in Ys : RowUse[y] = Cardinality(Row(y))
  BY DEF ColumnUse, RowUse
<1> QED
  BY <1>3, <1>4, <1>5 DEF CountsMatch, Matches

(* A write that turns neither a space into another value nor the other way *)
(* round leaves the numbers alone.                                         *)
LEMMA UseUnchanged ==
  ASSUME NEW v \in Value, NEW p \in Position,
         \A q \in Position : Get(q)' = IF q = p THEN v ELSE Get(q),
         (Get(p) = Space) = (v = Space)
  PROVE  ColumnUse' = ColumnUse /\ RowUse' = RowUse
<1>1. \A q \in Position : Get(q)' = Space <=> Get(q) = Space
  OBVIOUS
<1>2. \A x \in Xs : Column(x)' = Column(x)
  BY <1>1 DEF Column, Position
<1>3. \A y \in Ys : Row(y)' = Row(y)
  BY <1>1 DEF Row, Position
<1> QED
  BY <1>2, <1>3 DEF ColumnUse, RowUse

(* A space that becomes another value, or the other way round, changes the *)
(* number of its column and of its row by one.                             *)
LEMMA UseChanged ==
  ASSUME NEW v \in Value, NEW p \in Position,
         \A q \in Position : Get(q)' = IF q = p THEN v ELSE Get(q),
         (Get(p) = Space) # (v = Space),
         NEW d, d = IF v # Space THEN 1 ELSE -1
  PROVE  /\ ColumnUse[p[1]] + d \in Nat /\ RowUse[p[2]] + d \in Nat
         /\ ColumnUse' = [ColumnUse EXCEPT ![p[1]] = @ + d]
         /\ RowUse' = [RowUse EXCEPT ![p[2]] = @ + d]
<1>1. PICK a \in Xs, b \in Ys : p = <<a, b>> /\ p[1] = a /\ p[2] = b
  BY DEF Position
<1>2. /\ \A x \in Xs \ {a} : Column(x)' = Column(x)
      /\ \A y \in Ys \ {b} : Row(y)' = Row(y)
  BY <1>1 DEF Column, Row, Position
<1>3. /\ ColumnUse[a] = Cardinality(Column(a)) /\ ColumnUse[a] \in Nat
      /\ RowUse[b] = Cardinality(Row(b)) /\ RowUse[b] \in Nat
  BY LinesFinite DEF ColumnUse, RowUse
<1>4. /\ ColumnUse' = [ColumnUse EXCEPT ![a] = Cardinality(Column(a)')]
      /\ RowUse' = [RowUse EXCEPT ![b] = Cardinality(Row(b)')]
  BY <1>2 DEF ColumnUse, RowUse
<1>5. IsFiniteSet(Column(a)) /\ IsFiniteSet(Row(b))
  BY LinesFinite
<1>6. /\ Cardinality(Column(a)') = ColumnUse[a] + d /\ ColumnUse[a] + d \in Nat
      /\ Cardinality(Row(b)') = RowUse[b] + d /\ RowUse[b] + d \in Nat
  <2>1. CASE v # Space
    <3>1. /\ Column(a)' = Column(a) \cup {b} /\ b \notin Column(a)
          /\ Row(b)' = Row(b) \cup {a} /\ a \notin Row(b)
      BY <1>1, <2>1 DEF Column, Row, Position
    <3>2. /\ Cardinality(Column(a) \cup {b}) = Cardinality(Column(a)) + 1
          /\ Cardinality(Row(b) \cup {a}) = Cardinality(Row(b)) + 1
      BY <1>5, <3>1, FS_AddElement
    <3>3. d = 1
      BY <2>1
    <3> QED
      BY <3>1, <3>2, <3>3, <1>3
  <2>2. CASE v = Space
    <3>1. /\ Column(a)' = Column(a) \ {b} /\ b \in Column(a)
          /\ Row(b)' = Row(b) \ {a} /\ a \in Row(b)
      BY <1>1, <2>2 DEF Column, Row, Position
    <3>2. /\ Cardinality(Column(a) \ {b}) = Cardinality(Column(a)) - 1
          /\ Cardinality(Row(b) \ {a}) = Cardinality(Row(b)) - 1
      BY <1>5, <3>1, FS_RemoveElement
    <3>3. Cardinality(Column(a)) # 0 /\ Cardinality(Row(b)) # 0
      BY <1>5, <3>1, FS_EmptySet
    <3>4. d = -1
      BY <2>2
    <3> QED
      BY <3>1, <3>2, <3>3, <3>4, <1>3
  <2> QED
    BY <2>1, <2>2
<1> QED
  BY <1>1, <1>4, <1>6

-----------------------------------------------------------------------------
(* A write keeps the types of both counts and their agreement with the     *)
(* cells.                                                                  *)
LEMMA StoreKeepsCounts ==
  ASSUME TypeOK, CountsMatch, NEW v \in Value, NEW p \in Position, Store(v, p)
  PROVE  /\ UseType(cols, StaticCols, Xs)' /\ UseType(rows, StaticRows, Ys)'
         /\ CountsMatch'
<1> DEFINE d == IF v # Space THEN 1 ELSE -1
<1>1. \A q \in Position : Get(q)' = IF q = p THEN v ELSE Get(q)
  BY StoreGet
<1>2. /\ Matches(cols, StaticCols, Xs, ColumnUse)
      /\ Matches(rows, StaticRows, Ys, RowUse)
  BY CountsMatchIsMatches DEF TypeOK
<1>3. (/\ Matches(cols, StaticCols, Xs, ColumnUse)
       /\ Matches(rows, StaticRows, Ys, RowUse))'
      => (/\ UseType(cols, StaticCols, Xs) /\ UseType(rows, StaticRows, Ys)
          /\ CountsMatch)'
  BY CountsMatchIsMatches, PTL
<1>4. CASE (Get(p) = Space) = (v = Space)
  <2>1. cols' = cols /\ rows' = rows
    BY <1>4 DEF Store
  <2>2. ColumnUse' = ColumnUse /\ RowUse' = RowUse
    BY <1>1, <1>4, UseUnchanged
  <2>3. /\ Matches(cols', StaticCols, Xs, ColumnUse')
        /\ Matches(rows', StaticRows, Ys, RowUse')
    BY <1>2, <2>1, <2>2
  <2> QED
    BY <2>3, <1>3
<1>5. CASE (Get(p) = Space) # (v = Space)
  <2>1. cols' = Counted(cols, p[1], d) /\ rows' = Counted(rows, p[2], d)
    BY <1>5 DEF Store, CountCell
  <2>2. /\ ColumnUse[p[1]] + d \in Nat /\ RowUse[p[2]] + d \in Nat
        /\ ColumnUse' = [ColumnUse EXCEPT ![p[1]] = @ + d]
        /\ RowUse' = [RowUse EXCEPT ![p[2]] = @ + d]
    BY <1>1, <1>5, UseChanged
  <2>3. d \in {1, -1} /\ p[1] \in Xs /\ p[2] \in Ys
    BY DEF Position
  <2>4. Matches(Counted(cols, p[1], d), StaticCols, Xs,
                [ColumnUse EXCEPT ![p[1]] = @ + d])
    BY <1>2, <2>2, <2>3, LinesFinite, CountedMatches
  <2>5. Matches(Counted(rows, p[2], d), StaticRows, Ys,
                [RowUse EXCEPT ![p[2]] = @ + d])
    BY <1>2, <2>2, <2>3, LinesFinite, CountedMatches
  <2>6. /\ Matches(cols', StaticCols, Xs, ColumnUse')
        /\ Matches(rows', StaticRows, Ys, RowUse')
    BY <2>1, <2>2, <2>4, <2>5
  <2> QED
    BY <2>6, <1>3
<1> QED
  BY <1>4, <1>5
-----------------------------------------------------------------------------
(* What fungespace_minimize_bounds relies on: when a count is right and no *)
(* used line lies outside min..max, neither scan leaves one outside the    *)
(* pair it returns.                                                        *)
LEMMA ScanCovers ==
  ASSUME NEW use, NEW lines \in SUBSET Int, NEW coords \in SUBSET Int,
         NEW f \in [coords -> Nat], Matches(use, lines, coords, f),
         NEW min \in Int, NEW max \in Int,
         \A c \in coords : f[c] # 0 => min <= c /\ c <= max,
         NEW b \in ScanAxis(use, min, max)
  PROVE  /\ b \in Int \X Int
         /\ \A c \in coords : f[c] # 0 => b[1] <= c /\ c <= b[2]
<1>1. /\ DOMAIN use.array = lines /\ use.array \in [lines -> Nat]
      /\ DOMAIN use.hash = {c \in coords \ lines : f[c] # 0}
      /\ \A c \in coords : Count(use, c) = f[c]
  BY DEF Matches, UseType
<1>2. CASE TooLarge(min, max)
  <2> DEFINE used  == {c \in DOMAIN use.array : use.array[c] > 0}
             found == (IF DOMAIN use.hash = {} THEN {0} ELSE DOMAIN use.hash)
                        \cup used
  <2>1. b \in found \X found /\ \A c \in found : b[1] <= c /\ c <= b[2]
    BY <1>2 DEF ScanAxis, SparseScan
  <2>2. found \subseteq Int
    <3> DEFINE keys == DOMAIN use.hash
    <3>1. keys \subseteq Int /\ used \subseteq Int
      BY <1>1
    <3>2. found = (IF keys = {} THEN {0} ELSE keys) \cup used
      OBVIOUS
    <3> HIDE DEF used, keys, found
    <3>3. CASE keys = {}
      BY <3>1, <3>2, <3>3
    <3>4. CASE keys # {}
      BY <3>1, <3>2, <3>4
    <3> QED
      BY <3>3, <3>4
  <2>3. \A c \in coords : f[c] # 0 => c \in found
    <3> SUFFICES ASSUME NEW c \in coords, f[c] # 0 PROVE c \in found
      OBVIOUS
    <3>1. CASE c \in lines
      BY <3>1, <1>1 DEF Count
    <3>2. CASE c \notin lines
      BY <3>2, <1>1
    <3> QED
      BY <3>1, <3>2
  <2> QED
    BY <2>1, <2>2, <2>3
<1>3. CASE ~TooLarge(min, max)
  <2>1. /\ b \in (min .. max) \X (min .. max)
        /\ \A c \in min .. b[1] - 1 : Count(use, c) = 0
        /\ \A c \in b[2] + 1 .. max : Count(use, c) = 0
    BY <1>3 DEF ScanAxis, InwardScan
  <2>2. b \in Int \X Int
    BY <2>1
  <2>3. \A c \in coords : f[c] # 0 => b[1] <= c /\ c <= b[2]
    <3> SUFFICES ASSUME NEW c \in coords, f[c] # 0
                 PROVE  b[1] <= c /\ c <= b[2]
      OBVIOUS
    <3>1. c \in Int /\ min <= c /\ c <= max /\ Count(use, c) # 0
      BY <1>1
    <3> QED
      BY <2>1, <2>2, <3>1
  <2> QED
    BY <2>2, <2>3
<1> QED
  BY <1>2, <1>3

(* The used cells lie on lines with a positive count.                      *)
LEMMA UsedLines ==
  /\ \A p \in Used : /\ p[1] \in Xs /\ ColumnUse[p[1]] # 0
                     /\ p[2] \in Ys /\ RowUse[p[2]] # 0
  /\ \A x \in Xs : ColumnUse[x] # 0 => \E p \in Used : p[1] = x
  /\ \A y \in Ys : RowUse[y] # 0 => \E p \in Used : p[2] = y
<1>1. ASSUME NEW p \in Used
      PROVE  /\ p[1] \in Xs /\ ColumnUse[p[1]] # 0
             /\ p[2] \in Ys /\ RowUse[p[2]] # 0
  <2>1. PICK a \in Xs, b \in Ys : p = <<a, b>> /\ p[1] = a /\ p[2] = b
    BY DEF Used, Position
  <2>2. b \in Column(a) /\ a \in Row(b)
    BY <2>1 DEF Used, Column, Row
  <2>3. Cardinality(Column(a)) # 0 /\ Cardinality(Row(b)) # 0
    BY <2>2, LinesFinite, FS_EmptySet
  <2> QED
    BY <2>1, <2>3 DEF ColumnUse, RowUse
<1>2. ASSUME NEW x \in Xs, ColumnUse[x] # 0
      PROVE  \E p \in Used : p[1] = x
  <2>1. Column(x) # {}
    BY <1>2, FS_EmptySet DEF ColumnUse
  <2>2. PICK y \in Ys : Get(<<x, y>>) # Space
    BY <2>1 DEF Column
  <2>3. <<x, y>> \in Used
    BY <2>2 DEF Used, Position
  <2> QED
    BY <2>3
<1>3. ASSUME NEW y \in Ys, RowUse[y] # 0
      PROVE  \E p \in Used : p[2] = y
  <2>1. Row(y) # {}
    BY <1>3, FS_EmptySet DEF RowUse
  <2>2. PICK x \in Xs : Get(<<x, y>>) # Space
    BY <2>1 DEF Row
  <2>3. <<x, y>> \in Used
    BY <2>2 DEF Used, Position
  <2> QED
    BY <2>3
<1> QED
  BY <1>1, <1>2, <1>3

(* Minimising the bounds loses no used cell.                               *)
LEMMA MinimizeCovers ==
  ASSUME TypeOK, CountsMatch, BoundsCover, MinimizeBounds
  PROVE  /\ tl' \in Int \X Int /\ br' \in Int \X Int
         /\ boundsexact' \in BOOLEAN
         /\ \A p \in Used : /\ tl'[1] <= p[1] /\ p[1] <= br'[1]
                            /\ tl'[2] <= p[2] /\ p[2] <= br'[2]
<1>1. CASE boundsexact
  BY <1>1 DEF MinimizeBounds, TypeOK, BoundsCover
<1>2. CASE ~boundsexact
  <2>1. PICK bx \in ScanAxis(cols, tl[1], br[1]),
             by \in ScanAxis(rows, tl[2], br[2]) :
               /\ tl' = <<bx[1], by[1]>>
               /\ br' = <<bx[2], by[2]>>
               /\ boundsexact' = TRUE
    BY <1>2 DEF MinimizeBounds
  <2>2. /\ Matches(cols, StaticCols, Xs, ColumnUse)
        /\ Matches(rows, StaticRows, Ys, RowUse)
    BY CountsMatchIsMatches DEF TypeOK
  <2>3. /\ \A x \in Xs : ColumnUse[x] # 0 => tl[1] <= x /\ x <= br[1]
        /\ \A y \in Ys : RowUse[y] # 0 => tl[2] <= y /\ y <= br[2]
    BY UsedLines DEF BoundsCover
  <2>4. /\ tl[1] \in Int /\ br[1] \in Int /\ tl[2] \in Int /\ br[2] \in Int
        /\ Xs \in SUBSET Int /\ Ys \in SUBSET Int
        /\ StaticCols \in SUBSET Int /\ StaticRows \in SUBSET Int
    BY SpaceAssumption, SizeAssumption DEF TypeOK, StaticCols, StaticRows
  <2>5. /\ bx \in Int \X Int
        /\ \A x \in Xs : ColumnUse[x] # 0 => bx[1] <= x /\ x <= bx[2]
    BY <2>2, <2>3, <2>4, LinesFinite, ScanCovers
  <2>6. /\ by \in Int \X Int
        /\ \A y \in Ys : RowUse[y] # 0 => by[1] <= y /\ y <= by[2]
    BY <2>2, <2>3, <2>4, LinesFinite, ScanCovers
  <2> QED
    BY <2>1, <2>5, <2>6, UsedLines
<1> QED
  BY <1>1, <1>2

-----------------------------------------------------------------------------
(* Before the first character of the program is stored, funge-space is     *)
(* empty: fungespace_set_initial then starts the bounds afresh.            *)
FreshIsEmpty == ~boundsvalid => loading /\ Used = {}

(* The counts and the bounds need each other's truth: bounds are shrunk to *)
(* what the counts say, and a fresh rectangle is right only in an empty    *)
(* funge-space.                                                            *)
IInv == TypeOK /\ CountsMatch /\ BoundsCover /\ FreshIsEmpty

(* There is nothing in a new funge-space.                                  *)
LEMMA EmptyAtFirst ==
  ASSUME Init PROVE \A p \in Position : Get(p) = Space
BY IndexInArray DEF Init, Get

(* An empty funge-space (fungespace_create).                               *)
LEMMA InitIInv == Init => IInv
<1> SUFFICES ASSUME Init PROVE IInv
  OBVIOUS
<1>1. TypeOK
  <2>1. \A lines, coords : UseType(EmptyUse(lines), lines, coords)
    <3> SUFFICES ASSUME NEW lines, NEW coords
                 PROVE  UseType(EmptyUse(lines), lines, coords)
      OBVIOUS
    <3>1. /\ EmptyUse(lines).array = [c \in lines |-> 0]
          /\ EmptyUse(lines).hash = [c \in {} |-> 0]
          /\ DOMAIN EmptyUse(lines) = {"array", "hash"}
      BY DEF EmptyUse
    <3>2. EmptyUse(lines).array \in [lines -> Nat]
      BY <3>1
    <3>3. /\ DOMAIN EmptyUse(lines).hash = {}
          /\ EmptyUse(lines).hash \in [{} -> Nat]
      BY <3>1
    <3> QED
      BY <3>1, <3>2, <3>3 DEF UseType
  <2>2. static \in [Indices -> Value]
    BY DEF Init, Value
  <2>3. DOMAIN entries = {} /\ entries \in [{} -> Char]
    BY DEF Init
  <2>4. UseType(cols, StaticCols, Xs) /\ UseType(rows, StaticRows, Ys)
    BY <2>1 DEF Init
  <2>5. tl \in Int \X Int /\ br \in Int \X Int
    BY DEF Init
  <2>6. /\ boundsexact \in BOOLEAN /\ boundsvalid \in BOOLEAN
        /\ loading \in BOOLEAN /\ rect = NoRect /\ written = <<>>
    BY DEF Init
  <2> QED
    BY <2>2, <2>3, <2>4, <2>5, <2>6 DEF TypeOK
<1>2. \A p \in Position : Get(p) = Space
  BY EmptyAtFirst
<1>3. /\ \A x \in Xs : Column(x) = {}
      /\ \A y \in Ys : Row(y) = {}
      /\ Used = {}
  BY <1>2 DEF Column, Row, Used, Position
<1>4. /\ \A x \in Xs : Cardinality(Column(x)) = 0
      /\ \A y \in Ys : Cardinality(Row(y)) = 0
  BY <1>3, FS_EmptySet
<1>5. CountsMatch
  <2>1. /\ \A x \in Xs : Count(cols, x) = 0
        /\ \A y \in Ys : Count(rows, y) = 0
        /\ DOMAIN cols.hash = {} /\ DOMAIN rows.hash = {}
    BY DEF Init, EmptyUse, Count
  <2> QED
    BY <2>1, <1>3, <1>4 DEF CountsMatch
<1> QED
  BY <1>1, <1>3, <1>5 DEF IInv, BoundsCover, FreshIsEmpty, Init

(* The grown bounds hold the new cell and every used one.                  *)
LEMMA GrowBoundsCovers ==
  ASSUME TypeOK, BoundsCover, NEW p \in Position, GrowBounds(p)
  PROVE  /\ tl' \in Int \X Int /\ br' \in Int \X Int
         /\ \A q \in Used \cup {p} : /\ tl'[1] <= q[1] /\ q[1] <= br'[1]
                                     /\ tl'[2] <= q[2] /\ q[2] <= br'[2]
<1>1. \A q \in Position : q[1] \in Int /\ q[2] \in Int
  BY SpaceAssumption DEF Position
<1>2. tl[1] \in Int /\ tl[2] \in Int /\ br[1] \in Int /\ br[2] \in Int
  BY DEF TypeOK
<1>3. /\ tl' \in Int \X Int /\ br' \in Int \X Int
      /\ tl'[1] <= p[1] /\ p[1] <= br'[1]
      /\ tl'[2] <= p[2] /\ p[2] <= br'[2]
      /\ tl'[1] <= tl[1] /\ br[1] <= br'[1]
      /\ tl'[2] <= tl[2] /\ br[2] <= br'[2]
  BY <1>1, <1>2 DEF GrowBounds, Lesser, Greater
<1>4. /\ tl'[1] \in Int /\ tl'[2] \in Int
      /\ br'[1] \in Int /\ br'[2] \in Int
  BY <1>3
<1>5. ASSUME NEW q \in Used
      PROVE  /\ tl'[1] <= q[1] /\ q[1] <= br'[1]
             /\ tl'[2] <= q[2] /\ q[2] <= br'[2]
  <2>1. q[1] \in Int /\ q[2] \in Int
    BY <1>1 DEF Used
  <2>2. /\ tl[1] <= q[1] /\ q[1] <= br[1]
        /\ tl[2] <= q[2] /\ q[2] <= br[2]
    BY DEF BoundsCover
  <2> QED
    BY <1>2, <1>3, <1>4, <2>1, <2>2
<1> QED
  BY <1>3, <1>5

(* What a write does to the used cells.                                    *)
LEMMA StoreUsed ==
  ASSUME TypeOK, NEW v \in Value, NEW p \in Position, Store(v, p)
  PROVE  /\ Used' \subseteq Used \cup {p}
         /\ v = Space => Used' \subseteq Used
         /\ boundsexact' \in BOOLEAN
<1>1. \A q \in Position : Get(q)' = IF q = p THEN v ELSE Get(q)
  BY StoreGet
<1>2. boundsexact' \in BOOLEAN
  BY DEF Store, CountCell, TypeOK
<1> QED
  BY <1>1, <1>2 DEF Used

(* A character of the program file (fungespace_set_initial).               *)
LEMMA SetInitialIInv ==
  ASSUME IInv, NEW v \in Value, NEW p \in Position, SetInitial(v, p)
  PROVE  IInv'
<1>1. /\ loading /\ loading' = loading /\ boundsvalid' = TRUE
      /\ Store(v, p) /\ rect' = NoRect /\ written' = <<v, p>>
  BY DEF SetInitial
<1>2. TypeOK /\ CountsMatch /\ BoundsCover /\ FreshIsEmpty
  BY DEF IInv
<1>3. Used' \subseteq Used \cup {p} /\ boundsexact' \in BOOLEAN
  BY <1>1, <1>2, StoreUsed
<1>4. /\ tl' \in Int \X Int /\ br' \in Int \X Int
      /\ \A q \in Used' : /\ tl'[1] <= q[1] /\ q[1] <= br'[1]
                          /\ tl'[2] <= q[2] /\ q[2] <= br'[2]
  <2>1. CASE boundsvalid
    <3>1. GrowBounds(p)
      BY <2>1 DEF SetInitial
    <3> QED
      BY <3>1, <1>2, <1>3, GrowBoundsCovers
  <2>2. CASE ~boundsvalid
    <3>1. tl' = p /\ br' = p /\ Used = {}
      BY <2>2, <1>2 DEF SetInitial, FreshIsEmpty
    <3>2. p \in Int \X Int
      BY SpaceAssumption DEF Position
    <3> QED
      BY <3>1, <3>2, <1>3
  <2> QED
    BY <2>1, <2>2
<1>5. /\ UseType(cols, StaticCols, Xs)' /\ UseType(rows, StaticRows, Ys)'
      /\ CountsMatch'
  BY <1>1, <1>2, StoreKeepsCounts
<1>6. TypeOK'
  BY <1>1, <1>2, <1>3, <1>4, <1>5, StoreTypes DEF TypeOK
<1> QED
  BY <1>1, <1>4, <1>5, <1>6 DEF IInv, BoundsCover, FreshIsEmpty

(* A write of the program (fungespace_set).                                *)
LEMMA SetIInv ==
  ASSUME IInv, NEW v \in Value, NEW p \in Position, Set(v, p)
  PROVE  IInv'
<1>1. /\ ~loading /\ loading' = loading /\ boundsvalid' = boundsvalid
      /\ Store(v, p) /\ rect' = NoRect /\ written' = <<v, p>>
  BY DEF Set
<1>2. TypeOK /\ CountsMatch /\ BoundsCover /\ boundsvalid
  BY <1>1 DEF IInv, FreshIsEmpty
<1>3. /\ Used' \subseteq Used \cup {p}
      /\ v = Space => Used' \subseteq Used
      /\ boundsexact' \in BOOLEAN
  BY <1>1, <1>2, StoreUsed
<1>4. /\ tl' \in Int \X Int /\ br' \in Int \X Int
      /\ \A q \in Used' : /\ tl'[1] <= q[1] /\ q[1] <= br'[1]
                          /\ tl'[2] <= q[2] /\ q[2] <= br'[2]
  <2>1. CASE v # Space
    <3>1. GrowBounds(p)
      BY <2>1 DEF Set
    <3> QED
      BY <3>1, <1>2, <1>3, GrowBoundsCovers
  <2>2. CASE v = Space
    <3>1. tl' = tl /\ br' = br /\ Used' \subseteq Used
      BY <2>2, <1>3 DEF Set
    <3> QED
      BY <3>1, <1>2 DEF BoundsCover, TypeOK
  <2> QED
    BY <2>1, <2>2
<1>5. /\ UseType(cols, StaticCols, Xs)' /\ UseType(rows, StaticRows, Ys)'
      /\ CountsMatch'
  BY <1>1, <1>2, StoreKeepsCounts
<1>6. TypeOK'
  BY <1>1, <1>2, <1>3, <1>4, <1>5, StoreTypes DEF TypeOK
<1> QED
  BY <1>1, <1>2, <1>4, <1>5, <1>6 DEF IInv, BoundsCover, FreshIsEmpty

(* Nothing but the bounds changes.                                         *)
LEMMA CellsUnchanged ==
  ASSUME UNCHANGED <<static, entries, cols, rows>>
  PROVE  /\ CountsMatch' = CountsMatch /\ Used' = Used
         /\ \A p : Get(p)' = Get(p)
<1>1. \A p : Get(p)' = Get(p)
  BY DEF Get
<1>2. /\ \A x \in Xs : Column(x)' = Column(x)
      /\ \A y \in Ys : Row(y)' = Row(y)
      /\ Used' = Used
  BY <1>1 DEF Column, Row, Used
<1> QED
  BY <1>1, <1>2 DEF CountsMatch, Count

(* Somebody asks for the bounds (fungespace_get_bounds_rect).              *)
LEMMA GetBoundsRectIInv ==
  ASSUME IInv, GetBoundsRect
  PROVE  IInv'
<1>1. /\ MinimizeBounds /\ UNCHANGED <<static, entries, cols, rows>>
      /\ UNCHANGED <<boundsvalid, loading, written>>
      /\ rect' = [x |-> tl'[1], y |-> tl'[2],
                  w |-> br'[1] - tl'[1], h |-> br'[2] - tl'[2]]
  BY DEF GetBoundsRect
<1>2. /\ tl' \in Int \X Int /\ br' \in Int \X Int
      /\ boundsexact' \in BOOLEAN
      /\ \A p \in Used : /\ tl'[1] <= p[1] /\ p[1] <= br'[1]
                         /\ tl'[2] <= p[2] /\ p[2] <= br'[2]
  BY <1>1, MinimizeCovers DEF IInv
<1>3. CountsMatch' = CountsMatch /\ Used' = Used
  BY <1>1, CellsUnchanged
<1>4. TypeOK'
  <2>1. rect' \in [x : Int, y : Int, w : Int, h : Int]
    BY <1>1, <1>2
  <2> QED
    BY <1>1, <1>2, <2>1 DEF IInv, TypeOK, UseType
<1> QED
  BY <1>1, <1>2, <1>3, <1>4 DEF IInv, BoundsCover, FreshIsEmpty

(* Wrapping shrinks the bounds first when they are far apart.              *)
LEMMA WrapMinimizeIInv ==
  ASSUME IInv, WrapMinimize
  PROVE  IInv'
<1>1. /\ MinimizeBounds /\ UNCHANGED <<static, entries, cols, rows>>
      /\ UNCHANGED <<boundsvalid, loading, rect, written>>
  BY DEF WrapMinimize
<1>2. /\ tl' \in Int \X Int /\ br' \in Int \X Int
      /\ boundsexact' \in BOOLEAN
      /\ \A p \in Used : /\ tl'[1] <= p[1] /\ p[1] <= br'[1]
                         /\ tl'[2] <= p[2] /\ p[2] <= br'[2]
  BY <1>1, MinimizeCovers DEF IInv
<1>3. CountsMatch' = CountsMatch /\ Used' = Used
  BY <1>1, CellsUnchanged
<1>4. TypeOK'
  BY <1>1, <1>2 DEF IInv, TypeOK, UseType
<1> QED
  BY <1>1, <1>2, <1>3, <1>4 DEF IInv, BoundsCover, FreshIsEmpty

(* Every step of the specification.                                        *)
LEMMA NextIInv == IInv /\ [Next]_vars => IInv'
<1> SUFFICES ASSUME IInv, [Next]_vars PROVE IInv'
  OBVIOUS
<1>1. ASSUME NEW v \in Value, NEW p \in Position, SetInitial(v, p)
      PROVE  IInv'
  BY <1>1, SetInitialIInv
<1>2. ASSUME NEW v \in Value, NEW p \in Position, Set(v, p)
      PROVE  IInv'
  BY <1>2, SetIInv
<1>3. CASE Loaded
  <2>1. /\ UNCHANGED <<static, entries, cols, rows, tl, br, boundsexact,
                       boundsvalid, rect, written>>
        /\ boundsvalid /\ loading' = FALSE
    BY <1>3 DEF Loaded
  <2>2. CountsMatch' = CountsMatch /\ Used' = Used
    BY <2>1, CellsUnchanged
  <2> QED
    BY <2>1, <2>2 DEF IInv, TypeOK, UseType, BoundsCover, FreshIsEmpty
<1>4. CASE GetBoundsRect
  BY <1>4, GetBoundsRectIInv
<1>5. CASE WrapMinimize
  BY <1>5, WrapMinimizeIInv
<1>6. CASE UNCHANGED vars
  <2>1. UNCHANGED <<static, entries, cols, rows, tl, br, boundsexact,
                    boundsvalid, loading, rect, written>>
    BY <1>6 DEF vars
  <2>2. CountsMatch' = CountsMatch /\ Used' = Used
    BY <2>1, CellsUnchanged
  <2> QED
    BY <2>1, <2>2 DEF IInv, TypeOK, UseType, BoundsCover, FreshIsEmpty
<1> QED
  BY <1>1, <1>2, <1>3, <1>4, <1>5, <1>6 DEF Next

(* Types, counts and bounds are right in every reachable state.            *)
THEOREM Invariance == Spec => []IInv
<1> QED
  BY InitIInv, NextIInv, PTL DEF Spec

(* The variables keep their types; in particular fungespace_set never      *)
(* leaves a space, nor a cell of the static array, in the hash table.      *)
THEOREM TypeCorrect == Spec => []TypeOK
<1>1. IInv => TypeOK
  BY DEF IInv
<1> QED
  BY <1>1, Invariance, PTL

(* fungespace_count keeps every column's and every row's count equal to    *)
(* the number of its used cells.                                           *)
THEOREM CountsCorrect == Spec => []CountsMatch
<1>1. IInv => CountsMatch
  BY DEF IInv
<1> QED
  BY <1>1, Invariance, PTL

(* The bounding rectangle never leaves a used cell out, whichever of the   *)
(* two scans of fungespace_minimize_bounds shrinks it.                     *)
THEOREM BoundsCorrect == Spec => []BoundsCover
<1>1. IInv => BoundsCover
  BY DEF IInv
<1> QED
  BY <1>1, Invariance, PTL

-----------------------------------------------------------------------------
(* A write of the implementation is a write of the abstract plane.         *)
LEMMA StoreIsWrite ==
  ASSUME TypeOK, NEW v \in Value, NEW p \in Position, Store(v, p),
         rect' = NoRect, written' = <<v, p>>
  PROVE  Plane!Write
<1> DEFINE now == [q \in Position |-> Get(q)]
<1>1. \A q \in Position : Get(q)' = IF q = p THEN v ELSE Get(q)
  BY StoreGet
<1>2. now' = [now EXCEPT ![p] = v]
  BY <1>1
<1> QED
  BY <1>2 DEF Plane!Write

(* Every step is one of the abstract plane, or leaves it alone.            *)
LEMMA StepRefines == IInv /\ [Next]_vars => [Plane!Next]_(Plane!vars)
<1> SUFFICES ASSUME IInv, [Next]_vars PROVE [Plane!Next]_(Plane!vars)
  OBVIOUS
<1>1. ASSUME NEW v \in Value, NEW p \in Position,
             SetInitial(v, p) \/ Set(v, p)
      PROVE  Plane!Write
  <2>1. Store(v, p) /\ rect' = NoRect /\ written' = <<v, p>>
    BY <1>1 DEF SetInitial, Set
  <2> QED
    BY <2>1, StoreIsWrite DEF IInv
<1>2. CASE GetBoundsRect
  <2>1. /\ MinimizeBounds /\ UNCHANGED <<static, entries, cols, rows, written>>
        /\ rect' = [x |-> tl'[1], y |-> tl'[2],
                    w |-> br'[1] - tl'[1], h |-> br'[2] - tl'[2]]
    BY <1>2 DEF GetBoundsRect
  <2>2. /\ tl' \in Int \X Int /\ br' \in Int \X Int
        /\ \A p \in Used : /\ tl'[1] <= p[1] /\ p[1] <= br'[1]
                           /\ tl'[2] <= p[2] /\ p[2] <= br'[2]
    BY <2>1, MinimizeCovers DEF IInv
  <2>3. \A p : Get(p)' = Get(p)
    BY <2>1, CellsUnchanged
  <2>4. ASSUME NEW p \in Position, Get(p) # Space
        PROVE  Plane!Within(p, rect')
    <3>1. p \in Used /\ p[1] \in Int /\ p[2] \in Int
      BY <2>4, SpaceAssumption DEF Used, Position
    <3>2. /\ tl'[1] <= p[1] /\ p[1] <= tl'[1] + (br'[1] - tl'[1])
          /\ tl'[2] <= p[2] /\ p[2] <= tl'[2] + (br'[2] - tl'[2])
      BY <2>2, <3>1
    <3> QED
      BY <2>1, <3>2 DEF Plane!Within
  <2>5. Plane!Report
    BY <2>1, <2>3, <2>4 DEF Plane!Report
  <2> QED
    BY <2>5 DEF Plane!Next
<1>3. CASE Loaded \/ WrapMinimize \/ UNCHANGED vars
  <2>1. UNCHANGED <<static, entries, cols, rows, rect, written>>
    BY <1>3 DEF Loaded, WrapMinimize, vars
  <2>2. \A p : Get(p)' = Get(p)
    BY <2>1, CellsUnchanged
  <2> QED
    BY <2>1, <2>2 DEF Plane!vars
<1> QED
  BY <1>1, <1>2, <1>3 DEF Next, Plane!Next

(* Wherever cells are kept, a write stores the value it is called with at  *)
(* the position it is called with and leaves what every other read returns *)
(* as it was; and every rectangle reported holds all the used cells.       *)
THEOREM Refinement == Spec => ImplementsCellMap
<1>1. Init => Plane!Init
  BY EmptyAtFirst DEF Init, Plane!Init
<1> QED
  BY <1>1, StepRefines, Invariance, PTL DEF Spec, ImplementsCellMap, Plane!Spec
-----------------------------------------------------------------------------
(* Every edge of the rectangle touches one of the cells or runs through    *)
(* the origin.                                                             *)
Tight(low, high, cells) ==
  /\ low[1] = 0 \/ \E p \in cells : p[1] = low[1]
  /\ high[1] = 0 \/ \E p \in cells : p[1] = high[1]
  /\ low[2] = 0 \/ \E p \in cells : p[2] = low[2]
  /\ high[2] = 0 \/ \E p \in cells : p[2] = high[2]

(* The lines of the arrays the program never uses count nothing.           *)
OthersZero(use, lines, coords) == \A c \in lines \ coords : use.array[c] = 0

(* Exact bounds are tight; and only in a fresh funge-space are the bounds  *)
(* of no cell at all exact, since erasing the last one is on an edge.      *)
TightInv ==
  /\ OthersZero(cols, StaticCols, Xs) /\ OthersZero(rows, StaticRows, Ys)
  /\ boundsexact /\ boundsvalid => Used # {} /\ Tight(tl, br, Used)

(* Of a line that is used, the counts speak truly.                         *)
LEMMA CountedLines ==
  ASSUME NEW use, NEW lines \in SUBSET Int, NEW coords \in SUBSET Int,
         NEW f \in [coords -> Nat], Matches(use, lines, coords, f),
         OthersZero(use, lines, coords)
  PROVE  /\ \A c \in DOMAIN use.array : use.array[c] > 0
                                        => c \in coords /\ f[c] # 0
         /\ \A c \in DOMAIN use.hash : c \in coords /\ f[c] # 0
         /\ \A c \in Int : Count(use, c) # 0 => c \in coords /\ f[c] # 0
<1>1. /\ DOMAIN use.array = lines /\ use.array \in [lines -> Nat]
      /\ DOMAIN use.hash = {c \in coords \ lines : f[c] # 0}
      /\ \A c \in coords : Count(use, c) = f[c]
  BY DEF Matches, UseType
<1>2. ASSUME NEW c \in lines, use.array[c] # 0
      PROVE  c \in coords /\ f[c] # 0
  BY <1>1, <1>2 DEF OthersZero, Count
<1>3. ASSUME NEW c \in Int, Count(use, c) # 0
      PROVE  c \in coords /\ f[c] # 0
  BY <1>1, <1>2, <1>3 DEF Count
<1>4. ASSUME NEW c \in DOMAIN use.array, use.array[c] > 0
      PROVE  c \in coords /\ f[c] # 0
  <2>1. c \in lines /\ use.array[c] # 0
    BY <1>1, <1>4
  <2> QED
    BY <1>2, <2>1
<1> QED
  BY <1>1, <1>3, <1>4

(* Both scans end at a used line on either side, or at zero.               *)
LEMMA ScanTight ==
  ASSUME NEW use, NEW lines \in SUBSET Int, NEW coords \in SUBSET Int,
         NEW f \in [coords -> Nat], Matches(use, lines, coords, f),
         OthersZero(use, lines, coords),
         NEW min \in Int, NEW max \in Int,
         \A c \in coords : f[c] # 0 => min <= c /\ c <= max,
         \E c \in coords : f[c] # 0,
         NEW b \in ScanAxis(use, min, max)
  PROVE  /\ b[1] = 0 \/ (b[1] \in coords /\ f[b[1]] # 0)
         /\ b[2] = 0 \/ (b[2] \in coords /\ f[b[2]] # 0)
<1>1. /\ \A c \in DOMAIN use.array : use.array[c] > 0
                                     => c \in coords /\ f[c] # 0
      /\ \A c \in DOMAIN use.hash : c \in coords /\ f[c] # 0
      /\ \A c \in Int : Count(use, c) # 0 => c \in coords /\ f[c] # 0
  BY CountedLines
<1>2. CASE TooLarge(min, max)
  <2> DEFINE keys  == DOMAIN use.hash
             used  == {c \in DOMAIN use.array : use.array[c] > 0}
             found == (IF keys = {} THEN {0} ELSE keys) \cup used
  <2>1. b \in found \X found
    BY <1>2 DEF ScanAxis, SparseScan
  <2>2. \A c \in found : c = 0 \/ (c \in coords /\ f[c] # 0)
    BY <1>1
  <2> HIDE DEF found
  <2> QED
    BY <2>1, <2>2
<1>3. CASE ~TooLarge(min, max)
  <2>1. /\ b \in (min .. max) \X (min .. max)
        /\ \A c \in min .. b[1] - 1 : Count(use, c) = 0
        /\ b[1] = max \/ Count(use, b[1]) # 0
        /\ b[2] = b[1] \/ Count(use, b[2]) # 0
    BY <1>3 DEF ScanAxis, InwardScan
  <2>2. b[1] \in Int /\ b[2] \in Int /\ b[1] <= max
    BY <2>1
  <2>3. PICK c \in coords : f[c] # 0
    OBVIOUS
  <2>4. c \in Int /\ min <= c /\ c <= max /\ Count(use, c) # 0
    BY <2>3 DEF Matches
  <2>5. Count(use, b[1]) # 0
    BY <2>1, <2>2, <2>4
  <2> QED
    BY <1>1, <2>1, <2>2, <2>5
<1> QED
  BY <1>2, <1>3

(* The bounds that fungespace_minimize_bounds leaves are tight.            *)
LEMMA MinimizeTight ==
  ASSUME IInv, TightInv, boundsvalid, Used # {}, MinimizeBounds
  PROVE  Tight(tl', br', Used)
<1>1. CASE boundsexact
  BY <1>1 DEF MinimizeBounds, TightInv
<1>2. CASE ~boundsexact
  <2>1. PICK bx \in ScanAxis(cols, tl[1], br[1]),
             by \in ScanAxis(rows, tl[2], br[2]) :
               /\ tl' = <<bx[1], by[1]>>
               /\ br' = <<bx[2], by[2]>>
    BY <1>2 DEF MinimizeBounds
  <2>2. /\ Matches(cols, StaticCols, Xs, ColumnUse)
        /\ Matches(rows, StaticRows, Ys, RowUse)
    BY CountsMatchIsMatches DEF IInv, TypeOK
  <2>3. /\ \A x \in Xs : ColumnUse[x] # 0 => tl[1] <= x /\ x <= br[1]
        /\ \A y \in Ys : RowUse[y] # 0 => tl[2] <= y /\ y <= br[2]
        /\ \E x \in Xs : ColumnUse[x] # 0
        /\ \E y \in Ys : RowUse[y] # 0
    BY UsedLines DEF IInv, BoundsCover
  <2>4. /\ tl[1] \in Int /\ br[1] \in Int /\ tl[2] \in Int /\ br[2] \in Int
        /\ Xs \in SUBSET Int /\ Ys \in SUBSET Int
        /\ StaticCols \in SUBSET Int /\ StaticRows \in SUBSET Int
    BY SpaceAssumption, SizeAssumption DEF IInv, TypeOK, StaticCols, StaticRows
  <2>5. /\ bx[1] = 0 \/ (bx[1] \in Xs /\ ColumnUse[bx[1]] # 0)
        /\ bx[2] = 0 \/ (bx[2] \in Xs /\ ColumnUse[bx[2]] # 0)
    BY <2>2, <2>3, <2>4, LinesFinite, ScanTight DEF TightInv
  <2>6. /\ by[1] = 0 \/ (by[1] \in Ys /\ RowUse[by[1]] # 0)
        /\ by[2] = 0 \/ (by[2] \in Ys /\ RowUse[by[2]] # 0)
    BY <2>2, <2>3, <2>4, LinesFinite, ScanTight DEF TightInv
  <2> QED
    BY <2>1, <2>5, <2>6, UsedLines DEF Tight
<1> QED
  BY <1>1, <1>2

(* Only the lines of the cell that is written are counted.                 *)
LEMMA StoreOthersZero ==
  ASSUME TypeOK, OthersZero(cols, StaticCols, Xs),
         OthersZero(rows, StaticRows, Ys),
         NEW v \in Value, NEW p \in Position, Store(v, p)
  PROVE  /\ OthersZero(cols', StaticCols, Xs)
         /\ OthersZero(rows', StaticRows, Ys)
<1>1. ASSUME NEW use, NEW lines, NEW coords, UseType(use, lines, coords),
             OthersZero(use, lines, coords), NEW c \in coords, NEW d
      PROVE  OthersZero(Counted(use, c, d), lines, coords)
  <2> DEFINE new == Counted(use, c, d)
  <2>1. DOMAIN use = {"array", "hash"} /\ use.array \in [lines -> Nat]
    BY <1>1 DEF UseType
  <2>2. \/ new.array = use.array
        \/ new.array = [use.array EXCEPT ![c] = use.array[c] + d]
    BY <2>1 DEF Counted
  <2> HIDE DEF new
  <2>3. \A k \in lines \ coords : new.array[k] = use.array[k]
    BY <1>1, <2>1, <2>2
  <2> QED
    BY <1>1, <2>3 DEF OthersZero, new
<1>2. CASE (Get(p) = Space) = (v = Space)
  BY <1>2 DEF Store
<1>3. CASE (Get(p) = Space) # (v = Space)
  <2> DEFINE d == IF v # Space THEN 1 ELSE -1
  <2>1. cols' = Counted(cols, p[1], d) /\ rows' = Counted(rows, p[2], d)
    BY <1>3 DEF Store, CountCell
  <2>2. p[1] \in Xs /\ p[2] \in Ys
    BY DEF Position
  <2> HIDE DEF d
  <2> QED
    BY <1>1, <2>1, <2>2 DEF TypeOK
<1> QED
  BY <1>2, <1>3

(* A cell all alone within tight bounds is on their edge.                  *)
LEMMA LastOnEdge ==
  ASSUME TypeOK, BoundsCover, NEW p \in Position, Used = {p},
         Tight(tl, br, Used)
  PROVE  OnEdge(p)
<1>1. /\ p[1] \in Int /\ tl[1] \in Int /\ br[1] \in Int
      /\ tl[1] <= p[1] /\ p[1] <= br[1]
  BY SpaceAssumption DEF Position, TypeOK, BoundsCover
<1>2. (tl[1] = 0 \/ p[1] = tl[1]) /\ (br[1] = 0 \/ p[1] = br[1])
  BY DEF Tight
<1> QED
  BY <1>1, <1>2 DEF OnEdge

(* A write that leaves the bounds exact leaves them tight: they grow to    *)
(* the new cell, and a cell erased was on none of their edges.             *)
LEMMA StoreTight ==
  ASSUME IInv, TightInv, NEW v \in Value, NEW p \in Position, Store(v, p),
         boundsexact',
         \/ v # Space /\ ~boundsvalid /\ tl' = p /\ br' = p
         \/ v # Space /\ boundsvalid /\ GrowBounds(p)
         \/ v = Space /\ boundsvalid /\ UNCHANGED <<tl, br>>
  PROVE  Used' # {} /\ Tight(tl', br', Used')
<1>1. \A q \in Position : Get(q)' = IF q = p THEN v ELSE Get(q)
  BY StoreGet DEF IInv
<1>2. boundsexact
  BY DEF Store, CountCell
<1>3. CASE v # Space
  <2>1. p \in Used' /\ Used \subseteq Used'
    BY <1>1, <1>3 DEF Used
  <2>2. CASE ~boundsvalid
    BY <1>3, <2>1, <2>2 DEF Tight
  <2>3. CASE boundsvalid
    <3>1. Tight(tl, br, Used')
      BY <1>2, <2>1, <2>3 DEF TightInv, Tight
    <3>2. /\ tl'[1] \in {tl[1], p[1]} /\ br'[1] \in {br[1], p[1]}
          /\ tl'[2] \in {tl[2], p[2]} /\ br'[2] \in {br[2], p[2]}
      BY <1>3, <2>3 DEF GrowBounds, Lesser, Greater
    <3> QED
      BY <2>1, <3>1, <3>2 DEF Tight
  <2> QED
    BY <2>2, <2>3
<1>4. CASE v = Space
  <2>1. /\ tl' = tl /\ br' = br
        /\ Used # {} /\ Tight(tl, br, Used)
    BY <1>2, <1>4 DEF TightInv
  <2>2. CASE Get(p) = Space
    <3>1. Used' = Used
      BY <1>1, <1>4, <2>2 DEF Used
    <3> QED
      BY <2>1, <3>1
  <2>3. CASE Get(p) # Space
    <3>1. ~OnEdge(p)
      BY <1>4, <2>3 DEF Store, CountCell
    <3>2. Used' = Used \ {p} /\ p \in Used
      BY <1>1, <1>4, <2>3 DEF Used
    <3>3. Used # {p}
      BY <2>1, <3>1, LastOnEdge DEF IInv
    <3>4. Tight(tl, br, Used \ {p})
      BY <2>1, <3>1 DEF Tight, OnEdge
    <3> QED
      BY <2>1, <3>2, <3>3, <3>4
  <2> QED
    BY <2>2, <2>3
<1> QED
  BY <1>3, <1>4

(* Every step keeps exact bounds tight.                                    *)
LEMMA NextTight == IInv /\ TightInv /\ [Next]_vars => TightInv'
<1> SUFFICES ASSUME IInv, TightInv, [Next]_vars PROVE TightInv'
  OBVIOUS
<1>1. ASSUME NEW v \in Value, NEW p \in Position,
             SetInitial(v, p) \/ Set(v, p)
      PROVE  TightInv'
  <2>1. Store(v, p)
    BY <1>1 DEF SetInitial, Set
  <2>2. /\ OthersZero(cols', StaticCols, Xs)
        /\ OthersZero(rows', StaticRows, Ys)
    BY <2>1, StoreOthersZero DEF IInv, TightInv
  <2>3. \/ v # Space /\ ~boundsvalid /\ tl' = p /\ br' = p
        \/ v # Space /\ boundsvalid /\ GrowBounds(p)
        \/ v = Space /\ boundsvalid /\ UNCHANGED <<tl, br>>
    BY <1>1 DEF SetInitial, Set, IInv, FreshIsEmpty
  <2>4. boundsexact' => Used' # {} /\ Tight(tl', br', Used')
    BY <2>1, <2>3, StoreTight
  <2> QED
    BY <2>2, <2>4 DEF TightInv
<1>2. CASE GetBoundsRect \/ WrapMinimize
  <2>1. /\ MinimizeBounds /\ UNCHANGED <<static, entries, cols, rows>>
        /\ Used # {} /\ boundsvalid
    BY <1>2 DEF GetBoundsRect, WrapMinimize, IInv, FreshIsEmpty
  <2>2. Used' = Used
    BY <2>1, CellsUnchanged
  <2> QED
    BY <2>1, <2>2, MinimizeTight DEF TightInv
<1>3. CASE Loaded \/ UNCHANGED vars
  <2>1. UNCHANGED <<static, entries, cols, rows, tl, br, boundsexact,
                    boundsvalid>>
    BY <1>3 DEF Loaded, vars
  <2>2. Used' = Used
    BY <2>1, CellsUnchanged
  <2> QED
    BY <2>1, <2>2 DEF TightInv
<1> QED
  BY <1>1, <1>2, <1>3 DEF Next

(* While boundsexact is set, every edge of the bounds touches a used cell  *)
(* or runs through the origin, where the sparse scan starts.               *)
THEOREM BoundsTight == Spec => []ExactBoundsTightOrAtOrigin
<1>1. Init => TightInv
  BY DEF Init, TightInv, OthersZero, EmptyUse
<1>2. IInv /\ TightInv => ExactBoundsTightOrAtOrigin
  BY DEF IInv, FreshIsEmpty, TightInv, Tight, ExactBoundsTightOrAtOrigin
<1> QED
  BY <1>1, <1>2, NextTight, Invariance, PTL DEF Spec
=============================================================================
