----------------------------- MODULE ReaderProofs -----------------------------
(***************************************************************************)
(* Proofs about what reads a text: Input, for every stream, every alphabet *)
(* with its digits, and every size of a cell and of the first buffer; and  *)
(* Files, for any file, any positions and any program that loads and saves.*)
(***************************************************************************)
EXTENDS Files, Input, CommonLemmas, SequenceTheorems, FiniteSetTheorems, TLAPS

-----------------------------------------------------------------------------
(* Standard input.                                                         *)

(* The least of a set of numbers is one of them.                           *)
LEMMA MinOf ==
  ASSUME NEW S \in SUBSET Nat, S # {}
  PROVE  Min(S) \in S /\ \A n \in S : Min(S) <= n
BY Least DEF Min

(* The number no other is less than is the least.                          *)
LEMMA MinIs ==
  ASSUME NEW S \in SUBSET Int, NEW m \in S, \A n \in S : m <= n
  PROVE  Min(S) = m
<1>1. Min(S) = CHOOSE x \in S : \A y \in S : x <= y
  BY DEF Min
<1> DEFINE x == CHOOSE z \in S : \A y \in S : z <= y
<1>2. x \in S /\ \A y \in S : x <= y
  OBVIOUS
<1> HIDE DEF x
<1>3. x \in Int /\ m \in Int /\ x <= m /\ m <= x
  BY <1>2
<1>4. x = m
  BY <1>3
<1> QED
  BY <1>1, <1>4 DEF x

-----------------------------------------------------------------------------
(* The sizes a buffer grows through, one after the other.                  *)
Grows(s, bytes, length) ==
  s = [k \in 0 .. length |-> IF k = 0 THEN bytes ELSE 2 * s[k - 1] + 1]

(* There are such sizes, for buffers of any length.                        *)
LEMMA Growth ==
  ASSUME NEW bytes \in Nat \ {0}, NEW length \in Nat
  PROVE  \E s : Grows(s, bytes, length) /\ BufferSizes(bytes, length) = Range(s)
<1> DEFINE Bad == {j \in 0 .. length : ~ \E s : Grows(s, bytes, j)}
<1>1. ASSUME Bad # {} PROVE FALSE
  <2>1. Bad \in SUBSET Nat
    OBVIOUS
  <2> HIDE DEF Bad
  <2>2. PICK j \in Bad : \A k \in Bad : j <= k
    BY <1>1, <2>1, Least
  <2>3. j \in Nat /\ \A k \in Nat : k < j => k \notin Bad
    BY <2>1, <2>2
  <2> USE DEF Bad
  <2>4. j \in 0 .. length /\ ~ \E s : Grows(s, bytes, j)
    BY <2>2
  <2>5. CASE j = 0
    <3>1. Grows([k \in 0 .. 0 |-> bytes], bytes, 0)
      BY DEF Grows
    <3> QED
      BY <2>4, <2>5, <3>1
  <2>6. CASE j > 0
    <3>1. j - 1 \in 0 .. length /\ j - 1 \in Nat /\ j - 1 < j
      BY <2>4, <2>6
    <3>2. PICK s : Grows(s, bytes, j - 1)
      BY <2>3, <3>1
    <3> DEFINE r == [k \in 0 .. j |-> IF k = j THEN 2 * s[j - 1] + 1 ELSE s[k]]
    <3>3. ASSUME NEW k \in 0 .. j
          PROVE  r[k] = IF k = 0 THEN bytes ELSE 2 * r[k - 1] + 1
      <4>1. CASE k = j
        BY <2>4, <2>6, <4>1
      <4>2. CASE k # j
        <5>1. k \in 0 .. j - 1 /\ (k # 0 => k - 1 \in 0 .. j - 1)
          BY <2>4, <4>2
        <5>2. s[k] = IF k = 0 THEN bytes ELSE 2 * s[k - 1] + 1
          BY <3>2, <5>1 DEF Grows
        <5>3. k # 0 => r[k - 1] = s[k - 1]
          BY <2>4, <4>2, <5>1
        <5> QED
          BY <4>2, <5>2, <5>3
      <4> QED
        BY <4>1, <4>2
    <3>4. r = [k \in 0 .. j |-> r[k]]
      OBVIOUS
    <3> HIDE DEF r
    <3>5. Grows(r, bytes, j)
      BY <3>3, <3>4 DEF Grows
    <3> QED
      BY <2>4, <3>5
  <2> QED
    BY <2>4, <2>5, <2>6
<1>2. \E s : Grows(s, bytes, length)
  BY <1>1
<1>3. Grows(CHOOSE s : Grows(s, bytes, length), bytes, length)
  BY <1>2
<1>4. BufferSizes(bytes, length) = Range(CHOOSE s : Grows(s, bytes, length))
  BY DEF BufferSizes, Grows
<1> QED
  BY <1>3, <1>4

(* The buffer becomes large enough for the line and a 0.                   *)
LEMMA SizeSuffices ==
  ASSUME NEW bytes \in Nat \ {0}, NEW length \in Nat
  PROVE  SizeFor(bytes, length) \in Nat /\ length < SizeFor(bytes, length)
<1>1. PICK s : Grows(s, bytes, length) /\ BufferSizes(bytes, length) = Range(s)
  BY Growth
<1>2. \A k \in 0 .. length : s[k] = IF k = 0 THEN bytes ELSE 2 * s[k - 1] + 1
  BY <1>1 DEF Grows
<1> DEFINE Bad == {k \in 0 .. length : ~(s[k] \in Nat /\ s[k] > k)}
<1>3. ASSUME Bad # {} PROVE FALSE
  <2>1. Bad \in SUBSET Nat
    OBVIOUS
  <2> HIDE DEF Bad
  <2>2. PICK j \in Bad : \A k \in Bad : j <= k
    BY <1>3, <2>1, Least
  <2>3. j \in Nat /\ \A k \in Nat : k < j => k \notin Bad
    BY <2>1, <2>2
  <2> USE DEF Bad
  <2>4. j \in 0 .. length /\ ~(s[j] \in Nat /\ s[j] > j)
    BY <2>2
  <2>5. j # 0
    BY <1>2, <2>4
  <2>6. s[j - 1] \in Nat /\ s[j - 1] > j - 1
    BY <2>3, <2>4, <2>5
  <2>7. s[j] = 2 * s[j - 1] + 1
    BY <1>2, <2>4, <2>5
  <2> QED
    BY <2>3, <2>4, <2>6, <2>7
<1>4. \A k \in 0 .. length : s[k] \in Nat /\ s[k] > k
  BY <1>3
<1> HIDE DEF Bad
<1>5. DOMAIN s = 0 .. length
  BY <1>1 DEF Grows
<1>6. Range(s) \in SUBSET Nat /\ s[length] \in Range(s)
  BY <1>4, <1>5 DEF Range
<1> DEFINE S == {n \in BufferSizes(bytes, length) : n > length}
<1>7. S \in SUBSET Nat /\ S # {}
  BY <1>1, <1>4, <1>6
<1>8. \A n \in S : n > length
  OBVIOUS
<1> HIDE DEF S
<1>9. Min(S) \in S
  BY <1>7, MinOf
<1>10. SizeFor(bytes, length) = Min(S)
  BY DEF SizeFor, S
<1> QED
  BY <1>7, <1>8, <1>9, <1>10

-----------------------------------------------------------------------------
(* L is what the stream holds up to its character t, from the line feed    *)
(* before it: a line, or the end of one that was begun elsewhere.          *)
Holds(L, t) ==
  /\ L \in Seq(Char) /\ t \in Nat /\ Len(L) <= t /\ t <= Len(stream)
  /\ \A n \in 1 .. Len(L) : L[n] = stream[t - Len(L) + n]
  /\ \A n \in 1 .. Len(L) - 1 : L[n] # LF
  /\ t = Len(stream) \/ stream[t] = LF

(* The same with the length of L given by name.                            *)
LEMMA HeldIf ==
  ASSUME NEW L \in Seq(Char), NEW n, Len(L) = n,
         NEW t \in Nat, n <= t, t <= Len(stream),
         \A k \in 1 .. n : L[k] = stream[t - n + k],
         \A k \in 1 .. n - 1 : L[k] # LF,
         t = Len(stream) \/ stream[t] = LF
  PROVE  Holds(L, t)
BY DEF Holds

(* The inductive invariant: the buffer holds a line of the stream, and     *)
(* what of the stream was read ends with it.                               *)
IInv ==
  /\ stream \in Seq(Char) /\ taken \in Nat /\ asking \in Bases \cup {NULL}
  /\ lastline \in Seq(Char) \cup {NULL} /\ linesize \in Nat
  /\ BufferSound
  /\ lastline_current # NULL => Holds(lastline, taken)

(* What cf_getline reads is a line of the stream.                          *)
LEMMA NextLineHeld ==
  ASSUME stream \in Seq(Char), taken \in Nat, taken < Len(stream),
         NEW L, L = NextLine
  PROVE  Len(L) > 0 /\ Holds(L, taken + Len(L))
<1> DEFINE rest == SubSeq(stream, taken + 1, Len(stream))
           ends == {n \in DOMAIN rest : rest[n] = LF}
           r    == Len(stream) - taken
<1>1. r \in Nat /\ r > 0 /\ Len(stream) \in Nat /\ r = Len(stream) - taken
  OBVIOUS
<1>2. /\ rest \in Seq(Char) /\ Len(rest) = r
      /\ \A n \in 1 .. r : rest[n] = stream[taken + n]
  <2>1. \A n \in taken + 1 .. Len(stream) : stream[n] \in Char
    OBVIOUS
  <2>2. taken + 1 \in Int /\ Len(stream) \in Int /\ taken + 1 <= Len(stream)
        /\ Len(stream) - (taken + 1) + 1 = r
    OBVIOUS
  <2>3. /\ rest \in Seq(Char)
        /\ Len(rest) = Len(stream) - (taken + 1) + 1
        /\ \A n \in 1 .. Len(stream) - (taken + 1) + 1 :
             rest[n] = stream[taken + 1 + n - 1]
    BY <2>1, <2>2, SubSeqProperties
  <2> HIDE DEF rest
  <2> QED
    BY <2>2, <2>3
<1>3. L = IF ends = {} THEN rest ELSE SubSeq(rest, 1, Min(ends))
  BY DEF NextLine
<1> HIDE DEF rest, r
<1>4. DOMAIN rest = 1 .. r
  BY <1>2
<1>5. CASE ends = {}
  <2>1. \A n \in 1 .. r : rest[n] # LF
    BY <1>4, <1>5
  <2>2. L = rest
    BY <1>3, <1>5
  <2> HIDE DEF ends
  <2>3. /\ L \in Seq(Char) /\ Len(L) = r
        /\ \A n \in 1 .. r : L[n] = stream[taken + n]
        /\ \A n \in 1 .. r : L[n] # LF
    BY <1>2, <2>1, <2>2, Zenon
  <2>4. taken + r = Len(stream)
    BY <1>1
  <2>5. \A n \in 1 .. r : taken + r - r + n = taken + n
    BY <1>1
  <2>6. \A n \in 1 .. r : L[n] = stream[taken + r - r + n]
    BY <2>3, <2>5, Zenon
  <2>7. \A n \in 1 .. r - 1 : n \in 1 .. r
    BY <1>1
  <2>8. \A n \in 1 .. r - 1 : L[n] # LF
    BY <2>3, <2>7, Zenon
  <2>9. taken + r \in Nat /\ r <= taken + r /\ taken + r <= Len(stream)
    BY <1>1, <2>4
  <2>10. Holds(L, taken + r)
    BY <2>3, <2>4, <2>6, <2>8, <2>9, HeldIf
  <2> QED
    BY <1>1, <2>3, <2>10
<1>6. CASE ends # {}
  <2> DEFINE m == Min(ends)
  <2>1. ends \in SUBSET Nat
    BY <1>4
  <2>2. m \in ends /\ \A n \in ends : m <= n
    <3> HIDE DEF ends
    <3> QED
      BY <1>6, <2>1, MinOf
  <2>3. L = SubSeq(rest, 1, m)
    BY <1>3, <1>6
  <2> HIDE DEF m
  <2>4. m \in 1 .. r /\ rest[m] = LF /\ \A n \in 1 .. m - 1 : rest[n] # LF
    <3>1. m \in 1 .. r /\ rest[m] = LF
      BY <1>4, <2>2
    <3>2. ASSUME NEW n \in 1 .. m - 1 PROVE rest[n] # LF
      <4>1. n \in 1 .. r /\ n < m /\ n \in Nat
        BY <1>1, <3>1
      <4> QED
        BY <1>4, <2>2, <3>1, <4>1
    <3> QED
      BY <3>1, <3>2
  <2> HIDE DEF ends
  <2>5. L \in Seq(Char) /\ Len(L) = m /\ \A n \in 1 .. m : L[n] = rest[n]
    <3>1. 1 \in Int /\ m \in Int /\ 1 <= m /\ m - 1 + 1 = m
          /\ \A n \in 1 .. m : rest[n] \in Char
      BY <1>1, <1>2, <2>4
    <3>2. /\ SubSeq(rest, 1, m) \in Seq(Char)
          /\ Len(SubSeq(rest, 1, m)) = m - 1 + 1
          /\ \A n \in 1 .. m - 1 + 1 : SubSeq(rest, 1, m)[n] = rest[1 + n - 1]
      BY <3>1, SubSeqProperties
    <3>3. L \in Seq(Char) /\ Len(L) = m /\ \A n \in 1 .. m : L[n] = rest[1 + n - 1]
      BY <2>3, <3>1, <3>2
    <3> QED
      BY <2>4, <3>3
  <2>6. m <= r /\ m \in Nat /\ m > 0 /\ taken + m <= Len(stream)
    BY <1>1, <2>4
  <2>7. ASSUME NEW n \in 1 .. m PROVE L[n] = stream[taken + m - m + n]
    <3>1. n \in 1 .. r /\ taken + m - m + n = taken + n
      BY <1>1, <2>6
    <3> QED
      BY <1>2, <2>5, <3>1, Zenon
  <2>8. stream[taken + m] = LF
    BY <1>1, <1>2, <2>4
  <2>9. \A n \in 1 .. m - 1 : L[n] # LF
    BY <1>1, <2>4, <2>5
  <2> QED
    BY <1>1, <2>5, <2>6, <2>7, <2>8, <2>9 DEF Holds
<1> QED
  BY <1>5, <1>6

(* Where the line of a place in the stream ends.                           *)
LEMMA LineEndIs ==
  ASSUME stream \in Seq(Char), NEW L, NEW t, Holds(L, t),
         NEW n \in Int, t - Len(L) < n, n <= t
  PROVE  Stream!LineEnd(n) = t
<1> DEFINE S == {m \in n .. Len(stream) : stream[m] = LF} \cup {Len(stream)}
<1>1. /\ L \in Seq(Char) /\ Len(L) \in Nat /\ t \in Nat /\ Len(L) <= t
      /\ t <= Len(stream) /\ Len(stream) \in Nat
      /\ \A k \in 1 .. Len(L) : L[k] = stream[t - Len(L) + k]
      /\ \A k \in 1 .. Len(L) - 1 : L[k] # LF
      /\ t = Len(stream) \/ stream[t] = LF
  BY DEF Holds
<1>2. S \in SUBSET Int /\ t \in S
  BY <1>1
<1>3. ASSUME NEW m \in S PROVE t <= m
  <2>1. CASE m = Len(stream)
    BY <1>1, <2>1
  <2>2. CASE m \in n .. Len(stream) /\ stream[m] = LF /\ m < t
    <3> DEFINE k == m - (t - Len(L))
    <3>1. k \in 1 .. Len(L) - 1 /\ k \in 1 .. Len(L) /\ t - Len(L) + k = m
      BY <1>1, <2>2
    <3> HIDE DEF k
    <3>2. L[k] = stream[m] /\ L[k] # LF
      BY <1>1, <3>1
    <3> QED
      BY <2>2, <3>2
  <2> QED
    BY <1>1, <2>1, <2>2
<1>4. Stream!LineEnd(n) = Min(S)
  BY DEF Stream!LineEnd, Stream!Min, Min
<1> HIDE DEF S
<1> QED
  BY <1>2, <1>3, <1>4, MinIs

-----------------------------------------------------------------------------
(* How far the stream is read once there is a line.                        *)
ReadTo == IF NeedsLine THEN taken + Len(NextLine) ELSE taken

(* get_line, whether it has to read or not: a line of the stream, with     *)
(* something left of it, in a buffer with room for it.                     *)
LEMMA LineFetched ==
  ASSUME IInv, ~AtEnd
  PROVE  /\ Len(Line) > 0 /\ Holds(Line, ReadTo)
         /\ Start \in 0 .. Len(Line) - 1
         /\ Position = ReadTo - Len(Line) + Start
         /\ BufferSize \in Nat /\ Len(Line) < BufferSize
<1>1. /\ stream \in Seq(Char) /\ taken \in Nat /\ taken <= Len(stream)
      /\ lastline \in Seq(Char) \cup {NULL} /\ linesize \in Nat
      /\ lastline # NULL => Len(lastline) < linesize
      /\ lastline_current # NULL =>
           lastline # NULL /\ lastline_current \in 0 .. Len(lastline) - 1
      /\ lastline_current # NULL => Holds(lastline, taken)
  BY DEF IInv, BufferSound
<1>2. CASE NeedsLine
  <2>1. taken < Len(stream)
    BY <1>1, <1>2 DEF AtEnd
  <2>2. Line = NextLine /\ ReadTo = taken + Len(NextLine) /\ Start = 0
        /\ Position = taken
    BY <1>2 DEF Line, ReadTo, Start, Position
  <2>3. Len(NextLine) > 0 /\ Holds(NextLine, taken + Len(NextLine))
    BY <1>1, <2>1, NextLineHeld
  <2>4. Len(NextLine) \in Nat
    BY <2>3 DEF Holds
  <2>5. BufferSize \in Nat /\ Len(NextLine) < BufferSize
    <3> DEFINE bytes == IF lastline = NULL THEN FirstSize ELSE linesize
               n    == Len(NextLine)
    <3>1. bytes \in Nat \ {0}
      <4>1. CASE lastline = NULL
        BY <4>1, NumberAssumption
      <4>2. CASE lastline # NULL
        BY <1>1, <4>2
      <4> QED
        BY <4>1, <4>2
    <3>2. BufferSize = SizeFor(bytes, n)
      BY <1>2 DEF BufferSize
    <3>3. n \in Nat
      BY <2>4
    <3> HIDE DEF bytes, n
    <3>4. SizeFor(bytes, n) \in Nat /\ n < SizeFor(bytes, n)
      BY <3>1, <3>3, SizeSuffices
    <3> QED
      BY <3>2, <3>4 DEF n
  <2>6. Start \in 0 .. Len(Line) - 1
    BY <2>2, <2>3, <2>4
  <2>7. Position = ReadTo - Len(Line) + Start
    BY <1>1, <2>2, <2>4
  <2>8. Len(Line) > 0 /\ Holds(Line, ReadTo) /\ Len(Line) < BufferSize
    BY <2>2, <2>3, <2>5
  <2> QED
    BY <2>5, <2>6, <2>7, <2>8
<1>3. CASE ~NeedsLine
  <2>1. lastline # NULL /\ lastline_current # NULL
    BY <1>3 DEF NeedsLine
  <2>2. /\ Line = lastline /\ ReadTo = taken /\ Start = lastline_current
        /\ BufferSize = linesize
        /\ Position = taken - Len(lastline) + lastline_current
    BY <1>3 DEF Line, ReadTo, Start, Position, BufferSize
  <2>3. Len(lastline) > 0
    BY <1>1, <2>1
  <2> QED
    BY <1>1, <2>1, <2>2, <2>3
<1> QED
  BY <1>2, <1>3

(* What a step leaves: the rest of a line, to go on with,                  *)
LEMMA RestKept ==
  ASSUME stream \in Seq(Char),
         NEW L, NEW t, Holds(L, t), NEW c \in 0 .. Len(L) - 1,
         stream' = stream, taken' = t, asking' \in Bases \cup {NULL},
         lastline' = L, lastline_current' = c,
         linesize' \in Nat, Len(L) < linesize'
  PROVE  IInv' /\ Position' = t - Len(L) + c
<1>1. /\ L \in Seq(Char) /\ t \in Nat /\ t <= Len(stream)
      /\ Len(L) \in Nat /\ c \in Int /\ 0 <= c /\ c < Len(L)
  BY DEF Holds
<1>2. L # NULL /\ c # NULL
  BY <1>1, NullAssumption
<1>3. ~NeedsLine'
  BY <1>1, <1>2 DEF NeedsLine
<1>4. Holds(lastline, taken)'
  BY DEF Holds
<1>5. BufferSound'
  BY <1>1, <1>2 DEF BufferSound
<1> QED
  BY <1>1, <1>2, <1>3, <1>4, <1>5 DEF IInv, Position

(* or none.                                                                *)
LEMMA LineDone ==
  ASSUME stream \in Seq(Char), NEW t \in Nat, t <= Len(stream),
         stream' = stream, taken' = t, asking' \in Bases \cup {NULL},
         lastline_current' = NULL,
         \/ lastline' = NULL /\ linesize' = 0
         \/ /\ lastline' \in Seq(Char) /\ linesize' \in Nat
            /\ Len(lastline') < linesize'
  PROVE  IInv' /\ Position' = t
<1>1. NeedsLine'
  BY DEF NeedsLine
<1>2. BufferSound'
  BY NullAssumption DEF BufferSound
<1> QED
  BY <1>1, <1>2 DEF IInv, Position

-----------------------------------------------------------------------------
(* The stream at a place of the line that is held.                         *)
LEMMA StreamAt ==
  ASSUME stream \in Seq(Char), NEW L, NEW t, Holds(L, t),
         NEW n \in 1 .. Len(L)
  PROVE  /\ L[n] = stream[t - Len(L) + n] /\ L[n] \in Char
         /\ t - Len(L) + n \in 1 .. t
BY DEF Holds

(* Two slices with the same characters.                                    *)
LEMMA SameSlice ==
  ASSUME NEW S, NEW a, NEW b, NEW h \in Int, NEW j \in Int, NEW n \in Nat,
         \A k \in 1 .. n : a[h + k] = b[j + k] /\ a[h + k] \in S
  PROVE  SubSeq(a, h + 1, h + n) = SubSeq(b, j + 1, j + n)
<1> DEFINE u == SubSeq(a, h + 1, h + n)
           v == SubSeq(b, j + 1, j + n)
<1>1. u \in Seq(S) /\ Len(u) = n /\ \A k \in 1 .. n : u[k] = a[h + k]
  <2>1. ASSUME NEW k \in h + 1 .. h + n PROVE a[k] \in S
    <3>1. k - h \in 1 .. n /\ h + (k - h) = k
      OBVIOUS
    <3> QED
      BY <3>1
  <2>2. /\ u \in Seq(S)
        /\ Len(u) = IF h + 1 <= h + n THEN h + n - (h + 1) + 1 ELSE 0
        /\ \A k \in 1 .. h + n - (h + 1) + 1 : u[k] = a[h + 1 + k - 1]
    BY <2>1, SubSeqProperties
  <2> HIDE DEF u
  <2>3. h + n - (h + 1) + 1 = n /\ \A k \in 1 .. n : h + 1 + k - 1 = h + k
    OBVIOUS
  <2>4. Len(u) = n
    BY <2>2
  <2> QED
    BY <2>2, <2>3, <2>4
<1>2. v \in Seq(S) /\ Len(v) = n /\ \A k \in 1 .. n : v[k] = b[j + k]
  <2>1. ASSUME NEW k \in j + 1 .. j + n PROVE b[k] \in S
    <3>1. k - j \in 1 .. n /\ j + (k - j) = k
      OBVIOUS
    <3> QED
      BY <3>1
  <2>2. /\ v \in Seq(S)
        /\ Len(v) = IF j + 1 <= j + n THEN j + n - (j + 1) + 1 ELSE 0
        /\ \A k \in 1 .. j + n - (j + 1) + 1 : v[k] = b[j + 1 + k - 1]
    BY <2>1, SubSeqProperties
  <2> HIDE DEF v
  <2>3. j + n - (j + 1) + 1 = n /\ \A k \in 1 .. n : j + 1 + k - 1 = j + k
    OBVIOUS
  <2>4. Len(v) = n
    BY <2>2
  <2> QED
    BY <2>2, <2>3, <2>4
<1> HIDE DEF u, v
<1>3. \A k \in 1 .. n : u[k] = v[k]
  BY <1>1, <1>2
<1>4. u = v
  BY <1>1, <1>2, <1>3, SeqEqual
<1> QED
  BY <1>4 DEF u, v

(* ~ takes one character, and the line when it was its last.               *)
LEMMA CharTaken ==
  ASSUME IInv, GetChar
  PROVE  IInv' /\ Stream!TakeChar /\ asking = NULL /\ UNCHANGED <<stream, asking>>
<1> DEFINE L == Line
           t == ReadTo
           c == Start + 1
<1>1. /\ asking = NULL /\ ~AtEnd /\ taken' = t
      /\ stream' = stream /\ asking' = asking
      /\ IF c >= Len(L) THEN Discarded ELSE Kept(c)
      /\ reply' = [char |-> L[c]]
  BY DEF GetChar, Fetched, ReadTo
<1>2. /\ Len(L) > 0 /\ Holds(L, t) /\ Start \in 0 .. Len(L) - 1
      /\ Position = t - Len(L) + Start
      /\ BufferSize \in Nat /\ Len(L) < BufferSize
  BY <1>1, LineFetched
<1>3. stream \in Seq(Char) /\ asking' \in Bases \cup {NULL}
  BY <1>1 DEF IInv
<1>4. Kept(c) => lastline' = L /\ linesize' = BufferSize /\ lastline_current' = c
  BY DEF Kept
<1> HIDE DEF L, t
<1>5. t \in Nat /\ t <= Len(stream) /\ Len(L) \in Nat /\ Len(L) <= t
  BY <1>2 DEF Holds
<1>6. c \in 1 .. Len(L) /\ Position + 1 = t - Len(L) + c /\ Position \in Int
  BY <1>2, <1>5
<1> HIDE DEF c
<1>7. IInv' /\ Position' = t - Len(L) + c
  <2>1. CASE c >= Len(L)
    <3>1. c = Len(L) /\ t - Len(L) + c = t
      BY <1>5, <1>6, <2>1
    <3> QED
      BY <1>1, <1>3, <1>5, <2>1, <3>1, LineDone DEF Discarded
  <2>2. CASE ~(c >= Len(L))
    <3>1. c \in 0 .. Len(L) - 1
      BY <1>5, <1>6, <2>2
    <3> QED
      BY <1>1, <1>2, <1>3, <1>4, <2>2, <3>1, RestKept
  <2> QED
    BY <2>1, <2>2
<1>8. L[c] = stream[t - Len(L) + c] /\ t - Len(L) + c \in 1 .. t
  BY <1>2, <1>3, <1>6, StreamAt
<1>9. Position < Len(stream) /\ reply' = [char |-> stream[Position + 1]]
      /\ Position' = Position + 1
  BY <1>1, <1>5, <1>6, <1>7, <1>8
<1> QED
  BY <1>1, <1>7, <1>9 DEF Stream!TakeChar

(* I of STRN takes what is left of the line up to a 0.                     *)
LEMMA LineTaken ==
  ASSUME IInv, GetLine
  PROVE  IInv' /\ Stream!TakeLine /\ asking = NULL /\ UNCHANGED <<stream, asking>>
<1> DEFINE L    == Line
           t    == ReadTo
           rest == SubSeq(L, Start + 1, Len(L))
           nuls == {n \in DOMAIN rest : rest[n] = NUL}
           k    == IF nuls = {} THEN Len(rest) ELSE Min(nuls) - 1
           p    == Position
           r    == Len(L) - Start
           Ends == {n - 1 : n \in {m \in p + 1 .. t : stream[m] = NUL}} \cup {t}
<1>1. /\ asking = NULL /\ ~AtEnd /\ taken' = t
      /\ stream' = stream /\ asking' = asking /\ Discarded
      /\ reply' = [line |-> SubSeq(rest, 1, k)]
  BY DEF GetLine, Fetched, ReadTo
<1>2. /\ Len(L) > 0 /\ Holds(L, t) /\ Start \in 0 .. Len(L) - 1
      /\ p = t - Len(L) + Start
  BY <1>1, LineFetched
<1>3. stream \in Seq(Char) /\ asking' \in Bases \cup {NULL}
  BY <1>1 DEF IInv
<1> HIDE DEF L, t, p
<1>4. /\ t \in Nat /\ t <= Len(stream) /\ Len(L) \in Nat /\ Len(L) <= t
      /\ Len(stream) \in Nat
      /\ p \in Nat /\ Start \in Nat /\ p < t /\ t - Len(L) <= p
      /\ r \in Nat /\ r > 0 /\ p + r = t /\ Start + r = Len(L)
  BY <1>2, <1>3 DEF Holds
<1> HIDE DEF r
<1>5. IInv' /\ Position' = t
  BY <1>1, <1>3, <1>4, LineDone DEF Discarded
<1>6. Stream!LineEnd(p + 1) = t
  BY <1>2, <1>3, <1>4, LineEndIs
<1>7. /\ rest \in Seq(Char) /\ Len(rest) = r
      /\ \A n \in 1 .. r : rest[n] = stream[p + n] /\ rest[n] \in Char
  <2>1. ASSUME NEW n \in Start + 1 .. Len(L) PROVE L[n] \in Char
    <3>1. n \in 1 .. Len(L)
      BY <1>4
    <3> QED
      BY <1>2, <1>3, <3>1, StreamAt
  <2>2. /\ Start + 1 \in Int /\ Len(L) \in Int /\ Start + 1 <= Len(L)
        /\ Len(L) - (Start + 1) + 1 = r
    BY <1>4
  <2>3. /\ rest \in Seq(Char) /\ Len(rest) = r
        /\ \A n \in 1 .. r : rest[n] = L[Start + 1 + n - 1]
    BY <2>1, <2>2, SubSeqProperties
  <2> HIDE DEF rest
  <2>4. ASSUME NEW n \in 1 .. r
        PROVE  rest[n] = stream[p + n] /\ rest[n] \in Char
    <3>1. /\ Start + n \in 1 .. Len(L) /\ Start + 1 + n - 1 = Start + n
          /\ t - Len(L) + (Start + n) = p + n
      BY <1>2, <1>4
    <3>2. L[Start + n] = stream[t - Len(L) + (Start + n)] /\ L[Start + n] \in Char
      BY <1>2, <1>3, <3>1, StreamAt
    <3> QED
      BY <2>3, <3>1, <3>2
  <2> QED
    BY <2>3, <2>4
<1>8. DOMAIN rest = 1 .. r
  BY <1>7
<1> HIDE DEF rest
<1>9. k \in 0 .. r /\ Min(Ends) = p + k
  <2>1. CASE nuls = {}
    <3>1. k = r
      BY <1>7, <2>1
    <3>2. \A n \in p + 1 .. t : stream[n] # NUL
      <4>1. \A n \in 1 .. r : rest[n] # NUL
        BY <1>8, <2>1
      <4>2. ASSUME NEW n \in p + 1 .. t PROVE stream[n] # NUL
        <5>1. n - p \in 1 .. r /\ p + (n - p) = n
          BY <1>4
        <5> QED
          BY <1>7, <4>1, <5>1
      <4> QED
        BY <4>2
    <3>3. Ends = {t}
      BY <3>2
    <3> HIDE DEF Ends
    <3>4. Ends \in SUBSET Int /\ t \in Ends /\ \A n \in Ends : t <= n
      BY <1>4, <3>3
    <3>5. Min(Ends) = t
      BY <3>4, MinIs
    <3> QED
      BY <1>4, <3>1, <3>5
  <2>2. CASE nuls # {}
    <3> DEFINE q == Min(nuls)
    <3>1. nuls \in SUBSET Nat
      BY <1>8
    <3>2. q \in nuls /\ \A n \in nuls : q <= n
      <4> HIDE DEF nuls
      <4> QED
        BY <2>2, <3>1, MinOf
    <3>3. k = q - 1
      BY <2>2
    <3>4. q \in 1 .. r /\ rest[q] = NUL
      BY <1>8, <3>2
    <3> HIDE DEF q, k
    <3>5. \A n \in 1 .. r : rest[n] = NUL => q <= n
      BY <1>8, <3>2
    <3>6. p + q \in p + 1 .. t /\ stream[p + q] = NUL /\ p + k = (p + q) - 1
      BY <1>4, <1>7, <3>3, <3>4
    <3>7. p + k \in Ends
      <4>1. p + q \in {m \in p + 1 .. t : stream[m] = NUL}
        BY <3>6
      <4>2. p + k \in {n - 1 : n \in {m \in p + 1 .. t : stream[m] = NUL}}
        BY <3>6, <4>1
      <4> QED
        BY <4>2
    <3>8. Ends \in SUBSET Int
      BY <1>4
    <3>9. ASSUME NEW e \in Ends PROVE p + k <= e
      <4>1. CASE e = t
        BY <1>4, <3>3, <3>4, <4>1
      <4>2. CASE e # t
        <5>1. PICK n \in p + 1 .. t : stream[n] = NUL /\ e = n - 1
          BY <4>2
        <5>2. n - p \in 1 .. r /\ p + (n - p) = n
          BY <1>4
        <5>3. rest[n - p] = NUL
          BY <1>7, <5>1, <5>2
        <5>4. q <= n - p
          BY <3>5, <5>2, <5>3
        <5> QED
          BY <1>4, <3>3, <3>4, <5>1, <5>4
      <4> QED
        BY <4>1, <4>2
    <3> HIDE DEF Ends
    <3>10. Min(Ends) = p + k
      BY <3>7, <3>8, <3>9, MinIs
    <3>11. k \in 0 .. r
      BY <1>4, <3>3, <3>4
    <3> QED
      BY <3>10, <3>11
  <2> QED
    BY <2>1, <2>2
<1> HIDE DEF k
<1>10. SubSeq(rest, 1, k) = SubSeq(stream, p + 1, p + k)
  <2>1. \A n \in 1 .. k : rest[0 + n] = stream[p + n] /\ rest[0 + n] \in Char
    BY <1>4, <1>7, <1>9
  <2>2. k \in Nat /\ 0 \in Int /\ p \in Int /\ 0 + 1 = 1 /\ 0 + k = k
    BY <1>4, <1>9
  <2>3. SubSeq(rest, 0 + 1, 0 + k) = SubSeq(stream, p + 1, p + k)
    BY <2>1, <2>2, SameSlice
  <2> QED
    BY <2>2, <2>3
<1>11. reply' = [line |-> SubSeq(stream, p + 1, Min(Ends))]
  BY <1>1, <1>9, <1>10
<1>12. Stream!Min(Ends) = Min(Ends)
  BY DEF Stream!Min, Min
<1>13. p < Len(stream) /\ Position' = t
  BY <1>4, <1>5
<1> QED
  BY <1>1, <1>5, <1>6, <1>11, <1>12, <1>13 DEF Stream!TakeLine, p

(* Nothing is left: a buffer was allocated, and no more.                   *)
LEMMA EndReached ==
  ASSUME IInv, EndOfInput
  PROVE  /\ IInv' /\ Position' = Position /\ Position = Len(stream)
         /\ UNCHANGED stream
<1>1. /\ stream \in Seq(Char) /\ taken \in Nat /\ taken = Len(stream)
      /\ NeedsLine /\ stream' = stream /\ taken' = taken
      /\ lastline_current' = lastline_current /\ asking' = NULL
      /\ lastline' = IF lastline = NULL THEN <<>> ELSE lastline
      /\ linesize' = IF lastline = NULL THEN FirstSize ELSE linesize
      /\ lastline \in Seq(Char) \cup {NULL} /\ linesize \in Nat
      /\ lastline # NULL => Len(lastline) < linesize
  BY DEF IInv, BufferSound, EndOfInput, AtEnd
<1>2. lastline_current = NULL
  BY <1>1 DEF NeedsLine, IInv, BufferSound
<1>3. /\ lastline' \in Seq(Char) /\ linesize' \in Nat
      /\ Len(lastline') < linesize'
  <2>1. CASE lastline = NULL
    BY <1>1, <2>1, NumberAssumption
  <2>2. CASE lastline # NULL
    BY <1>1, <2>2
  <2> QED
    BY <2>1, <2>2
<1>4. IInv' /\ Position' = taken
  BY <1>1, <1>2, <1>3, LineDone
<1>5. Position = taken
  BY <1>1 DEF Position
<1> QED
  BY <1>1, <1>4, <1>5

-----------------------------------------------------------------------------
(* What begins a number is a character of the line, not the 0 after it.    *)
LEMMA DigitIsChar ==
  ASSUME NEW n \in 0 .. Len(Line), NEW base,
         StartsNumber(Char0(n), base) \/ IsDigit(n, base)
  PROVE  n < Len(Line) /\ Char0(n) = Line[n + 1] /\ Char0(n) \notin {LF, CR, NUL}
<1>1. Char0(n) \notin {LF, CR, NUL}
  BY CharAssumption DEF StartsNumber, IsDigit
<1>2. n # Len(Line)
  BY <1>1 DEF Char0
<1> QED
  BY <1>1, <1>2 DEF Char0

(* & drops a line without a number.                                        *)
LEMMA LineSkipped ==
  ASSUME IInv, NoNumber
  PROVE  /\ IInv' /\ Stream!SkipLine /\ asking # NULL
         /\ UNCHANGED <<stream, asking, reply>>
<1> DEFINE L == Line
           t == ReadTo
           p == Position
<1>1. /\ asking # NULL /\ ~AtEnd /\ taken' = t
      /\ stream' = stream /\ asking' = asking /\ reply' = reply
      /\ Kept(NULL)
      /\ ~\E n \in Start .. Len(L) : StartsNumber(Char0(n), asking)
  BY DEF NoNumber, Fetched, ReadTo
<1>2. /\ Len(L) > 0 /\ Holds(L, t) /\ Start \in 0 .. Len(L) - 1
      /\ p = t - Len(L) + Start
      /\ BufferSize \in Nat /\ Len(L) < BufferSize
  BY <1>1, LineFetched
<1>3. stream \in Seq(Char) /\ asking' \in Bases \cup {NULL}
  BY <1>1 DEF IInv
<1>4. lastline' = L /\ linesize' = BufferSize /\ lastline_current' = NULL
  BY <1>1 DEF Kept
<1>5. ASSUME NEW n \in 1 .. Len(L) PROVE Char0(n - 1) = L[n]
  <2>1. n - 1 # Len(L) /\ n - 1 + 1 = n
    BY <1>2 DEF Holds
  <2> QED
    BY <2>1 DEF Char0
<1> HIDE DEF L, t, p
<1>6. /\ t \in Nat /\ t <= Len(stream) /\ Len(L) \in Nat /\ Len(L) <= t
      /\ Len(stream) \in Nat /\ L \in Seq(Char)
      /\ p \in Nat /\ Start \in Nat /\ p < t /\ t - Len(L) <= p
  BY <1>2, <1>3 DEF Holds
<1>7. IInv' /\ Position' = t
  BY <1>1, <1>2, <1>3, <1>4, <1>6, LineDone
<1>8. Stream!LineEnd(p + 1) = t
  BY <1>2, <1>3, <1>6, LineEndIs
<1>9. ASSUME NEW k \in p + 1 .. t
      PROVE  ~StartsNumber(stream[k], asking)
  <2> DEFINE n == k - (t - Len(L))
  <2>1. /\ n \in 1 .. Len(L) /\ n - 1 \in Start .. Len(L)
        /\ t - Len(L) + n = k
    BY <1>2, <1>6
  <2> HIDE DEF n
  <2>2. L[n] = stream[k]
    BY <1>2, <1>3, <2>1, StreamAt
  <2>3. ~StartsNumber(Char0(n - 1), asking)
    BY <1>1, <2>1
  <2> QED
    BY <1>5, <2>1, <2>2, <2>3
<1>10. \A c, base : Stream!StartsNumber(c, base) <=> StartsNumber(c, base)
  BY DEF Stream!StartsNumber, Stream!IsDigit, StartsNumber
<1>11. p < Len(stream) /\ Position' = t
  BY <1>6, <1>7
<1> QED
  BY <1>1, <1>7, <1>8, <1>9, <1>10, <1>11 DEF Stream!SkipLine, p

(* The digits of a line are worth what they are worth in the stream.       *)
LEMMA SameValue ==
  ASSUME stream \in Seq(Char), NEW t, Holds(Line, t), NEW base,
         NEW f \in Nat, NEW e \in Nat, f <= e, e <= Len(Line)
  PROVE  LET b == t - Len(Line) IN
         ValueOf(f, e, base) = Stream!ValueOf(b + f + 1, b + e, base)
<1> DEFINE L == Line
           b == t - Len(L)
           n == e - f
<1>1. L \in Seq(Char) /\ Len(L) \in Nat /\ t \in Nat /\ Holds(L, t)
  BY DEF Holds
<1>2. ValueOf(f, e, base) = Value(SubSeq(L, f + 1, e), base)
  BY DEF ValueOf
<1> HIDE DEF L
<1>3. e <= Len(L)
  BY DEF L
<1>4. /\ b \in Int /\ n \in Nat /\ f + n = e /\ b + f \in Int
      /\ (b + f) + n = b + e
  BY <1>1
<1>5. ASSUME NEW k \in 1 .. n
      PROVE  L[f + k] = stream[(b + f) + k] /\ L[f + k] \in Char
  <2>1. f + k \in 1 .. Len(L) /\ t - Len(L) + (f + k) = (b + f) + k
    BY <1>1, <1>3, <1>4
  <2> QED
    BY <1>1, <2>1, StreamAt
<1> HIDE DEF b, n
<1>6. SubSeq(L, f + 1, f + n) = SubSeq(stream, (b + f) + 1, (b + f) + n)
  <2> DEFINE j == b + f
  <2>1. j \in Int /\ f \in Int /\ n \in Nat
    BY <1>4
  <2>2. \A k \in 1 .. n : L[f + k] = stream[j + k] /\ L[f + k] \in Char
    BY <1>5
  <2> HIDE DEF j
  <2>3. SubSeq(L, f + 1, f + n) = SubSeq(stream, j + 1, j + n)
    BY <2>1, <2>2, SameSlice, SMTT(30)
  <2> QED
    BY <2>3 DEF j
<1>7. SubSeq(L, f + 1, e) = SubSeq(stream, b + f + 1, b + e)
  BY <1>4, <1>6
<1>8. \A digits : Value(digits, base) = Stream!Value(digits, base)
  BY DEF Value, Stream!Value
<1>9. Stream!ValueOf(b + f + 1, b + e, base)
        = Stream!Value(SubSeq(stream, b + f + 1, b + e), base)
  BY DEF Stream!ValueOf
<1>10. ValueOf(f, e, base) = Stream!ValueOf(b + f + 1, b + e, base)
  BY <1>2, <1>7, <1>8, <1>9
<1> QED
  BY <1>10 DEF b, L

(* & takes the first number of the line, as far as it fits into a cell,    *)
(* and what follows it when that is a line end.                            *)
LEMMA NumberTaken ==
  ASSUME IInv, Number
  PROVE  /\ IInv' /\ Stream!TakeNumber /\ asking # NULL /\ asking' = NULL
         /\ UNCHANGED stream
<1> DEFINE L == Line
           t == ReadTo
           p == Position
           b == t - Len(L)
<1>1. /\ asking # NULL /\ ~AtEnd /\ taken' = t /\ stream' = stream
      /\ asking' = NULL
  BY DEF Number, Fetched, ReadTo
<1>2. PICK f \in Start .. Len(L), e \in Start .. Len(L) :
        /\ StartsNumber(Char0(f), asking)
        /\ \A n \in Start .. f - 1 : ~StartsNumber(Char0(n), asking)
        /\ f <= e /\ StopsAt(f, e, asking)
        /\ IF EndsLine(e) THEN Discarded ELSE Kept(e)
        /\ reply' = [number |-> ValueOf(f, e, asking)]
  BY DEF Number
<1>3. /\ Len(L) > 0 /\ Holds(L, t) /\ Start \in 0 .. Len(L) - 1
      /\ p = t - Len(L) + Start
      /\ BufferSize \in Nat /\ Len(L) < BufferSize
  BY <1>1, LineFetched
<1>4. stream \in Seq(Char) /\ asking' \in Bases \cup {NULL}
  BY <1>1 DEF IInv
<1>5. Kept(e) => lastline' = L /\ linesize' = BufferSize /\ lastline_current' = e
  BY DEF Kept
<1>6. /\ t \in Nat /\ t <= Len(stream) /\ Len(L) \in Nat /\ Len(L) <= t
      /\ Len(stream) \in Nat /\ L \in Seq(Char) /\ b \in Nat
      /\ b + Len(L) = t /\ p = b + Start /\ Start \in Nat
      /\ t = Len(stream) \/ stream[t] = LF
  BY <1>3, <1>4 DEF Holds
<1>7. /\ f \in Nat /\ e \in Nat /\ Start <= f /\ f <= e /\ e <= Len(L)
      /\ f \in 0 .. Len(L) /\ e \in 0 .. Len(L)
  BY <1>2, <1>6
<1>8. f < Len(L)
  BY <1>2, <1>7, DigitIsChar
<1>9. ASSUME NEW n \in 0 .. Len(L) - 1
      PROVE  Char0(n) = stream[b + n + 1]
  <2>1. n + 1 \in 1 .. Len(L) /\ b + (n + 1) = b + n + 1 /\ n # Len(L)
    BY <1>6
  <2>2. L[n + 1] = stream[b + (n + 1)]
    BY <1>3, <1>4, <2>1, StreamAt
  <2>3. Char0(n) = L[n + 1]
    BY <2>1 DEF Char0
  <2> QED
    BY <2>1, <2>2, <2>3
<1>10. /\ \A c, base : Stream!StartsNumber(c, base) <=> StartsNumber(c, base)
       /\ \A n, base : IsDigit(n, base) <=> Stream!IsDigit(Char0(n), base)
  BY DEF Stream!StartsNumber, Stream!IsDigit, StartsNumber, IsDigit
<1>11. /\ \A n \in f .. e - 1 : IsDigit(n, asking)
       /\ ValueOf(f, e, asking) <= FUNGECELL_MAX
       /\ IsDigit(e, asking) => ValueOf(f, e + 1, asking) > FUNGECELL_MAX
  BY <1>2 DEF StopsAt
<1>12. ValueOf(f, e, asking) = Stream!ValueOf(b + f + 1, b + e, asking)
  BY <1>3, <1>4, <1>7, SameValue
<1>13. e < Len(L) => ValueOf(f, e + 1, asking)
                       = Stream!ValueOf(b + f + 1, b + (e + 1), asking)
  <2>1. e < Len(L) => e + 1 \in Nat /\ f <= e + 1 /\ e + 1 <= Len(L)
    BY <1>6, <1>7
  <2> QED
    BY <1>3, <1>4, <1>7, <2>1, SameValue
<1>14. e = Len(L) => t = Len(stream)
  <2> SUFFICES ASSUME e = Len(L) PROVE t = Len(stream)
    OBVIOUS
  <2> DEFINE n == e - 1
  <2>1. /\ n \in f .. e - 1 /\ n \in 0 .. Len(L) - 1 /\ n \in 0 .. Len(L)
        /\ b + n + 1 = t
    BY <1>6, <1>7, <1>8
  <2> HIDE DEF n
  <2>2. IsDigit(n, asking)
    BY <1>11, <2>1
  <2>3. Char0(n) # LF
    BY <2>1, <2>2, DigitIsChar
  <2>4. Char0(n) = stream[t]
    BY <1>9, <2>1
  <2> QED
    BY <1>6, <2>3, <2>4
<1>15. EndsLine(e) <=> e = Len(L) \/ Char0(e) \in {LF, CR}
  BY <1>6, <1>7 DEF EndsLine
<1> DEFINE N == b + f + 1
           l == b + e
<1> HIDE DEF L, t, p, b
<1>16. N \in p + 1 .. t /\ Stream!StartsNumber(stream[N], asking)
  <2>1. f \in 0 .. Len(L) - 1 /\ N \in p + 1 .. t
    BY <1>6, <1>7, <1>8
  <2> QED
    BY <1>2, <1>9, <1>10, <2>1
<1>17. ASSUME NEW k \in p + 1 .. N - 1
       PROVE  ~Stream!StartsNumber(stream[k], asking)
  <2> DEFINE n == k - b - 1
  <2>1. n \in Start .. f - 1 /\ n \in 0 .. Len(L) - 1 /\ b + n + 1 = k
    BY <1>6, <1>7, <1>8
  <2> HIDE DEF n
  <2>2. Char0(n) = stream[k] /\ ~StartsNumber(Char0(n), asking)
    BY <1>2, <1>9, <2>1
  <2> QED
    BY <1>10, <2>2
<1>18. ASSUME NEW k \in N .. l
       PROVE  Stream!IsDigit(stream[k], asking)
  <2> DEFINE n == k - b - 1
  <2>1. n \in f .. e - 1 /\ n \in 0 .. Len(L) - 1 /\ b + n + 1 = k
    BY <1>6, <1>7, <1>8
  <2> HIDE DEF n
  <2>2. Char0(n) = stream[k] /\ IsDigit(n, asking)
    BY <1>9, <1>11, <2>1
  <2> QED
    BY <1>10, <2>2
<1>19. e < Len(L) => Char0(e) = stream[l + 1] /\ b + (e + 1) = l + 1
  <2>1. e < Len(L) => e \in 0 .. Len(L) - 1 /\ b + e + 1 = l + 1
                      /\ b + (e + 1) = l + 1
    BY <1>6, <1>7
  <2> QED
    BY <1>9, <2>1
<1>20. l \in N - 1 .. Len(stream) /\ (e = Len(L) => l = t)
       /\ (e < Len(L) => l + 1 <= t /\ b < l + 1)
  BY <1>6, <1>7
<1>21. \/ l = Len(stream)
       \/ ~Stream!IsDigit(stream[l + 1], asking)
       \/ Stream!ValueOf(N, l + 1, asking) > FUNGECELL_MAX
  <2>1. CASE e = Len(L)
    BY <1>14, <1>20, <2>1
  <2>2. CASE e < Len(L) /\ IsDigit(e, asking)
    <3>1. ValueOf(f, e + 1, asking) = Stream!ValueOf(N, l + 1, asking)
      BY <1>13, <1>19, <2>2
    <3> QED
      BY <1>11, <2>2, <3>1
  <2>3. CASE e < Len(L) /\ ~IsDigit(e, asking)
    BY <1>10, <1>19, <2>3
  <2> QED
    BY <1>6, <1>7, <2>1, <2>2, <2>3
<1>22. IInv' /\ Position' = IF Stream!At(l + 1) \in {LF, CR}
                             THEN Stream!LineEnd(Stream!Min({l + 1, Len(stream)}))
                             ELSE l
  <2>1. CASE e = Len(L)
    <3>1. EndsLine(e) /\ l = t /\ t = Len(stream) /\ l + 1 > Len(stream)
      BY <1>6, <1>14, <1>15, <1>20, <2>1
    <3>2. IInv' /\ Position' = t
      BY <1>1, <1>2, <1>4, <1>6, <3>1, LineDone DEF Discarded
    <3>3. Stream!At(l + 1) = LF
      BY <3>1 DEF Stream!At
    <3>4. Stream!Min({l + 1, Len(stream)}) = t
      <4> DEFINE S == {l + 1, Len(stream)}
      <4>1. S \in SUBSET Int /\ t \in S /\ \A n \in S : t <= n
        BY <1>6, <3>1
      <4>2. Stream!Min(S) = Min(S)
        BY DEF Stream!Min, Min
      <4> HIDE DEF S
      <4>3. Stream!Min(S) = t
        BY <4>1, <4>2, MinIs
      <4> QED
        BY <4>3 DEF S
    <3>5. Stream!LineEnd(t) = t
      BY <1>3, <1>4, <1>6, LineEndIs
    <3> QED
      BY <3>2, <3>3, <3>4, <3>5
  <2>2. CASE e < Len(L) /\ Char0(e) \in {LF, CR}
    <3>1. /\ EndsLine(e) /\ l + 1 \in Int /\ l + 1 <= t /\ t - Len(L) < l + 1
          /\ l + 1 <= Len(stream)
      BY <1>6, <1>7, <1>15, <1>20, <2>2
    <3>2. IInv' /\ Position' = t
      BY <1>1, <1>2, <1>4, <1>6, <3>1, LineDone DEF Discarded
    <3>3. Stream!At(l + 1) = stream[l + 1]
      BY <1>6, <3>1 DEF Stream!At
    <3>4. Stream!Min({l + 1, Len(stream)}) = l + 1
      <4> DEFINE S == {l + 1, Len(stream)}
                 m == l + 1
      <4>1. S \in SUBSET Int /\ m \in S /\ \A n \in S : m <= n
        BY <1>6, <3>1
      <4>2. Stream!Min(S) = Min(S)
        BY DEF Stream!Min, Min
      <4> HIDE DEF S, m
      <4>3. Stream!Min(S) = m
        BY <4>1, <4>2, MinIs
      <4> QED
        BY <4>3 DEF S, m
    <3>5. Stream!LineEnd(l + 1) = t
      BY <1>3, <1>4, <3>1, LineEndIs
    <3> QED
      BY <1>19, <2>2, <3>2, <3>3, <3>4, <3>5
  <2>3. CASE e < Len(L) /\ Char0(e) \notin {LF, CR}
    <3>1. /\ ~EndsLine(e) /\ e \in 0 .. Len(L) - 1 /\ l + 1 <= Len(stream)
          /\ t - Len(L) + e = l /\ l + 1 \in Int
      BY <1>6, <1>7, <1>15, <1>20, <2>3
    <3>2. Kept(e)
      BY <1>2, <3>1
    <3>3. IInv' /\ Position' = t - Len(L) + e
      BY <1>1, <1>3, <1>4, <1>5, <3>1, <3>2, RestKept
    <3>4. Stream!At(l + 1) = stream[l + 1]
      BY <1>6, <3>1 DEF Stream!At
    <3> QED
      BY <1>19, <2>3, <3>1, <3>3, <3>4
  <2> QED
    BY <1>6, <1>7, <2>1, <2>2, <2>3
<1>23. Stream!LineEnd(p + 1) = t
  <2>1. p + 1 \in Int /\ t - Len(L) < p + 1 /\ p + 1 <= t
    BY <1>3, <1>6
  <2> QED
    BY <1>3, <1>4, <2>1, LineEndIs
<1>24. /\ ValueOf(f, e, asking) = Stream!ValueOf(N, l, asking)
       /\ Stream!ValueOf(N, l, asking) <= FUNGECELL_MAX
       /\ reply' = [number |-> Stream!ValueOf(N, l, asking)]
  BY <1>2, <1>11, <1>12
<1> HIDE DEF N, l
<1>25. \E last \in N - 1 .. Len(stream) :
         /\ \A k \in N .. last : Stream!IsDigit(stream[k], asking)
         /\ Stream!ValueOf(N, last, asking) <= FUNGECELL_MAX
         /\ \/ last = Len(stream)
            \/ ~Stream!IsDigit(stream[last + 1], asking)
            \/ Stream!ValueOf(N, last + 1, asking) > FUNGECELL_MAX
         /\ reply' = [number |-> Stream!ValueOf(N, last, asking)]
         /\ Position' = IF Stream!At(last + 1) \in {LF, CR}
                        THEN Stream!LineEnd(Stream!Min({last + 1, Len(stream)}))
                        ELSE last
  BY <1>18, <1>20, <1>21, <1>22, <1>24
<1>26. Stream!TakeNumber
  BY <1>16, <1>17, <1>23, <1>25 DEF Stream!TakeNumber, p
<1> QED
  BY <1>1, <1>22, <1>26

-----------------------------------------------------------------------------
(* At first nothing is read, and there is no line.                         *)
LEMMA InitIInv == Init => IInv /\ Stream!Init
<1> SUFFICES ASSUME Init PROVE IInv /\ Stream!Init
  OBVIOUS
<1>1. /\ stream \in Streams /\ taken = 0 /\ lastline = NULL /\ linesize = 0
      /\ lastline_current = NULL /\ asking = NULL /\ reply = NULL
  BY DEF Init
<1>2. stream \in Seq(Char) /\ Len(stream) \in Nat
  BY <1>1, CharAssumption
<1>3. IInv
  BY <1>1, <1>2 DEF IInv, BufferSound
<1>4. Position = 0
  BY <1>1 DEF Position, NeedsLine
<1> QED
  BY <1>1, <1>3, <1>4 DEF Stream!Init

(* Every call keeps the invariant and is a call on the abstract stream.    *)
LEMMA NextStep ==
  ASSUME IInv, [Next]_vars
  PROVE  IInv' /\ [Stream!Next]_(Stream!vars)
<1>1. CASE GetChar
  BY <1>1, CharTaken DEF Stream!Next
<1>2. CASE GetLine
  BY <1>2, LineTaken DEF Stream!Next
<1>3. CASE EndOfInput
  <2>1. reply' = [eof |-> TRUE] /\ asking' = NULL
    BY <1>3 DEF EndOfInput
  <2> QED
    BY <1>3, <2>1, EndReached DEF Stream!Next
<1>4. ASSUME NEW base \in Bases, Ask(base)
      PROVE  IInv' /\ Stream!Next
  <2>1. /\ asking = NULL /\ asking' = base /\ stream' = stream /\ taken' = taken
        /\ lastline' = lastline /\ linesize' = linesize
        /\ lastline_current' = lastline_current /\ reply' = reply
    BY <1>4 DEF Ask, lineVars
  <2>2. IInv'
    BY <1>4, <2>1 DEF IInv, BufferSound, Holds
  <2>3. Position' = Position
    BY <2>1 DEF Position, NeedsLine
  <2> QED
    BY <1>4, <2>1, <2>2, <2>3 DEF Stream!Next
<1>5. CASE NoNumber
  BY <1>5, LineSkipped DEF Stream!Next
<1>6. CASE Number
  BY <1>6, NumberTaken DEF Stream!Next
<1>7. CASE UNCHANGED vars
  <2>1. IInv'
    BY <1>7 DEF vars, IInv, BufferSound, Holds
  <2>2. UNCHANGED Stream!vars
    BY <1>7 DEF vars, Stream!vars, Position, NeedsLine
  <2> QED
    BY <2>1, <2>2
<1> QED
  BY <1>1, <1>2, <1>3, <1>4, <1>5, <1>6, <1>7 DEF Next, Answer

(* The buffer is never too short for its line with a 0 after it, and the   *)
(* pointer never at or beyond the end of the line, for lines of any length *)
(* and every order in which characters, lines and numbers are read.        *)
THEOREM BufferStaysSound == Spec => []BufferSound
<1>1. Init => IInv
  BY InitIInv
<1>2. IInv /\ [Next]_vars => IInv'
  BY NextStep
<1>3. IInv => BufferSound
  BY DEF IInv
<1> QED
  BY <1>1, <1>2, <1>3, PTL DEF Spec

(* Line by line through a buffer or character by character: what a program *)
(* reads is the same stream, with one position that every call moves on.   *)
THEOREM StreamImplemented == Spec => ImplementsStream
<1>1. Init => IInv /\ Stream!Init
  BY InitIInv
<1>2. IInv /\ [Next]_vars => IInv' /\ [Stream!Next]_(Stream!vars)
  BY NextStep
<1> QED
  BY <1>1, <1>2, PTL DEF Spec, ImplementsStream, Stream!Spec

-----------------------------------------------------------------------------
(* Lines and columns of a text.                                            *)

(* What ends a line takes no cell.                                         *)
LEMMA LineEndsOf ==
  ASSUME NEW f \in Seq(Byte)
  PROVE  /\ LineEnds(f) \in SUBSET (1 .. Len(f)) /\ IsFiniteSet(LineEnds(f))
         /\ IsFiniteSet(DOMAIN f) /\ DOMAIN f = 1 .. Len(f) /\ Len(f) \in Nat
         /\ \A n \in LineEnds(f) : f[n] \in {LF, CR}
<1>1. DOMAIN f = 1 .. Len(f) /\ Len(f) \in Nat
  BY LenProperties
<1>2. IsFiniteSet(1 .. Len(f))
  BY <1>1, FS_Interval
<1>3. LineEnds(f) \in SUBSET (1 .. Len(f)) /\ \A n \in LineEnds(f) : f[n] \in {LF, CR}
  BY <1>1 DEF LineEnds
<1> QED
  BY <1>1, <1>2, <1>3, FS_Subset

(* The lines that end before a character, and those that end with it.      *)
LEMMA RowStep ==
  ASSUME NEW f \in Seq(Byte), NEW j \in 1 .. Len(f)
  PROVE  /\ RowAt(f, j) \in Nat /\ RowAt(f, j + 1) \in Nat
         /\ j \in LineEnds(f) => RowAt(f, j + 1) = RowAt(f, j) + 1
         /\ j \notin LineEnds(f) => RowAt(f, j + 1) = RowAt(f, j)
<1> DEFINE S == {n \in LineEnds(f) : n < j}
           T == {n \in LineEnds(f) : n < j + 1}
<1>1. RowAt(f, j) = Cardinality(S) /\ RowAt(f, j + 1) = Cardinality(T)
  BY DEF RowAt
<1>2. T = IF j \in LineEnds(f) THEN S \cup {j} ELSE S
  BY LineEndsOf
<1>3. j \notin S /\ S \in SUBSET LineEnds(f)
  OBVIOUS
<1> HIDE DEF S, T
<1>4. IsFiniteSet(S)
  BY <1>3, LineEndsOf, FS_Subset
<1>5. Cardinality(S) \in Nat /\ Cardinality(S \cup {j}) = Cardinality(S) + 1
  BY <1>3, <1>4, FS_CardinalityType, FS_AddElement
<1> QED
  BY <1>1, <1>2, <1>5

(* Rows are counted downwards.                                             *)
LEMMA RowsInOrder ==
  ASSUME NEW f \in Seq(Byte), NEW j \in Int, NEW k \in Int, j <= k
  PROVE  RowAt(f, j) \in Nat /\ RowAt(f, k) \in Nat /\ RowAt(f, j) <= RowAt(f, k)
<1> DEFINE S == {n \in LineEnds(f) : n < j}
           T == {n \in LineEnds(f) : n < k}
<1>1. RowAt(f, j) = Cardinality(S) /\ RowAt(f, k) = Cardinality(T)
  BY DEF RowAt
<1>2. S \in SUBSET T /\ T \in SUBSET LineEnds(f)
  BY LineEndsOf
<1> HIDE DEF S, T
<1>3. IsFiniteSet(T)
  BY <1>2, LineEndsOf, FS_Subset
<1>4. IsFiniteSet(S) /\ Cardinality(S) <= Cardinality(T)
  BY <1>2, <1>3, FS_Subset
<1>5. Cardinality(S) \in Nat /\ Cardinality(T) \in Nat
  BY <1>3, <1>4, FS_CardinalityType
<1> QED
  BY <1>1, <1>4, <1>5

(* The characters before j in its line.                                    *)
InLine(f, j) == {n \in DOMAIN f : Occupies(f[n]) /\ n < j /\ RowAt(f, n) = RowAt(f, j)}

(* A column is a number.                                                   *)
LEMMA ColumnIsCount ==
  ASSUME NEW f \in Seq(Byte), NEW j
  PROVE  /\ ColumnAt(f, j) = Cardinality(InLine(f, j))
         /\ IsFiniteSet(InLine(f, j)) /\ ColumnAt(f, j) \in Nat
<1>1. ColumnAt(f, j) = Cardinality(InLine(f, j))
  BY DEF ColumnAt, InLine
<1>2. InLine(f, j) \in SUBSET DOMAIN f
  BY DEF InLine
<1>3. IsFiniteSet(InLine(f, j))
  BY <1>2, LineEndsOf, FS_Subset
<1> QED
  BY <1>1, <1>3, FS_CardinalityType

(* A character for a cell moves the column on, the end of a line back.     *)
LEMMA ColumnStep ==
  ASSUME NEW f \in Seq(Byte), NEW j \in 1 .. Len(f)
  PROVE  /\ j \in LineEnds(f) => ColumnAt(f, j + 1) = 0
         /\ j \notin LineEnds(f) /\ Occupies(f[j]) => ColumnAt(f, j + 1) = ColumnAt(f, j) + 1
         /\ j \notin LineEnds(f) /\ ~Occupies(f[j]) => ColumnAt(f, j + 1) = ColumnAt(f, j)
<1>0. DOMAIN f = 1 .. Len(f) /\ Len(f) \in Nat /\ j \in Nat
  BY LineEndsOf
<1>1. CASE j \in LineEnds(f)
  <2>1. ASSUME NEW n \in DOMAIN f, n < j + 1 PROVE RowAt(f, n) # RowAt(f, j + 1)
    BY <1>0, <1>1, <2>1, RowStep, RowsInOrder
  <2>2. InLine(f, j + 1) = {}
    BY <2>1 DEF InLine
  <2> QED
    BY <1>1, <2>2, ColumnIsCount, FS_EmptySet
<1>2. CASE j \notin LineEnds(f)
  <2>1. RowAt(f, j + 1) = RowAt(f, j)
    BY <1>2, RowStep
  <2>2. \A n \in DOMAIN f : n < j + 1 <=> n < j \/ n = j
    BY <1>0
  <2>3. InLine(f, j + 1) = IF Occupies(f[j]) THEN InLine(f, j) \cup {j} ELSE InLine(f, j)
    BY <1>0, <2>1, <2>2 DEF InLine
  <2>4. j \notin InLine(f, j)
    BY <1>0 DEF InLine
  <2>5. Cardinality(InLine(f, j) \cup {j}) = Cardinality(InLine(f, j)) + 1
    BY <2>4, ColumnIsCount, FS_AddElement
  <2> QED
    BY <1>2, <2>3, <2>5, ColumnIsCount
<1> QED
  BY <1>1, <1>2

(* Form feeds change neither the line nor the column.                      *)
LEMMA FormFeeds ==
  ASSUME ByteAssumption, NEW f \in Seq(Byte), NEW n \in 1 .. Len(f), NEW j \in n + 1 .. Len(f) + 1,
         \A m \in n + 1 .. j - 1 : f[m] = FF
  PROVE  RowAt(f, j) = RowAt(f, n + 1) /\ ColumnAt(f, j) = ColumnAt(f, n + 1)
<1>0. DOMAIN f = 1 .. Len(f) /\ Len(f) \in Nat /\ j \in Nat /\ n \in Nat
  BY LineEndsOf
<1>1. \A k \in LineEnds(f) : f[k] # FF
  BY LineEndsOf DEF ByteAssumption
<1>2. \A k \in DOMAIN f : k < j /\ f[k] # FF => k < n + 1
  BY <1>0
<1>3. {k \in LineEnds(f) : k < j} = {k \in LineEnds(f) : k < n + 1}
  BY <1>0, <1>1, <1>2, LineEndsOf
<1>4. RowAt(f, j) = RowAt(f, n + 1)
  BY <1>3 DEF RowAt
<1>5. \A k \in DOMAIN f : Occupies(f[k]) => f[k] # FF
  BY DEF Occupies
<1>6. InLine(f, j) = InLine(f, n + 1)
  BY <1>0, <1>2, <1>4, <1>5 DEF InLine
<1> QED
  BY <1>4, <1>6, ColumnIsCount

(* No two characters have the same line and column.                        *)
LEMMA ColumnsInOrder ==
  ASSUME NEW f \in Seq(Byte), NEW j \in DOMAIN f, NEW k \in Int, j < k,
         Occupies(f[j]), RowAt(f, j) = RowAt(f, k)
  PROVE  ColumnAt(f, j) < ColumnAt(f, k)
<1>0. j \in Int
  BY LineEndsOf
<1>1. InLine(f, j) \in SUBSET InLine(f, k)
  BY <1>0, LineEndsOf DEF InLine
<1>2. j \in InLine(f, k) /\ j \notin InLine(f, j)
  BY <1>0 DEF InLine
<1>3. /\ Cardinality(InLine(f, j)) <= Cardinality(InLine(f, k))
      /\ Cardinality(InLine(f, j)) # Cardinality(InLine(f, k))
  BY <1>1, <1>2, ColumnIsCount, FS_Subset
<1> QED
  BY <1>3, ColumnIsCount

(* A carriage return ends its line unless a line feed comes next, form     *)
(* feeds aside.                                                            *)
LEMMA AfterReturn ==
  ASSUME ByteAssumption, NEW f \in Seq(Byte), NEW n \in 1 .. Len(f), NEW j \in n + 1 .. Len(f) + 1,
         f[n] = CR, \A m \in n + 1 .. j - 1 : f[m] = FF
  PROVE  /\ j <= Len(f) /\ f[j] = LF =>
              RowAt(f, j) = RowAt(f, n) /\ ColumnAt(f, j) = ColumnAt(f, n)
         /\ j > Len(f) \/ f[j] \notin {LF, FF} =>
              RowAt(f, j) = RowAt(f, n) + 1 /\ ColumnAt(f, j) = 0
<1>0. DOMAIN f = 1 .. Len(f) /\ Len(f) \in Nat /\ j \in Nat /\ n \in Nat
  BY LineEndsOf
<1>1. RowAt(f, j) = RowAt(f, n + 1) /\ ColumnAt(f, j) = ColumnAt(f, n + 1)
  BY FormFeeds
<1>2. CR # LF /\ LF # FF /\ ~Occupies(CR)
  BY DEF ByteAssumption, Occupies
<1>3. ASSUME j <= Len(f), f[j] = LF
      PROVE  n \notin LineEnds(f)
  <2>1. j \in n + 1 .. Len(f)
    BY <1>0, <1>3
  <2> QED
    BY <1>2, <1>3, <2>1 DEF LineEnds
<1>4. ASSUME j > Len(f) \/ f[j] \notin {LF, FF}
      PROVE  n \in LineEnds(f)
  <2>1. ASSUME NEW m \in n + 1 .. Len(f), f[m] = LF, \A k \in n + 1 .. m - 1 : f[k] = FF
        PROVE  FALSE
    <3>1. CASE m < j
      BY <1>0, <1>2, <2>1, <3>1
    <3>2. CASE m = j
      BY <1>0, <1>4, <2>1, <3>2
    <3>3. CASE m > j
      <4>1. j \in n + 1 .. m - 1 /\ j <= Len(f)
        BY <1>0, <3>3
      <4> QED
        BY <1>4, <2>1, <4>1
    <3> QED
      BY <1>0, <3>1, <3>2, <3>3
  <2> QED
    BY <1>0, <2>1 DEF LineEnds
<1> QED
  BY <1>1, <1>2, <1>3, <1>4, RowStep, ColumnStep

-----------------------------------------------------------------------------
(* The loader of texts: it stands at the next character, or at the         *)
(* carriage return that is waiting for it.                                 *)
Standing(n) ==
  /\ n \in 1 .. i
  /\ pos = <<ColumnAt(file, n), RowAt(file, n)>>
  /\ IF last_was_cr THEN n < i /\ file[n] = CR /\ \A m \in n + 1 .. i - 1 : file[m] = FF
     ELSE n = i

Reading == /\ file \in Seq(Byte) /\ i \in 1 .. Len(file) + 1 /\ last_was_cr \in BOOLEAN
           /\ \E n \in Int : Standing(n)

(* Where the next character goes, and where the loader stands then.        *)
LEMMA PlaceOfNext ==
  ASSUME ByteAssumption, Reading, i <= Len(file)
  PROVE  LET c    == file[i]
             here == <<ColumnAt(file, i), RowAt(file, i)>>
             next == <<ColumnAt(file, i + 1), RowAt(file, i + 1)>>
         IN  /\ Occupies(c) => Place(c) = here /\ PosAfter(c) = next /\ ~FlagAfter(c)
             /\ c = LF => PosAfter(c) = next /\ ~FlagAfter(c)
             /\ c = CR => PosAfter(c) = here /\ FlagAfter(c)
             /\ c = FF => PosAfter(c) = pos /\ FlagAfter(c) = last_was_cr
             /\ EndsPending(c) => here[1] = 0
<1> DEFINE c == file[i]
           here == <<ColumnAt(file, i), RowAt(file, i)>>
           next == <<ColumnAt(file, i + 1), RowAt(file, i + 1)>>
<1>0. /\ file \in Seq(Byte) /\ i \in 1 .. Len(file) /\ last_was_cr \in BOOLEAN
      /\ i \in Nat /\ Len(file) \in Nat
  BY LineEndsOf DEF Reading
<1>1. PICK n \in Int : Standing(n)
  BY DEF Reading
<1>2. LF \notin {CR, FF} /\ CR # FF
  BY DEF ByteAssumption
<1>3. ~last_was_cr => pos = here
  BY <1>1 DEF Standing
<1>4. ASSUME last_was_cr
      PROVE  /\ c = LF => pos = here
             /\ c \notin {LF, FF} => Newline(pos) = here /\ here[1] = 0
  <2>1. /\ n \in 1 .. Len(file) /\ i \in n + 1 .. Len(file) + 1 /\ file[n] = CR
        /\ \A m \in n + 1 .. i - 1 : file[m] = FF
        /\ pos = <<ColumnAt(file, n), RowAt(file, n)>>
    BY <1>0, <1>1, <1>4 DEF Standing
  <2>2. /\ c = LF => RowAt(file, i) = RowAt(file, n) /\ ColumnAt(file, i) = ColumnAt(file, n)
        /\ c \notin {LF, FF} => RowAt(file, i) = RowAt(file, n) + 1 /\ ColumnAt(file, i) = 0
    BY <1>0, <2>1, AfterReturn
  <2> QED
    BY <2>1, <2>2 DEF Newline
<1>5. /\ RowAt(file, i) \in Nat /\ ColumnAt(file, i) \in Nat
      /\ i \in LineEnds(file) => next = Newline(here)
      /\ i \notin LineEnds(file) /\ Occupies(c) => next = Plus(here, <<1, 0>>)
  BY <1>0, RowStep, ColumnStep, ColumnIsCount DEF Newline, Plus
<1>6. Occupies(c) => i \notin LineEnds(file)
  BY <1>0, LineEndsOf DEF Occupies
<1>7. c = LF => i \in LineEnds(file)
  BY <1>0, LineEndsOf DEF LineEnds
<1>8. c \notin {LF, FF} => Place(c) = here
  BY <1>3, <1>4 DEF Place, EndsPending
<1>9. c = LF => pos = here
  BY <1>3, <1>4
<1> HIDE DEF c, here, next
<1>10. Occupies(c) => Place(c) = here /\ PosAfter(c) = next /\ ~FlagAfter(c)
  <2> SUFFICES ASSUME Occupies(c) PROVE Place(c) = here /\ PosAfter(c) = next /\ ~FlagAfter(c)
    OBVIOUS
  <2>1. c \notin {LF, CR, FF}
    BY DEF Occupies
  <2> QED
    BY <1>5, <1>6, <1>8, <2>1 DEF PosAfter, FlagAfter
<1>11. c = LF => PosAfter(c) = next /\ ~FlagAfter(c)
  BY <1>2, <1>5, <1>7, <1>9 DEF PosAfter, FlagAfter
<1>12. c = CR => PosAfter(c) = here /\ FlagAfter(c)
  BY <1>2, <1>8 DEF PosAfter, FlagAfter, Occupies
<1>13. c = FF => PosAfter(c) = pos /\ FlagAfter(c) = last_was_cr
  BY <1>2 DEF PosAfter, FlagAfter, Occupies, Place, EndsPending
<1>14. EndsPending(c) => here[1] = 0
  BY <1>4 DEF EndsPending
<1> QED
  BY <1>10, <1>11, <1>12, <1>13, <1>14 DEF c, here, next

(* The loader goes on to the next character.                               *)
LEMMA ReadsOn ==
  ASSUME ByteAssumption, Reading, i <= Len(file),
         file' = file, i' = i + 1, pos' = PosAfter(file[i]), last_was_cr' = FlagAfter(file[i])
  PROVE  Reading'
<1> DEFINE c == file[i]
<1>0. /\ file \in Seq(Byte) /\ i \in 1 .. Len(file) /\ i \in Nat /\ Len(file) \in Nat
      /\ last_was_cr \in BOOLEAN /\ i' \in 1 .. Len(file) + 1
  BY LineEndsOf DEF Reading
<1>1. PICK n \in Int : Standing(n)
  BY DEF Reading
<1>2. last_was_cr' \in BOOLEAN
  BY <1>0 DEF FlagAfter
<1>3. CASE Occupies(c) \/ c = LF
  <2>1. PICK k \in Int : k = i + 1
    BY <1>0
  <2>2. pos' = <<ColumnAt(file, k), RowAt(file, k)>> /\ ~last_was_cr'
    BY <1>3, <2>1, PlaceOfNext
  <2>3. Standing(k)'
    BY <1>0, <2>1, <2>2 DEF Standing
  <2> QED
    BY <1>0, <1>2, <2>3 DEF Reading
<1>4. CASE c = CR
  <2>1. pos' = <<ColumnAt(file, i), RowAt(file, i)>> /\ last_was_cr'
    BY <1>4, PlaceOfNext
  <2>2. PICK k \in Int : k = i
    BY <1>0
  <2>3. Standing(k)'
    BY <1>0, <1>4, <2>1, <2>2 DEF Standing
  <2> QED
    BY <1>0, <1>2, <2>3 DEF Reading
<1>5. CASE c = FF
  <2>1. pos' = pos /\ last_was_cr' = last_was_cr
    BY <1>5, PlaceOfNext
  <2>2. CASE last_was_cr
    <3>1. /\ n \in 1 .. i' /\ n < i' /\ pos' = <<ColumnAt(file, n), RowAt(file, n)>>
          /\ file[n] = CR /\ n \in Int
      BY <1>0, <1>1, <2>1, <2>2 DEF Standing
    <3>2. \A m \in n + 1 .. i' - 1 : file[m] = FF
      BY <1>0, <1>1, <1>5, <2>2 DEF Standing
    <3>3. Standing(n)'
      BY <2>1, <2>2, <3>1, <3>2 DEF Standing
    <3> QED
      BY <1>0, <1>2, <3>3 DEF Reading
  <2>3. CASE ~last_was_cr
    <3>1. /\ RowAt(file, i + 1) = RowAt(file, i) /\ ColumnAt(file, i + 1) = ColumnAt(file, i)
      <4>1. i \notin LineEnds(file) /\ ~Occupies(c)
        BY <1>0, <1>5, LineEndsOf DEF Occupies, ByteAssumption
      <4> QED
        BY <1>0, <4>1, RowStep, ColumnStep
    <3>2. pos = <<ColumnAt(file, i), RowAt(file, i)>>
      BY <1>1, <2>3 DEF Standing
    <3>3. PICK k \in Int : k = i + 1
      BY <1>0
    <3>4. Standing(k)'
      BY <1>0, <2>1, <2>3, <3>1, <3>2, <3>3 DEF Standing
    <3> QED
      BY <1>0, <1>2, <3>4 DEF Reading
  <2> QED
    BY <1>0, <2>2, <2>3
<1> QED
  BY <1>3, <1>4, <1>5 DEF Occupies

-----------------------------------------------------------------------------
(* The size of a text.                                                     *)

(* The widths of its lines up to the characters before j.                  *)
Widths(f, j) ==
  {0} \cup {ColumnAt(f, n) + 1 : n \in {k \in DOMAIN f : Occupies(f[k]) /\ k < j}}

(* The widest line so far: one that has ended, or where the loader stands. *)
Widest == LET w == Larger(pos[1], size[1])
          IN  /\ size \in Nat \X {0}
              /\ w \in Widths(file, i) /\ \A x \in Widths(file, i) : x <= w

(* The number no other is greater than is the greatest.                    *)
LEMMA MaxIs ==
  ASSUME NEW S \in SUBSET Int, NEW m \in S, \A n \in S : n <= m
  PROVE  Max(S) = m
<1> DEFINE x == CHOOSE z \in S : \A y \in S : z >= y
<1>1. m \in Int /\ \A n \in S : m >= n
  OBVIOUS
<1>2. x \in S /\ \A y \in S : x >= y
  BY <1>1
<1>3. Max(S) = x
  BY DEF Max
<1> HIDE DEF x
<1>4. x \in Int /\ x >= m /\ m >= x
  BY <1>1, <1>2
<1> QED
  BY <1>1, <1>3, <1>4

(* What is kept of the widths of the lines is the widest.                  *)
LEMMA WidestKept ==
  ASSUME ByteAssumption, Reading, Widest, i <= Len(file),
         file' = file, i' = i + 1, pos' = PosAfter(file[i]), size' = SizeAfter(file[i])
  PROVE  Widest'
<1> DEFINE c == file[i]
           w == Larger(pos[1], size[1])
           k == ColumnAt(file, i)
<1>0. /\ file \in Seq(Byte) /\ i \in 1 .. Len(file) /\ i \in Nat /\ Len(file) \in Nat
      /\ DOMAIN file = 1 .. Len(file)
  BY LineEndsOf DEF Reading
<1>1. PICK n \in Int : Standing(n)
  BY DEF Reading
<1>2. pos[1] \in Nat /\ size[1] \in Nat /\ size[2] = 0 /\ size = <<size[1], size[2]>> /\ k \in Nat
  BY <1>0, <1>1, ColumnIsCount DEF Standing, Widest
<1>3. Widths(file, i + 1) = Widths(file, i) \cup (IF Occupies(c) THEN {k + 1} ELSE {})
  <2>1. \A m \in DOMAIN file : m < i + 1 <=> m < i \/ m = i
    BY <1>0
  <2>2. {m \in DOMAIN file : Occupies(file[m]) /\ m < i + 1}
          = {m \in DOMAIN file : Occupies(file[m]) /\ m < i} \cup (IF Occupies(c) THEN {i} ELSE {})
    BY <1>0, <2>1
  <2> QED
    BY <2>2 DEF Widths
<1>4. w \in Widths(file, i) /\ \A x \in Widths(file, i) : x <= w
  BY DEF Widest
<1>5. Widths(file, i) \in SUBSET Nat
  BY ColumnIsCount, <1>0 DEF Widths
<1>6. size' \in Nat \X {0} /\ (size'[1] = w \/ (size'[1] = size[1] /\ ~EndsPending(c) /\ c # LF))
  BY <1>2 DEF SizeAfter, WiderFor, Larger
<1>7. CASE Occupies(c)
  <2>1. pos'[1] = Place(c)[1] + 1 /\ Place(c)[1] = k /\ c # LF
    BY <1>2, <1>7, PlaceOfNext DEF PosAfter, Plus, Occupies
  <2>2. ~EndsPending(c) => k = pos[1]
    BY <2>1 DEF Place
  <2>3. Larger(pos'[1], size'[1]) = Larger(k + 1, w)
    <3>1. CASE size'[1] = w
      BY <2>1, <3>1
    <3>2. CASE size'[1] = size[1] /\ ~EndsPending(c)
      BY <1>2, <2>1, <2>2, <3>2 DEF Larger
    <3> QED
      BY <1>6, <3>1, <3>2
  <2>4. Larger(k + 1, w) \in Widths(file, i + 1) /\ \A x \in Widths(file, i + 1) : x <= Larger(k + 1, w)
    <3> HIDE DEF w, k
    <3> QED
      BY <1>2, <1>3, <1>4, <1>5, <1>7 DEF Larger
  <2> QED
    BY <1>6, <2>3, <2>4 DEF Widest
<1>8. CASE ~Occupies(c)
  <2>1. Larger(pos'[1], size'[1]) = w
    <3>1. CASE c = LF
      <4>1. pos'[1] = 0 /\ size'[1] = w
        BY <1>2, <3>1 DEF PosAfter, Newline, SizeAfter, WiderFor
      <4> QED
        BY <1>2, <4>1 DEF Larger
    <3>2. CASE c # LF /\ EndsPending(c)
      <4>1. pos'[1] = 0 /\ size'[1] = w
        BY <1>2, <1>8, <3>2 DEF PosAfter, Place, Newline, SizeAfter, WiderFor
      <4> QED
        BY <1>2, <4>1 DEF Larger
    <3>3. CASE c # LF /\ ~EndsPending(c)
      BY <1>8, <3>3 DEF PosAfter, Place, SizeAfter
    <3> QED
      BY <3>1, <3>2, <3>3
  <2> QED
    BY <1>3, <1>4, <1>6, <1>8, <2>1 DEF Widest
<1> QED
  BY <1>7, <1>8

(* The size i pushes for a text.                                           *)
SizeOf(f) == <<Max({0} \cup {ColumnAt(f, n) + 1 : n \in {k \in DOMAIN f : Occupies(f[k])}}),
               Cardinality(LineEnds(f))>>

(* At its end it is known.                                                 *)
LEMMA SizeKnown ==
  ASSUME ByteAssumption, Reading, Widest, loading = "text", i = Len(file) + 1
  PROVE  FinalSize[1] = SizeOf(file)[1] /\ FinalSize[2] = SizeOf(file)[2]
<1> DEFINE N == Len(file)
<1>0. /\ file \in Seq(Byte) /\ N \in Nat /\ DOMAIN file = 1 .. N /\ last_was_cr \in BOOLEAN
      /\ i = N + 1
  BY LineEndsOf DEF Reading
<1>1. PICK n \in Int : Standing(n)
  BY DEF Reading
<1>2. Widths(file, i) = {0} \cup {ColumnAt(file, k) + 1 : k \in {m \in DOMAIN file : Occupies(file[m])}}
  <2>1. {m \in DOMAIN file : Occupies(file[m]) /\ m < i} = {m \in DOMAIN file : Occupies(file[m])}
    BY <1>0
  <2> QED
    BY <2>1 DEF Widths
<1>3. Widths(file, i) \in SUBSET Int
  BY <1>0, ColumnIsCount DEF Widths
<1>4. ASSUME NEW w \in Widths(file, i), \A x \in Widths(file, i) : x <= w
      PROVE  w = SizeOf(file)[1]
  <2> DEFINE W == Widths(file, i)
  <2>1. W \in SUBSET Int /\ w \in W /\ \A x \in W : x <= w
    BY <1>3, <1>4
  <2> HIDE DEF W
  <2>2. Max(W) = w
    BY <2>1, MaxIs
  <2> QED
    BY <1>2, <2>2 DEF SizeOf, W
<1>5. RowAt(file, i) = SizeOf(file)[2] /\ RowAt(file, i) \in Nat
  <2>1. {m \in LineEnds(file) : m < i} = LineEnds(file)
    BY <1>0, LineEndsOf
  <2>2. RowAt(file, i) = Cardinality(LineEnds(file))
    BY <2>1 DEF RowAt
  <2>3. SizeOf(file)[2] = Cardinality(LineEnds(file))
    BY DEF SizeOf
  <2>4. i \in Int /\ i <= i
    BY <1>0
  <2>5. RowAt(file, i) \in Nat
    BY <1>0, <2>4, RowsInOrder
  <2> QED
    BY <2>2, <2>3, <2>5
<1> HIDE DEF N
<1>6. CASE file = <<>>
  <2>1. DOMAIN file = {} /\ LineEnds(file) = {}
    <3>1. DOMAIN file = {}
      BY <1>6
    <3> QED
      BY <3>1 DEF LineEnds
  <2>2. Widths(file, i) = {0}
    BY <2>1 DEF Widths
  <2>3. SizeOf(file)[1] = 0
    BY <1>4, <2>2
  <2>4. SizeOf(file)[2] = 0
    BY <2>1, FS_EmptySet DEF SizeOf
  <2> QED
    BY <1>6, <2>3, <2>4 DEF FinalSize
<1>7. CASE file # <<>>
  <2> DEFINE end == IF last_was_cr THEN Plus(pos, <<0, 1>>) ELSE pos
  <2>1. FinalSize = <<Larger(end[1], size[1]), Larger(end[2], size[2])>>
    BY <1>7 DEF FinalSize
  <2>2. pos = <<ColumnAt(file, n), RowAt(file, n)>> /\ ColumnAt(file, n) \in Nat
    BY <1>0, <1>1, ColumnIsCount DEF Standing
  <2>3. end[1] = pos[1] /\ end[2] = RowAt(file, i)
    <3>1. CASE last_was_cr
      <4>1. /\ n \in 1 .. N /\ i \in n + 1 .. N + 1 /\ file[n] = CR
            /\ \A m \in n + 1 .. i - 1 : file[m] = FF
        BY <1>0, <1>1, <3>1 DEF Standing
      <4>2. RowAt(file, i) = RowAt(file, n) + 1
        BY <1>0, <4>1, AfterReturn DEF N
      <4> QED
        BY <2>2, <3>1, <4>2 DEF Plus
    <3>2. CASE ~last_was_cr
      BY <1>1, <2>2, <3>2 DEF Standing
    <3> QED
      BY <3>1, <3>2
  <2> HIDE DEF end
  <2>4. Larger(end[1], size[1]) = SizeOf(file)[1]
    BY <1>4, <2>3 DEF Widest
  <2>5. Larger(end[2], size[2]) = SizeOf(file)[2]
    BY <1>5, <2>3 DEF Widest, Larger
  <2> QED
    BY <2>1, <2>4, <2>5
<1> QED
  BY <1>6, <1>7

-----------------------------------------------------------------------------
(* The cells of a file.                                                    *)

(* No two characters of a file belong to the same cell.                    *)
LEMMA BelongsApart ==
  ASSUME NEW f \in Seq(Byte), NEW binary \in BOOLEAN, NEW at \in Int \X Int,
         NEW j \in Visible(f, binary), NEW k \in Visible(f, binary), j # k
  PROVE  Belongs(f, j, at, binary) # Belongs(f, k, at, binary)
<1>0. DOMAIN f = 1 .. Len(f) /\ j \in Int /\ k \in Int /\ at[1] \in Int /\ at[2] \in Int
  BY LineEndsOf DEF Visible
<1>1. CASE binary
  BY <1>0, <1>1 DEF Belongs, Plus
<1>2. CASE ~binary
  <2>1. /\ ColumnAt(f, j) \in Int /\ RowAt(f, j) \in Int
        /\ ColumnAt(f, k) \in Int /\ RowAt(f, k) \in Int
    BY <1>0, ColumnIsCount, RowsInOrder
  <2>2. Occupies(f[j]) /\ Occupies(f[k]) /\ j \in DOMAIN f /\ k \in DOMAIN f
    BY <1>2 DEF Visible
  <2>3. CASE RowAt(f, j) = RowAt(f, k)
    <3>1. j < k => ColumnAt(f, j) < ColumnAt(f, k)
      BY <1>0, <2>2, <2>3, ColumnsInOrder
    <3>2. k < j => ColumnAt(f, k) < ColumnAt(f, j)
      BY <1>0, <2>2, <2>3, ColumnsInOrder
    <3> QED
      BY <1>0, <1>2, <2>1, <3>1, <3>2 DEF Belongs, Plus
  <2>4. CASE RowAt(f, j) # RowAt(f, k)
    BY <1>0, <1>2, <2>1, <2>4 DEF Belongs, Plus
  <2> QED
    BY <2>3, <2>4
<1> QED
  BY <1>1, <1>2

(* What has been read is where it belongs, the rest of funge-space is what *)
(* it was.                                                                 *)
BelongsAt(j)  == Belongs(file, j, offset, loading = "binary")
Seen          == {j \in Visible(file, loading = "binary") : j < i}
CellsLoaded ==
  /\ \A j \in Seen : BelongsAt(j) \in Pos => space[BelongsAt(j)] = file[j]
  /\ \A p \in Pos : (\A j \in Seen : BelongsAt(j) # p) => space[p] = before[p]

(* One character more.                                                     *)
LEMMA CellsKept ==
  ASSUME CellsLoaded, file \in Seq(Byte), i \in 1 .. Len(file), offset \in Int \X Int,
         space \in [Pos -> Cell],
         UNCHANGED <<file, loading, offset, before>>, i' = i + 1,
         space' = IF i \in Visible(file, loading = "binary") /\ BelongsAt(i) \in Pos
                    THEN [space EXCEPT ![BelongsAt(i)] = file[i]] ELSE space
  PROVE  CellsLoaded' /\ space' \in [Pos -> Cell]
<1> DEFINE V == Visible(file, loading = "binary")
           q == BelongsAt(i)
<1>0. DOMAIN file = 1 .. Len(file) /\ Len(file) \in Nat /\ file[i] \in Cell
  BY LineEndsOf, ElementOfSeq DEF Cell
<1>1. V \in SUBSET (1 .. Len(file)) /\ \A j \in V : j # i /\ i \in V => BelongsAt(j) # q
  <2> DEFINE b == loading = "binary"
  <2>1. b \in BOOLEAN /\ V \in SUBSET (1 .. Len(file))
    BY <1>0 DEF Visible
  <2>2. ASSUME NEW j \in V, j # i, i \in V
        PROVE  Belongs(file, j, offset, b) # Belongs(file, i, offset, b)
    <3>1. j \in Visible(file, b) /\ i \in Visible(file, b) /\ i # j /\ b \in BOOLEAN
      BY <2>1, <2>2
    <3> HIDE DEF b
    <3> QED
      BY <3>1, BelongsApart
  <2> QED
    BY <2>1, <2>2 DEF BelongsAt
<1>2. Seen' = Seen \cup (IF i \in V THEN {i} ELSE {}) /\ i \notin Seen /\ Seen \subseteq V
  BY <1>0, <1>1 DEF Seen
<1>3. \A j : BelongsAt(j)' = BelongsAt(j)
  BY DEF BelongsAt
<1>4. /\ \A j \in Seen : BelongsAt(j) \in Pos => space[BelongsAt(j)] = file[j]
      /\ \A p \in Pos : (\A j \in Seen : BelongsAt(j) # p) => space[p] = before[p]
  BY DEF CellsLoaded
<1> HIDE DEF V, q
<1>5. space' = (IF i \in V /\ q \in Pos THEN [space EXCEPT ![q] = file[i]] ELSE space)
  BY DEF V, q
<1>6. ASSUME NEW j \in Seen', BelongsAt(j) \in Pos
      PROVE  space'[BelongsAt(j)] = file[j]
  <2>1. CASE j = i
    BY <1>2, <1>5, <1>6, <2>1 DEF q
  <2>2. CASE j # i
    <3>1. j \in Seen /\ (i \in V => BelongsAt(j) # q)
      BY <1>1, <1>2, <2>2
    <3> QED
      BY <1>4, <1>5, <1>6, <3>1
  <2> QED
    BY <2>1, <2>2
<1>7. ASSUME NEW p \in Pos, \A j \in Seen' : BelongsAt(j) # p
      PROVE  space'[p] = before[p]
  <2>1. space[p] = before[p]
    BY <1>2, <1>4, <1>7
  <2>2. i \in V => q # p
    BY <1>2, <1>7 DEF q
  <2> QED
    BY <1>5, <2>1, <2>2
<1>8. space' \in [Pos -> Cell]
  BY <1>0, <1>5
<1> QED
  BY <1>3, <1>6, <1>7, <1>8 DEF CellsLoaded

-----------------------------------------------------------------------------
(* What o writes is a file of characters.                                  *)

(* A function on the first numbers is a sequence.                          *)
LEMMA FunctionIsSeq ==
  ASSUME NEW S, NEW n \in Nat, NEW g \in [1 .. n -> S]
  PROVE  g \in Seq(S) /\ Len(g) = n
OBVIOUS

(* The greatest of a set of numbers up to N is one of them.                *)
LEMMA MaxOf ==
  ASSUME NEW S \in SUBSET Nat, S # {}, NEW N \in Nat, \A x \in S : x <= N
  PROVE  Max(S) \in S /\ \A x \in S : x <= Max(S)
<1> DEFINE U == {n \in Nat : \A x \in S : x <= n}
<1>1. U \in SUBSET Nat /\ N \in U
  OBVIOUS
<1>2. \A n \in Nat : n \in U <=> \A x \in S : x <= n
  OBVIOUS
<1> HIDE DEF U
<1>3. PICK m \in U : \A n \in U : m <= n
  BY <1>1, Least
<1>4. m \in Nat /\ \A x \in S : x <= m
  BY <1>1, <1>2, <1>3
<1>5. m \in S
  <2> SUFFICES ASSUME m \notin S PROVE FALSE
    OBVIOUS
  <2>1. \A x \in S : x <= m - 1 /\ m - 1 \in Nat
    BY <1>4
  <2>2. m - 1 \in U
    BY <1>2, <2>1
  <2> QED
    BY <1>3, <1>4, <2>2
<1>6. S \in SUBSET Int
  OBVIOUS
<1> QED
  BY <1>4, <1>5, <1>6, MaxIs

(* Numbers that never fall from one to the next are in order.              *)
LEMMA Rising ==
  ASSUME NEW N \in Nat, NEW P, \A n \in 0 .. N : P[n] \in Nat,
         \A n \in 1 .. N : P[n - 1] <= P[n], NEW n \in 0 .. N, NEW k \in n .. N
  PROVE  P[n] <= P[k]
<1> DEFINE Low == {h \in n .. N : ~(P[n] <= P[h])}
<1>1. ASSUME Low # {} PROVE FALSE
  <2>1. Low \in SUBSET Nat
    OBVIOUS
  <2> HIDE DEF Low
  <2>2. PICK h \in Low : \A x \in Low : h <= x
    BY <1>1, <2>1, Least
  <2> USE DEF Low
  <2>3. h \in n .. N /\ ~(P[n] <= P[h])
    BY <2>2
  <2>4. h # n
    BY <2>3
  <2>5. h - 1 \in n .. N /\ h - 1 \notin Low /\ h \in 1 .. N /\ h - 1 \in 0 .. N /\ h \in 0 .. N
    BY <2>2, <2>3, <2>4
  <2>6. P[n] <= P[h - 1] /\ P[h - 1] <= P[h] /\ P[n] \in Nat /\ P[h - 1] \in Nat /\ P[h] \in Nat
    BY <2>5
  <2> QED
    BY <2>3, <2>6
<1>2. k \notin Low
  BY <1>1
<1> QED
  BY <1>2

(* The texts ss make up t, and the first n of them end at P[n].            *)
Located(t, ss, P, N) ==
  /\ \A n \in 0 .. N : P[n] \in Nat
  /\ P[0] = 0 /\ \A n \in 1 .. N : P[n] = P[n - 1] + Len(ss[n])
  /\ Len(t) = P[N]
  /\ \A n \in 1 .. N : \A j \in 1 .. Len(ss[n]) : t[P[n - 1] + j] = ss[n][j]

(* Every text is found again in the joined one.                            *)
LEMMA JoinedAt ==
  ASSUME NEW S, NEW N \in Nat, NEW ss \in [1 .. N -> Seq(S)]
  PROVE  \E P : Located(FlattenSeq(ss), ss, P, N)
<1>0. PICK g : JoinedBy(g, ss, S, N)
  BY Joining
<1>1. /\ \A k \in 1 .. N : g[k] \in Seq(S)
      /\ \A k \in 1 .. N : g[k] = IF k = 1 THEN ss[k] ELSE g[k - 1] \o ss[k]
      /\ FlattenSeq(ss) = IF N = 0 THEN ss ELSE g[N]
  BY <1>0 DEF JoinedBy
<1> DEFINE P == [n \in 0 .. N |-> IF n = 0 THEN 0 ELSE Len(g[n])]
<1>2. \A n \in 1 .. N : ss[n] \in Seq(S) /\ Len(ss[n]) \in Nat
  BY LenProperties
<1>3. \A n \in 1 .. N : P[n] = Len(g[n]) /\ P[n] \in Nat
  BY <1>1, LenProperties
<1>4. P[0] = 0
  OBVIOUS
<1> HIDE DEF P
<1>5. ASSUME NEW n \in 1 .. N PROVE P[n] = P[n - 1] + Len(ss[n])
  <2>1. CASE n = 1
    <3>1. 1 \in 1 .. N /\ n - 1 = 0
      BY <2>1
    <3>2. g[1] = ss[1] /\ P[1] = Len(g[1]) /\ Len(ss[1]) \in Nat
      BY <1>1, <1>2, <1>3, <3>1
    <3> QED
      BY <1>4, <2>1, <3>1, <3>2
  <2>2. CASE n # 1
    <3>1. n - 1 \in 1 .. N
      BY <2>2
    <3>2. g[n] = g[n - 1] \o ss[n] /\ g[n - 1] \in Seq(S)
      BY <1>1, <2>2, <3>1
    <3>3. Len(g[n]) = Len(g[n - 1]) + Len(ss[n])
      BY <1>2, <3>2, ConcatProperties
    <3> QED
      BY <1>3, <3>1, <3>3
  <2> QED
    BY <2>1, <2>2
<1>6. \A n \in 0 .. N : P[n] \in Nat
  <2> TAKE n \in 0 .. N
  <2>1. n = 0 \/ n \in 1 .. N
    OBVIOUS
  <2>2. CASE n = 0
    BY <1>4, <2>2
  <2>3. CASE n \in 1 .. N
    BY <1>3, <2>3
  <2> QED
    BY <2>1, <2>2, <2>3
<1> DEFINE Ok(k) == \A n \in 1 .. k : \A j \in 1 .. Len(ss[n]) : g[k][P[n - 1] + j] = ss[n][j]
           Bad == {k \in 1 .. N : ~Ok(k)}
<1>8. ASSUME Bad # {} PROVE FALSE
  <2>1. Bad \in SUBSET Nat
    OBVIOUS
  <2> HIDE DEF Bad
  <2>2. PICK k \in Bad : \A h \in Bad : k <= h
    BY <1>8, <2>1, Least
  <2>3. k \in 1 .. N /\ ~Ok(k) /\ \A h \in 1 .. N : h < k => Ok(h)
    <3> HIDE DEF Ok
    <3> USE DEF Bad
    <3>1. k \in 1 .. N /\ ~Ok(k)
      BY <2>2
    <3>2. \A h \in 1 .. N : h < k => ~(k <= h)
      BY <3>1
    <3> QED
      BY <2>2, <3>1, <3>2
  <2>4. Ok(k)
    <3> SUFFICES ASSUME NEW n \in 1 .. k, NEW j \in 1 .. Len(ss[n])
                 PROVE  g[k][P[n - 1] + j] = ss[n][j]
      OBVIOUS
    <3>1. n \in 1 .. N /\ Len(ss[n]) \in Nat
      BY <1>2, <2>3
    <3>2. CASE k = 1
      <4>1. n = 1 /\ P[n - 1] = 0 /\ g[k] = ss[n]
        BY <1>1, <1>4, <2>3, <3>2
      <4>2. P[n - 1] + j = j
        BY <3>1, <4>1
      <4> QED
        BY <4>1, <4>2
    <3>3. CASE k # 1
      <4>1. k - 1 \in 1 .. N /\ k - 1 < k
        BY <2>3, <3>3
      <4>2. /\ g[k - 1] \in Seq(S) /\ ss[k] \in Seq(S) /\ g[k] = g[k - 1] \o ss[k]
            /\ Len(g[k - 1]) = P[k - 1] /\ P[k - 1] \in Nat
        BY <1>1, <1>2, <1>3, <2>3, <3>3, <4>1
      <4>3. CASE n = k
        <5>1. g[k][Len(g[k - 1]) + j] = ss[k][j]
          <6>1. /\ Len(g[k - 1]) + j \in 1 .. Len(g[k - 1]) + Len(ss[k])
                /\ Len(g[k - 1]) + j > Len(g[k - 1]) /\ (Len(g[k - 1]) + j) - Len(g[k - 1]) = j
            BY <3>1, <4>2, <4>3, SMTT(30)
          <6>2. Len(ss[k]) \in Nat
            BY <4>2, LenProperties
          <6> DEFINE x == Len(g[k - 1]) + j
          <6>3. x \in 1 .. Len(g[k - 1]) + Len(ss[k]) /\ ~(x <= Len(g[k - 1])) /\ x - Len(g[k - 1]) = j
            BY <6>1, <4>2
          <6> HIDE DEF x
          <6>4. (g[k - 1] \o ss[k])[x] = ss[k][x - Len(g[k - 1])]
            BY <4>2, <6>3, ConcatProperties
          <6> QED
            BY <4>2, <6>3, <6>4 DEF x
        <5> QED
          BY <4>2, <4>3, <5>1
      <4>4. CASE n # k
        <5>1. n \in 1 .. k - 1
          BY <2>3, <4>4
        <5>2. g[k - 1][P[n - 1] + j] = ss[n][j]
          BY <2>3, <4>1, <5>1
        <5>3. P[n] = P[n - 1] + Len(ss[n]) /\ P[n - 1] \in Nat /\ P[n] \in Nat
          <6>1. n - 1 \in 0 .. N
            BY <3>1
          <6> QED
            BY <1>3, <1>5, <1>6, <3>1, <6>1
        <5>4. P[n] <= P[k - 1]
          <6>1. ASSUME NEW h \in 1 .. N PROVE P[h - 1] <= P[h]
            <7>1. h - 1 \in 0 .. N
              OBVIOUS
            <7>2. P[h] = P[h - 1] + Len(ss[h]) /\ Len(ss[h]) \in Nat /\ P[h - 1] \in Nat
              BY <1>2, <1>5, <1>6, <7>1
            <7> QED
              BY <7>2
          <6>2. n \in 0 .. N /\ k - 1 \in n .. N
            BY <4>1, <5>1
          <6> QED
            BY <1>6, <6>1, <6>2, Rising
        <5>5. P[n - 1] + j \in 1 .. Len(g[k - 1])
          BY <3>1, <4>2, <5>3, <5>4, SMTT(30)
        <5>6. g[k][P[n - 1] + j] = g[k - 1][P[n - 1] + j]
          <6> DEFINE x == P[n - 1] + j
          <6>1. x \in 1 .. Len(g[k - 1])
            BY <5>5
          <6>2. Len(ss[k]) \in Nat
            BY <4>2, LenProperties
          <6> HIDE DEF x
          <6>3. (g[k - 1] \o ss[k])[x] = g[k - 1][x]
            <7>1. x \in 1 .. Len(g[k - 1]) + Len(ss[k]) /\ x <= Len(g[k - 1])
              BY <4>2, <6>1, <6>2
            <7> QED
              BY <4>2, <7>1, ConcatProperties
          <6> QED
            BY <4>2, <6>3 DEF x
        <5> QED
          BY <5>2, <5>6
      <4> QED
        BY <4>3, <4>4
    <3> QED
      BY <3>2, <3>3
  <2> QED
    BY <2>3, <2>4
<1>9. CASE N = 0
  <2>1. FlattenSeq(ss) = ss /\ Len(ss) = 0
    BY <1>1, <1>9
  <2>2. 1 .. N = {}
    BY <1>9
  <2> QED
    BY <1>4, <1>5, <1>6, <1>9, <2>1, <2>2 DEF Located
<1>10. CASE N # 0
  <2>1. N \in 1 .. N /\ FlattenSeq(ss) = g[N]
    BY <1>1, <1>10
  <2>2. Ok(N)
    BY <1>8, <2>1
  <2>3. Len(FlattenSeq(ss)) = P[N]
    BY <1>3, <2>1
  <2>4. \A n \in 1 .. N : \A j \in 1 .. Len(ss[n]) : FlattenSeq(ss)[P[n - 1] + j] = ss[n][j]
    BY ONLY <2>1, <2>2
  <2> QED
    BY ONLY <1>4, <1>5, <1>6, <2>3, <2>4 DEF Located
<1> QED
  BY <1>9, <1>10

(* Stripping takes away that character only, and only at the end.          *)
LEMMA StrippedIs ==
  ASSUME NEW S, NEW s \in Seq(S), NEW c
  PROVE  /\ Stripped(s, c) \in Seq(S) /\ Len(Stripped(s, c)) \in 0 .. Len(s)
         /\ \A n \in 1 .. Len(Stripped(s, c)) : Stripped(s, c)[n] = s[n]
         /\ \A n \in 1 .. Len(s) : n \notin 1 .. Len(Stripped(s, c)) => s[n] = c
<1> DEFINE kept == {n \in DOMAIN s : s[n] # c}
           m == IF kept = {} THEN 0 ELSE Max(kept)
<1>1. Len(s) \in Nat /\ DOMAIN s = 1 .. Len(s)
  BY LenProperties
<1>2. Stripped(s, c) = SubSeq(s, 1, m)
  BY DEF Stripped
<1>3. kept \in SUBSET Nat /\ \A x \in kept : x \in 1 .. Len(s) /\ x <= Len(s)
  BY <1>1
<1>4. m \in 0 .. Len(s) /\ \A x \in kept : x <= m
  <2> HIDE DEF kept
  <2>1. kept # {} => Max(kept) \in kept /\ \A x \in kept : x <= Max(kept)
    BY <1>1, <1>3, MaxOf
  <2>2. kept # {} => Max(kept) \in 1 .. Len(s)
    BY <1>3, <2>1
  <2> QED
    BY <1>1, <2>1, <2>2
<1>5. \A n \in 1 .. Len(s) : n \notin 1 .. m => s[n] = c
  BY <1>1, <1>4
<1> HIDE DEF m
<1>6. \A k \in 1 .. m : s[k] \in S
  BY <1>1, <1>4, ElementOfSeq
<1>7. /\ SubSeq(s, 1, m) \in Seq(S) /\ Len(SubSeq(s, 1, m)) = m
      /\ \A n \in 1 .. m : SubSeq(s, 1, m)[n] = s[n]
  BY <1>1, <1>4, <1>6, SubSeqProperties
<1> QED
  BY <1>2, <1>4, <1>5, <1>7

(* What is written is characters, whatever the cells.                      *)
LEMMA WrittenIsText ==
  ASSUME ByteAssumption, space \in [Pos -> Cell], NEW at \in Int \X Int,
         NEW wanted \in Int \X Int, wanted[1] >= 1, wanted[2] >= 1, NEW textfile \in BOOLEAN
  PROVE  Written(at, wanted, textfile) \in Seq(Byte)
<1>0. wanted[1] \in Nat /\ wanted[2] \in Nat
  OBVIOUS
<1>1. \A c \in Cell : ByteOf(c) \in Byte
  BY DEF ByteAssumption, ByteOf, Cell
<1>2. \A s \in Seq(Cell) : BytesOf(s) \in Seq(Byte)
  <2> TAKE s \in Seq(Cell)
  <2>1. Len(s) \in Nat /\ DOMAIN s = 1 .. Len(s)
    BY LenProperties
  <2>2. BytesOf(s) \in [1 .. Len(s) -> Byte]
    BY <1>1, <2>1, ElementOfSeq DEF BytesOf
  <2> QED
    BY <2>1, <2>2, FunctionIsSeq
<1>3. \A y : RowOf(at, wanted, y) \in Seq(Cell)
  <2> TAKE y
  <2>1. \A p : Get(p) \in Cell
    BY DEF Get, Cell, Byte
  <2>2. RowOf(at, wanted, y) \in [1 .. wanted[1] -> Cell]
    BY <2>1 DEF RowOf
  <2> QED
    BY <1>0, <2>2, FunctionIsSeq
<1>4. <<LF>> \in Seq(Byte)
  BY DEF Byte
<1>5. BinaryLines(at, wanted) \in Seq(Byte)
  <2> DEFINE lines == [n \in 1 .. wanted[2] |-> BytesOf(RowOf(at, wanted, at[2] + n - 1)) \o <<LF>>]
  <2>1. lines \in [1 .. wanted[2] -> Seq(Byte)]
    BY <1>2, <1>3, <1>4, ConcatProperties
  <2>2. BinaryLines(at, wanted) = FlattenSeq(lines)
    BY DEF BinaryLines
  <2> HIDE DEF lines
  <2> QED
    BY <1>0, <2>1, <2>2, Joined
<1>6. TextLines(at, wanted) \in Seq(Byte)
  <2> DEFINE lines == [n \in 1 .. wanted[2] |->
                         BytesOf(Stripped(RowOf(at, wanted, at[2] + n - 1), SP)) \o <<LF>>]
  <2>0. \A y : BytesOf(Stripped(RowOf(at, wanted, y), SP)) \in Seq(Byte)
    BY <1>2, <1>3, StrippedIs
  <2>1. lines \in [1 .. wanted[2] -> Seq(Byte)]
    BY <1>4, <2>0, ConcatProperties
  <2>2. TextLines(at, wanted) = FlattenSeq(lines)
    BY DEF TextLines
  <2> HIDE DEF lines
  <2> QED
    BY <1>0, <2>1, <2>2, Joined
<1>7. Stripped(TextLines(at, wanted), LF) \in Seq(Byte) /\ <<>> \in Seq(Byte)
  BY <1>6, StrippedIs
<1> QED
  BY <1>5, <1>7 DEF Written

-----------------------------------------------------------------------------
(* The program and its loads.                                              *)

(* Types of the variables that matter; nothing is read before it is loaded.*)
FilesTypes ==
  /\ file \in Seq(Byte) /\ space \in [Pos -> Cell]
  /\ loading \in {"initial", "text", "binary", NULL}
  /\ i \in 1 .. Len(file) + 1 /\ (loading = NULL => i = 1)
  /\ offset \in Int \X Int /\ (loading = "initial" => offset = <<0, 0>>)

(* What the last load answered, as long as it is the last that was done.   *)
Replied == outcome # NULL /\ outcome.did = "text" =>
             outcome.size[1] = SizeOf(file)[1] /\ outcome.size[2] = SizeOf(file)[2]

(* The inductive invariant: the loaders stand where the lines and columns  *)
(* of the file put them, and what they have read is in funge-space.        *)
FilesInv ==
  /\ FilesTypes
  /\ loading \in {"initial", "text"} => Reading
  /\ loading = "text" => Widest
  /\ loading = "binary" => pos = Plus(offset, <<i - 1, 0>>)
  /\ loading # NULL => CellsLoaded
  /\ Replied

Assumptions == ByteAssumption /\ FileAssumption /\ CallAssumption /\ LoadingAssumption

(* The first character of a file is at its line's and column's start.      *)
LEMMA AtFirst ==
  ASSUME NEW f \in Seq(Byte)
  PROVE  /\ RowAt(f, 1) = 0 /\ ColumnAt(f, 1) = 0
         /\ Widths(f, 1) = {0}
<1>1. DOMAIN f = 1 .. Len(f) /\ LineEnds(f) \in SUBSET (1 .. Len(f))
  BY LineEndsOf
<1>2. {n \in LineEnds(f) : n < 1} = {} /\ {n \in DOMAIN f : Occupies(f[n]) /\ n < 1} = {}
  BY <1>1
<1>3. InLine(f, 1) = {}
  BY <1>2 DEF InLine
<1> QED
  BY <1>2, <1>3, ColumnIsCount, FS_EmptySet DEF RowAt, Widths

(* A load begins.                                                          *)
LEMMA BeginsReading ==
  ASSUME file \in Seq(Byte), i = 1, pos = <<0, 0>>, last_was_cr = FALSE
  PROVE  Reading
<1>1. Len(file) \in Nat
  BY LenProperties
<1>2. Standing(1)
  BY AtFirst DEF Standing
<1>3. i \in 1 .. Len(file) + 1 /\ last_was_cr \in BOOLEAN
  <2>1. i \in 1 .. Len(file) + 1
    BY <1>1
  <2>2. last_was_cr \in BOOLEAN
    BY Zenon
  <2> QED
    BY <2>1, <2>2
<1>4. \E n \in Int : Standing(n)
  <2>1. PICK n \in Int : n = 1
    OBVIOUS
  <2>2. Standing(n)
    BY <1>2, <2>1
  <2> QED
    BY <2>2
<1> QED
  BY <1>3, <1>4 DEF Reading

(* Nothing has been read.                                                  *)
LEMMA BeginsCells ==
  ASSUME file \in Seq(Byte), i = 1, before = space
  PROVE  CellsLoaded
<1>1. Seen = {}
  BY LineEndsOf DEF Seen, Visible
<1> QED
  BY <1>1 DEF CellsLoaded

(* Before the program starts.                                              *)
LEMMA StartsSound == Assumptions /\ FileInit => FilesInv
<1> SUFFICES ASSUME Assumptions, FileInit PROVE FilesInv
  OBVIOUS
<1>1. file \in Seq(Byte) /\ i = 1 /\ pos = <<0, 0>> /\ last_was_cr = FALSE /\ loading = "initial"
      /\ before = space /\ outcome = NULL /\ offset = <<0, 0>>
  BY DEF FileInit, Assumptions, FileAssumption
<1>2. Len(file) \in Nat
  BY <1>1, LenProperties
<1>3. space \in [Pos -> Cell]
  BY DEF FileInit, Cell, Byte
<1>4. Reading /\ CellsLoaded
  BY <1>1, BeginsReading, BeginsCells
<1>5. FilesTypes
  BY <1>1, <1>2, <1>3 DEF FilesTypes
<1> QED
  BY <1>1, <1>4, <1>5 DEF FilesInv, Replied

(* A character of a text is stored where its line and column put it.       *)
LEMMA StoredWhereItBelongs ==
  ASSUME ByteAssumption, FilesTypes, Reading, loading \in {"initial", "text"}, i <= Len(file),
         Stored(file[i], Plus(Place(file[i]), offset))
  PROVE  space' = IF i \in Visible(file, loading = "binary") /\ BelongsAt(i) \in Pos
                    THEN [space EXCEPT ![BelongsAt(i)] = file[i]] ELSE space
<1>0. file \in Seq(Byte) /\ i \in DOMAIN file /\ loading # "binary" /\ offset \in Int \X Int
  BY LineEndsOf DEF FilesTypes
<1>1. i \in Visible(file, loading = "binary") <=> file[i] # SP /\ Occupies(file[i])
  BY <1>0 DEF Visible
<1>2. Occupies(file[i]) => Plus(Place(file[i]), offset) = BelongsAt(i)
  <2> SUFFICES ASSUME Occupies(file[i]) PROVE Plus(Place(file[i]), offset) = BelongsAt(i)
    OBVIOUS
  <2>1. Place(file[i]) = <<ColumnAt(file, i), RowAt(file, i)>>
    BY PlaceOfNext
  <2>2. ColumnAt(file, i) \in Int /\ RowAt(file, i) \in Int /\ offset[1] \in Int /\ offset[2] \in Int
    <3>1. i \in Int /\ i <= i
      BY <1>0, LineEndsOf
    <3> QED
      BY <1>0, <3>1, ColumnIsCount, RowsInOrder
  <2> QED
    BY <1>0, <2>1, <2>2 DEF BelongsAt, Belongs, Plus
<1> QED
  BY <1>1, <1>2 DEF Stored

(* One character of the program's file.                                    *)
LEMMA InitialCharKeeps ==
  ASSUME Assumptions, FilesInv, InitialChar
  PROVE  FilesInv'
<1>0. /\ file \in Seq(Byte) /\ i \in 1 .. Len(file) /\ loading = "initial" /\ loading # NULL
      /\ space \in [Pos -> Cell] /\ offset = <<0, 0>> /\ offset \in Int \X Int
      /\ Reading /\ CellsLoaded /\ FilesTypes /\ Replied /\ ByteAssumption /\ Len(file) \in Nat
  BY LenProperties DEF InitialChar, FilesInv, FilesTypes, Assumptions, LoadingAssumption
<1>1. /\ UNCHANGED <<file, loading, offset, before, outcome>> /\ i' = i + 1
      /\ pos' = PosAfter(file[i]) /\ last_was_cr' = FlagAfter(file[i])
      /\ Stored(file[i], Place(file[i])) /\ i <= Len(file)
  BY DEF InitialChar
<1>2. Occupies(file[i]) => Plus(Place(file[i]), offset) = Place(file[i])
  <2>1. i \in Int /\ i <= i
    BY <1>0
  <2>2. ColumnAt(file, i) \in Int /\ RowAt(file, i) \in Int
    BY <1>0, <2>1, ColumnIsCount, RowsInOrder
  <2> QED
    BY <1>0, <1>1, <2>2, PlaceOfNext DEF Plus
<1>3. Stored(file[i], Plus(Place(file[i]), offset))
  BY <1>1, <1>2 DEF Stored
<1>4. Reading'
  BY <1>0, <1>1, ReadsOn
<1>5. CellsLoaded' /\ space' \in [Pos -> Cell]
  BY <1>0, <1>1, <1>3, StoredWhereItBelongs, CellsKept
<1>6. FilesTypes'
  BY <1>0, <1>1, <1>5 DEF FilesTypes
<1> QED
  BY <1>0, <1>1, <1>4, <1>5, <1>6 DEF FilesInv, Replied

(* One character of a text that i loads.                                   *)
LEMMA OffsetCharKeeps ==
  ASSUME Assumptions, FilesInv, OffsetChar
  PROVE  FilesInv'
<1>0. /\ file \in Seq(Byte) /\ i \in 1 .. Len(file) /\ loading = "text" /\ loading # NULL
      /\ space \in [Pos -> Cell] /\ offset \in Int \X Int
      /\ Reading /\ CellsLoaded /\ Widest /\ FilesTypes /\ Replied /\ ByteAssumption
      /\ Len(file) \in Nat
  BY LenProperties DEF OffsetChar, FilesInv, FilesTypes, Assumptions, LoadingAssumption
<1>1. /\ UNCHANGED <<file, loading, offset, before, outcome>> /\ i' = i + 1
      /\ pos' = PosAfter(file[i]) /\ last_was_cr' = FlagAfter(file[i]) /\ i <= Len(file)
      /\ size' = SizeAfter(file[i]) /\ Stored(file[i], Plus(Place(file[i]), offset))
  BY DEF OffsetChar
<1>2. Reading'
  BY <1>0, <1>1, ReadsOn
<1>3. Widest'
  BY <1>0, <1>1, WidestKept
<1>4. CellsLoaded' /\ space' \in [Pos -> Cell]
  BY <1>0, <1>1, StoredWhereItBelongs, CellsKept
<1>5. FilesTypes'
  BY <1>0, <1>1, <1>4 DEF FilesTypes
<1> QED
  BY <1>0, <1>1, <1>2, <1>3, <1>4, <1>5 DEF FilesInv, Replied

(* One character of a binary file.                                         *)
LEMMA BinaryCharKeeps ==
  ASSUME Assumptions, FilesInv, BinaryChar
  PROVE  FilesInv'
<1>0. /\ file \in Seq(Byte) /\ i \in 1 .. Len(file) /\ loading = "binary" /\ loading # NULL
      /\ space \in [Pos -> Cell] /\ offset \in Int \X Int /\ DOMAIN file = 1 .. Len(file)
      /\ pos = Plus(offset, <<i - 1, 0>>) /\ CellsLoaded /\ Replied /\ Len(file) \in Nat
  BY LenProperties DEF BinaryChar, FilesInv, FilesTypes, Assumptions, LoadingAssumption
<1>1. /\ UNCHANGED <<file, loading, offset, before, outcome>> /\ i' = i + 1
      /\ space' = IF file[i] # SP /\ pos \in Pos THEN [space EXCEPT ![pos] = file[i]] ELSE space
      /\ pos' = Plus(pos, <<1, 0>>)
  BY DEF BinaryChar
<1>2. BelongsAt(i) = pos /\ (i \in Visible(file, loading = "binary") <=> file[i] # SP)
  BY <1>0 DEF BelongsAt, Belongs, Visible
<1>3. CellsLoaded' /\ space' \in [Pos -> Cell]
  BY <1>0, <1>1, <1>2, CellsKept
<1>4. pos' = Plus(offset, <<i' - 1, 0>>)
  BY <1>0, <1>1 DEF Plus
<1>5. FilesTypes'
  <2>1. i' \in 1 .. Len(file') + 1
    BY <1>0, <1>1
  <2>2. loading' = "binary" /\ loading' # "initial" /\ loading' # NULL
    BY <1>0, <1>1
  <2> QED
    BY <1>0, <1>1, <1>3, <2>1, <2>2 DEF FilesTypes, FilesInv
<1> QED
  BY <1>0, <1>1, <1>3, <1>4, <1>5 DEF FilesInv, Replied

(* The end of a file.                                                      *)
LEMMA LoadedKeeps ==
  ASSUME Assumptions, FilesInv, Loaded
  PROVE  FilesInv'
<1>0. /\ file \in Seq(Byte) /\ space \in [Pos -> Cell] /\ ByteAssumption /\ Len(file) \in Nat
      /\ i = Len(file) + 1 /\ loading \in {"initial", "text", "binary"}
      /\ NULL \notin {"initial", "text", "binary"}
      /\ loading = "text" => Reading /\ Widest
  BY LenProperties DEF Loaded, FilesInv, FilesTypes, Assumptions, LoadingAssumption
<1>1. /\ UNCHANGED <<file, space>> /\ loading' = NULL /\ i' = 1 /\ offset' = <<0, 0>>
      /\ outcome' = IF loading = "initial" THEN NULL
                  ELSE [did |-> loading, size |-> FinalSize, offset |-> Minus(offset, StorageOffset)]
  BY DEF Loaded
<1>2. FilesTypes'
  BY <1>0, <1>1 DEF FilesTypes
<1>3. Replied'
  <2>1. CASE loading = "text"
    <3>1. outcome'.size = FinalSize
      BY <1>1, <2>1
    <3>2. FinalSize[1] = SizeOf(file)[1] /\ FinalSize[2] = SizeOf(file)[2]
      BY <1>0, <2>1, SizeKnown
    <3> QED
      BY <1>1, <3>1, <3>2 DEF Replied
  <2>2. CASE loading # "text"
    BY <1>1, <2>2 DEF Replied
  <2> QED
    BY <2>1, <2>2
<1> QED
  BY <1>0, <1>1, <1>2, <1>3 DEF FilesInv

(* A load begins.                                                          *)
LEMMA InputKeeps ==
  ASSUME Assumptions, FilesInv, NEW binary \in BOOLEAN, NEW popped \in Offsets,
         Input(binary, popped)
  PROVE  FilesInv'
<1>0. /\ file \in Seq(Byte) /\ space \in [Pos -> Cell] /\ Len(file) \in Nat
      /\ popped \in Int \X Int /\ StorageOffset \in Int \X Int
      /\ NULL \notin {"initial", "text", "binary"}
  BY LenProperties DEF FilesInv, FilesTypes, Assumptions, LoadingAssumption, CallAssumption
<1>1. /\ file' = file /\ space' = space /\ i' = 1 /\ last_was_cr' = FALSE /\ before' = space
      /\ outcome' = NULL /\ size' = <<0, 0>>
      /\ loading' = (IF binary THEN "binary" ELSE "text")
      /\ offset' = Plus(popped, StorageOffset)
      /\ pos' = (IF binary THEN offset' ELSE <<0, 0>>)
  BY DEF Input
<1>2. offset' \in Int \X Int
  BY <1>0, <1>1 DEF Plus
<1>3. FilesTypes'
  BY <1>0, <1>1, <1>2 DEF FilesTypes
<1>4. CellsLoaded'
  <2>1. Seen' = {}
    BY <1>0, <1>1, LineEndsOf DEF Seen, Visible
  <2> QED
    BY <1>1, <2>1 DEF CellsLoaded
<1>5. ~binary => Reading' /\ Widest'
  <2> SUFFICES ASSUME ~binary PROVE Reading' /\ Widest'
    OBVIOUS
  <2>1. RowAt(file, 1) = 0 /\ ColumnAt(file, 1) = 0 /\ Widths(file, 1) = {0}
    BY <1>0, AtFirst
  <2>2. Standing(1)'
    BY <1>1, <2>1 DEF Standing
  <2>3. Widest'
    BY <1>1, <2>1 DEF Widest, Larger
  <2>4. i' \in 1 .. Len(file') + 1 /\ last_was_cr' \in BOOLEAN /\ file' \in Seq(Byte)
    <3>1. i' \in 1 .. Len(file') + 1 /\ file' \in Seq(Byte)
      BY <1>0, <1>1
    <3>2. last_was_cr' \in BOOLEAN
      BY <1>1, Zenon
    <3> QED
      BY <3>1, <3>2
  <2>5. \E n \in Int : Standing(n)'
    <3>1. PICK n \in Int : n = 1
      OBVIOUS
    <3>2. Standing(n)'
      BY <2>2, <3>1
    <3> QED
      BY <3>2
  <2>6. Reading'
    BY <2>4, <2>5 DEF Reading
  <2> QED
    BY <2>3, <2>6
<1>6. binary => pos' = Plus(offset', <<i' - 1, 0>>)
  BY <1>1, <1>2 DEF Plus
<1> QED
  BY <1>0, <1>1, <1>3, <1>4, <1>5, <1>6 DEF FilesInv, Replied

(* o, and what else happens between two loads.                             *)
LEMMA OthersKeep ==
  ASSUME Assumptions, FilesInv,
         \/ InputFails
         \/ \E textfile \in BOOLEAN, popped \in Offsets, wanted \in Sizes :
              Output(textfile, popped, wanted) \/ OutputFails(textfile, popped, wanted)
         \/ \E p \in Edited, c \in Cell : Put(p, c)
  PROVE  FilesInv'
<1>0. /\ file \in Seq(Byte) /\ space \in [Pos -> Cell] /\ Len(file) \in Nat /\ ByteAssumption
      /\ Offsets \subseteq Int \X Int /\ Sizes \subseteq Int \X Int /\ Edited \subseteq Pos
      /\ StorageOffset \in Int \X Int /\ offset \in Int \X Int
      /\ NULL \notin {"initial", "text", "binary"}
  BY LenProperties DEF FilesInv, FilesTypes, Assumptions, LoadingAssumption, CallAssumption
<1>1. loading = NULL /\ UNCHANGED <<loading, i, offset>>
  BY DEF InputFails, Output, OutputFails, Put, Reflects, Calls, readerVars
<1>2. file' \in Seq(Byte)
  <2>1. ASSUME NEW textfile \in BOOLEAN, NEW popped \in Offsets, NEW wanted \in Sizes,
               wanted[1] >= 1, wanted[2] >= 1
        PROVE  Written(Plus(popped, StorageOffset), wanted, textfile) \in Seq(Byte)
    <3> DEFINE at == Plus(popped, StorageOffset)
    <3>1. at \in Int \X Int /\ wanted \in Int \X Int
      BY <1>0 DEF Plus
    <3> HIDE DEF at
    <3>2. Written(at, wanted, textfile) \in Seq(Byte)
      BY <1>0, <2>1, <3>1, WrittenIsText
    <3> QED
      BY <3>2 DEF at
  <2>2. ASSUME NEW textfile \in BOOLEAN, NEW popped \in Offsets, NEW wanted \in Sizes,
               Output(textfile, popped, wanted)
        PROVE  file' \in Seq(Byte)
    BY <2>1, <2>2 DEF Output
  <2>3. ASSUME NEW textfile \in BOOLEAN, NEW popped \in Offsets, NEW wanted \in Sizes,
               OutputFails(textfile, popped, wanted)
        PROVE  file' \in Seq(Byte)
    <3> DEFINE text == Written(Plus(popped, StorageOffset), wanted, TRUE)
    <3>1. CASE file' = file
      BY <1>0, <3>1
    <3>2. CASE file' # file
      <4>1. /\ wanted[1] >= 1 /\ wanted[2] >= 1
            /\ \E n \in 0 .. IF textfile THEN Len(text) ELSE 0 : file' = SubSeq(text, 1, n)
        BY <2>3, <3>2 DEF OutputFails
      <4>2. text \in Seq(Byte)
        BY <2>1, <4>1
      <4> HIDE DEF text
      <4>3. PICK n \in 0 .. Len(text) : file' = SubSeq(text, 1, n)
        BY <4>1, <4>2, LenProperties
      <4>4. \A k \in 1 .. n : text[k] \in Byte
        BY <4>2, <4>3, ElementOfSeq, LenProperties
      <4> QED
        BY <4>3, <4>4, SubSeqProperties
    <3> QED
      BY <3>1, <3>2
  <2>4. InputFails \/ (\E p \in Edited, c \in Cell : Put(p, c)) => file' = file
    BY DEF InputFails, Put
  <2> QED
    BY <1>0, <2>2, <2>3, <2>4
<1>3. space' \in [Pos -> Cell]
  BY <1>0 DEF InputFails, Output, OutputFails, Put, Reflects
<1>4. outcome' \in {NULL, [did |-> "reflect"], [did |-> "saved"]}
  BY DEF InputFails, Output, OutputFails, Put, Reflects
<1>5. Replied'
  BY <1>4 DEF Replied
<1>6. i' \in 1 .. Len(file') + 1
  <2>1. Len(file') \in Nat
    BY <1>2, LenProperties
  <2>2. i = 1
    BY <1>1 DEF FilesInv, FilesTypes
  <2> QED
    BY <1>1, <2>1, <2>2
<1>7. FilesTypes'
  BY <1>0, <1>1, <1>2, <1>3, <1>6 DEF FilesInv, FilesTypes
<1> QED
  BY <1>0, <1>1, <1>5, <1>7 DEF FilesInv

(* Every step keeps the invariant.                                         *)
LEMMA StepsSound == Assumptions /\ FilesInv /\ [FileNext]_fileVars => FilesInv'
<1> SUFFICES ASSUME Assumptions, FilesInv, [FileNext]_fileVars PROVE FilesInv'
  OBVIOUS
<1>1. CASE InitialChar
  BY <1>1, InitialCharKeeps
<1>2. CASE OffsetChar
  BY <1>2, OffsetCharKeeps
<1>3. CASE BinaryChar
  BY <1>3, BinaryCharKeeps
<1>4. CASE Loaded
  BY <1>4, LoadedKeeps
<1>5. CASE \E binary \in BOOLEAN, popped \in Offsets : Input(binary, popped)
  BY <1>5, InputKeeps
<1>6. CASE UNCHANGED fileVars
  BY <1>6 DEF fileVars, FilesInv, FilesTypes, Reading, Standing, Widest, CellsLoaded, Seen,
              BelongsAt, Replied
<1> QED
  BY <1>1, <1>2, <1>3, <1>4, <1>5, <1>6, OthersKeep DEF FileNext

(* The loaders stand where they should and have stored what they read, for *)
(* every file and whatever was loaded or saved before.                     *)
THEOREM LoadersSound == FileSpec => []FilesInv
<1>0. Assumptions
  BY FilesAssumption DEF Assumptions
<1>1. FileInit => FilesInv
  BY <1>0, StartsSound
<1>2. FilesInv /\ [FileNext]_fileVars => FilesInv'
  BY <1>0, StepsSound
<1> QED
  BY <1>1, <1>2, PTL DEF FileSpec

(* What is loaded is as the file is written, for every mixture of line     *)
(* ends, at any offset, as text and as binary, and i says how large it is. *)
THEOREM EveryFileLoaded == FileSpec => []LoadedAsWritten
<1>1. FilesInv => LoadedAsWritten
  <2> SUFFICES ASSUME FilesInv PROVE LoadedAsWritten
    OBVIOUS
  <2>1. ASSUME loading # NULL, i = Len(file) + 1
        PROVE  LET placed == Placed(file, offset, loading = "binary")
               IN  /\ \A j \in DOMAIN placed : placed[j] \in Pos => space[placed[j]] = file[j]
                   /\ \A p \in Pos \ Range(placed) : space[p] = before[p]
    <3> DEFINE placed == Placed(file, offset, loading = "binary")
    <3>1. Seen = DOMAIN placed /\ \A j \in DOMAIN placed : placed[j] = BelongsAt(j)
      BY <2>1, LineEndsOf DEF FilesInv, FilesTypes, Seen, Placed, Visible, BelongsAt
    <3>2. CellsLoaded
      BY <2>1 DEF FilesInv
    <3> HIDE DEF placed
    <3>3. \A j \in DOMAIN placed : placed[j] \in Pos => space[placed[j]] = file[j]
      BY <3>1, <3>2 DEF CellsLoaded
    <3>4. \A p \in Pos \ Range(placed) : space[p] = before[p]
      BY <3>1, <3>2 DEF CellsLoaded, Range
    <3> QED
      BY <3>3, <3>4 DEF placed
  <2>2. ASSUME outcome # NULL, outcome.did = "text"
        PROVE  /\ outcome.size[2] = Cardinality(LineEnds(file))
               /\ outcome.size[1] =
                    Max({0} \cup {ColumnAt(file, j) + 1 :
                                    j \in {n \in DOMAIN file : Occupies(file[n])}})
    BY <2>2 DEF FilesInv, Replied, SizeOf
  <2> QED
    BY <2>1, <2>2 DEF LoadedAsWritten
<1> QED
  BY <1>1, LoadersSound, PTL

-----------------------------------------------------------------------------
(* A text as it was laid out: lines without their ends, u[n] after P[n-1]. *)
(* The text may be cut off anywhere.                                       *)
Laid(f, u, P, N) ==
  /\ f \in Seq(Byte)
  /\ \A n \in 0 .. N : P[n] \in Nat
  /\ P[0] = 0 /\ Len(f) <= P[N]
  /\ \A n \in 1 .. N :
       /\ u[n] \in Seq({SP} \cup Graphic)
       /\ P[n] = P[n - 1] + Len(u[n]) + 1
       /\ \A c \in 1 .. Len(u[n]) + 1 :
            P[n - 1] + c <= Len(f) =>
              f[P[n - 1] + c] = IF c <= Len(u[n]) THEN u[n][c] ELSE LF

(* The position j is in one of the lines, or at the end of one.            *)
Within(u, P, N, j) == \E n \in 1 .. N : \E c \in 1 .. Len(u[n]) + 1 : j = P[n - 1] + c

(* Every character of the text is.                                         *)
LEMMA LineOf ==
  ASSUME NEW f, NEW u, NEW P, NEW N \in Nat, Laid(f, u, P, N), NEW j \in 1 .. Len(f)
  PROVE  Within(u, P, N, j)
<1>1. /\ Len(f) \in Nat /\ P[0] = 0 /\ Len(f) <= P[N] /\ \A n \in 0 .. N : P[n] \in Nat
      /\ \A n \in 1 .. N : P[n] = P[n - 1] + Len(u[n]) + 1 /\ Len(u[n]) \in Nat
  BY LenProperties DEF Laid
<1> DEFINE After == {n \in 0 .. N : j <= P[n]}
<1>2. After \in SUBSET Nat /\ N \in After
  BY <1>1
<1> HIDE DEF After
<1>3. PICK n \in After : \A h \in After : n <= h
  BY <1>2, Least
<1>4. n \in 0 .. N /\ j <= P[n] /\ \A h \in 0 .. N : h < n => ~(j <= P[h])
  BY <1>3 DEF After
<1>5. n # 0
  BY <1>1, <1>4
<1>6. n \in 1 .. N /\ n - 1 \in 0 .. N /\ n - 1 < n
  BY <1>4, <1>5
<1>7. ~(j <= P[n - 1]) /\ P[n - 1] \in Nat /\ P[n] = P[n - 1] + Len(u[n]) + 1 /\ Len(u[n]) \in Nat
  BY <1>1, <1>4, <1>6
<1>8. j - P[n - 1] \in 1 .. Len(u[n]) + 1 /\ j = P[n - 1] + (j - P[n - 1])
  BY <1>4, <1>7
<1> QED
  BY <1>6, <1>8 DEF Within

(* Its lines and columns are those it was laid out in.                     *)
LEMMA LaidOut ==
  ASSUME ByteAssumption, NEW f, NEW u, NEW P, NEW N \in Nat, Laid(f, u, P, N),
         NEW n0 \in 1 .. N, NEW c0 \in 1 .. Len(u[n0]) + 1, P[n0 - 1] + c0 <= Len(f)
  PROVE  RowAt(f, P[n0 - 1] + c0) = n0 - 1 /\ ColumnAt(f, P[n0 - 1] + c0) = c0 - 1
<1> DEFINE Ok(n, c) == RowAt(f, P[n - 1] + c) = n - 1 /\ ColumnAt(f, P[n - 1] + c) = c - 1
           Bad == {j \in 1 .. Len(f) : \E n \in 1 .. N : \E c \in 1 .. Len(u[n]) + 1 :
                                         j = P[n - 1] + c /\ ~Ok(n, c)}
<1>1. /\ f \in Seq(Byte) /\ Len(f) \in Nat /\ P[0] = 0 /\ \A n \in 0 .. N : P[n] \in Nat
      /\ \A n \in 1 .. N : P[n] = P[n - 1] + Len(u[n]) + 1 /\ Len(u[n]) \in Nat
                           /\ u[n] \in Seq({SP} \cup Graphic) /\ P[n - 1] \in Nat
  BY LenProperties, SMTT(30) DEF Laid
<1>2. ASSUME Bad # {} PROVE FALSE
  <2>1. Bad \in SUBSET Nat
    OBVIOUS
  <2> HIDE DEF Bad
  <2>2. PICK j \in Bad : \A h \in Bad : j <= h
    BY <1>2, <2>1, Least
  <2> HIDE DEF Ok
  <2> USE DEF Bad
  <2>3. PICK n \in 1 .. N : \E c \in 1 .. Len(u[n]) + 1 : j = P[n - 1] + c /\ ~Ok(n, c)
    BY <2>2
  <2>4. PICK c \in 1 .. Len(u[n]) + 1 : j = P[n - 1] + c /\ ~Ok(n, c)
    BY <2>3
  <2>5. j \in 1 .. Len(f)
    BY <2>2
  <2>6. ASSUME NEW m \in 1 .. N, NEW d \in 1 .. Len(u[m]) + 1, P[m - 1] + d = j - 1
        PROVE  Ok(m, d)
    <3>1. j - 1 \in 1 .. Len(f) /\ j - 1 < j
      BY <1>1, <2>5, <2>6
    <3>2. j - 1 \notin Bad
      <4> HIDE DEF Bad
      <4> QED
        BY <2>1, <2>2, <3>1
    <3> QED
      BY <2>6, <3>1, <3>2
  <2> HIDE DEF Bad
  <2>7. P[n - 1] \in Nat /\ Len(u[n]) \in Nat /\ n - 1 \in 0 .. N
    BY <1>1
  <2>8. CASE c # 1
    <3>1. /\ c - 1 \in 1 .. Len(u[n]) + 1 /\ c - 1 \in 1 .. Len(u[n])
          /\ P[n - 1] + (c - 1) = j - 1 /\ j - 1 \in 1 .. Len(f)
      <4>1. \A p, k \in Nat : c \in 1 .. k + 1 /\ j = p + c =>
              /\ c - 1 \in 1 .. k + 1 /\ c - 1 \in 1 .. k /\ p + (c - 1) = j - 1
              /\ j - 1 \in 1 .. Len(f)
        BY <1>1, <2>5, <2>8
      <4> QED
        BY <2>4, <2>7, <4>1
    <3>2. RowAt(f, j - 1) = n - 1 /\ ColumnAt(f, j - 1) = (c - 1) - 1
      <4>1. Ok(n, c - 1)
        BY <2>6, <3>1
      <4>2. P[n - 1] + (c - 1) = j - 1
        BY <3>1
      <4> QED
        BY <4>1, <4>2 DEF Ok
    <3>3. f[j - 1] = u[n][c - 1]
      <4>1. P[n - 1] + (c - 1) <= Len(f) /\ c - 1 <= Len(u[n])
        BY <1>1, <3>1
      <4> QED
        BY <3>1, <4>1 DEF Laid
    <3>4. f[j - 1] \in {SP} \cup Graphic
      BY <1>1, <3>1, <3>3, ElementOfSeq
    <3>5. f[j - 1] \notin {LF, CR, FF}
      BY <3>4 DEF ByteAssumption
    <3>6. j - 1 \notin LineEnds(f) /\ Occupies(f[j - 1])
      BY <1>1, <3>5, LineEndsOf DEF Occupies
    <3>7. RowAt(f, (j - 1) + 1) = n - 1 /\ ColumnAt(f, (j - 1) + 1) = (c - 1) - 1 + 1
      BY <1>1, <3>1, <3>2, <3>6, RowStep, ColumnStep
    <3>8. (j - 1) + 1 = j /\ (c - 1) - 1 + 1 = c - 1
      BY <2>5, <2>7
    <3> QED
      BY <2>4, <3>7, <3>8 DEF Ok
  <2>9. CASE c = 1 /\ n # 1
    <3> DEFINE m == n - 1
    <3>1. m \in 1 .. N /\ m - 1 \in 0 .. N
      BY <2>9
    <3>2. P[n - 1] = P[m - 1] + Len(u[m]) + 1 /\ P[m - 1] \in Nat /\ Len(u[m]) \in Nat
      BY <1>1, <3>1
    <3> DEFINE d == Len(u[m]) + 1
    <3>3. d \in 1 .. Len(u[m]) + 1 /\ P[m - 1] + d = j - 1 /\ j - 1 \in 1 .. Len(f)
          /\ ~(d <= Len(u[m]))
      <4>1. \A p, k \in Nat : j = p + k + 1 + 1 =>
              /\ k + 1 \in 1 .. k + 1 /\ p + (k + 1) = j - 1 /\ j - 1 \in 1 .. Len(f)
              /\ ~(k + 1 <= k)
        BY <1>1, <2>5
      <4>2. j = P[m - 1] + Len(u[m]) + 1 + 1
        BY <2>4, <2>9, <3>2
      <4> QED
        BY <3>2, <4>1, <4>2
    <3> HIDE DEF d
    <3>4. RowAt(f, j - 1) = m - 1
      BY <2>6, <3>1, <3>3 DEF Ok
    <3>5. f[j - 1] = LF
      <4>1. P[m - 1] + d <= Len(f)
        BY <1>1, <3>3
      <4>2. f[P[m - 1] + d] = LF
        BY <3>1, <3>3, <4>1 DEF Laid
      <4> QED
        BY <3>3, <4>2
    <3>6. j - 1 \in LineEnds(f)
      BY <1>1, <3>3, <3>5, LineEndsOf DEF LineEnds
    <3>7. RowAt(f, (j - 1) + 1) = m - 1 + 1 /\ ColumnAt(f, (j - 1) + 1) = 0
      BY <1>1, <3>3, <3>4, <3>6, RowStep, ColumnStep
    <3>8. (j - 1) + 1 = j /\ m - 1 + 1 = n - 1 /\ c - 1 = 0
      BY <2>5, <2>9
    <3> QED
      BY <2>4, <3>7, <3>8 DEF Ok
  <2>10. CASE c = 1 /\ n = 1
    <3>1. j = 1 /\ n - 1 = 0 /\ c - 1 = 0
      BY <1>1, <2>4, <2>10
    <3>2. RowAt(f, 1) = 0 /\ ColumnAt(f, 1) = 0
      BY <1>1, AtFirst
    <3> QED
      BY <2>4, <3>1, <3>2 DEF Ok
  <2> QED
    BY <2>8, <2>9, <2>10
<1>3. P[n0 - 1] + c0 \in 1 .. Len(f)
  BY <1>1
<1>4. Ok(n0, c0)
  <2> HIDE DEF Ok
  <2> QED
    BY <1>2, <1>3
<1> QED
  BY <1>4

(* Lines with an end each are a text laid out in those lines.              *)
LEMMA LinesLaid ==
  ASSUME NEW N \in Nat, NEW u \in [1 .. N -> Seq({SP} \cup Graphic)], NEW t,
         t = FlattenSeq([n \in 1 .. N |-> u[n] \o <<LF>>])
  PROVE  \E P : Laid(t, u, P, N) /\ Len(t) = P[N]
<1> DEFINE ss == [n \in 1 .. N |-> u[n] \o <<LF>>]
<1>1. <<LF>> \in Seq(Byte) /\ Len(<<LF>>) = 1 /\ <<LF>>[1] = LF
  BY DEF Byte
<1>2. ASSUME NEW n \in 1 .. N
      PROVE  /\ u[n] \in Seq({SP} \cup Graphic) /\ Len(u[n]) \in Nat
             /\ ss[n] \in Seq(Byte) /\ Len(ss[n]) = Len(u[n]) + 1
             /\ \A c \in 1 .. Len(u[n]) + 1 :
                  ss[n][c] = IF c <= Len(u[n]) THEN u[n][c] ELSE LF
  <2>1. u[n] \in Seq({SP} \cup Graphic) /\ Len(u[n]) \in Nat
    BY LenProperties
  <2>2. u[n] \in Seq(Byte)
    <3>1. \A c \in 1 .. Len(u[n]) : u[n][c] \in Byte
      BY <2>1, ElementOfSeq DEF Byte
    <3>2. u[n] \in [1 .. Len(u[n]) -> Byte]
      BY <2>1, <3>1, LenProperties
    <3> QED
      BY <2>1, <3>2, FunctionIsSeq
  <2>3. /\ u[n] \o <<LF>> \in Seq(Byte) /\ Len(u[n] \o <<LF>>) = Len(u[n]) + 1
        /\ \A c \in 1 .. Len(u[n]) + 1 :
             (u[n] \o <<LF>>)[c] = IF c <= Len(u[n]) THEN u[n][c] ELSE <<LF>>[c - Len(u[n])]
    BY <1>1, <2>2, ConcatProperties
  <2>4. \A c \in 1 .. Len(u[n]) + 1 : ~(c <= Len(u[n])) => c - Len(u[n]) = 1
    BY <2>1
  <2>5. \A c \in 1 .. Len(u[n]) + 1 :
          (u[n] \o <<LF>>)[c] = IF c <= Len(u[n]) THEN u[n][c] ELSE LF
    BY <1>1, <2>3, <2>4
  <2>6. ss[n] = u[n] \o <<LF>>
    OBVIOUS
  <2> QED
    BY <2>1, <2>3, <2>5, <2>6
<1>3. ss = [n \in 1 .. N |-> ss[n]] /\ t = FlattenSeq(ss)
  OBVIOUS
<1> HIDE DEF ss
<1>4. ss \in [1 .. N -> Seq(Byte)]
  BY <1>2, <1>3
<1>5. PICK P : Located(t, ss, P, N)
  BY <1>3, <1>4, JoinedAt
<1>6. t \in Seq(Byte) /\ Len(t) \in Nat
  BY <1>3, <1>4, Joined, LenProperties
<1>7. /\ P[0] = 0 /\ \A n \in 0 .. N : P[n] \in Nat
      /\ \A n \in 1 .. N : P[n] = P[n - 1] + Len(u[n]) + 1
  <2>1. P[0] = 0 /\ (\A n \in 0 .. N : P[n] \in Nat) /\ \A n \in 1 .. N : P[n] = P[n - 1] + Len(ss[n])
    BY <1>5 DEF Located
  <2>2. ASSUME NEW n \in 1 .. N PROVE P[n] = P[n - 1] + Len(u[n]) + 1
    <3>1. n - 1 \in 0 .. N
      OBVIOUS
    <3>2. P[n - 1] \in Nat /\ Len(ss[n]) = Len(u[n]) + 1 /\ Len(u[n]) \in Nat
          /\ P[n] = P[n - 1] + Len(ss[n])
      BY <1>2, <2>1, <3>1
    <3> QED
      BY <3>2
  <2> QED
    BY <2>1, <2>2
<1>8. ASSUME NEW n \in 1 .. N, NEW c \in 1 .. Len(u[n]) + 1
      PROVE  t[P[n - 1] + c] = IF c <= Len(u[n]) THEN u[n][c] ELSE LF
  <2>1. c \in 1 .. Len(ss[n]) /\ ss[n][c] = IF c <= Len(u[n]) THEN u[n][c] ELSE LF
    BY <1>2
  <2> QED
    BY <1>5, <2>1 DEF Located
<1>9. Len(t) <= P[N] /\ Len(t) = P[N]
  <2>1. Len(t) = P[N]
    BY <1>5 DEF Located
  <2> QED
    BY <1>6, <2>1
<1>10. Laid(t, u, P, N)
  BY <1>2, <1>6, <1>7, <1>8, <1>9 DEF Laid
<1> QED
  BY <1>9, <1>10

(* Nothing of the lines is missing in a text of full length.               *)
LEMMA LaidAt ==
  ASSUME NEW t, NEW u, NEW P, NEW N \in Nat, Laid(t, u, P, N), Len(t) = P[N],
         NEW n \in 1 .. N, NEW c \in 1 .. Len(u[n])
  PROVE  P[n - 1] + c \in 1 .. Len(t) /\ t[P[n - 1] + c] = u[n][c]
<1>1. /\ \A h \in 0 .. N : P[h] \in Nat
      /\ \A h \in 1 .. N : P[h] = P[h - 1] + Len(u[h]) + 1 /\ Len(u[h]) \in Nat
  BY LenProperties DEF Laid
<1>2. ASSUME NEW h \in 1 .. N PROVE P[h - 1] <= P[h]
  <2>1. h - 1 \in 0 .. N
    OBVIOUS
  <2>2. P[h] = P[h - 1] + Len(u[h]) + 1 /\ Len(u[h]) \in Nat /\ P[h - 1] \in Nat
    BY <1>1, <2>1
  <2> QED
    BY <2>2
<1>3. n \in 0 .. N /\ N \in n .. N /\ n - 1 \in 0 .. N
  OBVIOUS
<1>4. P[n] <= P[N]
  BY <1>1, <1>2, <1>3, Rising
<1>5. /\ P[n] = P[n - 1] + Len(u[n]) + 1 /\ Len(u[n]) \in Nat /\ P[n - 1] \in Nat
      /\ P[N] \in Nat
  BY <1>1, <1>3
<1>6. P[n - 1] + c \in 1 .. Len(t) /\ P[n - 1] + c <= Len(t) /\ c \in 1 .. Len(u[n]) + 1
      /\ c <= Len(u[n])
  BY <1>4, <1>5
<1>7. t[P[n - 1] + c] = u[n][c]
  BY <1>6 DEF Laid
<1> QED
  BY <1>6, <1>7

(* It still is when its end is cut off.                                    *)
LEMMA CutLaid ==
  ASSUME NEW t, NEW u, NEW P, NEW N \in Nat, Laid(t, u, P, N),
         NEW f \in Seq(Byte), Len(f) \in 0 .. Len(t), \A j \in 1 .. Len(f) : f[j] = t[j]
  PROVE  Laid(f, u, P, N)
<1>1. /\ t \in Seq(Byte) /\ Len(t) \in Nat /\ P[0] = 0 /\ P[N] \in Nat /\ Len(t) <= P[N]
      /\ \A n \in 0 .. N : P[n] \in Nat
      /\ \A n \in 1 .. N : /\ u[n] \in Seq({SP} \cup Graphic)
                           /\ P[n] = P[n - 1] + Len(u[n]) + 1
  BY LenProperties DEF Laid
<1>2. ASSUME NEW n \in 1 .. N, NEW c \in 1 .. Len(u[n]) + 1, P[n - 1] + c <= Len(f)
      PROVE  f[P[n - 1] + c] = IF c <= Len(u[n]) THEN u[n][c] ELSE LF
  <2>1. n - 1 \in 0 .. N
    OBVIOUS
  <2>2. P[n - 1] \in Nat /\ c \in Nat /\ c >= 1
    BY <1>1, <2>1
  <2>3. P[n - 1] + c \in 1 .. Len(f) /\ P[n - 1] + c <= Len(t)
    <3>1. Len(f) \in Nat /\ Len(t) \in Nat /\ Len(f) <= Len(t)
      BY <1>1
    <3> QED
      BY <1>2, <2>2, <3>1
  <2>4. t[P[n - 1] + c] = IF c <= Len(u[n]) THEN u[n][c] ELSE LF
    BY <2>3 DEF Laid
  <2> QED
    BY <2>3, <2>4
<1>3. Len(f) <= P[N]
  BY <1>1
<1> QED
  BY <1>1, <1>2, <1>3 DEF Laid

(* The cells of an area that hold something.                               *)
UsedIn(at, wanted) == {p \in Area(at, wanted) : Get(p) # SP}

(* An area is read back from f cell by cell.                               *)
ReadsAs(f, at, wanted) ==
  LET again == Placed(f, at, FALSE)
  IN  /\ Range(again) = UsedIn(at, wanted)
      /\ \A j \in DOMAIN again : f[j] = Get(again[j])

(* The lines show the area, but for spaces at their ends.                  *)
Shows(u, at, wanted) ==
  \A n \in 1 .. wanted[2] :
    /\ Len(u[n]) \in 0 .. wanted[1]
    /\ \A c \in 1 .. wanted[1] :
         Get(<<at[1] + c - 1, at[2] + n - 1>>) = IF c <= Len(u[n]) THEN u[n][c] ELSE SP

(* A text that shows an area and was cut off after its last character is   *)
(* read back to where it came from.                                        *)
LEMMA ReadBack ==
  ASSUME ByteAssumption, NEW at \in Int \X Int, NEW wanted \in Int \X Int,
         wanted[1] >= 1, wanted[2] >= 1,
         NEW f, NEW u, NEW P, Laid(f, u, P, wanted[2]), Shows(u, at, wanted),
         \A n \in 1 .. wanted[2] : \A c \in 1 .. Len(u[n]) :
           u[n][c] # SP => P[n - 1] + c <= Len(f)
  PROVE  ReadsAs(f, at, wanted)
<1> DEFINE again == Placed(f, at, FALSE)
           W == wanted[1]
           H == wanted[2]
           x == at[1]
           y == at[2]
           Spot(n, c) == <<x + c - 1, y + n - 1>>
<1>1. /\ f \in Seq(Byte) /\ DOMAIN f = 1 .. Len(f) /\ Len(f) \in Nat
      /\ W \in Nat /\ H \in Nat /\ x \in Int /\ y \in Int
  BY LineEndsOf DEF Laid
<1>2. DOMAIN again = {j \in 1 .. Len(f) : f[j] # SP /\ f[j] \notin {LF, CR, FF}}
  BY <1>1 DEF Placed, Visible, Occupies
<1>3. \A j \in DOMAIN again : again[j] = <<x + ColumnAt(f, j), y + RowAt(f, j)>>
  BY DEF Placed, Belongs, Plus
<1>4. Area(at, wanted) = (x .. x + W - 1) \X (y .. y + H - 1)
  BY DEF Area
<1>5. at = <<x, y>> /\ Laid(f, u, P, H) /\ Shows(u, at, wanted)
  BY <1>1
<1> HIDE DEF again, W, H, x, y
<1>6. ASSUME NEW n \in 1 .. H
      PROVE  /\ u[n] \in Seq({SP} \cup Graphic) /\ Len(u[n]) \in Nat /\ Len(u[n]) <= W
             /\ \A c \in 1 .. W : Get(Spot(n, c)) = IF c <= Len(u[n]) THEN u[n][c] ELSE SP
  BY <1>1, <1>5, LenProperties DEF Laid, Shows, W, H, x, y
<1>7. ASSUME NEW n \in 1 .. H, NEW c \in 1 .. Len(u[n]), u[n][c] # SP
      PROVE  /\ P[n - 1] + c \in DOMAIN again /\ again[P[n - 1] + c] = Spot(n, c)
             /\ f[P[n - 1] + c] = Get(Spot(n, c))
  <2>1. /\ P[n - 1] \in Nat /\ Len(u[n]) \in Nat /\ P[n - 1] + c <= Len(f)
        /\ c \in 1 .. Len(u[n]) + 1 /\ c <= Len(u[n])
    <3>1. n - 1 \in 0 .. H
      BY <1>1
    <3>2. P[n - 1] \in Nat
      BY <1>5, <3>1 DEF Laid
    <3> QED
      BY <1>6, <1>7, <3>2 DEF H
  <2>2. f[P[n - 1] + c] = u[n][c] /\ P[n - 1] + c \in 1 .. Len(f)
    <3>1. f[P[n - 1] + c] = u[n][c]
      BY <1>5, <2>1 DEF Laid
    <3> QED
      BY <1>1, <2>1, <3>1
  <2>3. u[n][c] \in Graphic
    BY <1>6, <1>7, ElementOfSeq
  <2>4. P[n - 1] + c \in DOMAIN again
    BY <1>2, <1>7, <2>2, <2>3 DEF ByteAssumption
  <2>5. RowAt(f, P[n - 1] + c) = n - 1 /\ ColumnAt(f, P[n - 1] + c) = c - 1
    BY <1>1, <1>5, <2>1, LaidOut, SMTT(30)
  <2>6. again[P[n - 1] + c] = <<x + (c - 1), y + (n - 1)>>
    BY <1>3, <2>4, <2>5
  <2>7. x + (c - 1) = x + c - 1 /\ y + (n - 1) = y + n - 1
    BY <1>1, <2>1
  <2>8. c \in 1 .. W
    <3>1. \A k \in Nat : c \in 1 .. k /\ k <= W => c \in 1 .. W
      BY <1>1
    <3> QED
      BY <1>6, <3>1
  <2> QED
    BY <1>6, <2>2, <2>1, <2>4, <2>6, <2>7, <2>8
<1>8. ASSUME NEW j \in DOMAIN again
      PROVE  \E n \in 1 .. H : \E c \in 1 .. Len(u[n]) : j = P[n - 1] + c /\ u[n][c] # SP
  <2>1. j \in 1 .. Len(f) /\ f[j] # SP /\ f[j] # LF
    BY <1>2
  <2>2. PICK n \in 1 .. H : \E c \in 1 .. Len(u[n]) + 1 : j = P[n - 1] + c
    <3>1. Within(u, P, H, j)
      BY <1>1, <1>5, <2>1, LineOf
    <3> QED
      BY <3>1 DEF Within
  <2>3. PICK c \in 1 .. Len(u[n]) + 1 : j = P[n - 1] + c
    BY <2>2
  <2>4. f[j] = IF c <= Len(u[n]) THEN u[n][c] ELSE LF
    <3>1. P[n - 1] + c <= Len(f)
      BY <1>1, <2>1, <2>3
    <3> QED
      BY <1>5, <2>3, <3>1 DEF Laid
  <2>5. c \in 1 .. Len(u[n]) /\ u[n][c] # SP
    BY <1>6, <2>1, <2>4
  <2> QED
    BY <2>3, <2>5
<1>9. ASSUME NEW j \in DOMAIN again
      PROVE  again[j] \in UsedIn(at, wanted) /\ f[j] = Get(again[j])
  <2>1. PICK n \in 1 .. H : \E c \in 1 .. Len(u[n]) : j = P[n - 1] + c /\ u[n][c] # SP
    BY <1>8
  <2>2. PICK c \in 1 .. Len(u[n]) : j = P[n - 1] + c /\ u[n][c] # SP
    BY <2>1
  <2>3. again[j] = Spot(n, c) /\ f[j] = Get(Spot(n, c))
    BY <1>7, <2>2
  <2>4. f[j] # SP
    BY <1>2
  <2>5. Spot(n, c) \in Area(at, wanted)
    <3>0. \A k \in Nat : c \in 1 .. k /\ k <= W => c \in 1 .. W
      BY <1>1
    <3>1. c \in 1 .. W
      BY <1>6, <3>0
    <3> QED
      BY <1>1, <1>4, <3>1
  <2> QED
    BY <2>3, <2>4, <2>5 DEF UsedIn
<1>10. ASSUME NEW p \in UsedIn(at, wanted) PROVE p \in Range(again)
  <2>1. p \in Area(at, wanted) /\ Get(p) # SP
    BY DEF UsedIn
  <2>2. PICK n \in 1 .. H, c \in 1 .. W : p = Spot(n, c)
    <3>1. p = <<p[1], p[2]>> /\ p[1] \in x .. x + W - 1 /\ p[2] \in y .. y + H - 1
      BY <1>4, <2>1
    <3>2. /\ p[1] - x + 1 \in 1 .. W /\ p[2] - y + 1 \in 1 .. H
          /\ x + (p[1] - x + 1) - 1 = p[1] /\ y + (p[2] - y + 1) - 1 = p[2]
      <4>1. \A q, k \in Int : \A m \in Nat : q \in k .. k + m - 1 =>
              q - k + 1 \in 1 .. m /\ k + (q - k + 1) - 1 = q
        OBVIOUS
      <4> QED
        BY <1>1, <3>1, <4>1
    <3> QED
      BY <3>1, <3>2
  <2>3. c \in 1 .. Len(u[n]) /\ u[n][c] # SP
    BY <1>6, <2>1, <2>2
  <2>4. P[n - 1] + c \in DOMAIN again /\ again[P[n - 1] + c] = p
    BY <1>7, <2>2, <2>3
  <2> QED
    BY <2>4 DEF Range
<1>11. Range(again) \subseteq UsedIn(at, wanted)
  BY <1>9 DEF Range
<1> QED
  BY <1>9, <1>10, <1>11 DEF again, ReadsAs

(* An area of characters that do not end lines is a text for each of its   *)
(* rows, which a conversion to bytes does not change.                      *)
LEMMA RowsAreTexts ==
  ASSUME ByteAssumption, NEW at \in Int \X Int, NEW wanted \in Int \X Int,
         wanted[1] >= 1, wanted[2] >= 1,
         \A p \in UsedIn(at, wanted) : Get(p) \in Graphic
  PROVE  /\ \A s \in Seq({SP} \cup Graphic) : BytesOf(s) = s
         /\ \A n \in 1 .. wanted[2] :
              LET row == RowOf(at, wanted, at[2] + n - 1)
              IN  /\ row \in Seq({SP} \cup Graphic) /\ Len(row) = wanted[1]
                  /\ \A c \in 1 .. wanted[1] : row[c] = Get(<<at[1] + c - 1, at[2] + n - 1>>)
<1>1. ASSUME NEW s \in Seq({SP} \cup Graphic) PROVE BytesOf(s) = s
  <2>1. Len(s) \in Nat /\ DOMAIN s = 1 .. Len(s) /\ s = [n \in 1 .. Len(s) |-> s[n]]
    BY LenProperties
  <2>2. \A n \in 1 .. Len(s) : s[n] \in {SP} \cup Graphic
    BY ElementOfSeq
  <2>3. \A n \in 1 .. Len(s) : ByteOf(s[n]) = s[n]
    BY <2>2 DEF ByteOf, ByteAssumption
  <2>4. BytesOf(s) = [n \in 1 .. Len(s) |-> ByteOf(s[n])]
    BY <2>1 DEF BytesOf
  <2>5. [n \in 1 .. Len(s) |-> ByteOf(s[n])] = [n \in 1 .. Len(s) |-> s[n]]
    BY <2>3
  <2> QED
    BY ONLY <2>1, <2>4, <2>5
<1>2. ASSUME NEW n \in 1 .. wanted[2]
      PROVE  LET row == RowOf(at, wanted, at[2] + n - 1)
             IN  /\ row \in Seq({SP} \cup Graphic) /\ Len(row) = wanted[1]
                 /\ \A c \in 1 .. wanted[1] : row[c] = Get(<<at[1] + c - 1, at[2] + n - 1>>)
  <2> DEFINE y == at[2] + n - 1
             row == RowOf(at, wanted, y)
  <2>1. ASSUME NEW c \in 1 .. wanted[1] PROVE Get(<<at[1] + c - 1, y>>) \in {SP} \cup Graphic
    <3>1. <<at[1] + c - 1, y>> \in Area(at, wanted)
      BY DEF Area
    <3> QED
      BY <3>1 DEF UsedIn
  <2>2. row = [c \in 1 .. wanted[1] |-> Get(<<at[1] + c - 1, y>>)]
    BY DEF RowOf
  <2> HIDE DEF row, y
  <2>3. row \in [1 .. wanted[1] -> {SP} \cup Graphic] /\ wanted[1] \in Nat
    BY <2>1, <2>2
  <2>4. row \in Seq({SP} \cup Graphic) /\ Len(row) = wanted[1]
    BY <2>3, FunctionIsSeq
  <2>5. \A c \in 1 .. wanted[1] : row[c] = Get(<<at[1] + c - 1, y>>)
    BY <2>2
  <2> QED
    BY <2>4, <2>5 DEF row, y
<1> QED
  BY <1>1, <1>2

(* What o writes of such an area is read back, as a text or not; a text    *)
(* of one cell at its very beginning is the exception.                     *)
LEMMA WrittenReadBack ==
  ASSUME ByteAssumption, NEW at \in Int \X Int, NEW wanted \in Int \X Int,
         wanted[1] >= 1, wanted[2] >= 1, NEW textfile \in BOOLEAN,
         \A p \in UsedIn(at, wanted) : Get(p) \in Graphic,
         ~(textfile /\ UsedIn(at, wanted) = {at})
  PROVE  ReadsAs(Written(at, wanted, textfile), at, wanted)
<1> DEFINE H == wanted[2]
           Row(n) == RowOf(at, wanted, at[2] + n - 1)
<1>1. H \in Nat /\ wanted[1] \in Nat
  OBVIOUS
<1>2. \A s \in Seq({SP} \cup Graphic) : BytesOf(s) = s
  BY RowsAreTexts
<1>3. ASSUME NEW n \in 1 .. H
      PROVE  /\ Row(n) \in Seq({SP} \cup Graphic) /\ Len(Row(n)) = wanted[1]
             /\ \A c \in 1 .. wanted[1] : Row(n)[c] = Get(<<at[1] + c - 1, at[2] + n - 1>>)
  BY RowsAreTexts
<1> HIDE DEF Row
<1>4. CASE ~textfile
  <2> DEFINE u == [n \in 1 .. H |-> Row(n)]
             t == FlattenSeq([n \in 1 .. H |-> u[n] \o <<LF>>])
  <2>1. u \in [1 .. H -> Seq({SP} \cup Graphic)] /\ \A n \in 1 .. H : u[n] = Row(n)
    BY <1>3
  <2>2. Written(at, wanted, textfile) = t
    <3>1. \A n \in 1 .. H : BytesOf(Row(n)) \o <<LF>> = u[n] \o <<LF>>
      BY <1>2, <1>3
    <3>2. [n \in 1 .. H |-> BytesOf(Row(n)) \o <<LF>>] = [n \in 1 .. H |-> u[n] \o <<LF>>]
      BY <3>1
    <3>3. BinaryLines(at, wanted) = FlattenSeq([n \in 1 .. H |-> BytesOf(Row(n)) \o <<LF>>])
      BY DEF BinaryLines, Row
    <3> QED
      BY <1>4, <3>2, <3>3 DEF Written
  <2> HIDE DEF u
  <2>3. PICK P : Laid(t, u, P, H) /\ Len(t) = P[H]
    <3> HIDE DEF H
    <3> QED
      BY <1>1, <2>1, LinesLaid
  <2> HIDE DEF t
  <2>4. Shows(u, at, wanted)
    BY <1>1, <1>3, <2>1 DEF Shows
  <2>5. ASSUME NEW n \in 1 .. H, NEW c \in 1 .. Len(u[n]) PROVE P[n - 1] + c <= Len(t)
    <3>1. P[n - 1] + c \in 1 .. Len(t)
      BY <1>1, <2>3, LaidAt
    <3>2. Len(t) \in Nat
      BY <2>3, LenProperties DEF Laid
    <3> QED
      BY <3>1, <3>2
  <2>6. ReadsAs(t, at, wanted)
    BY <2>3, <2>4, <2>5, ReadBack
  <2> QED
    BY <2>2, <2>6
<1>5. CASE textfile
  <2> DEFINE u == [n \in 1 .. H |-> Stripped(Row(n), SP)]
             t == FlattenSeq([n \in 1 .. H |-> u[n] \o <<LF>>])
             f == Stripped(t, LF)
  <2>1. ASSUME NEW n \in 1 .. H
        PROVE  /\ u[n] \in Seq({SP} \cup Graphic) /\ Len(u[n]) \in 0 .. wanted[1]
               /\ \A c \in 1 .. wanted[1] :
                    Get(<<at[1] + c - 1, at[2] + n - 1>>) = IF c <= Len(u[n]) THEN u[n][c] ELSE SP
    <3> DEFINE s == Row(n)
    <3>1. s \in Seq({SP} \cup Graphic) /\ Len(s) = wanted[1]
          /\ \A c \in 1 .. wanted[1] : s[c] = Get(<<at[1] + c - 1, at[2] + n - 1>>)
      BY <1>3
    <3>2. u[n] = Stripped(s, SP)
      OBVIOUS
    <3> HIDE DEF s, u
    <3>3. /\ u[n] \in Seq({SP} \cup Graphic) /\ Len(u[n]) \in 0 .. wanted[1]
          /\ \A c \in 1 .. Len(u[n]) : u[n][c] = s[c]
          /\ \A c \in 1 .. wanted[1] : c \notin 1 .. Len(u[n]) => s[c] = SP
      BY <3>1, <3>2, StrippedIs
    <3>4. \A c \in 1 .. wanted[1] : c \in 1 .. Len(u[n]) <=> c <= Len(u[n])
      BY <1>1, <3>3
    <3> QED
      BY <3>1, <3>3, <3>4
  <2>2. u \in [1 .. H -> Seq({SP} \cup Graphic)]
    BY <2>1
  <2>3. TextLines(at, wanted) = t
    <3>1. \A n \in 1 .. H : BytesOf(Stripped(Row(n), SP)) \o <<LF>> = u[n] \o <<LF>>
      BY <1>2, <2>1
    <3>2. [n \in 1 .. H |-> BytesOf(Stripped(Row(n), SP)) \o <<LF>>]
            = [n \in 1 .. H |-> u[n] \o <<LF>>]
      BY <3>1
    <3>3. TextLines(at, wanted)
            = FlattenSeq([n \in 1 .. H |-> BytesOf(Stripped(Row(n), SP)) \o <<LF>>])
      BY DEF TextLines, Row
    <3> QED
      BY <3>2, <3>3
  <2> HIDE DEF u
  <2>4. PICK P : Laid(t, u, P, H) /\ Len(t) = P[H]
    <3> HIDE DEF H
    <3> QED
      BY <1>1, <2>2, LinesLaid
  <2> HIDE DEF t
  <2>5. t \in Seq(Byte) /\ Len(t) \in Nat
    BY <2>4, LenProperties DEF Laid
  <2>6. /\ f \in Seq(Byte) /\ Len(f) \in 0 .. Len(t)
        /\ \A n \in 1 .. Len(f) : f[n] = t[n]
        /\ \A n \in 1 .. Len(t) : n \notin 1 .. Len(f) => t[n] = LF
    BY <2>5, StrippedIs
  <2> HIDE DEF f
  <2>7. Laid(f, u, P, H)
    BY <1>1, <2>4, <2>6, CutLaid
  <2>8. Shows(u, at, wanted)
    BY <2>1 DEF Shows
  <2>9. ASSUME NEW n \in 1 .. H, NEW c \in 1 .. Len(u[n]) PROVE P[n - 1] + c <= Len(f)
    <3>1. P[n - 1] + c \in 1 .. Len(t) /\ t[P[n - 1] + c] = u[n][c]
      BY <1>1, <2>4, LaidAt
    <3>2. u[n][c] # LF
      <4>1. u[n][c] \in {SP} \cup Graphic
        BY <2>1, ElementOfSeq
      <4> QED
        BY <4>1 DEF ByteAssumption
    <3>3. P[n - 1] + c \in 1 .. Len(f)
      BY <2>6, <3>1, <3>2
    <3> QED
      BY <2>5, <2>6, <3>3
  <2>10. ReadsAs(f, at, wanted)
    BY <2>7, <2>8, <2>9, ReadBack
  <2>11. CASE Len(f) > 1
    BY <1>5, <2>3, <2>10, <2>11 DEF Written, f
  <2>12. CASE ~(Len(f) > 1)
    <3> DEFINE again == Placed(f, at, FALSE)
    <3>1. Written(at, wanted, textfile) = <<>>
      BY <1>5, <2>3, <2>12 DEF Written, f
    <3>2. DOMAIN again \subseteq 1 .. Len(f) /\ 1 .. Len(f) \subseteq {1}
      BY <2>5, <2>6, <2>12, LineEndsOf DEF Placed, Visible
    <3>3. 1 \in DOMAIN again => again[1] = at
      <4>1. RowAt(f, 1) = 0 /\ ColumnAt(f, 1) = 0
        BY <2>6, AtFirst
      <4>2. 1 \in DOMAIN again => again[1] = <<at[1] + 0, at[2] + 0>>
        BY <4>1 DEF Placed, Belongs, Plus
      <4>3. <<at[1] + 0, at[2] + 0>> = at
        OBVIOUS
      <4> QED
        BY <4>2, <4>3
    <3>4. UsedIn(at, wanted) = Range(again)
      BY <2>10 DEF ReadsAs
    <3> HIDE DEF again
    <3>5. Range(again) \subseteq {at}
      BY <3>2, <3>3 DEF Range
    <3>6. UsedIn(at, wanted) = {}
      BY <1>5, <3>4, <3>5
    <3>7. DOMAIN Placed(<<>>, at, FALSE) = {}
      BY DEF Placed, Visible
    <3>8. ReadsAs(<<>>, at, wanted)
      BY <3>6, <3>7 DEF ReadsAs, Range
    <3> QED
      BY <3>1, <3>8
  <2> QED
    BY <2>11, <2>12
<1> QED
  BY <1>4, <1>5

(* What o saves comes back.                                                *)
LEMMA OutputSaves ==
  ASSUME Assumptions, NEW textfile \in BOOLEAN, NEW popped \in Offsets, NEW wanted \in Sizes,
         Output(textfile, popped, wanted)
  PROVE  SavedComesBack'
<1> DEFINE at == Plus(popped, StorageOffset)
<1>1. /\ at \in Int \X Int /\ wanted \in Int \X Int /\ wanted[1] >= 1 /\ wanted[2] >= 1
      /\ ByteAssumption
  BY DEF Output, Plus, Assumptions, CallAssumption
<1>2. /\ file' = Written(at, wanted, textfile)
      /\ saved' = [at |-> at, size |-> wanted, textfile |-> textfile,
                   cells |-> [p \in Area(at, wanted) |-> Get(p)]]
  BY DEF Output
<1> HIDE DEF at
<1> DEFINE used == {p \in DOMAIN saved'.cells : saved'.cells[p] # SP}
           again == Placed(file', saved'.at, FALSE)
<1>3. /\ saved'.at = at /\ saved'.textfile = textfile
      /\ DOMAIN saved'.cells = Area(at, wanted)
      /\ \A p \in Area(at, wanted) : saved'.cells[p] = Get(p)
  BY <1>2
<1>4. used = UsedIn(at, wanted)
  BY <1>3 DEF UsedIn
<1>5. \A p \in UsedIn(at, wanted) : saved'.cells[p] = Get(p)
  BY <1>3 DEF UsedIn
<1> HIDE DEF used
<1>6. ASSUME \A p \in used : saved'.cells[p] \in Graphic,
             ~(saved'.textfile /\ used = {saved'.at})
      PROVE  /\ Range(again) = used
             /\ \A j \in DOMAIN again : file'[j] = saved'.cells[again[j]]
  <2>1. ReadsAs(Written(at, wanted, textfile), at, wanted)
    <3>1. \A p \in UsedIn(at, wanted) : Get(p) \in Graphic
      BY <1>4, <1>5, <1>6
    <3>2. ~(textfile /\ UsedIn(at, wanted) = {at})
      BY <1>3, <1>4, <1>6
    <3> QED
      BY <1>1, <3>1, <3>2, WrittenReadBack
  <2>2. again = Placed(Written(at, wanted, textfile), at, FALSE)
    BY <1>2, <1>3
  <2> HIDE DEF again
  <2>3. /\ Range(again) = UsedIn(at, wanted)
        /\ \A j \in DOMAIN again : file'[j] = Get(again[j])
    BY <1>2, <2>1, <2>2 DEF ReadsAs
  <2>4. \A j \in DOMAIN again : again[j] \in UsedIn(at, wanted)
    BY <2>3 DEF Range
  <2> QED
    BY <1>4, <1>5, <2>3, <2>4
<1> QED
  BY <1>6 DEF SavedComesBack, used

(* Every step keeps what was saved last, or nothing was.                   *)
LEMMA StepsSave ==
  Assumptions /\ FilesInv /\ SavedComesBack /\ [FileNext]_fileVars => SavedComesBack'
<1> SUFFICES ASSUME Assumptions, FilesInv, SavedComesBack, [FileNext]_fileVars
             PROVE  SavedComesBack'
  OBVIOUS
<1>1. CASE InitialChar \/ OffsetChar \/ BinaryChar \/ UNCHANGED fileVars
  <2>1. file' = file /\ outcome' = outcome /\ saved' = saved
    BY <1>1 DEF InitialChar, OffsetChar, BinaryChar, fileVars
  <2> QED
    BY <2>1 DEF SavedComesBack
<1>2. ASSUME outcome' = NULL \/ outcome'.did # "saved" PROVE SavedComesBack'
  BY <1>2 DEF SavedComesBack
<1>3. CASE Loaded
  <2>1. loading \in {"initial", "text", "binary", NULL} /\ loading # NULL
    BY <1>3 DEF Loaded, FilesInv, FilesTypes
  <2>2. outcome' = NULL \/ outcome'.did # "saved"
    BY <1>3, <2>1 DEF Loaded
  <2> QED
    BY <1>2, <2>2
<1>4. CASE InputFails \/ \E textfile \in BOOLEAN, popped \in Offsets, wanted \in Sizes :
                           OutputFails(textfile, popped, wanted)
  <2>1. Reflects
    BY <1>4 DEF InputFails, OutputFails
  <2>2. outcome'.did # "saved"
    BY <2>1 DEF Reflects
  <2> QED
    BY <1>2, <2>2
<1>5. CASE \/ \E binary \in BOOLEAN, popped \in Offsets : Input(binary, popped)
           \/ \E p \in Edited, c \in Cell : Put(p, c)
  <2>1. outcome' = NULL
    BY <1>5 DEF Input, Put
  <2> QED
    BY <1>2, <2>1
<1>6. ASSUME NEW textfile \in BOOLEAN, NEW popped \in Offsets, NEW wanted \in Sizes,
             Output(textfile, popped, wanted)
      PROVE  SavedComesBack'
  BY <1>6, OutputSaves
<1> QED
  BY <1>1, <1>3, <1>4, <1>5, <1>6 DEF FileNext

(* Whatever area of such characters o writes, whatever the program did     *)
(* before, i finds it again cell by cell.                                  *)
THEOREM SavedFilesReadBack == FileSpec => []SavedComesBack
<1>0. Assumptions
  BY FilesAssumption DEF Assumptions
<1>1. FileInit => FilesInv /\ SavedComesBack
  <2>1. FileInit => SavedComesBack
    BY DEF FileInit, SavedComesBack
  <2> QED
    BY <1>0, <2>1, StartsSound
<1>2. FilesInv /\ SavedComesBack /\ [FileNext]_fileVars => (FilesInv /\ SavedComesBack)'
  BY <1>0, StepsSound, StepsSave
<1> QED
  BY <1>1, <1>2, PTL DEF FileSpec
=============================================================================
