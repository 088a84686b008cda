--------------------------- MODULE HashTableProofs ---------------------------
(***************************************************************************)
(* Proofs about the hash tables and their memory pool, for any keys, any   *)
(* hash function and any size of a table and of the pool's arrays: that    *)
(* the lists of a table agree, that every block has one owner, and that    *)
(* the tables implement Dictionary.                                        *)
(***************************************************************************)
EXTENDS HashTable, SequenceTheorems, FiniteSetTheorems, TLAPS

Common == INSTANCE CommonLemmas

-----------------------------------------------------------------------------
(* Linked lists.                                                           *)

(* The list that starts at block b goes along field f through the blocks   *)
(* of s, each of which it meets once, and ends.                            *)
Path(m, s, b, f) ==
  /\ s \in Seq(DOMAIN m)
  /\ \A i, j \in 1 .. Len(s) : s[i] = s[j] => i = j
  /\ b = IF Len(s) = 0 THEN NULL ELSE s[1]
  /\ \A i \in 1 .. Len(s) : m[s[i]][f] = IF i = Len(s) THEN NULL ELSE s[i + 1]

(* Blocks can be counted, and none of them is NULL.                        *)
Blocks(m) == IsFiniteSet(DOMAIN m) /\ NULL \notin DOMAIN m

(* One step of the recursive function of Walk, and g that function.        *)
WalkStep(m, f, g, n) ==
  [e \in DOMAIN m |->
     IF n = 0 THEN <<>>
     ELSE <<e>> \o IF m[e][f] \in DOMAIN m THEN g[n - 1][m[e][f]] ELSE <<>>]
Walks(m, f, g, k) == g = [n \in 0 .. k |-> WalkStep(m, f, g, n)]

(* Walk's recursive function exists.                                       *)
LEMMA WalkExists ==
  ASSUME NEW m, NEW f, NEW k \in Nat
  PROVE  \E g : Walks(m, f, g, k)
<1> DEFINE Bad == {j \in 0 .. k : ~ \E g : Walks(m, f, g, j)}
<1>1. ASSUME Bad # {} PROVE FALSE
  <2>1. Bad \in SUBSET Nat
    OBVIOUS
  <2> HIDE DEF Bad
  <2>2. PICK j \in Bad : \A i \in Bad : j <= i
    BY <1>1, <2>1, Common!Least
  <2>3. j \in Nat /\ \A i \in Nat : i < j => i \notin Bad
    BY <2>1, <2>2
  <2> USE DEF Bad
  <2>4. j \in 0 .. k /\ ~ \E g : Walks(m, f, g, j)
    BY <2>2
  <2>5. CASE j = 0
    <3> DEFINE r == [n \in 0 .. 0 |-> [e \in DOMAIN m |-> <<>>]]
    <3>1. \A n \in 0 .. 0 : r[n] = WalkStep(m, f, r, n)
      BY DEF WalkStep
    <3>2. r = [n \in 0 .. 0 |-> r[n]]
      OBVIOUS
    <3> HIDE DEF r
    <3>3. Walks(m, f, r, 0)
      BY <3>1, <3>2 DEF Walks
    <3> QED
      BY <2>4, <2>5, <3>3
  <2>6. CASE j > 0
    <3>1. j - 1 \in 0 .. k /\ j - 1 \in Nat /\ j - 1 < j
      BY <2>4, <2>6
    <3>2. PICK g : Walks(m, f, g, j - 1)
      BY <2>3, <3>1
    <3> DEFINE r == [n \in 0 .. j |-> IF n = j THEN WalkStep(m, f, g, j) ELSE g[n]]
    <3>3. ASSUME NEW n \in 0 .. j
          PROVE  r[n] = WalkStep(m, f, r, n)
      <4>1. n # 0 => n - 1 \in 0 .. j /\ r[n - 1] = g[n - 1]
        BY <2>4
      <4>2. WalkStep(m, f, r, n) = WalkStep(m, f, g, n)
        <5> HIDE DEF r
        <5> QED
          BY <4>1 DEF WalkStep
      <4>3. CASE n = j
        BY <4>2, <4>3
      <4>4. CASE n # j
        <5>1. n \in 0 .. j - 1
          BY <2>4, <4>4
        <5>2. g[n] = WalkStep(m, f, g, n)
          BY <3>2, <5>1 DEF Walks
        <5> QED
          BY <4>2, <4>4, <5>2
      <4> QED
        BY <4>3, <4>4
    <3>4. r = [n \in 0 .. j |-> r[n]]
      OBVIOUS
    <3> HIDE DEF r
    <3>5. Walks(m, f, r, j)
      BY <3>3, <3>4 DEF Walks
    <3> QED
      BY <2>4, <3>5
  <2> QED
    BY <2>4, <2>5, <2>6
<1> QED
  BY <1>1

(* Walk finds the blocks of a list that meets each of them once.           *)
LEMMA WalkIs ==
  ASSUME NEW m, NEW s, NEW b, NEW f, Blocks(m), Path(m, s, b, f)
  PROVE  Walk(m, b, f) = s
<1> DEFINE K == Cardinality(DOMAIN m) + 1
           g == CHOOSE h : Walks(m, f, h, K)
           Left(i) == [j \in 1 .. Len(s) - i + 1 |-> s[i + j - 1]]
<1>1. /\ s \in Seq(DOMAIN m) /\ Len(s) \in Nat
      /\ \A i, j \in 1 .. Len(s) : s[i] = s[j] => i = j
      /\ b = IF Len(s) = 0 THEN NULL ELSE s[1]
      /\ \A i \in 1 .. Len(s) : m[s[i]][f] = IF i = Len(s) THEN NULL ELSE s[i + 1]
  BY DEF Path
<1>2. K \in Nat /\ Len(s) < K
  <2>1. Cardinality(DOMAIN m) \in Nat
    BY FS_CardinalityType DEF Blocks
  <2>2. s \in [1 .. Len(s) -> DOMAIN m] /\ DOMAIN s = 1 .. Len(s)
    BY <1>1
  <2>3. s \in Injection(1 .. Len(s), DOMAIN m)
    BY <1>1, <2>2 DEF Injection, IsInjective
  <2>4. Cardinality(1 .. Len(s)) <= Cardinality(DOMAIN m)
    BY <2>3, FS_Injection DEF Blocks
  <2>5. Cardinality(1 .. Len(s)) = Len(s)
    <3>1. Cardinality(1 .. Len(s)) = IF 1 > Len(s) THEN 0 ELSE Len(s) - 1 + 1
      BY <1>1, FS_Interval
    <3> QED
      BY <1>1, <3>1
  <2> QED
    BY <1>1, <2>1, <2>4, <2>5
<1> HIDE DEF K
<1>3. Walks(m, f, g, K)
  BY <1>2, WalkExists
<1>4. Walk(m, b, f) = IF b \in DOMAIN m THEN g[K][b] ELSE <<>>
  BY DEF Walk, Walks, WalkStep, K
<1> HIDE DEF g
<1>5. \A n \in 0 .. K : g[n] = WalkStep(m, f, g, n)
  BY <1>3 DEF Walks
<1> DEFINE Bad == {n \in Nat : n <= K /\ \E i \in 1 .. Len(s) :
                                  Len(s) - i + 1 <= n /\ g[n][s[i]] # Left(i)}
<1>6. ASSUME Bad # {} PROVE FALSE
  <2>1. Bad \in SUBSET Nat
    OBVIOUS
  <2> HIDE DEF Bad
  <2>2. PICK n \in Bad : \A k \in Bad : n <= k
    BY <1>6, <2>1, Common!Least
  <2>3. n \in Nat /\ \A k \in Nat : k < n => k \notin Bad
    BY <2>1, <2>2
  <2> USE DEF Bad
  <2>4. n <= K
    BY <2>2
  <2>5. PICK i \in 1 .. Len(s) : Len(s) - i + 1 <= n /\ g[n][s[i]] # Left(i)
    BY <2>2
  <2> HIDE DEF Bad
  <2>6. n # 0 /\ n \in 0 .. K /\ s[i] \in DOMAIN m
    BY <1>1, <2>3, <2>4, <2>5
  <2>7. g[n][s[i]] = <<s[i]>> \o IF m[s[i]][f] \in DOMAIN m THEN g[n - 1][m[s[i]][f]] ELSE <<>>
    <3>1. g[n] = WalkStep(m, f, g, n)
      BY <1>5, <2>6
    <3> QED
      BY <2>6, <3>1 DEF WalkStep
  <2>8. CASE i = Len(s)
    <3>1. m[s[i]][f] \notin DOMAIN m
      BY <1>1, <2>8 DEF Blocks
    <3>2. g[n][s[i]] = <<s[i]>> \o <<>>
      BY <2>7, <3>1
    <3>3. <<s[i]>> \o <<>> = <<s[i]>>
      BY <2>6, ConcatEmptySeq
    <3>4. Left(i) = <<s[i]>>
      BY <1>1, <2>8
    <3> QED
      BY <2>5, <3>2, <3>3, <3>4
  <2>9. CASE i # Len(s)
    <3>1. /\ i + 1 \in 1 .. Len(s) /\ m[s[i]][f] = s[i + 1] /\ s[i + 1] \in DOMAIN m
          /\ n - 1 \in Nat /\ n - 1 < n /\ n - 1 <= K /\ Len(s) - (i + 1) + 1 <= n - 1
      BY <1>1, <1>2, <2>3, <2>4, <2>5, <2>6, <2>9
    <3>2. g[n - 1][s[i + 1]] = Left(i + 1)
      BY <2>3, <3>1 DEF Bad
    <3>3. g[n][s[i]] = <<s[i]>> \o Left(i + 1)
      BY <2>7, <3>1, <3>2
    <3>4. /\ Left(i + 1) \in Seq(DOMAIN m) /\ Len(Left(i + 1)) = Len(s) - i
          /\ \A j \in 1 .. Len(s) - i : Left(i + 1)[j] = s[i + j]
      <4>1. Len(s) - i \in Nat /\ Len(s) - (i + 1) + 1 = Len(s) - i
        BY <1>1
      <4>2. ASSUME NEW j \in 1 .. Len(s) - i
            PROVE  i + 1 + j - 1 = i + j /\ s[i + j] \in DOMAIN m
        <5>1. i + j \in 1 .. Len(s)
          BY <1>1
        <5> QED
          BY <1>1, <5>1
      <4>3. Left(i + 1) = [j \in 1 .. Len(s) - i |-> s[i + j]]
        BY <4>1, <4>2
      <4> DEFINE d == Len(s) - i
                 e == [j \in 1 .. d |-> s[i + j]]
      <4>4. d \in Nat /\ \A j \in 1 .. d : s[i + j] \in DOMAIN m
        BY <4>1, <4>2
      <4> HIDE DEF d
      <4>5. e \in Seq(DOMAIN m) /\ Len(e) = d /\ \A j \in 1 .. d : e[j] = s[i + j]
        BY <4>4
      <4> QED
        BY <4>3, <4>5 DEF d
    <3>5. /\ Left(i) \in Seq(DOMAIN m) /\ Len(Left(i)) = Len(s) - i + 1
          /\ \A j \in 1 .. Len(s) - i + 1 : Left(i)[j] = s[i + j - 1]
      <4>1. Len(s) - i + 1 \in Nat
        BY <1>1
      <4>2. ASSUME NEW j \in 1 .. Len(s) - i + 1
            PROVE  s[i + j - 1] \in DOMAIN m
        <5>1. i + j - 1 \in 1 .. Len(s)
          BY <1>1
        <5> QED
          BY <1>1, <5>1
      <4> QED
        BY <4>1, <4>2
    <3> HIDE DEF Left
    <3> DEFINE u == <<s[i]>>
               r == Left(i + 1)
    <3>6. u \in Seq(DOMAIN m) /\ Len(u) = 1 /\ u[1] = s[i]
      BY <2>6
    <3>7. /\ u \o r \in Seq(DOMAIN m) /\ Len(u \o r) = 1 + (Len(s) - i)
          /\ \A j \in 1 .. 1 + (Len(s) - i) : (u \o r)[j] = IF j <= 1 THEN s[i] ELSE r[j - 1]
      <4>1. r \in Seq(DOMAIN m) /\ Len(r) = Len(s) - i
        BY <3>4
      <4> HIDE DEF u, r
      <4>2. /\ u \o r \in Seq(DOMAIN m) /\ Len(u \o r) = Len(u) + Len(r)
            /\ \A j \in 1 .. Len(u) + Len(r) :
                 (u \o r)[j] = IF j <= Len(u) THEN u[j] ELSE r[j - Len(u)]
        BY <3>6, <4>1, ConcatProperties
      <4> QED
        BY <3>6, <4>1, <4>2
    <3> DEFINE c == u \o r
    <3> HIDE DEF c, u, r
    <3>8. \A j \in 1 .. Len(s) - i + 1 : c[j] = Left(i)[j]
      <4> TAKE j \in 1 .. Len(s) - i + 1
      <4>1. CASE j = 1
        <5>1. 1 \in 1 .. 1 + (Len(s) - i) /\ 1 \in 1 .. Len(s) - i + 1 /\ i + 1 - 1 = i
          BY <1>1
        <5> QED
          BY <3>5, <3>7, <4>1, <5>1 DEF c
      <4>2. CASE j # 1
        <5>1. j - 1 \in 1 .. Len(s) - i /\ i + (j - 1) = i + j - 1 /\ j \in 1 .. 1 + (Len(s) - i)
          BY <1>1, <4>2
        <5>2. c[j] = Left(i + 1)[j - 1]
          BY <3>7, <4>2, <5>1 DEF c, r
        <5> QED
          BY <3>4, <3>5, <5>1, <5>2 DEF r
      <4> QED
        BY <4>1, <4>2
    <3>9. c \in Seq(DOMAIN m) /\ Len(c) = Len(s) - i + 1
      BY <1>1, <3>7 DEF c
    <3>10. c = Left(i)
      BY <3>5, <3>8, <3>9, SeqEqual
    <3> QED
      BY <2>5, <3>3, <3>10 DEF c, u, r
  <2> QED
    BY <2>8, <2>9
<1>7. CASE Len(s) = 0
  BY <1>1, <1>4, <1>7, EmptySeq DEF Blocks
<1>8. CASE Len(s) # 0
  <2>1. 1 \in 1 .. Len(s) /\ Len(s) - 1 + 1 <= K /\ b = s[1] /\ s[1] \in DOMAIN m
    BY <1>1, <1>2, <1>8
  <2>2. g[K][s[1]] = Left(1)
    <3>1. K \in Nat /\ K <= K /\ 1 \in 1 .. Len(s)
      BY <1>2, <2>1
    <3> HIDE DEF Bad
    <3>2. K \notin Bad
      BY <1>6
    <3> USE DEF Bad
    <3>3. ~ \E i \in 1 .. Len(s) : Len(s) - i + 1 <= K /\ g[K][s[i]] # Left(i)
      BY <3>1, <3>2
    <3> HIDE DEF Left
    <3> QED
      BY <2>1, <3>1, <3>3
  <2>3. Left(1) = s
    BY <1>1
  <2> QED
    BY <1>4, <2>1, <2>2, <2>3
<1> QED
  BY <1>7, <1>8

(* A list that nobody touched is the same list.                            *)
LEMMA PathFrame ==
  ASSUME NEW m, NEW n, NEW s, NEW b, NEW f, Path(m, s, b, f),
         \A i \in 1 .. Len(s) : s[i] \in DOMAIN n /\ n[s[i]][f] = m[s[i]][f]
  PROVE  Path(n, s, b, f)
<1>1. s \in Seq(DOMAIN m) /\ Len(s) \in Nat
  BY DEF Path
<1>2. s \in Seq(DOMAIN n)
  BY <1>1
<1> QED
  BY <1>1, <1>2 DEF Path

(* A block put in front, at the end, and taken out.                        *)
First1(e, s)  == [i \in 1 .. Len(s) + 1 |-> IF i = 1 THEN e ELSE s[i - 1]]
Last1(s, e)   == [i \in 1 .. Len(s) + 1 |-> IF i = Len(s) + 1 THEN e ELSE s[i]]
Without(s, k) == [i \in 1 .. Len(s) - 1 |-> IF i < k THEN s[i] ELSE s[i + 1]]

(* What a sequence with one more block is.                                 *)
LEMMA SeqOps ==
  ASSUME NEW S, NEW s \in Seq(S), NEW e \in S
  PROVE  /\ Len(s) \in Nat
         /\ First1(e, s) \in Seq(S) /\ Len(First1(e, s)) = Len(s) + 1
         /\ First1(e, s)[1] = e /\ \A i \in 1 .. Len(s) : First1(e, s)[i + 1] = s[i]
         /\ Last1(s, e) \in Seq(S) /\ Len(Last1(s, e)) = Len(s) + 1
         /\ Last1(s, e)[Len(s) + 1] = e /\ \A i \in 1 .. Len(s) : Last1(s, e)[i] = s[i]
<1>1. Len(s) \in Nat /\ Len(s) + 1 \in Nat /\ \A i \in 1 .. Len(s) : s[i] \in S
  OBVIOUS
<1>2. \A i \in 1 .. Len(s) + 1 : /\ (IF i = 1 THEN e ELSE s[i - 1]) \in S
                                 /\ (IF i = Len(s) + 1 THEN e ELSE s[i]) \in S
  BY <1>1
<1> DEFINE n == Len(s) + 1
<1>3. n \in Nat
  BY <1>1
<1>4. First1(e, s) \in Seq(S) /\ Len(First1(e, s)) = n
  <2>1. First1(e, s) = [i \in 1 .. n |-> IF i = 1 THEN e ELSE s[i - 1]]
    BY DEF First1
  <2> HIDE DEF n
  <2> QED
    BY <1>2, <1>3, <2>1 DEF n
<1>5. Last1(s, e) \in Seq(S) /\ Len(Last1(s, e)) = n
  <2>1. Last1(s, e) = [i \in 1 .. n |-> IF i = n THEN e ELSE s[i]]
    BY DEF Last1
  <2>2. \A i \in 1 .. n : (IF i = n THEN e ELSE s[i]) \in S
    BY <1>2
  <2> HIDE DEF n
  <2> QED
    BY <1>3, <2>1, <2>2
<1>6. First1(e, s)[1] = e /\ Last1(s, e)[Len(s) + 1] = e
  BY <1>1 DEF First1, Last1
<1>7. \A i \in 1 .. Len(s) : First1(e, s)[i + 1] = s[i] /\ Last1(s, e)[i] = s[i]
  BY <1>1 DEF First1, Last1
<1> QED
  BY <1>1, <1>4, <1>5, <1>6, <1>7

(* What a sequence with one block less is.                                 *)
LEMMA WithoutIs ==
  ASSUME NEW S, NEW s \in Seq(S), NEW k \in 1 .. Len(s)
  PROVE  /\ Len(s) \in Nat
         /\ Without(s, k) \in Seq(S) /\ Len(Without(s, k)) = Len(s) - 1
         /\ \A i \in 1 .. Len(s) - 1 : Without(s, k)[i] = IF i < k THEN s[i] ELSE s[i + 1]
<1>1. Len(s) \in Nat /\ Len(s) - 1 \in Nat /\ \A i \in 1 .. Len(s) : s[i] \in S
  OBVIOUS
<1>2. \A i \in 1 .. Len(s) - 1 : (IF i < k THEN s[i] ELSE s[i + 1]) \in S
  BY <1>1
<1> DEFINE n == Len(s) - 1
<1>3. Without(s, k) = [i \in 1 .. n |-> IF i < k THEN s[i] ELSE s[i + 1]]
  BY DEF Without
<1>4. n \in Nat
  BY <1>1
<1> HIDE DEF n
<1>5. Without(s, k) \in Seq(S) /\ Len(Without(s, k)) = n
  BY <1>2, <1>3, <1>4 DEF n
<1> QED
  BY <1>1, <1>3, <1>5 DEF n

(* A block that leads to a list makes a list with it, put in front.        *)
LEMMA PathFirst ==
  ASSUME NEW m, NEW s, NEW b, NEW f, NEW e \in DOMAIN m, Path(m, s, b, f),
         m[e][f] = b, \A i \in 1 .. Len(s) : s[i] # e
  PROVE  Path(m, First1(e, s), e, f)
<1> DEFINE r == First1(e, s)
<1>1. /\ s \in Seq(DOMAIN m) /\ Len(s) \in Nat
      /\ \A i, j \in 1 .. Len(s) : s[i] = s[j] => i = j
      /\ b = IF Len(s) = 0 THEN NULL ELSE s[1]
      /\ \A i \in 1 .. Len(s) : m[s[i]][f] = IF i = Len(s) THEN NULL ELSE s[i + 1]
  BY DEF Path
<1>2. r \in Seq(DOMAIN m) /\ Len(r) = Len(s) + 1 /\ r[1] = e
  BY <1>1, SeqOps
<1>3. \A i \in 1 .. Len(s) : r[i + 1] = s[i]
  BY <1>1, SeqOps
<1> HIDE DEF r
<1>4. \A i \in 1 .. Len(s) + 1 : i = 1 \/ (i - 1 \in 1 .. Len(s) /\ r[i] = s[i - 1])
  <2> TAKE i \in 1 .. Len(s) + 1
  <2>1. i = 1 \/ (i - 1 \in 1 .. Len(s) /\ (i - 1) + 1 = i)
    BY <1>1
  <2>2. i - 1 \in 1 .. Len(s) => r[(i - 1) + 1] = s[i - 1]
    BY <1>3
  <2> QED
    BY <2>1, <2>2
<1>5. \A i, j \in 1 .. Len(r) : r[i] = r[j] => i = j
  BY <1>1, <1>2, <1>4
<1>6. \A i \in 1 .. Len(r) : m[r[i]][f] = IF i = Len(r) THEN NULL ELSE r[i + 1]
  <2> TAKE i \in 1 .. Len(r)
  <2>1. CASE i = 1
    <3>1. CASE Len(s) = 0
      BY <1>1, <1>2, <2>1, <3>1
    <3>2. CASE Len(s) # 0
      <4>1. 1 \in 1 .. Len(s) /\ r[1 + 1] = s[1] /\ i # Len(r)
        BY <1>1, <1>2, <1>3, <2>1, <3>2
      <4> QED
        BY <1>1, <1>2, <2>1, <3>2, <4>1
    <3> QED
      BY <3>1, <3>2
  <2>2. CASE i # 1
    <3>1. i - 1 \in 1 .. Len(s) /\ r[i] = s[i - 1] /\ (i - 1 = Len(s) <=> i = Len(r))
      BY <1>1, <1>2, <1>4, <2>2
    <3>2. i # Len(r) => i \in 1 .. Len(s) /\ r[i + 1] = s[i] /\ (i - 1) + 1 = i
      BY <1>1, <1>2, <1>3
    <3> QED
      BY <1>1, <3>1, <3>2
  <2> QED
    BY <2>1, <2>2
<1> QED
  BY <1>1, <1>2, <1>5, <1>6 DEF Path, r

(* The last block made to lead to one more, which leads nowhere, makes a   *)
(* list one block longer.                                                  *)
LEMMA PathLast ==
  ASSUME NEW m, NEW n, NEW s, NEW b, NEW f, NEW e \in DOMAIN n, Path(m, s, b, f),
         \A i \in 1 .. Len(s) : /\ s[i] # e /\ s[i] \in DOMAIN n
                                /\ n[s[i]][f] = IF i = Len(s) THEN e ELSE m[s[i]][f],
         n[e][f] = NULL
  PROVE  Path(n, Last1(s, e), IF Len(s) = 0 THEN e ELSE b, f)
<1> DEFINE r == Last1(s, e)
<1>1. /\ s \in Seq(DOMAIN m) /\ Len(s) \in Nat
      /\ \A i, j \in 1 .. Len(s) : s[i] = s[j] => i = j
      /\ b = IF Len(s) = 0 THEN NULL ELSE s[1]
      /\ \A i \in 1 .. Len(s) : m[s[i]][f] = IF i = Len(s) THEN NULL ELSE s[i + 1]
  BY DEF Path
<1>2. s \in Seq(DOMAIN n)
  BY <1>1
<1>3. /\ r \in Seq(DOMAIN n) /\ Len(r) = Len(s) + 1 /\ r[Len(s) + 1] = e
      /\ \A i \in 1 .. Len(s) : r[i] = s[i]
  BY <1>2, SeqOps
<1> HIDE DEF r
<1>4. \A i, j \in 1 .. Len(r) : r[i] = r[j] => i = j
  <2>1. \A i \in 1 .. Len(r) : i = Len(s) + 1 \/ i \in 1 .. Len(s)
    BY <1>1, <1>3
  <2> QED
    BY <1>1, <1>3, <2>1
<1>5. (IF Len(s) = 0 THEN e ELSE b) = IF Len(r) = 0 THEN NULL ELSE r[1]
  BY <1>1, <1>3
<1>6. \A i \in 1 .. Len(r) : n[r[i]][f] = IF i = Len(r) THEN NULL ELSE r[i + 1]
  <2> TAKE i \in 1 .. Len(r)
  <2>1. CASE i = Len(s) + 1
    BY <1>3, <2>1
  <2>2. CASE i # Len(s) + 1
    <3>1. i \in 1 .. Len(s) /\ i # Len(r) /\ (i # Len(s) => i + 1 \in 1 .. Len(s))
      BY <1>1, <1>3, <2>2
    <3> QED
      BY <1>1, <1>3, <3>1
  <2> QED
    BY <2>1, <2>2
<1> QED
  BY <1>3, <1>4, <1>5, <1>6 DEF Path, r

(* A list whose k-th block is bypassed is the list without it.             *)
LEMMA PathWithout ==
  ASSUME NEW m, NEW n, NEW s, NEW b, NEW f, Path(m, s, b, f), NEW k \in 1 .. Len(s),
         \A i \in 1 .. Len(s) : i # k =>
           /\ s[i] \in DOMAIN n
           /\ n[s[i]][f] = IF i = k - 1 THEN m[s[k]][f] ELSE m[s[i]][f]
  PROVE  Path(n, Without(s, k), IF k = 1 THEN m[s[1]][f] ELSE b, f)
<1> DEFINE r == Without(s, k)
<1>1. /\ s \in Seq(DOMAIN m) /\ Len(s) \in Nat /\ k \in Nat
      /\ \A i, j \in 1 .. Len(s) : s[i] = s[j] => i = j
      /\ b = IF Len(s) = 0 THEN NULL ELSE s[1]
      /\ \A i \in 1 .. Len(s) : m[s[i]][f] = IF i = Len(s) THEN NULL ELSE s[i + 1]
  BY DEF Path
<1>2. /\ r \in Seq(DOMAIN m) /\ Len(r) = Len(s) - 1
      /\ \A i \in 1 .. Len(s) - 1 : r[i] = IF i < k THEN s[i] ELSE s[i + 1]
  BY <1>1, WithoutIs
<1> HIDE DEF r
<1>3. \A i \in 1 .. Len(s) - 1 :
        /\ i \in 1 .. Len(s) /\ i + 1 \in 1 .. Len(s)
        /\ r[i] = s[IF i < k THEN i ELSE i + 1] /\ (IF i < k THEN i ELSE i + 1) # k
  BY <1>1, <1>2
<1>4. r \in Seq(DOMAIN n)
  <2>1. \A i \in 1 .. Len(r) : r[i] \in DOMAIN n
    BY <1>2, <1>3
  <2> QED
    BY <1>2, <2>1
<1>5. \A i, j \in 1 .. Len(r) : r[i] = r[j] => i = j
  <2> DEFINE At(i) == IF i < k THEN i ELSE i + 1
  <2>1. \A i \in 1 .. Len(s) - 1 : At(i) \in 1 .. Len(s) /\ r[i] = s[At(i)]
    BY <1>3
  <2>2. \A i, j \in 1 .. Len(s) - 1 : At(i) = At(j) => i = j
    BY <1>1
  <2> HIDE DEF At
  <2> QED
    BY <1>1, <1>2, <2>1, <2>2
<1>6. (IF k = 1 THEN m[s[1]][f] ELSE b) = IF Len(r) = 0 THEN NULL ELSE r[1]
  <2>1. Len(s) # 0 /\ 1 \in 1 .. Len(s)
    BY <1>1
  <2>2. CASE Len(r) = 0
    <3>1. Len(s) = 1 /\ k = 1
      <4>1. Len(s) - 1 = 0
        BY <1>2, <2>2
      <4>2. Len(s) = 1
        BY <1>1, <4>1
      <4> QED
        BY <4>2
    <3>2. m[s[1]][f] = NULL
      BY <1>1, <2>1, <3>1
    <3> QED
      BY <2>2, <3>1, <3>2
  <2>3. CASE Len(r) # 0
    <3>1. 1 \in 1 .. Len(s) - 1 /\ Len(s) # 1
      BY <1>1, <1>2, <2>3
    <3>2. k # 1 => 1 < k
      BY <1>1
    <3> QED
      BY <1>1, <1>2, <2>1, <2>3, <3>1, <3>2
  <2> QED
    BY <2>2, <2>3
<1>7. \A i \in 1 .. Len(r) : n[r[i]][f] = IF i = Len(r) THEN NULL ELSE r[i + 1]
  <2> TAKE i \in 1 .. Len(r)
  <2>0. i \in 1 .. Len(s) - 1
    BY <1>2
  <2>1. CASE i = k - 1
    <3>1. i \in 1 .. Len(s) /\ i < k /\ r[i] = s[i] /\ i # k
      BY <1>1, <1>2, <2>0, <2>1
    <3>2. n[r[i]][f] = IF k = Len(s) THEN NULL ELSE s[k + 1]
      BY <1>1, <2>1, <3>1
    <3>3. k = Len(s) <=> i = Len(r)
      BY <1>1, <1>2, <2>1
    <3>4. k # Len(s) => i + 1 \in 1 .. Len(s) - 1 /\ ~(i + 1 < k) /\ (i + 1) + 1 = k + 1
      BY <1>1, <1>2, <2>0, <2>1
    <3>5. k # Len(s) => r[i + 1] = s[k + 1]
      BY <1>2, <3>4
    <3> QED
      BY <3>2, <3>3, <3>5
  <2>2. CASE i < k - 1
    <3>1. /\ i \in 1 .. Len(s) /\ i < k /\ r[i] = s[i] /\ i # k /\ i # Len(s) /\ i # Len(r)
          /\ i + 1 \in 1 .. Len(s) - 1 /\ i + 1 < k
      BY <1>1, <1>2, <2>0, <2>2
    <3>2. n[r[i]][f] = s[i + 1]
      BY <1>1, <2>2, <3>1
    <3>3. r[i + 1] = s[i + 1]
      BY <1>2, <3>1
    <3> QED
      BY <3>1, <3>2, <3>3
  <2>3. CASE i >= k
    <3>1. /\ i + 1 \in 1 .. Len(s) /\ ~(i < k) /\ r[i] = s[i + 1] /\ i + 1 # k /\ i + 1 # k - 1
          /\ (i + 1 = Len(s) <=> i = Len(r))
      BY <1>1, <1>2, <2>0, <2>3
    <3>2. n[r[i]][f] = IF i + 1 = Len(s) THEN NULL ELSE s[(i + 1) + 1]
      BY <1>1, <3>1
    <3>3. i + 1 # Len(s) => i + 1 \in 1 .. Len(s) - 1 /\ ~(i + 1 < k)
      BY <1>1, <2>0, <2>3
    <3>4. i + 1 # Len(s) => r[i + 1] = s[(i + 1) + 1]
      BY <1>2, <3>3
    <3> QED
      BY <3>1, <3>2, <3>4
  <2>4. i = k - 1 \/ i < k - 1 \/ i >= k
    BY <1>1, <2>0
  <2> QED
    BY <2>1, <2>2, <2>3, <2>4
<1> QED
  BY <1>2, <1>4, <1>5, <1>6, <1>7 DEF Path, r

(* The list without its first block.                                       *)
Rest1(s) == [i \in 1 .. Len(s) - 1 |-> s[i + 1]]

(* What follows the first block of a list is a list.                       *)
LEMMA PathRest ==
  ASSUME NEW m, NEW s, NEW b, NEW f, Path(m, s, b, f), Len(s) # 0
  PROVE  /\ Path(m, Rest1(s), m[b][f], f)
         /\ b = s[1] /\ Len(Rest1(s)) = Len(s) - 1
         /\ \A i \in 1 .. Len(s) - 1 : Rest1(s)[i] = s[i + 1]
<1>1. s \in Seq(DOMAIN m) /\ Len(s) \in Nat /\ 1 \in 1 .. Len(s) /\ b = s[1]
  BY DEF Path
<1>2. /\ Without(s, 1) \in Seq(DOMAIN m) /\ Len(Without(s, 1)) = Len(s) - 1
      /\ \A i \in 1 .. Len(s) - 1 : Without(s, 1)[i] = IF i < 1 THEN s[i] ELSE s[i + 1]
  BY <1>1, WithoutIs
<1>3. \A i \in 1 .. Len(s) - 1 : (IF i < 1 THEN s[i] ELSE s[i + 1]) = s[i + 1]
  OBVIOUS
<1>4. Without(s, 1) = Rest1(s)
  BY <1>3 DEF Without, Rest1
<1>5. \A i \in 1 .. Len(s) : i # 1 =>
        s[i] \in DOMAIN m /\ m[s[i]][f] = IF i = 1 - 1 THEN m[s[1]][f] ELSE m[s[i]][f]
  BY <1>1
<1>6. Path(m, Without(s, 1), IF 1 = 1 THEN m[s[1]][f] ELSE b, f)
  BY <1>1, <1>5, PathWithout
<1> QED
  BY <1>1, <1>2, <1>3, <1>4, <1>6

(* The blocks of u, each of which leads to the one before it and the first *)
(* of which leads to a list, are in front of it.                           *)
Before1(u, s) == [i \in 1 .. Len(u) + Len(s) |->
                   IF i <= Len(u) THEN u[Len(u) + 1 - i] ELSE s[i - Len(u)]]

(* Blocks each of which leads to the one before it, the first of them to a *)
(* list, make a list with it.                                              *)
LEMMA PathBefore ==
  ASSUME NEW m, NEW s, NEW b, NEW f, Path(m, s, b, f), NEW u \in Seq(DOMAIN m),
         \A i, j \in 1 .. Len(u) : u[i] = u[j] => i = j,
         \A i \in 1 .. Len(u), j \in 1 .. Len(s) : u[i] # s[j],
         \A i \in 1 .. Len(u) : m[u[i]][f] = IF i = 1 THEN b ELSE u[i - 1]
  PROVE  /\ Path(m, Before1(u, s), IF Len(u) = 0 THEN b ELSE u[Len(u)], f)
         /\ Len(Before1(u, s)) = Len(u) + Len(s)
         /\ \A i \in 1 .. Len(u) : Before1(u, s)[Len(u) + 1 - i] = u[i]
         /\ \A i \in 1 .. Len(s) : Before1(u, s)[Len(u) + i] = s[i]
<1> DEFINE r == Before1(u, s)
           h == Len(u)
           k == Len(s)
<1>1. /\ s \in Seq(DOMAIN m) /\ k \in Nat /\ h \in Nat
      /\ \A i, j \in 1 .. k : s[i] = s[j] => i = j
      /\ b = IF k = 0 THEN NULL ELSE s[1]
      /\ \A i \in 1 .. k : m[s[i]][f] = IF i = k THEN NULL ELSE s[i + 1]
      /\ \A i \in 1 .. k : s[i] \in DOMAIN m
      /\ \A i \in 1 .. h : u[i] \in DOMAIN m
  BY DEF Path
<1>2. r = [i \in 1 .. h + k |-> IF i <= h THEN u[h + 1 - i] ELSE s[i - h]]
  BY DEF Before1
<1>3. \A i, j \in 1 .. h : u[i] = u[j] => i = j
  OBVIOUS
<1>4. \A i \in 1 .. h, j \in 1 .. k : u[i] # s[j]
  OBVIOUS
<1>5. \A i \in 1 .. h : m[u[i]][f] = IF i = 1 THEN b ELSE u[i - 1]
  OBVIOUS
<1> HIDE DEF r, h, k
<1>6. \A i \in 1 .. h + k :
        /\ i <= h => (h + 1 - i \in 1 .. h /\ r[i] = u[h + 1 - i])
        /\ ~(i <= h) => (i - h \in 1 .. k /\ r[i] = s[i - h])
  BY <1>1, <1>2
<1>7. r \in Seq(DOMAIN m) /\ Len(r) = h + k
  <2> DEFINE n == h + k
             g == [i \in 1 .. n |-> r[i]]
  <2>1. n \in Nat
    BY <1>1
  <2>2. \A i \in 1 .. n : r[i] \in DOMAIN m
    BY <1>1, <1>6
  <2>3. r = g
    BY <1>2
  <2> HIDE DEF n
  <2>4. g \in Seq(DOMAIN m) /\ Len(g) = n
    BY <2>1, <2>2
  <2> QED
    BY <2>3, <2>4 DEF n
<1>8. \A i, j \in 1 .. h + k : r[i] = r[j] => i = j
  <2> TAKE i \in 1 .. h + k, j \in 1 .. h + k
  <2> HAVE r[i] = r[j]
  <2>1. CASE i <= h /\ j <= h
    <3>1. h + 1 - i = h + 1 - j
      BY <1>3, <1>6, <2>1
    <3> QED
      BY <1>1, <3>1
  <2>2. CASE ~(i <= h) /\ ~(j <= h)
    <3>1. i - h = j - h
      BY <1>1, <1>6, <2>2
    <3> QED
      BY <1>1, <3>1
  <2>3. CASE i <= h /\ ~(j <= h)
    BY <1>4, <1>6, <2>3
  <2>4. CASE ~(i <= h) /\ j <= h
    BY <1>4, <1>6, <2>4
  <2> QED
    BY <2>1, <2>2, <2>3, <2>4
<1>9. (IF h = 0 THEN b ELSE u[h]) = IF h + k = 0 THEN NULL ELSE r[1]
  <2>1. CASE h = 0
    <3>1. h + k = k
      BY <1>1, <2>1
    <3>2. k # 0 => (1 \in 1 .. h + k /\ ~(1 <= h) /\ 1 - h = 1)
      BY <1>1, <2>1
    <3> QED
      BY <1>1, <1>6, <2>1, <3>1, <3>2
  <2>2. CASE h # 0
    <3>1. 1 \in 1 .. h + k /\ 1 <= h /\ h + 1 - 1 = h /\ h + k # 0
      BY <1>1, <2>2
    <3> QED
      BY <1>6, <2>2, <3>1
  <2> QED
    BY <2>1, <2>2
<1>10. \A i \in 1 .. h + k : m[r[i]][f] = IF i = h + k THEN NULL ELSE r[i + 1]
  <2> TAKE i \in 1 .. h + k
  <2>1. CASE i < h
    <3>1. /\ i <= h /\ i + 1 \in 1 .. h + k /\ i + 1 <= h /\ i # h + k /\ h + 1 - i # 1
          /\ h + 1 - (i + 1) = (h + 1 - i) - 1
      BY <1>1, <2>1
    <3>2. r[i] = u[h + 1 - i] /\ h + 1 - i \in 1 .. h /\ r[i + 1] = u[h + 1 - (i + 1)]
      BY <1>6, <3>1
    <3> QED
      BY <1>5, <3>1, <3>2
  <2>2. CASE i = h
    <3>1. i <= h /\ h + 1 - i = 1 /\ (i = h + k <=> k = 0)
      BY <1>1, <2>2
    <3>2. r[i] = u[1] /\ 1 \in 1 .. h
      BY <1>6, <3>1
    <3>3. m[r[i]][f] = b
      BY <1>5, <3>2
    <3>4. k # 0 => (i + 1 \in 1 .. h + k /\ ~(i + 1 <= h) /\ i + 1 - h = 1)
      BY <1>1, <2>2
    <3>5. k # 0 => r[i + 1] = s[1]
      <4>1. k # 0 => r[i + 1] = s[(i + 1) - h]
        BY <1>6, <3>4
      <4> QED
        BY <1>1, <3>4, <4>1
    <3> QED
      BY <1>1, <3>1, <3>3, <3>5
  <2>3. CASE i > h
    <3>1. ~(i <= h) /\ (i - h = k <=> i = h + k)
      BY <1>1, <2>3
    <3>2. r[i] = s[i - h] /\ i - h \in 1 .. k
      BY <1>6, <3>1
    <3>3. m[r[i]][f] = IF i = h + k THEN NULL ELSE s[(i - h) + 1]
      BY <1>1, <3>1, <3>2
    <3>4. i # h + k => (i + 1 \in 1 .. h + k /\ ~(i + 1 <= h) /\ i + 1 - h = (i - h) + 1)
      BY <1>1, <2>3
    <3>5. i # h + k => r[i + 1] = s[(i - h) + 1]
      <4>1. i # h + k => r[i + 1] = s[(i + 1) - h]
        BY <1>6, <3>4
      <4> QED
        BY <1>1, <3>4, <4>1
    <3> QED
      BY <3>3, <3>5
  <2> QED
    BY <1>1, <2>1, <2>2, <2>3
<1>11. \A i \in 1 .. h : r[h + 1 - i] = u[i]
  <2> TAKE i \in 1 .. h
  <2>1. h + 1 - i \in 1 .. h + k /\ h + 1 - i <= h /\ h + 1 - (h + 1 - i) = i
    BY <1>1
  <2> QED
    BY <1>6, <2>1
<1>12. \A i \in 1 .. k : r[h + i] = s[i]
  <2> TAKE i \in 1 .. k
  <2>1. h + i \in 1 .. h + k /\ ~(h + i <= h) /\ (h + i) - h = i
    BY <1>1
  <2>2. r[h + i] = s[(h + i) - h]
    BY <1>6, <2>1
  <2> QED
    BY <2>1, <2>2
<1>13. Path(m, r, IF h = 0 THEN b ELSE u[h], f)
  BY <1>7, <1>8, <1>9, <1>10 DEF Path
<1> QED
  BY <1>7, <1>11, <1>12, <1>13 DEF r, h, k

(* Back pointers lead through a list in the opposite direction.            *)
Back(m, s, g) == \A i \in 1 .. Len(s) : m[s[i]][g] = IF i = 1 THEN NULL ELSE s[i - 1]
End(s)        == IF Len(s) = 0 THEN NULL ELSE s[Len(s)]

(* Pointers that lead back through a list make a list of it in the         *)
(* opposite order.                                                         *)
LEMMA PathBack ==
  ASSUME NEW m, NEW s, NEW b, NEW f, NEW g, Path(m, s, b, f), Back(m, s, g)
  PROVE  Path(m, Reverse(s), End(s), g)
<1> DEFINE r == Reverse(s)
           k == Len(s)
<1>1. /\ s \in Seq(DOMAIN m) /\ k \in Nat
      /\ \A i, j \in 1 .. k : s[i] = s[j] => i = j
      /\ \A i \in 1 .. k : s[i] \in DOMAIN m
      /\ \A i \in 1 .. k : m[s[i]][g] = IF i = 1 THEN NULL ELSE s[i - 1]
  BY DEF Path, Back
<1>2. r = [i \in 1 .. k |-> s[(k - i) + 1]]
  BY DEF Reverse
<1>3. End(s) = IF k = 0 THEN NULL ELSE s[k]
  BY DEF End
<1> HIDE DEF r, k
<1>4. \A i \in 1 .. k : (k - i) + 1 \in 1 .. k /\ r[i] = s[(k - i) + 1]
  BY <1>1, <1>2
<1>5. r \in Seq(DOMAIN m) /\ Len(r) = k
  <2>1. \A i \in 1 .. k : s[(k - i) + 1] \in DOMAIN m
    BY <1>1, <1>4
  <2> DEFINE e == [i \in 1 .. k |-> r[i]]
  <2>2. r = e /\ \A i \in 1 .. k : r[i] \in DOMAIN m
    BY <1>2, <1>4, <2>1
  <2>3. e \in Seq(DOMAIN m) /\ Len(e) = k
    BY <1>1, <2>2
  <2> QED
    BY <2>2, <2>3
<1>6. \A i, j \in 1 .. k : r[i] = r[j] => i = j
  <2> TAKE i \in 1 .. k, j \in 1 .. k
  <2> HAVE r[i] = r[j]
  <2>1. (k - i) + 1 = (k - j) + 1
    BY <1>1, <1>4
  <2> QED
    BY <1>1, <2>1
<1>7. End(s) = IF k = 0 THEN NULL ELSE r[1]
  <2>1. k # 0 => 1 \in 1 .. k /\ (k - 1) + 1 = k
    BY <1>1
  <2> QED
    BY <1>3, <1>4, <2>1
<1>8. \A i \in 1 .. k : m[r[i]][g] = IF i = k THEN NULL ELSE r[i + 1]
  <2> TAKE i \in 1 .. k
  <2>1. /\ (k - i) + 1 = 1 <=> i = k
        /\ i # k => (i + 1 \in 1 .. k /\ (k - (i + 1)) + 1 = ((k - i) + 1) - 1)
    BY <1>1
  <2>2. m[r[i]][g] = IF (k - i) + 1 = 1 THEN NULL ELSE s[((k - i) + 1) - 1]
    BY <1>1, <1>4
  <2>3. i # k => r[i + 1] = s[(k - (i + 1)) + 1]
    BY <1>4, <2>1
  <2> QED
    BY <2>1, <2>2, <2>3
<1> QED
  BY <1>5, <1>6, <1>7, <1>8 DEF Path, r

-----------------------------------------------------------------------------
(* Tables.                                                                 *)

Fields == {"data", "next", "prev", "older", "newer", "key"}

(* Every block holds an entry, or what is left of one.                     *)
Cells(m) == /\ m = [e \in DOMAIN m |-> m[e]]
            /\ \A e \in DOMAIN m : m[e] = [f \in Fields |-> m[e][f]]

Slots(t) == 0 .. t.size - 1

Shape(t) ==
  /\ t.size \in Nat \ {0}
  /\ t = [f \in {"items", "size", "oldest", "newest", "bucket", "nr"} |-> t[f]]
  /\ t.bucket = [l \in Slots(t) |-> t.bucket[l]]
  /\ t.nr = [l \in Slots(t) |-> t.nr[l]]

(* The blocks of a sequence, and of all chains of a table.                 *)
Of(s)     == {s[i] : i \in 1 .. Len(s)}
All(t, c) == UNION {Of(c[l]) : l \in Slots(t)}

(* c[l] is what the chain of bucket l leads through, and l the bucket of   *)
(* the keys it finds there.                                                *)
Chains(m, t, c) ==
  /\ Shape(t)
  /\ c = [l \in Slots(t) |-> c[l]]
  /\ \A l \in Slots(t) : Path(m, c[l], t.bucket[l], "next")
  /\ \A l \in Slots(t) : \A e \in Of(c[l]) : m[e].key \in Key /\ BucketOf(t, m[e].key) = l

Counted(m, t, c) == \A l \in Slots(t) : t.nr[l] = Len(c[l]) /\ Back(m, c[l], "prev")

(* a is what the list from the oldest to the newest entry leads through.   *)
Aged(m, t, a) == /\ Path(m, a, t.oldest, "newer") /\ Back(m, a, "older")
                 /\ t.newest = End(a) /\ t.items = Len(a)

OneOfAKey(m, a) == \A i, j \in 1 .. Len(a) : m[a[i]].key = m[a[j]].key => i = j

Sound(m, t, a, c) ==
  Chains(m, t, c) /\ Counted(m, t, c) /\ Aged(m, t, a) /\ OneOfAKey(m, a) /\ Of(a) = All(t, c)

(* A bucket there is.                                                      *)
LEMMA BucketIs ==
  ASSUME NEW t, Shape(t), NEW k \in Key
  PROVE  BucketOf(t, k) \in Slots(t)
<1>1. Hash[k] \in Nat /\ t.size \in Nat \ {0}
  BY HashAssumption DEF Shape
<1> DEFINE h == Hash[k]
           n == t.size
<1> HIDE DEF h, n
<1>2. h % n \in 0 .. n - 1
  BY <1>1 DEF h, n
<1> QED
  BY <1>2 DEF h, n, BucketOf, Slots

(* The chains share no block.                                              *)
LEMMA ChainsApart ==
  ASSUME NEW m, NEW t, NEW c, Chains(m, t, c),
         NEW l \in Slots(t), NEW h \in Slots(t), NEW e \in Of(c[l]), e \in Of(c[h])
  PROVE  l = h
BY DEF Chains

(* A table whose entries nobody touched but for their data is as it was.   *)
LEMMA ChainsFrame ==
  ASSUME NEW m, NEW n, NEW t, NEW c, Chains(m, t, c),
         \A e \in All(t, c) : e \in DOMAIN n /\ n[e].next = m[e].next /\ n[e].key = m[e].key
  PROVE  Chains(n, t, c)
<1>1. ASSUME NEW l \in Slots(t) PROVE Path(n, c[l], t.bucket[l], "next")
  <2>1. \A i \in 1 .. Len(c[l]) : c[l][i] \in All(t, c)
    BY DEF All, Of
  <2>2. Path(m, c[l], t.bucket[l], "next")
    BY DEF Chains
  <2> QED
    BY <2>1, <2>2, PathFrame
<1>2. \A l \in Slots(t) : \A e \in Of(c[l]) : e \in All(t, c)
  BY DEF All
<1> QED
  BY <1>1, <1>2 DEF Chains

SamePlace(r, q) == /\ r.next = q.next /\ r.prev = q.prev /\ r.older = q.older
                   /\ r.newer = q.newer /\ r.key = q.key

(* A table is as sound as it was when no pointer and no key of its entries *)
(* changed.                                                                *)
LEMMA SoundFrame ==
  ASSUME NEW m, NEW n, NEW t, NEW a, NEW c, Sound(m, t, a, c),
         \A e \in Of(a) : e \in DOMAIN n /\ SamePlace(n[e], m[e])
  PROVE  Sound(n, t, a, c)
<1>1. Chains(m, t, c) /\ Counted(m, t, c) /\ Aged(m, t, a) /\ OneOfAKey(m, a) /\ Of(a) = All(t, c)
  BY DEF Sound
<1>2. Chains(n, t, c)
  BY <1>1, ChainsFrame DEF SamePlace
<1>3. Counted(n, t, c)
  <2>1. \A l \in Slots(t) : \A i \in 1 .. Len(c[l]) : c[l][i] \in All(t, c)
    BY DEF All, Of
  <2>2. \A l \in Slots(t) : \A i \in 1 .. Len(c[l]) : c[l][i] \in Of(a)
    BY <1>1, <2>1
  <2> QED
    BY <1>1, <2>2 DEF Counted, Back, SamePlace
<1>4. Aged(n, t, a)
  <2>1. \A i \in 1 .. Len(a) : a[i] \in Of(a)
    BY DEF Of
  <2>2. Path(n, a, t.oldest, "newer")
    BY <1>1, <2>1, PathFrame DEF Aged, SamePlace
  <2> QED
    BY <1>1, <2>1, <2>2 DEF Aged, Back, SamePlace
<1>5. OneOfAKey(n, a)
  <2>1. \A i \in 1 .. Len(a) : a[i] \in Of(a)
    BY DEF Of
  <2> QED
    BY <1>1, <2>1 DEF OneOfAKey, SamePlace
<1> QED
  BY <1>1, <1>2, <1>3, <1>4, <1>5 DEF Sound

(* What Linked changes.                                                    *)
LEMMA LinkedIs ==
  ASSUME NEW m, NEW t, NEW l, NEW e \in DOMAIN m, Cells(m)
  PROVE  LET n == Linked(m, t, l, e)
         IN  /\ Cells(n) /\ DOMAIN n = DOMAIN m
             /\ \A b \in DOMAIN m :
                  /\ n[b].next = IF b = e THEN t.bucket[l] ELSE m[b].next
                  /\ n[b].prev = IF b = e THEN NULL ELSE IF b = t.bucket[l] THEN e ELSE m[b].prev
                  /\ n[b].older = IF b = e THEN t.newest ELSE m[b].older
                  /\ n[b].newer = IF b # e /\ b = t.newest THEN e ELSE m[b].newer
                  /\ n[b].key = m[b].key /\ n[b].data = m[b].data
<1> DEFINE n == Linked(m, t, l, e)
<1>1. DOMAIN n = DOMAIN m /\ n = [b \in DOMAIN m |-> n[b]]
  BY DEF Linked
<1>2. ASSUME NEW b \in DOMAIN m
      PROVE  /\ n[b] = [f \in Fields |-> n[b][f]]
             /\ n[b].next = IF b = e THEN t.bucket[l] ELSE m[b].next
             /\ n[b].prev = IF b = e THEN NULL ELSE IF b = t.bucket[l] THEN e ELSE m[b].prev
             /\ n[b].older = IF b = e THEN t.newest ELSE m[b].older
             /\ n[b].newer = IF b # e /\ b = t.newest THEN e ELSE m[b].newer
             /\ n[b].key = m[b].key /\ n[b].data = m[b].data
  <2> DEFINE r == m[b]
  <2>1. r = [f \in Fields |-> r[f]]
    BY DEF Cells
  <2>2. CASE b = e
    <3>1. n[b] = [r EXCEPT !.next = t.bucket[l], !.prev = NULL, !.older = t.newest]
      BY <2>2 DEF Linked
    <3> HIDE DEF n, r
    <3> QED
      BY <2>1, <2>2, <3>1 DEF Fields, r
  <2>3. CASE b # e
    <3>1. n[b] = [r EXCEPT !.prev  = IF b = t.bucket[l] THEN e ELSE @,
                           !.newer = IF b = t.newest THEN e ELSE @]
      BY <2>3 DEF Linked
    <3> HIDE DEF n, r
    <3> QED
      BY <2>1, <2>3, <3>1 DEF Fields, r
  <2> QED
    BY <2>2, <2>3
<1> QED
  BY <1>1, <1>2 DEF Cells

(* What Unlinked changes.                                                  *)
LEMMA UnlinkedIs ==
  ASSUME NEW m, NEW e \in DOMAIN m, Cells(m)
  PROVE  LET n == Unlinked(m, e)
         IN  /\ Cells(n) /\ DOMAIN n = DOMAIN m
             /\ \A b \in DOMAIN m :
                  /\ n[b].next  = IF b = m[e].prev  THEN m[e].next  ELSE m[b].next
                  /\ n[b].prev  = IF b = m[e].next  THEN m[e].prev  ELSE m[b].prev
                  /\ n[b].newer = IF b = m[e].older THEN m[e].newer ELSE m[b].newer
                  /\ n[b].older = IF b = m[e].newer THEN m[e].older ELSE m[b].older
                  /\ n[b].key = m[b].key /\ n[b].data = m[b].data
<1> DEFINE n == Unlinked(m, e)
<1>1. DOMAIN n = DOMAIN m /\ n = [b \in DOMAIN m |-> n[b]]
  BY DEF Unlinked
<1>2. ASSUME NEW b \in DOMAIN m
      PROVE  /\ n[b] = [f \in Fields |-> n[b][f]]
             /\ n[b].next  = IF b = m[e].prev  THEN m[e].next  ELSE m[b].next
             /\ n[b].prev  = IF b = m[e].next  THEN m[e].prev  ELSE m[b].prev
             /\ n[b].newer = IF b = m[e].older THEN m[e].newer ELSE m[b].newer
             /\ n[b].older = IF b = m[e].newer THEN m[e].older ELSE m[b].older
             /\ n[b].key = m[b].key /\ n[b].data = m[b].data
  <2> DEFINE r == m[b]
             q == m[e]
  <2>1. r = [f \in Fields |-> r[f]]
    BY DEF Cells
  <2>2. n[b] = [r EXCEPT !.next  = IF b = q.prev  THEN q.next  ELSE @,
                         !.prev  = IF b = q.next  THEN q.prev  ELSE @,
                         !.newer = IF b = q.older THEN q.newer ELSE @,
                         !.older = IF b = q.newer THEN q.older ELSE @]
    BY DEF Unlinked
  <2> HIDE DEF n, r, q
  <2>3. /\ n[b] = [f \in Fields |-> n[b][f]]
        /\ n[b].next  = IF b = q.prev  THEN q.next  ELSE r.next
        /\ n[b].prev  = IF b = q.next  THEN q.prev  ELSE r.prev
        /\ n[b].newer = IF b = q.older THEN q.newer ELSE r.newer
        /\ n[b].older = IF b = q.newer THEN q.older ELSE r.older
        /\ n[b].key = r.key /\ n[b].data = r.data
    BY <2>1, <2>2 DEF Fields
  <2> QED
    BY <2>3 DEF r, q
<1> QED
  BY <1>1, <1>2 DEF Cells

(* The table WithLinked makes of t.                                        *)
LEMMA WithLinkedIs ==
  ASSUME NEW t, Shape(t), NEW l \in Slots(t), NEW e
  PROVE  LET u == WithLinked(t, l, e)
         IN  /\ Shape(u) /\ u.size = t.size
             /\ u.items = t.items + 1
             /\ u.oldest = IF t.oldest = NULL THEN e ELSE t.oldest
             /\ u.newest = e
             /\ \A h \in Slots(t) : /\ u.bucket[h] = IF h = l THEN e ELSE t.bucket[h]
                                    /\ u.nr[h] = IF h = l THEN t.nr[h] + 1 ELSE t.nr[h]
<1> DEFINE u == WithLinked(t, l, e)
           S == Slots(t)
<1>1. /\ t.size \in Nat \ {0}
      /\ t = [f \in {"items", "size", "oldest", "newest", "bucket", "nr"} |-> t[f]]
      /\ t.bucket = [h \in S |-> t.bucket[h]]
      /\ t.nr = [h \in S |-> t.nr[h]]
  BY DEF Shape
<1>2. u = [t EXCEPT !.bucket[l] = e, !.nr[l] = @ + 1, !.items = @ + 1,
                    !.oldest = IF @ = NULL THEN e ELSE @, !.newest = e]
  BY DEF WithLinked
<1> HIDE DEF u, S
<1>3. /\ u = [f \in {"items", "size", "oldest", "newest", "bucket", "nr"} |-> u[f]]
      /\ u.size = t.size /\ u.items = t.items + 1 /\ u.newest = e
      /\ u.oldest = IF t.oldest = NULL THEN e ELSE t.oldest
  BY <1>1, <1>2
<1>4. /\ u.bucket = [t.bucket EXCEPT ![l] = e]
      /\ u.nr = [t.nr EXCEPT ![l] = @ + 1]
  BY <1>1, <1>2
<1>5. /\ u.bucket = [h \in S |-> u.bucket[h]] /\ u.nr = [h \in S |-> u.nr[h]]
      /\ \A h \in S : /\ u.bucket[h] = IF h = l THEN e ELSE t.bucket[h]
                     /\ u.nr[h] = IF h = l THEN t.nr[h] + 1 ELSE t.nr[h]
  BY <1>1, <1>4
<1>6. Slots(u) = S
  BY <1>3 DEF S, Slots
<1>7. Shape(u)
  BY <1>1, <1>3, <1>5, <1>6 DEF Shape
<1> QED
  BY <1>3, <1>5, <1>7 DEF u, S

(* The table WithUnlinked makes of t.                                      *)
LEMMA WithUnlinkedIs ==
  ASSUME NEW t, Shape(t), NEW l \in Slots(t), NEW m, NEW e
  PROVE  LET u == WithUnlinked(t, m, l, e)
         IN  /\ Shape(u) /\ u.size = t.size
             /\ u.items = t.items - 1
             /\ u.oldest = IF m[e].older = NULL THEN m[e].newer ELSE t.oldest
             /\ u.newest = IF m[e].newer = NULL THEN m[e].older ELSE t.newest
             /\ \A h \in Slots(t) :
                  /\ u.bucket[h] = IF h = l /\ m[e].prev = NULL THEN m[e].next
                                   ELSE t.bucket[h]
                  /\ u.nr[h] = IF h = l THEN t.nr[h] - 1 ELSE t.nr[h]
<1> DEFINE u == WithUnlinked(t, m, l, e)
           S == Slots(t)
           q == m[e]
<1>1. /\ t.size \in Nat \ {0}
      /\ t = [f \in {"items", "size", "oldest", "newest", "bucket", "nr"} |-> t[f]]
      /\ t.bucket = [h \in S |-> t.bucket[h]]
      /\ t.nr = [h \in S |-> t.nr[h]]
  BY DEF Shape
<1>2. u = [t EXCEPT !.bucket[l] = IF q.prev = NULL THEN q.next ELSE @,
                    !.nr[l] = @ - 1, !.items = @ - 1,
                    !.oldest = IF q.older = NULL THEN q.newer ELSE @,
                    !.newest = IF q.newer = NULL THEN q.older ELSE @]
  BY DEF WithUnlinked
<1> HIDE DEF u, S, q
<1>3. /\ u = [f \in {"items", "size", "oldest", "newest", "bucket", "nr"} |-> u[f]]
      /\ u.size = t.size /\ u.items = t.items - 1
      /\ u.oldest = IF q.older = NULL THEN q.newer ELSE t.oldest
      /\ u.newest = IF q.newer = NULL THEN q.older ELSE t.newest
  BY <1>1, <1>2
<1>4. /\ u.bucket = [t.bucket EXCEPT ![l] = IF q.prev = NULL THEN q.next ELSE @]
      /\ u.nr = [t.nr EXCEPT ![l] = @ - 1]
  BY <1>1, <1>2
<1>5. /\ u.bucket = [h \in S |-> u.bucket[h]] /\ u.nr = [h \in S |-> u.nr[h]]
      /\ \A h \in S : /\ u.bucket[h] = IF h = l /\ q.prev = NULL THEN q.next
                                       ELSE t.bucket[h]
                     /\ u.nr[h] = IF h = l THEN t.nr[h] - 1 ELSE t.nr[h]
  BY <1>1, <1>4
<1>6. Slots(u) = S
  BY <1>3 DEF S, Slots
<1>7. Shape(u)
  BY <1>1, <1>3, <1>5, <1>6 DEF Shape
<1> QED
  BY <1>3, <1>5, <1>7 DEF u, S, q

(* The blocks of a list with one more or one less.                         *)
LEMMA OfFirst ==
  ASSUME NEW S, NEW s \in Seq(S), NEW e \in S
  PROVE  Of(First1(e, s)) = Of(s) \cup {e} /\ Of(Last1(s, e)) = Of(s) \cup {e}
<1> DEFINE k == Len(s)
           f == First1(e, s)
           g == Last1(s, e)
<1>a. k \in Nat /\ Len(f) = k + 1 /\ f[1] = e /\ Len(g) = k + 1 /\ g[k + 1] = e
  BY SeqOps
<1>b. \A i \in 1 .. k : f[i + 1] = s[i]
  BY SeqOps
<1>c. \A i \in 1 .. k : g[i] = s[i]
  BY <1>a DEF Last1
<1>1. /\ k \in Nat /\ Len(f) = k + 1 /\ f[1] = e /\ \A i \in 1 .. k : f[i + 1] = s[i]
      /\ Len(g) = k + 1 /\ g[k + 1] = e /\ \A i \in 1 .. k : g[i] = s[i]
  BY <1>a, <1>b, <1>c
<1> HIDE DEF k, f, g
<1>2. Of(f) = Of(s) \cup {e}
  <2>1. ASSUME NEW i \in 1 .. k + 1 PROVE f[i] \in Of(s) \cup {e}
    <3>1. CASE i = 1
      BY <1>1, <3>1
    <3>2. CASE i # 1
      <4>1. i - 1 \in 1 .. k /\ (i - 1) + 1 = i
        BY <1>1, <3>2
      <4>2. f[i] = s[i - 1]
        BY <1>1, <4>1
      <4> QED
        BY <4>1, <4>2 DEF Of, k
    <3> QED
      BY <3>1, <3>2
  <2>2. ASSUME NEW i \in 1 .. k PROVE s[i] \in Of(f)
    <3>1. i + 1 \in 1 .. k + 1 /\ f[i + 1] = s[i]
      BY <1>1
    <3> QED
      BY <1>1, <3>1 DEF Of
  <2>3. e \in Of(f)
    <3>1. 1 \in 1 .. k + 1
      BY <1>1
    <3> QED
      BY <1>1, <3>1 DEF Of
  <2> QED
    BY <1>1, <2>1, <2>2, <2>3 DEF Of, k
<1>3. Of(g) = Of(s) \cup {e}
  <2>1. \A i \in 1 .. k + 1 : i = k + 1 \/ i \in 1 .. k
    BY <1>1
  <2>2. 1 .. k \subseteq 1 .. k + 1 /\ k + 1 \in 1 .. k + 1
    BY <1>1
  <2> QED
    BY <1>1, <2>1, <2>2 DEF Of, k
<1> QED
  BY <1>2, <1>3 DEF f, g

(* Taking a block out of a sequence takes it out of its blocks.            *)
LEMMA OfWithout ==
  ASSUME NEW S, NEW s \in Seq(S), NEW k \in 1 .. Len(s),
         \A i, j \in 1 .. Len(s) : s[i] = s[j] => i = j
  PROVE  Of(Without(s, k)) = Of(s) \ {s[k]}
<1> DEFINE h == Len(s)
           r == Without(s, k)
<1>1. /\ h \in Nat /\ Len(r) = h - 1 /\ k \in 1 .. h
      /\ \A i \in 1 .. h - 1 : r[i] = IF i < k THEN s[i] ELSE s[i + 1]
  BY WithoutIs
<1> HIDE DEF h, r
<1>2. ASSUME NEW i \in 1 .. h - 1 PROVE r[i] \in Of(s) \ {s[k]}
  <2>1. i \in 1 .. h /\ i + 1 \in 1 .. h /\ k \in 1 .. h
    BY <1>1
  <2>2. (i < k => i # k) /\ (~(i < k) => i + 1 # k)
    BY <2>1
  <2>3. s[i] \in Of(s) /\ s[i + 1] \in Of(s)
    BY <2>1 DEF Of, h
  <2>4. (i < k => s[i] # s[k]) /\ (~(i < k) => s[i + 1] # s[k])
    BY <2>1, <2>2 DEF h
  <2> QED
    BY <1>1, <2>3, <2>4
<1>3. ASSUME NEW i \in 1 .. h, i # k PROVE s[i] \in Of(r)
  <2>1. CASE i < k
    <3>1. i \in 1 .. h - 1
      BY <1>1, <2>1
    <3> QED
      BY <1>1, <2>1, <3>1 DEF Of
  <2>2. CASE ~(i < k)
    <3>1. i - 1 \in 1 .. h - 1 /\ ~(i - 1 < k) /\ (i - 1) + 1 = i
      BY <1>1, <1>3, <2>2
    <3>2. r[i - 1] = s[i]
      BY <1>1, <3>1
    <3> QED
      BY <1>1, <3>1, <3>2 DEF Of
  <2> QED
    BY <2>1, <2>2
<1>4. \A e \in Of(s) \ {s[k]} : \E i \in 1 .. h : i # k /\ e = s[i]
  BY DEF Of, h
<1>5. Of(r) \subseteq Of(s) \ {s[k]}
  BY <1>1, <1>2 DEF Of
<1> QED
  BY <1>3, <1>4, <1>5 DEF r

(* Pointers lead back through a list with one block bypassed.              *)
LEMMA BackWithout ==
  ASSUME NEW m, NEW n, NEW S, NEW s \in Seq(S), NEW g, NEW k \in 1 .. Len(s),
         Back(m, s, g),
         \A i \in 1 .. Len(s) : i # k =>
           n[s[i]][g] = IF i = k + 1 THEN m[s[k]][g] ELSE m[s[i]][g]
  PROVE  Back(n, Without(s, k), g)
<1> DEFINE h == Len(s)
           r == Without(s, k)
<1>1. /\ h \in Nat /\ Len(r) = h - 1 /\ k \in 1 .. h
      /\ \A i \in 1 .. h - 1 : r[i] = IF i < k THEN s[i] ELSE s[i + 1]
  BY WithoutIs
<1>2. /\ \A i \in 1 .. h : m[s[i]][g] = IF i = 1 THEN NULL ELSE s[i - 1]
      /\ \A i \in 1 .. h : i # k =>
           n[s[i]][g] = IF i = k + 1 THEN m[s[k]][g] ELSE m[s[i]][g]
  BY DEF Back
<1> HIDE DEF h, r
<1>3. ASSUME NEW i \in 1 .. h - 1
      PROVE  n[r[i]][g] = IF i = 1 THEN NULL ELSE r[i - 1]
  <2>1. i \in 1 .. h /\ i + 1 \in 1 .. h /\ k \in 1 .. h
    BY <1>1
  <2>2. CASE i < k
    <3>1. i # k /\ i # k + 1 /\ r[i] = s[i]
      BY <1>1, <2>1, <2>2
    <3>2. n[r[i]][g] = IF i = 1 THEN NULL ELSE s[i - 1]
      BY <1>2, <2>1, <3>1
    <3>3. i # 1 => i - 1 \in 1 .. h - 1 /\ i - 1 < k
      BY <1>1, <2>1, <2>2
    <3>4. i # 1 => r[i - 1] = s[i - 1]
      BY <1>1, <3>3
    <3> QED
      BY <3>2, <3>4
  <2>3. CASE i = k
    <3>1. i + 1 # k /\ i + 1 = k + 1 /\ r[i] = s[i + 1]
      BY <1>1, <2>1, <2>3
    <3>2. n[r[i]][g] = m[s[k]][g]
      BY <1>2, <2>1, <3>1
    <3>3. n[r[i]][g] = IF i = 1 THEN NULL ELSE s[i - 1]
      BY <1>2, <2>1, <2>3, <3>2
    <3>4. i # 1 => i - 1 \in 1 .. h - 1 /\ i - 1 < k
      BY <1>1, <2>1, <2>3
    <3>5. i # 1 => r[i - 1] = s[i - 1]
      BY <1>1, <3>4
    <3> QED
      BY <3>3, <3>5
  <2>4. CASE i > k
    <3>1. i + 1 # k /\ i + 1 # k + 1 /\ r[i] = s[i + 1] /\ i + 1 # 1 /\ (i + 1) - 1 = i /\ i # 1
      BY <1>1, <2>1, <2>4
    <3>2. n[r[i]][g] = s[i]
      BY <1>2, <2>1, <3>1
    <3>3. i - 1 \in 1 .. h - 1 /\ ~(i - 1 < k) /\ (i - 1) + 1 = i
      BY <1>1, <2>1, <2>4
    <3>4. r[i - 1] = s[i]
      BY <1>1, <3>3
    <3> QED
      BY <3>1, <3>2, <3>4
  <2> QED
    BY <2>1, <2>2, <2>3, <2>4
<1> QED
  BY <1>1, <1>3 DEF Back, r

(* Pointers lead back through a list with one more block in front.         *)
LEMMA BackFirst ==
  ASSUME NEW m, NEW n, NEW S, NEW s \in Seq(S), NEW g, NEW e \in S, Back(m, s, g),
         n[e][g] = NULL,
         \A i \in 1 .. Len(s) : n[s[i]][g] = IF i = 1 THEN e ELSE m[s[i]][g]
  PROVE  Back(n, First1(e, s), g)
<1> DEFINE k == Len(s)
           r == First1(e, s)
<1>1. /\ k \in Nat /\ Len(r) = k + 1 /\ r[1] = e
  BY SeqOps
<1>2. \A i \in 1 .. k : r[i + 1] = s[i]
  BY SeqOps
<1>3. \A i \in 1 .. k : m[s[i]][g] = IF i = 1 THEN NULL ELSE s[i - 1]
  BY DEF Back
<1>4. \A i \in 1 .. k : n[s[i]][g] = IF i = 1 THEN e ELSE m[s[i]][g]
  OBVIOUS
<1> HIDE DEF k, r
<1>5. ASSUME NEW i \in 1 .. k + 1 PROVE n[r[i]][g] = IF i = 1 THEN NULL ELSE r[i - 1]
  <2>1. CASE i = 1
    BY <1>1, <2>1
  <2>2. CASE i # 1
    <3>1. i - 1 \in 1 .. k /\ (i - 1) + 1 = i
      BY <1>1, <2>2
    <3>2. r[i] = s[i - 1]
      BY <1>2, <3>1
    <3>3. n[r[i]][g] = IF i - 1 = 1 THEN e ELSE m[s[i - 1]][g]
      BY <1>4, <3>1, <3>2
    <3>4. CASE i = 2
      BY <1>1, <3>3, <3>4
    <3>5. CASE i # 2
      <4>1. i - 1 # 1 /\ (i - 1) - 1 \in 1 .. k /\ ((i - 1) - 1) + 1 = i - 1
        BY <1>1, <3>1, <3>5
      <4>2. n[r[i]][g] = s[(i - 1) - 1]
        BY <1>3, <3>1, <3>3, <4>1
      <4>3. r[i - 1] = s[(i - 1) - 1]
        BY <1>2, <4>1
      <4> QED
        BY <2>2, <4>2, <4>3
    <3> QED
      BY <3>4, <3>5
  <2> QED
    BY <2>1, <2>2
<1> QED
  BY <1>1, <1>5 DEF Back, r

(* A new entry, put first in the chain of its key and last by age.         *)
LEMMA LinkSound ==
  ASSUME NEW m, NEW t, NEW a, NEW c, NEW e \in DOMAIN m,
         Cells(m), Blocks(m), Sound(m, t, a, c), e \notin Of(a),
         m[e].newer = NULL, m[e].key \in Key,
         \A i \in 1 .. Len(a) : m[a[i]].key # m[e].key
  PROVE  LET l == BucketOf(t, m[e].key)
         IN  Sound(Linked(m, t, l, e), WithLinked(t, l, e), Last1(a, e),
                   [c EXCEPT ![l] = First1(e, c[l])])
<1> DEFINE l == BucketOf(t, m[e].key)
           n == Linked(m, t, l, e)
           u == WithLinked(t, l, e)
           a2 == Last1(a, e)
           c2 == [c EXCEPT ![l] = First1(e, c[l])]
           h == Len(a)
<1>1. /\ Chains(m, t, c) /\ Counted(m, t, c) /\ Aged(m, t, a) /\ OneOfAKey(m, a)
      /\ Of(a) = All(t, c) /\ Shape(t) /\ e # NULL
  BY DEF Sound, Chains, Blocks
<1>2. l \in Slots(t)
  BY <1>1, BucketIs
<1>3. DOMAIN n = DOMAIN m
  BY LinkedIs
<1>4. ASSUME NEW b \in DOMAIN m
      PROVE  /\ n[b].next = IF b = e THEN t.bucket[l] ELSE m[b].next
             /\ n[b].prev = IF b = e THEN NULL ELSE IF b = t.bucket[l] THEN e ELSE m[b].prev
             /\ n[b].older = IF b = e THEN t.newest ELSE m[b].older
             /\ n[b].newer = IF b # e /\ b = t.newest THEN e ELSE m[b].newer
             /\ n[b].key = m[b].key
  BY LinkedIs
<1>5. /\ Shape(u) /\ u.size = t.size
      /\ u.items = t.items + 1 /\ u.newest = e
      /\ u.oldest = IF t.oldest = NULL THEN e ELSE t.oldest
      /\ \A g \in Slots(t) : /\ u.bucket[g] = IF g = l THEN e ELSE t.bucket[g]
                             /\ u.nr[g] = IF g = l THEN t.nr[g] + 1 ELSE t.nr[g]
  BY <1>1, <1>2, WithLinkedIs
<1>6. Slots(u) = Slots(t) /\ \A k : BucketOf(u, k) = BucketOf(t, k)
  BY <1>5 DEF Slots, BucketOf
<1>7. /\ c = [g \in Slots(t) |-> c[g]]
      /\ \A g \in Slots(t) : Path(m, c[g], t.bucket[g], "next")
      /\ \A g \in Slots(t) : \A b \in Of(c[g]) : m[b].key \in Key /\ BucketOf(t, m[b].key) = g
  BY <1>1 DEF Chains
<1>8. /\ c2 = [g \in Slots(t) |-> c2[g]]
      /\ \A g \in Slots(t) : c2[g] = IF g = l THEN First1(e, c[l]) ELSE c[g]
  BY <1>2, <1>7
<1> HIDE DEF l, n, u, a2, c2, h
<1>9. \A g \in Slots(t) : \A i \in 1 .. Len(c[g]) : c[g][i] \in Of(c[g]) /\ c[g][i] \in All(t, c)
  BY DEF Of, All
<1>10. \A b \in All(t, c) : b # e
  BY <1>1
<1>11. \A g \in Slots(t) : c[g] \in Seq(DOMAIN m) /\ Len(c[g]) \in Nat
  BY <1>7 DEF Path
<1>12. ASSUME NEW g \in Slots(t), NEW i \in 1 .. Len(c[g])
       PROVE  c[g][i] \in DOMAIN m /\ c[g][i] # e
  BY <1>9, <1>10, <1>11
<1>13. ASSUME NEW g \in Slots(t) PROVE Path(n, c2[g], u.bucket[g], "next")
  <2>1. Path(n, c[g], t.bucket[g], "next")
    <3>1. \A i \in 1 .. Len(c[g]) : c[g][i] \in DOMAIN n /\ n[c[g][i]].next = m[c[g][i]].next
      BY <1>3, <1>4, <1>12
    <3> QED
      BY <3>1, <1>7, PathFrame
  <2>2. CASE g = l
    <3>1. n[e].next = t.bucket[l] /\ e \in DOMAIN n
      BY <1>3, <1>4
    <3>2. Path(n, First1(e, c[l]), e, "next")
      BY <1>12, <2>1, <2>2, <3>1, PathFirst
    <3> QED
      BY <1>5, <1>8, <2>2, <3>2
  <2> QED
    BY <1>5, <1>8, <2>1, <2>2
<1>14. \A g \in Slots(t) : Of(c2[g]) = IF g = l THEN Of(c[l]) \cup {e} ELSE Of(c[g])
  BY <1>2, <1>8, <1>11, OfFirst
<1>15. Chains(n, u, c2)
  <2>1. ASSUME NEW g \in Slots(t), NEW b \in Of(c2[g])
        PROVE  n[b].key \in Key /\ BucketOf(u, n[b].key) = g
    <3>1. CASE b = e
      <4>1. b \notin Of(c[g])
        BY <3>1, <1>12 DEF Of
      <4>2. g = l
        BY <1>14, <4>1
      <4> QED
        BY <1>4, <1>6, <3>1, <4>2 DEF l
    <3>2. CASE b # e
      <4>1. b \in Of(c[g])
        BY <1>14, <3>2
      <4>2. b \in DOMAIN m
        BY <1>12, <4>1 DEF Of
      <4> QED
        BY <1>4, <1>6, <1>7, <4>1, <4>2
    <3> QED
      BY <3>1, <3>2
  <2> QED
    BY <1>5, <1>6, <1>8, <1>13, <2>1 DEF Chains
<1>16. Counted(n, u, c2)
  <2>1. \A g \in Slots(t) : t.nr[g] = Len(c[g]) /\ Back(m, c[g], "prev")
    BY <1>1 DEF Counted
  <2>2. ASSUME NEW g \in Slots(t), g # l PROVE u.nr[g] = Len(c2[g]) /\ Back(n, c2[g], "prev")
    <3>1. \A i \in 1 .. Len(c[g]) : c[g][i] # t.bucket[l]
      <4>1. t.bucket[l] = IF Len(c[l]) = 0 THEN NULL ELSE c[l][1]
        BY <1>2, <1>7 DEF Path
      <4>2. CASE Len(c[l]) = 0
        BY <1>12, <4>1, <4>2 DEF Blocks
      <4>3. CASE Len(c[l]) # 0
        <5>1. 1 \in 1 .. Len(c[l])
          BY <1>2, <1>11, <4>3
        <5>2. c[l][1] \in Of(c[l])
          BY <5>1 DEF Of
        <5>3. ASSUME NEW i \in 1 .. Len(c[g]), c[g][i] = c[l][1]
              PROVE  FALSE
          <6>1. c[l][1] \in Of(c[g])
            BY <5>3 DEF Of
          <6> QED
            BY <1>2, <1>7, <2>2, <5>2, <6>1
        <5> QED
          BY <4>1, <4>3, <5>3
      <4> QED
        BY <4>2, <4>3
    <3>2. \A i \in 1 .. Len(c[g]) : n[c[g][i]].prev = m[c[g][i]].prev
      BY <1>4, <1>12, <3>1
    <3>3. c2[g] = c[g]
      BY <1>8, <2>2
    <3>4. Back(n, c[g], "prev")
      BY <2>1, <3>2 DEF Back
    <3>5. u.nr[g] = Len(c[g])
      BY <1>5, <2>1, <2>2
    <3> QED
      BY <3>3, <3>4, <3>5
  <2>3. u.nr[l] = Len(c2[l]) /\ Back(n, c2[l], "prev")
    <3>1. c[l] \in Seq(DOMAIN m) /\ Len(c[l]) \in Nat
      BY <1>2, <1>11
    <3>2. /\ t.bucket[l] = IF Len(c[l]) = 0 THEN NULL ELSE c[l][1]
          /\ \A i, j \in 1 .. Len(c[l]) : c[l][i] = c[l][j] => i = j
      BY <1>2, <1>7 DEF Path
    <3>3. \A i \in 1 .. Len(c[l]) : c[l][i] \in DOMAIN m /\ c[l][i] # e
      BY <1>2, <1>12
    <3>4. \A i \in 1 .. Len(c[l]) :
            n[c[l][i]].prev = IF i = 1 THEN e ELSE m[c[l][i]].prev
      <4>1. \A i \in 1 .. Len(c[l]) : /\ 1 \in 1 .. Len(c[l]) /\ Len(c[l]) # 0
                                     /\ (c[l][i] = t.bucket[l] <=> i = 1)
        BY <3>1, <3>2
      <4> QED
        BY <1>4, <3>3, <4>1
    <3>5. n[e].prev = NULL
      BY <1>4
    <3>6. Back(m, c[l], "prev")
      BY <1>2, <2>1
    <3>7. Back(n, First1(e, c[l]), "prev")
      BY <3>1, <3>4, <3>5, <3>6, BackFirst
    <3>8. Len(First1(e, c[l])) = Len(c[l]) + 1
      <4>1. \A s \in Seq(DOMAIN m) : Len(First1(e, s)) = Len(s) + 1
        BY SeqOps
      <4> QED
        BY <3>1, <4>1
    <3>9. t.nr[l] = Len(c[l]) /\ u.nr[l] = t.nr[l] + 1 /\ c2[l] = First1(e, c[l])
      BY <1>2, <1>5, <1>8, <2>1
    <3> QED
      BY <3>7, <3>8, <3>9
  <2> QED
    BY <1>6, <2>2, <2>3 DEF Counted
<1>17. /\ a \in Seq(DOMAIN m) /\ h \in Nat /\ a2 \in Seq(DOMAIN m) /\ Len(a2) = h + 1
       /\ a2[h + 1] = e /\ Of(a2) = Of(a) \cup {e}
  <2>1. a \in Seq(DOMAIN m)
    BY <1>1 DEF Aged, Path
  <2> QED
    BY <2>1, SeqOps, OfFirst DEF h, a2
<1>18. \A i \in 1 .. h : a2[i] = a[i] /\ a[i] \in DOMAIN m /\ a[i] # e
  <2>1. \A i \in 1 .. h : a[i] \in Of(a)
    BY DEF h, Of
  <2>2. \A i \in 1 .. h : a2[i] = a[i]
    BY <1>17 DEF a2, h, Last1
  <2> QED
    BY <1>17, <2>1, <2>2 DEF h
<1>19. Aged(n, u, a2)
  <2>1. /\ Path(m, a, t.oldest, "newer") /\ t.newest = End(a) /\ t.items = h
        /\ \A i \in 1 .. h : m[a[i]].older = IF i = 1 THEN NULL ELSE a[i - 1]
    BY <1>1 DEF Aged, Back, h
  <2>2. /\ t.oldest = IF h = 0 THEN NULL ELSE a[1]
        /\ t.newest = IF h = 0 THEN NULL ELSE a[h]
        /\ \A i, j \in 1 .. h : a[i] = a[j] => i = j
    BY <2>1 DEF Path, End, h
  <2>3. \A i \in 1 .. h : /\ a[i] # e /\ a[i] \in DOMAIN n
                          /\ n[a[i]].newer = IF i = h THEN e ELSE m[a[i]].newer
    <3>1. \A i \in 1 .. h : h # 0 /\ h \in 1 .. h /\ (a[i] = t.newest <=> i = h)
      BY <1>17, <2>2
    <3> QED
      BY <1>3, <1>4, <1>18, <3>1
  <2>4. n[e].newer = NULL /\ e \in DOMAIN n
    BY <1>3, <1>4
  <2>5. Path(n, a2, IF h = 0 THEN e ELSE t.oldest, "newer")
    <3>1. Path(m, a, t.oldest, "newer") /\ e \in DOMAIN n /\ n[e].newer = NULL
      BY <2>1, <2>4
    <3>2. \A i \in 1 .. Len(a) : /\ a[i] # e /\ a[i] \in DOMAIN n
                                  /\ n[a[i]].newer = IF i = Len(a) THEN e ELSE m[a[i]].newer
      BY <2>3 DEF h
    <3>3. Path(n, Last1(a, e), IF Len(a) = 0 THEN e ELSE t.oldest, "newer")
      BY ONLY <3>1, <3>2, PathLast
    <3> QED
      BY <3>3 DEF h, a2
  <2>6. u.oldest = IF h = 0 THEN e ELSE t.oldest
    <3>1. h # 0 => a[1] # NULL
      BY <1>17 DEF Blocks, h
    <3> QED
      BY <1>5, <2>2, <3>1
  <2>7. ASSUME NEW i \in 1 .. h + 1 PROVE n[a2[i]].older = IF i = 1 THEN NULL ELSE a2[i - 1]
    <3>1. CASE i \in 1 .. h
      <4>1. i # 1 => i - 1 \in 1 .. h
        BY <1>17, <3>1
      <4>2. n[a2[i]].older = m[a[i]].older
        BY <1>4, <1>18, <3>1
      <4> QED
        BY <1>18, <2>1, <3>1, <4>1, <4>2
    <3>2. CASE i = h + 1
      <4>1. n[a2[i]].older = t.newest
        BY <1>4, <1>17, <3>2
      <4>2. i # 1 => i - 1 \in 1 .. h /\ i - 1 = h /\ h # 0
        BY <1>17, <3>2
      <4>3. i = 1 => h = 0
        BY <1>17, <3>2
      <4> QED
        BY <1>18, <2>2, <4>1, <4>2, <4>3
    <3> QED
      BY <1>17, <3>1, <3>2
  <2>8. Back(n, a2, "older")
    BY <1>17, <2>7 DEF Back
  <2>9. End(a2) = e /\ u.newest = e
    BY <1>5, <1>17 DEF End
  <2>10. u.items = Len(a2)
    BY <1>5, <1>17, <2>1
  <2> QED
    BY <2>5, <2>6, <2>8, <2>9, <2>10 DEF Aged
<1>20. OneOfAKey(n, a2)
  <2>1. \A i, j \in 1 .. h : m[a[i]].key = m[a[j]].key => i = j
    BY <1>1 DEF OneOfAKey, h
  <2>2. \A i \in 1 .. h : m[a[i]].key # m[e].key
    BY DEF h
  <2>3. \A i \in 1 .. h + 1 : i \in 1 .. h \/ i = h + 1
    BY <1>17
  <2>4. \A i \in 1 .. h : n[a2[i]].key = m[a[i]].key
    BY <1>4, <1>18
  <2>5. n[a2[h + 1]].key = m[e].key
    BY <1>4, <1>17
  <2>6. ASSUME NEW i \in 1 .. h + 1, NEW j \in 1 .. h + 1, n[a2[i]].key = n[a2[j]].key
        PROVE  i = j
    <3>1. CASE i \in 1 .. h /\ j \in 1 .. h
      BY <2>1, <2>4, <2>6, <3>1
    <3>2. CASE i = h + 1 /\ j \in 1 .. h
      BY <2>2, <2>4, <2>5, <2>6, <3>2
    <3>3. CASE j = h + 1 /\ i \in 1 .. h
      BY <2>2, <2>4, <2>5, <2>6, <3>3
    <3> QED
      BY <2>3, <3>1, <3>2, <3>3
  <2> QED
    BY <1>17, <2>6 DEF OneOfAKey
<1>21. All(u, c2) = All(t, c) \cup {e}
  BY <1>2, <1>6, <1>14 DEF All
<1> QED
  BY <1>1, <1>15, <1>16, <1>17, <1>19, <1>20, <1>21 DEF Sound, l, n, u, a2, c2

(* Block e is left out on the way along f and on the way back along g.     *)
Bypassed(m, n, e, f, g) ==
  \A x \in DOMAIN m : /\ n[x][f] = IF x = m[e][g] THEN m[e][f] ELSE m[x][f]
                      /\ n[x][g] = IF x = m[e][f] THEN m[e][g] ELSE m[x][g]

(* Both ways along a list after the k-th block was taken out.              *)
LEMMA Bypass ==
  ASSUME NEW m, NEW n, NEW s, NEW b, NEW f, NEW g, NEW k \in 1 .. Len(s),
         Path(m, s, b, f), Back(m, s, g), NULL \notin DOMAIN m, DOMAIN n = DOMAIN m,
         Bypassed(m, n, s[k], f, g)
  PROVE  /\ Path(n, Without(s, k), IF m[s[k]][g] = NULL THEN m[s[k]][f] ELSE b, f)
         /\ Back(n, Without(s, k), g)
         /\ End(Without(s, k)) = IF m[s[k]][f] = NULL THEN m[s[k]][g] ELSE End(s)
<1> DEFINE h == Len(s)
           e == s[k]
           r == Without(s, k)
<1>1. /\ s \in Seq(DOMAIN m) /\ h \in Nat /\ k \in 1 .. h
      /\ \A i, j \in 1 .. h : s[i] = s[j] => i = j
      /\ \A i \in 1 .. h : m[s[i]][f] = IF i = h THEN NULL ELSE s[i + 1]
      /\ \A i \in 1 .. h : m[s[i]][g] = IF i = 1 THEN NULL ELSE s[i - 1]
  BY DEF Path, Back
<1>2. \A i \in 1 .. h : s[i] \in DOMAIN m /\ s[i] # NULL
  BY <1>1
<1>3. m[e][g] = IF k = 1 THEN NULL ELSE s[k - 1]
  BY <1>1
<1>4. m[e][f] = IF k = h THEN NULL ELSE s[k + 1]
  BY <1>1
<1>5. \A x \in DOMAIN m : /\ n[x][f] = IF x = m[e][g] THEN m[e][f] ELSE m[x][f]
                          /\ n[x][g] = IF x = m[e][f] THEN m[e][g] ELSE m[x][g]
  BY DEF Bypassed
<1>6. /\ r \in Seq(DOMAIN m) /\ Len(r) = h - 1
      /\ \A i \in 1 .. h - 1 : r[i] = IF i < k THEN s[i] ELSE s[i + 1]
  BY <1>1, WithoutIs
<1> HIDE DEF h, e, r
<1>7. k # 1 => k - 1 \in 1 .. h
  BY <1>1
<1>8. k # h => k + 1 \in 1 .. h
  BY <1>1
<1>9. m[e][g] = NULL <=> k = 1
  BY <1>2, <1>3, <1>7
<1>10. m[e][f] = NULL <=> k = h
  BY <1>2, <1>4, <1>8
<1>11. ASSUME NEW i \in 1 .. h PROVE s[i] = m[e][g] <=> i = k - 1
  <2>1. CASE k = 1
    BY <1>2, <1>3, <2>1
  <2>2. CASE k # 1
    BY <1>1, <1>3, <1>7, <2>2
  <2> QED
    BY <2>1, <2>2
<1>12. ASSUME NEW i \in 1 .. h PROVE s[i] = m[e][f] <=> i = k + 1
  <2>1. CASE k = h
    BY <1>1, <1>2, <1>4, <2>1
  <2>2. CASE k # h
    BY <1>1, <1>4, <1>8, <2>2
  <2> QED
    BY <2>1, <2>2
<1>13. Path(n, r, IF m[e][g] = NULL THEN m[e][f] ELSE b, f)
  <2>1. \A i \in 1 .. h : i # k =>
          /\ s[i] \in DOMAIN n
          /\ n[s[i]][f] = IF i = k - 1 THEN m[e][f] ELSE m[s[i]][f]
    BY <1>2, <1>5, <1>11
  <2>2. Path(n, r, IF k = 1 THEN m[s[1]][f] ELSE b, f)
    BY <2>1, PathWithout DEF r, h, e
  <2>3. (IF m[e][g] = NULL THEN m[e][f] ELSE b) = IF k = 1 THEN m[s[1]][f] ELSE b
    BY <1>9 DEF e
  <2> QED
    BY <2>2, <2>3
<1>14. Back(n, r, g)
  <2>1. \A i \in 1 .. h : i # k =>
          n[s[i]][g] = IF i = k + 1 THEN m[e][g] ELSE m[s[i]][g]
    BY <1>2, <1>5, <1>12
  <2> QED
    BY <1>1, <2>1, BackWithout DEF r, h, e
<1>15. End(r) = IF m[e][f] = NULL THEN m[e][g] ELSE End(s)
  <2>1. CASE k = h
    <3>1. h # 1 => h - 1 \in 1 .. h - 1 /\ h - 1 < k /\ h - 1 # 0
      BY <1>1, <2>1
    <3>2. h # 1 => r[h - 1] = s[h - 1]
      BY <1>6, <3>1
    <3> QED
      BY <1>3, <1>6, <1>10, <2>1, <3>1, <3>2 DEF End
  <2>2. CASE k # h
    <3>1. h - 1 \in 1 .. h - 1 /\ ~(h - 1 < k) /\ (h - 1) + 1 = h /\ h - 1 # 0 /\ h # 0
      BY <1>1, <2>2
    <3>2. r[h - 1] = s[h]
      BY <1>6, <3>1
    <3>3. End(r) = s[h]
      BY <1>6, <3>1, <3>2 DEF End
    <3>4. End(s) = s[h]
      BY <3>1 DEF End, h
    <3> QED
      BY <1>10, <2>2, <3>3, <3>4
  <2> QED
    BY <2>1, <2>2
<1> QED
  BY <1>13, <1>14, <1>15 DEF r, e

(* An entry taken out of its chain and out of the list by age.             *)
LEMMA UnlinkSound ==
  ASSUME NEW m, NEW t, NEW a, NEW c, Cells(m), Blocks(m), Sound(m, t, a, c),
         NEW l \in Slots(t), NEW k \in 1 .. Len(c[l]), NEW p \in 1 .. Len(a),
         a[p] = c[l][k]
  PROVE  LET e == c[l][k]
         IN  Sound(Unlinked(m, e), WithUnlinked(t, m, l, e), Without(a, p),
                   [c EXCEPT ![l] = Without(c[l], k)])
<1> DEFINE e == c[l][k]
           n == Unlinked(m, e)
           u == WithUnlinked(t, m, l, e)
           a2 == Without(a, p)
           c2 == [c EXCEPT ![l] = Without(c[l], k)]
           h == Len(a)
<1>1. /\ Chains(m, t, c) /\ Counted(m, t, c) /\ Aged(m, t, a) /\ OneOfAKey(m, a)
      /\ Of(a) = All(t, c) /\ Shape(t)
  BY DEF Sound, Chains
<1>2. /\ c = [g \in Slots(t) |-> c[g]]
      /\ \A g \in Slots(t) : Path(m, c[g], t.bucket[g], "next")
      /\ \A g \in Slots(t) : \A b \in Of(c[g]) : m[b].key \in Key /\ BucketOf(t, m[b].key) = g
  BY <1>1 DEF Chains
<1>3. \A g \in Slots(t) : c[g] \in Seq(DOMAIN m) /\ Len(c[g]) \in Nat
  BY <1>2 DEF Path
<1>4. \A g \in Slots(t) : \A i \in 1 .. Len(c[g]) : c[g][i] \in DOMAIN m /\ c[g][i] \in Of(c[g])
  BY <1>3 DEF Of
<1>5. e \in DOMAIN m
  BY <1>4
<1>6. DOMAIN n = DOMAIN m
  BY <1>5, UnlinkedIs
<1>7. ASSUME NEW b \in DOMAIN m
      PROVE  /\ n[b].next  = IF b = m[e].prev  THEN m[e].next  ELSE m[b].next
             /\ n[b].prev  = IF b = m[e].next  THEN m[e].prev  ELSE m[b].prev
             /\ n[b].newer = IF b = m[e].older THEN m[e].newer ELSE m[b].newer
             /\ n[b].older = IF b = m[e].newer THEN m[e].older ELSE m[b].older
             /\ n[b].key = m[b].key
  BY <1>5, UnlinkedIs
<1>8. /\ Shape(u) /\ u.size = t.size
      /\ u.items = t.items - 1
      /\ u.oldest = IF m[e].older = NULL THEN m[e].newer ELSE t.oldest
      /\ u.newest = IF m[e].newer = NULL THEN m[e].older ELSE t.newest
      /\ \A g \in Slots(t) :
           /\ u.bucket[g] = IF g = l /\ m[e].prev = NULL THEN m[e].next ELSE t.bucket[g]
           /\ u.nr[g] = IF g = l THEN t.nr[g] - 1 ELSE t.nr[g]
  BY <1>1, WithUnlinkedIs
<1>9. Slots(u) = Slots(t) /\ \A x : BucketOf(u, x) = BucketOf(t, x)
  BY <1>8 DEF Slots, BucketOf
<1>10. /\ c2 = [g \in Slots(t) |-> c2[g]]
       /\ \A g \in Slots(t) : c2[g] = IF g = l THEN Without(c[l], k) ELSE c[g]
  BY <1>2
<1>11. \A g \in Slots(t) : t.nr[g] = Len(c[g]) /\ Back(m, c[g], "prev")
  BY <1>1 DEF Counted
<1>12. e = c[l][k] /\ e = a[p]
  OBVIOUS
<1>14. Path(m, c[l], t.bucket[l], "next") /\ Back(m, c[l], "prev")
  BY <1>2, <1>11
<1>15. Path(m, a, t.oldest, "newer") /\ Back(m, a, "older") /\ t.newest = End(a) /\ t.items = h
  BY <1>1 DEF Aged
<1>16. a \in Seq(DOMAIN m) /\ h \in Nat /\ p \in 1 .. h
       /\ \A i, j \in 1 .. h : a[i] = a[j] => i = j
  BY <1>15 DEF Path
<1>17. \A i \in 1 .. h : a[i] \in DOMAIN m
  BY <1>16
<1>18. NULL \notin DOMAIN m
  BY DEF Blocks
<1> HIDE DEF n, u, a2, c2, h
<1>19. /\ Path(n, Without(c[l], k), IF m[e].prev = NULL THEN m[e].next ELSE t.bucket[l], "next")
       /\ Back(n, Without(c[l], k), "prev")
  <2>1. Bypassed(m, n, c[l][k], "next", "prev")
    BY <1>7 DEF Bypassed
  <2>2. NULL \notin DOMAIN m /\ DOMAIN n = DOMAIN m /\ k \in 1 .. Len(c[l])
    BY <1>6, <1>18
  <2> HIDE DEF e
  <2>3. /\ Path(n, Without(c[l], k), IF m[c[l][k]]["prev"] = NULL THEN m[c[l][k]]["next"] ELSE t.bucket[l], "next")
        /\ Back(n, Without(c[l], k), "prev")
    BY ONLY <1>14, <2>1, <2>2, Bypass
  <2> QED
    BY <1>12, <2>3
<1>20. /\ Path(n, a2, IF m[e].older = NULL THEN m[e].newer ELSE t.oldest, "newer")
       /\ Back(n, a2, "older")
       /\ End(a2) = IF m[e].newer = NULL THEN m[e].older ELSE t.newest
  <2>1. Bypassed(m, n, a[p], "newer", "older")
    BY <1>7, <1>12 DEF Bypassed
  <2>3. NULL \notin DOMAIN m /\ DOMAIN n = DOMAIN m /\ p \in 1 .. Len(a)
    BY <1>6, <1>18
  <2>2. /\ Path(n, Without(a, p), IF m[a[p]]["older"] = NULL THEN m[a[p]]["newer"] ELSE t.oldest, "newer")
        /\ Back(n, Without(a, p), "older")
        /\ End(Without(a, p)) = IF m[a[p]]["newer"] = NULL THEN m[a[p]]["older"] ELSE End(a)
    BY ONLY <1>15, <2>1, <2>3, Bypass
  <2> QED
    BY <1>12, <1>15, <2>2 DEF a2
<1> HIDE DEF e
<1>31. /\ m[e].prev \in Of(c[l]) \cup {NULL} /\ m[e].next \in Of(c[l]) \cup {NULL}
  <2>1. k \in 1 .. Len(c[l]) /\ Len(c[l]) \in Nat
    BY <1>3
  <2>2. k # 1 => k - 1 \in 1 .. Len(c[l])
    BY <2>1
  <2>3. k # Len(c[l]) => k + 1 \in 1 .. Len(c[l])
    BY <2>1
  <2>4. /\ m[e].prev = IF k = 1 THEN NULL ELSE c[l][k - 1]
        /\ m[e].next = IF k = Len(c[l]) THEN NULL ELSE c[l][k + 1]
    BY <1>12, <1>14 DEF Path, Back
  <2> QED
    BY <1>4, <2>2, <2>3, <2>4
<1>21. ASSUME NEW g \in Slots(t), g # l, NEW i \in 1 .. Len(c[g])
       PROVE  /\ n[c[g][i]].next = m[c[g][i]].next
              /\ n[c[g][i]].prev = m[c[g][i]].prev
  <2>1. c[g][i] \notin Of(c[l])
    BY <1>2, <1>4, <1>21
  <2>2. c[g][i] # m[e].prev /\ c[g][i] # m[e].next
    BY <1>4, <1>18, <1>31, <2>1
  <2> QED
    BY <1>4, <1>7, <2>2
<1>22. ASSUME NEW g \in Slots(t) PROVE Path(n, c2[g], u.bucket[g], "next")
  <2>1. CASE g = l
    BY <1>8, <1>10, <1>19, <2>1
  <2>2. CASE g # l
    <3>1. \A i \in 1 .. Len(c[g]) : c[g][i] \in DOMAIN n /\ n[c[g][i]].next = m[c[g][i]].next
      BY <1>4, <1>6, <1>21, <2>2
    <3>2. Path(n, c[g], t.bucket[g], "next")
      BY <1>2, <3>1, PathFrame
    <3> QED
      BY <1>8, <1>10, <2>2, <3>2
  <2> QED
    BY <2>1, <2>2
<1>23. \A g \in Slots(t) : Of(c2[g]) = IF g = l THEN Of(c[l]) \ {e} ELSE Of(c[g])
  <2>1. c[l] \in Seq(DOMAIN m) /\ \A i, j \in 1 .. Len(c[l]) : c[l][i] = c[l][j] => i = j
    BY <1>14 DEF Path
  <2>2. Of(Without(c[l], k)) = Of(c[l]) \ {e}
    BY <1>12, <2>1, OfWithout
  <2> QED
    BY <1>10, <2>2
<1>24. Chains(n, u, c2)
  <2>1. ASSUME NEW g \in Slots(t), NEW b \in Of(c2[g])
        PROVE  n[b].key \in Key /\ BucketOf(u, n[b].key) = g
    <3>1. b \in Of(c[g])
      BY <1>23
    <3>2. b \in DOMAIN m
      BY <1>4, <3>1 DEF Of
    <3> QED
      BY <1>2, <1>7, <1>9, <3>1, <3>2
  <2> QED
    BY <1>8, <1>9, <1>10, <1>22, <2>1 DEF Chains
<1>25. Counted(n, u, c2)
  <2>1. ASSUME NEW g \in Slots(t), g # l PROVE u.nr[g] = Len(c2[g]) /\ Back(n, c2[g], "prev")
    <3>1. c2[g] = c[g] /\ u.nr[g] = t.nr[g]
      BY <1>8, <1>10, <2>1
    <3>2. Back(n, c[g], "prev")
      BY <1>11, <1>21, <2>1 DEF Back
    <3> QED
      BY <1>11, <3>1, <3>2
  <2>2. u.nr[l] = Len(c2[l]) /\ Back(n, c2[l], "prev")
    <3>1. Len(Without(c[l], k)) = Len(c[l]) - 1
      BY <1>3, WithoutIs
    <3> QED
      BY <1>8, <1>10, <1>11, <1>19, <3>1
  <2> QED
    BY <1>9, <2>1, <2>2 DEF Counted
<1>26. /\ a2 \in Seq(DOMAIN m) /\ Len(a2) = h - 1
       /\ \A i \in 1 .. h - 1 : a2[i] = IF i < p THEN a[i] ELSE a[i + 1]
  BY <1>16, WithoutIs DEF a2, h
<1>27. Of(a2) = Of(a) \ {e}
  BY <1>12, <1>16, OfWithout DEF a2, h
<1>28. Aged(n, u, a2)
  BY <1>8, <1>15, <1>20, <1>26 DEF Aged
<1>29. OneOfAKey(n, a2)
  <2>1. \A i, j \in 1 .. h : m[a[i]].key = m[a[j]].key => i = j
    BY <1>1 DEF OneOfAKey, h
  <2>2. ASSUME NEW i \in 1 .. h - 1, NEW j \in 1 .. h - 1, n[a2[i]].key = n[a2[j]].key
        PROVE  i = j
    <3> DEFINE x(y) == IF y < p THEN y ELSE y + 1
    <3>1. x(i) \in 1 .. h /\ x(j) \in 1 .. h /\ (x(i) = x(j) => i = j)
      BY <1>16
    <3>2. a2[i] = a[x(i)] /\ a2[j] = a[x(j)]
      BY <1>26
    <3> HIDE DEF x
    <3>3. m[a[x(i)]].key = m[a[x(j)]].key
      BY <1>7, <1>17, <2>2, <3>1, <3>2
    <3> QED
      BY <2>1, <3>1, <3>3
  <2> QED
    BY <1>26, <2>2 DEF OneOfAKey
<1>30. All(u, c2) = All(t, c) \ {e}
  <2>1. \A g \in Slots(t) : g # l => e \notin Of(c[g])
    BY <1>2, <1>4, <1>12
  <2> QED
    BY <1>9, <1>23, <2>1 DEF All
<1> QED
  BY <1>1, <1>24, <1>25, <1>27, <1>28, <1>29, <1>30 DEF Sound, e, n, u, a2, c2

(* What a search finds.                                                    *)
LEMMA SearchIs ==
  ASSUME NEW t, NEW c, Blocks(mem), Chains(mem, t, c), NEW k \in Key
  PROVE  \/ Search(t, k) = NULL /\ \A e \in All(t, c) : mem[e].key # k
         \/ \E j \in 1 .. Len(c[BucketOf(t, k)]) :
              /\ Search(t, k) = c[BucketOf(t, k)][j]
              /\ mem[Search(t, k)].key = k
<1> DEFINE l == BucketOf(t, k)
           s == c[l]
           found == {n \in DOMAIN s : mem[s[n]].key = k}
<1>1. l \in Slots(t)
  BY BucketIs DEF Chains
<1>2. Path(mem, s, t.bucket[l], "next")
  BY <1>1 DEF Chains
<1>3. Walk(mem, t.bucket[l], "next") = s
  BY <1>2, WalkIs
<1>4. Search(t, k) = IF found = {} THEN NULL ELSE s[Min(found)]
  BY <1>3 DEF Search
<1>5. s \in Seq(DOMAIN mem) /\ DOMAIN s = 1 .. Len(s) /\ Len(s) \in Nat
  BY <1>2 DEF Path
<1> HIDE DEF l
<1>6. CASE found = {}
  <2>1. ASSUME NEW e \in All(t, c), mem[e].key = k PROVE FALSE
    <3>1. PICK g \in Slots(t) : e \in Of(c[g])
      BY DEF All
    <3>2. BucketOf(t, mem[e].key) = g
      BY <3>1 DEF Chains
    <3>3. l = BucketOf(t, k)
      BY DEF l
    <3>4. e \in Of(s)
      BY <2>1, <3>1, <3>2, <3>3
    <3> QED
      BY <1>5, <1>6, <2>1, <3>4 DEF Of
  <2> QED
    BY <1>4, <1>6, <2>1
<1>7. CASE found # {}
  <2>1. found \in SUBSET Nat
    BY <1>5
  <2> HIDE DEF found
  <2>2. PICK n \in found : \A i \in found : n <= i
    BY <1>7, <2>1, Common!Least
  <2>3. Min(found) \in found
    BY <2>2 DEF Min
  <2> USE DEF found
  <2>4. Min(found) \in 1 .. Len(s) /\ mem[s[Min(found)]].key = k
    BY <1>5, <2>3
  <2> QED
    BY <1>4, <1>7, <2>4 DEF l
<1> QED
  BY <1>6, <1>7

(* Memory n is memory m with a new entry e.                                *)
Grown(m, n, e, k, d) == /\ Cells(n) /\ DOMAIN n = DOMAIN m \cup {e}
                        /\ n[e].newer = NULL /\ n[e].key = k /\ n[e].data = d
                        /\ \A b \in DOMAIN m : b # e => n[b] = m[b]

(* What WithEntry makes of the memory.                                     *)
LEMMA WithEntryIs ==
  ASSUME NEW m, Cells(m), NEW e, NEW k, NEW d
  PROVE  Grown(m, WithEntry(m, e, k, d), e, k, d)
<1> DEFINE n == WithEntry(m, e, k, d)
           r == [data |-> d, next |-> NULL, prev |-> NULL,
                 older |-> NULL, newer |-> NULL, key |-> k]
<1>1. DOMAIN n = DOMAIN m \cup {e} /\ n = [b \in DOMAIN n |-> n[b]]
  BY DEF WithEntry
<1>2. \A b \in DOMAIN m \cup {e} : n[b] = IF b = e THEN r ELSE m[b]
  BY DEF WithEntry
<1> HIDE DEF n
<1>3. r = [f \in Fields |-> r[f]]
  BY DEF Fields
<1>4. r.newer = NULL /\ r.key = k /\ r.data = d
  OBVIOUS
<1> HIDE DEF r
<1>5. \A b \in DOMAIN m : m[b] = [f \in Fields |-> m[b][f]]
  BY DEF Cells
<1>6. \A b \in DOMAIN n : n[b] = [f \in Fields |-> n[b][f]]
  <2>1. n[e] = [f \in Fields |-> n[e][f]]
    BY <1>2, <1>3
  <2>2. ASSUME NEW b \in DOMAIN m, b # e PROVE n[b] = [f \in Fields |-> n[b][f]]
    BY <1>2, <1>5, <2>2
  <2> QED
    BY <1>1, <2>1, <2>2
<1>7. Cells(n)
  BY <1>1, <1>6 DEF Cells
<1>8. n[e] = r
  BY <1>2
<1> QED
  BY <1>1, <1>2, <1>4, <1>7, <1>8 DEF Grown, n

(* Memory after the blocks of a sequence were freed.                       *)
LEMMA FreedIs ==
  ASSUME NEW m, NEW s, NEW b, Cells(m), Blocks(m), Path(m, s, b, "data"),
         NEW u \in Seq(DOMAIN m), \A i, j \in 1 .. Len(u) : u[i] = u[j] => i = j,
         Of(u) \cap Of(s) = {}
  PROVE  LET n == Freed(m, b, u)
         IN  /\ Cells(n) /\ DOMAIN n = DOMAIN m
             /\ \A e \in DOMAIN m : e \notin Of(u) => n[e] = m[e]
             /\ Path(n, Before1(u, s), IF u = <<>> THEN b ELSE u[Len(u)], "data")
             /\ Of(Before1(u, s)) = Of(u) \cup Of(s)
<1> DEFINE n == Freed(m, b, u)
           h == Len(u)
<1>1. DOMAIN u = 1 .. h /\ h \in Nat /\ h = Len(u) /\ \A i \in 1 .. h : u[i] \in DOMAIN m
  OBVIOUS
<1>2. DOMAIN n = DOMAIN m /\ n = [e \in DOMAIN n |-> n[e]]
  BY DEF Freed
<1>3. ASSUME NEW e \in DOMAIN m, e \notin Of(u) PROVE n[e] = m[e]
  BY <1>1, <1>3 DEF Freed, Of
<1>4. ASSUME NEW i \in 1 .. h
      PROVE  n[u[i]] = FreeBlock(m[u[i]], IF i = 1 THEN b ELSE u[i - 1])
  <2>1. (CHOOSE j \in DOMAIN u : u[j] = u[i]) = i
    BY <1>1
  <2>2. \E j \in DOMAIN u : u[j] = u[i]
    BY <1>1
  <2>3. u[i] \in DOMAIN m
    BY <1>1
  <2> QED
    BY <2>1, <2>2, <2>3 DEF Freed
<1> HIDE DEF n, h
<1>5. ASSUME NEW e \in DOMAIN m, NEW link
      PROVE  /\ FreeBlock(m[e], link) = [f \in Fields |-> FreeBlock(m[e], link)[f]]
             /\ FreeBlock(m[e], link)["data"] = link
  <2> DEFINE r == m[e]
             q == FreeBlock(r, link)
  <2>1. DOMAIN r = Fields
    BY DEF Cells
  <2>2. q = [f \in DOMAIN r |-> IF f = "data" THEN link ELSE NULL]
    BY DEF FreeBlock
  <2> HIDE DEF r, q
  <2>3. q = [f \in Fields |-> q[f]] /\ q["data"] = link
    BY <2>1, <2>2 DEF Fields
  <2> QED
    BY <2>3 DEF r, q
<1>6. Cells(n)
  <2>1. ASSUME NEW e \in DOMAIN m PROVE n[e] = [f \in Fields |-> n[e][f]]
    <3>1. CASE e \notin Of(u)
      BY <1>3, <3>1 DEF Cells
    <3>2. CASE e \in Of(u)
      <4>1. PICK i \in 1 .. h : e = u[i]
        BY <1>1, <3>2 DEF Of
      <4> DEFINE q == FreeBlock(m[e], IF i = 1 THEN b ELSE u[i - 1])
      <4>2. n[e] = q
        BY <1>4, <4>1
      <4>3. q = [f \in Fields |-> q[f]]
        BY <1>5
      <4> HIDE DEF q
      <4> QED
        BY <4>2, <4>3
    <3> QED
      BY <3>1, <3>2
  <2> QED
    BY <1>2, <2>1 DEF Cells
<1>7. \A i \in 1 .. h : n[u[i]]["data"] = IF i = 1 THEN b ELSE u[i - 1]
  BY <1>1, <1>4, <1>5
<1>8. s \in Seq(DOMAIN m) /\ \A i \in 1 .. Len(s) : s[i] \in DOMAIN m /\ s[i] \in Of(s)
  BY DEF Path, Of
<1>9. Path(n, s, b, "data")
  <2>1. \A i \in 1 .. Len(s) : s[i] \in DOMAIN n /\ n[s[i]]["data"] = m[s[i]]["data"]
    BY <1>2, <1>3, <1>8
  <2> QED
    BY <2>1, PathFrame
<1>10. \A i \in 1 .. Len(u), j \in 1 .. Len(s) : u[i] # s[j]
  BY <1>8 DEF Of
<1>11. /\ Path(n, Before1(u, s), IF Len(u) = 0 THEN b ELSE u[Len(u)], "data")
       /\ Len(Before1(u, s)) = Len(u) + Len(s)
       /\ \A i \in 1 .. Len(u) : Before1(u, s)[Len(u) + 1 - i] = u[i]
       /\ \A i \in 1 .. Len(s) : Before1(u, s)[Len(u) + i] = s[i]
  <2>1. /\ u \in Seq(DOMAIN n)
        /\ \A i, j \in 1 .. Len(u) : u[i] = u[j] => i = j
        /\ \A i \in 1 .. Len(u) : n[u[i]]["data"] = IF i = 1 THEN b ELSE u[i - 1]
    BY <1>1, <1>2, <1>7
  <2> QED
    BY ONLY <1>9, <1>10, <2>1, PathBefore, SMTT(30)
<1>12. Of(Before1(u, s)) = Of(u) \cup Of(s)
  <2> DEFINE r == Before1(u, s)
             k == Len(s)
  <2>1. /\ k \in Nat /\ h \in Nat /\ Len(r) = h + k
        /\ \A i \in 1 .. h : r[h + 1 - i] = u[i]
        /\ \A i \in 1 .. k : r[h + i] = s[i]
    <3>1. k \in Nat /\ h \in Nat
      BY <1>1, <1>8
    <3> QED
      BY ONLY <1>11, <3>1 DEF h, r, k
  <2> HIDE DEF r, k
  <2>2. ASSUME NEW i \in 1 .. h + k PROVE r[i] \in Of(u) \cup Of(s)
    <3>1. CASE i <= h
      <4>1. h + 1 - i \in 1 .. h /\ h + 1 - (h + 1 - i) = i
        BY <2>1, <3>1
      <4>2. r[h + 1 - (h + 1 - i)] = u[h + 1 - i]
        BY <2>1, <4>1
      <4> QED
        BY <1>1, <4>1, <4>2 DEF Of
    <3>2. CASE ~(i <= h)
      <4>1. i - h \in 1 .. k /\ h + (i - h) = i
        BY <2>1, <3>2
      <4>2. r[h + (i - h)] = s[i - h]
        BY <2>1, <4>1
      <4> QED
        BY <4>1, <4>2 DEF Of, k
    <3> QED
      BY <3>1, <3>2
  <2>3. ASSUME NEW i \in 1 .. h PROVE u[i] \in Of(r)
    <3>1. h + 1 - i \in 1 .. h + k /\ r[h + 1 - i] = u[i]
      BY <2>1
    <3> QED
      BY <2>1, <3>1 DEF Of
  <2>4. ASSUME NEW i \in 1 .. k PROVE s[i] \in Of(r)
    <3>1. h + i \in 1 .. h + k /\ r[h + i] = s[i]
      BY <2>1
    <3> QED
      BY <2>1, <3>1 DEF Of
  <2>5. Of(r) \subseteq Of(u) \cup Of(s)
    BY <2>1, <2>2 DEF Of
  <2>6. Of(u) \subseteq Of(r) /\ Of(s) \subseteq Of(r)
    BY <1>1, <2>3, <2>4 DEF Of, k
  <2> QED
    BY <2>5, <2>6 DEF r
<1>13. (u = <<>>) <=> (Len(u) = 0)
  OBVIOUS
<1> QED
  BY <1>2, <1>3, <1>6, <1>11, <1>12, <1>13 DEF n

(* The powers of two, as Create computes them.                             *)
Powers(g, k) == g = [i \in 0 .. k |-> IF i = 0 THEN 1 ELSE 2 * g[i - 1]]

(* The function of the powers of two exists, and is what its definition    *)
(* says.                                                                   *)
LEMMA PowersExist ==
  ASSUME NEW k \in Nat
  PROVE  \E g : Powers(g, k)
<1> DEFINE Bad == {j \in 0 .. k : ~ \E g : Powers(g, j)}
<1>1. ASSUME Bad # {} PROVE FALSE
  <2>1. Bad \in SUBSET Nat
    OBVIOUS
  <2> HIDE DEF Bad
  <2>2. PICK j \in Bad : \A i \in Bad : j <= i
    BY <1>1, <2>1, Common!Least
  <2> USE DEF Bad
  <2>3. j \in Nat /\ j <= k /\ ~ \E g : Powers(g, j)
    BY <2>2
  <2>4. \A i \in Nat : i < j => \E g : Powers(g, i)
    BY <2>2, <2>3
  <2>5. CASE j = 0
    <3> DEFINE g == [i \in 0 .. 0 |-> 1]
    <3>1. g = [i \in 0 .. 0 |-> IF i = 0 THEN 1 ELSE 2 * g[i - 1]]
      OBVIOUS
    <3> QED
      BY <2>3, <2>5, <3>1 DEF Powers
  <2>6. CASE j # 0
    <3>1. j - 1 \in Nat /\ j - 1 < j
      BY <2>3, <2>6
    <3>2. PICK g : Powers(g, j - 1)
      BY <2>4, <3>1
    <3> DEFINE G == [i \in 0 .. j |-> IF i = j THEN 2 * g[j - 1] ELSE g[i]]
    <3>3. \A i \in 0 .. j : G[i] = IF i = j THEN 2 * g[j - 1] ELSE g[i]
      OBVIOUS
    <3>4. \A i \in 0 .. j - 1 : g[i] = IF i = 0 THEN 1 ELSE 2 * g[i - 1]
      BY <3>2 DEF Powers
    <3>5. DOMAIN G = 0 .. j /\ G = [i \in 0 .. j |-> G[i]]
      OBVIOUS
    <3> HIDE DEF G
    <3>6. ASSUME NEW i \in 0 .. j PROVE G[i] = IF i = 0 THEN 1 ELSE 2 * G[i - 1]
      <4>1. i # 0 => i - 1 \in 0 .. j /\ i - 1 # j
        BY <2>3
      <4>2. i # j => i \in 0 .. j - 1
        BY <2>3
      <4> QED
        BY <2>3, <2>6, <3>3, <3>4, <4>1, <4>2
    <3>7. Powers(G, j)
      BY <3>5, <3>6 DEF Powers
    <3> QED
      BY <2>3, <3>7
  <2> QED
    BY <2>5, <2>6
<1> QED
  BY <1>1

(* ght_create makes an empty table.                                        *)
LEMMA CreateIs ==
  ASSUME NEW n \in Nat \ {0}, NEW m
  PROVE  LET t == Create(n)
             c == [l \in Slots(t) |-> <<>>]
         IN  /\ Sound(m, t, <<>>, c) /\ t.size \in Nat \ {0} /\ All(t, c) = {}
<1> DEFINE g == CHOOSE h : h = [i \in 0 .. n |-> IF i = 0 THEN 1 ELSE 2 * h[i - 1]]
           z == CHOOSE x \in Range(g) : n <= x /\ x < 2 * n
           t == [items |-> 0, size |-> z, oldest |-> NULL, newest |-> NULL,
                 bucket |-> [l \in 0 .. z - 1 |-> NULL],
                 nr     |-> [l \in 0 .. z - 1 |-> 0]]
           c == [l \in Slots(t) |-> <<>>]
<1>1. Create(n) = t
  BY DEF Create
<1>2. Powers(g, n)
  <2>1. \E h : Powers(h, n)
    BY PowersExist
  <2> QED
    BY <2>1 DEF Powers
<1> HIDE DEF g
<1>3. /\ DOMAIN g = 0 .. n
      /\ \A i \in 0 .. n : g[i] = IF i = 0 THEN 1 ELSE 2 * g[i - 1]
  BY <1>2 DEF Powers
<1>4. \A i \in 0 .. n : g[i] \in Nat /\ g[i] > i
  <2> DEFINE Bad == {j \in 0 .. n : ~(g[j] \in Nat /\ g[j] > j)}
  <2>1. ASSUME Bad # {} PROVE FALSE
    <3>1. Bad \in SUBSET Nat
      OBVIOUS
    <3> HIDE DEF Bad
    <3>2. PICK j \in Bad : \A i \in Bad : j <= i
      BY <2>1, <3>1, Common!Least
    <3> USE DEF Bad
    <3>3. j \in 0 .. n /\ ~(g[j] \in Nat /\ g[j] > j)
      BY <3>2
    <3>4. j # 0
      BY <1>3, <3>3
    <3>5. j - 1 \in 0 .. n /\ j - 1 \notin Bad
      BY <3>2, <3>3, <3>4
    <3>6. g[j - 1] \in Nat /\ g[j - 1] > j - 1
      BY <3>5
    <3>7. g[j] = 2 * g[j - 1]
      BY <1>3, <3>3, <3>4
    <3> QED
      BY <3>3, <3>4, <3>6, <3>7
  <2> QED
    BY <2>1
<1>5. \E i \in 0 .. n : n <= g[i] /\ g[i] < 2 * n
  <2> DEFINE Big == {i \in 0 .. n : n <= g[i]}
  <2>1. n \in 0 .. n /\ n \in Nat
    OBVIOUS
  <2>2. n \in Big
    BY <1>4, <2>1
  <2>3. Big \in SUBSET Nat /\ Big # {}
    BY <2>2
  <2> HIDE DEF Big
  <2>4. PICK j \in Big : \A i \in Big : j <= i
    BY <2>3, Common!Least
  <2> USE DEF Big
  <2>5. j \in 0 .. n /\ n <= g[j]
    BY <2>4
  <2>6. CASE j = 0
    BY <1>3, <2>5, <2>6
  <2>7. CASE j # 0
    <3>1. j - 1 \in 0 .. n /\ j - 1 \notin Big
      BY <2>4, <2>5, <2>7
    <3>2. g[j - 1] \in Nat /\ g[j - 1] < n
      BY <1>4, <3>1
    <3>3. g[j] = 2 * g[j - 1]
      BY <1>3, <2>5, <2>7
    <3> QED
      BY <2>5, <3>2, <3>3
  <2> QED
    BY <2>6, <2>7
<1>6. \E x \in Range(g) : n <= x /\ x < 2 * n
  BY <1>3, <1>5 DEF Range
<1>7. z \in Range(g) /\ n <= z /\ z < 2 * n
  BY <1>6
<1> HIDE DEF z
<1>8. z \in Nat \ {0}
  BY <1>3, <1>4, <1>7 DEF Range
<1>9. /\ t = [f \in {"items", "size", "oldest", "newest", "bucket", "nr"} |-> t[f]]
      /\ t.size = z /\ t.items = 0 /\ t.oldest = NULL /\ t.newest = NULL
      /\ t.bucket = [l \in 0 .. z - 1 |-> NULL] /\ t.nr = [l \in 0 .. z - 1 |-> 0]
  OBVIOUS
<1> HIDE DEF t
<1>10. Slots(t) = 0 .. z - 1
  BY <1>9 DEF Slots
<1>11. Shape(t)
  BY <1>8, <1>9, <1>10 DEF Shape
<1>12. c = [l \in Slots(t) |-> c[l]] /\ \A l \in Slots(t) : c[l] = <<>>
  OBVIOUS
<1> HIDE DEF c
<1>13. /\ <<>> \in Seq(DOMAIN m) /\ Len(<<>>) = 0 /\ 1 .. 0 = {}
  OBVIOUS
<1>14. \A f : Path(m, <<>>, NULL, f) /\ Back(m, <<>>, f)
  BY <1>13 DEF Path, Back
<1>15. End(<<>>) = NULL /\ Of(<<>>) = {}
  BY <1>13 DEF End, Of
<1>16. Chains(m, t, c)
  <2>1. \A l \in Slots(t) : c[l] = <<>> /\ t.bucket[l] = NULL
    BY <1>9, <1>10, <1>12
  <2>2. \A l \in Slots(t) : Path(m, c[l], t.bucket[l], "next") /\ Of(c[l]) = {}
    BY <1>14, <1>15, <2>1
  <2> QED
    BY <1>11, <1>12, <2>2 DEF Chains
<1>17. Counted(m, t, c)
  <2>1. ASSUME NEW l \in Slots(t) PROVE t.nr[l] = Len(c[l]) /\ Back(m, c[l], "prev")
    <3>1. c[l] = <<>> /\ t.nr[l] = 0
      BY <1>9, <1>10, <1>12, <2>1
    <3>2. Back(m, <<>>, "prev")
      BY <1>14
    <3> QED
      BY <1>13, <3>1, <3>2
  <2> QED
    BY <2>1 DEF Counted
<1>18. Aged(m, t, <<>>) /\ OneOfAKey(m, <<>>)
  BY <1>9, <1>13, <1>14, <1>15 DEF Aged, OneOfAKey
<1>19. All(t, c) = {}
  BY <1>12, <1>15 DEF All
<1> QED
  BY <1>1, <1>8, <1>9, <1>15, <1>16, <1>17, <1>18, <1>19 DEF Sound, c

-----------------------------------------------------------------------------
(* The invariant.                                                          *)

(* The pool: blocks are numbered below the next one of the newest array.   *)
Pool ==
  /\ pools_size \in Nat \ {0}
  /\ first_free \in 0 .. POOL_ARRAY_COUNT - 1
  /\ \A b \in DOMAIN mem : b \in Nat /\ b < Block(pools_size, first_free)
  /\ IsFiniteSet(DOMAIN mem) /\ Cells(mem)

(* The free list leads through f, and every block has one owner: the free  *)
(* list, the table, the copy of it or the insert.                          *)
Owned(m, fl, f, A, B, E) ==
  /\ Path(m, f, fl, "data")
  /\ DOMAIN m = Of(f) \cup A \cup B \cup E
  /\ A \cap Of(f) = {} /\ B \cap Of(f) = {} /\ E \cap Of(f) = {}
  /\ A \cap B = {} /\ A \cap E = {} /\ B \cap E = {}

Absent(m, a, k) == \A i \in 1 .. Len(a) : m[a[i]].key # k

(* The copy has the first entries of the table; cursor is the next one.    *)
Copied(m, a, b, cur) ==
  /\ Len(b) < Len(a) /\ cur = a[Len(b) + 1]
  /\ \A i \in 1 .. Len(b) : m[b[i]].key = m[a[i]].key /\ m[b[i]].data = m[a[i]].data

(* Table t with its copy u, entry e that waits for bucket l.               *)
Lists(m, t, u, p, cur, e, l, a, c, b, d) ==
  /\ Chains(m, t, c)
  /\ p # "copy" \/ cur # NULL => Sound(m, t, a, c)
  /\ p = "copy" => Sound(m, u, b, d) /\ Absent(m, b, m[e].key)
  /\ p = "copy" /\ cur # NULL => Copied(m, a, b, cur) /\ Absent(m, a, m[e].key)
  /\ p # "idle" => m[e].newer = NULL /\ m[e].key \in Key
  /\ p = "link" => Absent(m, a, m[e].key) /\ l = BucketOf(t, m[e].key)

Copies(u, p, d)  == IF p = "copy" THEN All(u, d) ELSE {}
Waiting(p, e)    == IF p = "idle" THEN {} ELSE {e}

IInv ==
  /\ Pool
  /\ pc \in {"idle", "copy", "link"}
  /\ pc = "idle" => p_entry = NULL
  /\ \E f, a, c, b, d :
       /\ Lists(mem, ht, tmp, pc, cursor, p_entry, l_key, a, c, b, d)
       /\ Owned(mem, free_list, f, All(ht, c), Copies(tmp, pc, d), Waiting(pc, p_entry))

(* The block alloc returns is a new one or the first of the free list.     *)
LEMMA AllocIs ==
  ASSUME Pool, Alloc, NEW f, Path(mem, f, free_list, "data")
  PROVE  /\ NextBlock \in Nat
         /\ pools_size' \in Nat \ {0} /\ first_free' \in 0 .. POOL_ARRAY_COUNT - 1
         /\ \A b \in DOMAIN mem \cup {NextBlock} :
              b \in Nat /\ b < Block(pools_size', first_free')
         /\ \E g : /\ Path(mem, g, free_list', "data") /\ Of(g) = Of(f) \ {NextBlock}
                   /\ NextBlock \in DOMAIN mem => NextBlock \in Of(f)
<1> DEFINE C == POOL_ARRAY_COUNT
           q == (pools_size - 1) * C
<1>1. C \in Nat \ {0, 1} /\ NULL \notin Int /\ pools_size \in Nat \ {0} /\ first_free \in 0 .. C - 1
  BY PoolAssumption DEF Pool
<1>2. q \in Nat /\ ((pools_size + 1) - 1) * C = q + C
  <2>1. \A x \in Nat, y \in Nat : x * y \in Nat /\ (x + 1) * y = x * y + y
    OBVIOUS
  <2>2. pools_size - 1 \in Nat /\ (pools_size + 1) - 1 = (pools_size - 1) + 1 /\ C \in Nat
    BY <1>1
  <2> QED
    BY <2>1, <2>2
<1>3. \A b \in DOMAIN mem : b \in Nat /\ b < q + first_free
  BY DEF Pool, Block
<1> HIDE DEF q, C
<1>4. CASE free_list # NULL
  <2>1. NextBlock = free_list /\ free_list' = mem[free_list]["data"]
        /\ pools_size' = pools_size /\ first_free' = first_free
    BY <1>4 DEF NextBlock, Alloc, FreelistGet, GetNextFree
  <2>2. Len(f) # 0 /\ free_list = f[1] /\ f \in Seq(DOMAIN mem)
        /\ \A i, j \in 1 .. Len(f) : f[i] = f[j] => i = j
    BY <1>4 DEF Path
  <2>3. 1 \in 1 .. Len(f) /\ free_list \in DOMAIN mem
    BY <2>2
  <2>4. free_list \in Of(f)
    BY <2>2, <2>3 DEF Of
  <2>5. Path(mem, Rest1(f), free_list', "data")
    BY <2>1, <2>2, PathRest
  <2>6. Rest1(f) = Without(f, 1)
    BY DEF Rest1, Without
  <2>7. Of(Rest1(f)) = Of(f) \ {NextBlock}
    BY <2>1, <2>2, <2>3, <2>6, OfWithout
  <2>8. Of(f) \subseteq DOMAIN mem
    BY <2>2 DEF Of
  <2>9. /\ \E g : /\ Path(mem, g, free_list', "data") /\ Of(g) = Of(f) \ {NextBlock}
                  /\ NextBlock \in DOMAIN mem => NextBlock \in Of(f)
    BY <2>1, <2>4, <2>5, <2>7, <2>8
  <2> QED
    BY <1>1, <1>3, <2>1, <2>3, <2>9 DEF C, q, Block
<1>5. CASE free_list = NULL
  <2>1. Len(f) = 0
    <3>1. Len(f) # 0 => f[1] = NULL /\ f[1] \in DOMAIN mem
      BY <1>5 DEF Path
    <3> QED
      BY <1>1, <1>3, <3>1
  <2>2. Of(f) = {}
    BY <2>1 DEF Of
  <2>3. free_list' = NULL
    BY <1>5 DEF Alloc, FreelistGet, GetNextFree
  <2>4. CASE first_free >= C - 1
    <3>1. NextBlock = q + C /\ pools_size' = pools_size + 1 /\ first_free' = 1
      BY <1>1, <1>2, <1>5, <2>4 DEF NextBlock, Block, Full, C, Alloc, FreelistGet, GetNextFree
    <3>2. Block(pools_size', first_free') = (q + C) + 1
      BY <1>2, <3>1 DEF Block, C
    <3>3. q + C \in Nat /\ \A b \in Nat : b < q + first_free => b < (q + C) + 1 /\ b # q + C
      BY <1>1, <1>2
    <3>4. NextBlock \notin DOMAIN mem
      BY <1>3, <3>1, <3>3
    <3>5. \A b \in DOMAIN mem \cup {NextBlock} : b \in Nat /\ b < (q + C) + 1
      BY <1>3, <3>1, <3>3
    <3>6. 1 \in 0 .. C - 1 /\ pools_size + 1 \in Nat \ {0}
      BY <1>1
    <3>7. \E g : /\ Path(mem, g, free_list', "data") /\ Of(g) = Of(f) \ {NextBlock}
                 /\ NextBlock \in DOMAIN mem => NextBlock \in Of(f)
      BY <1>5, <2>2, <2>3, <3>4
    <3> QED
      BY <3>1, <3>2, <3>3, <3>5, <3>6, <3>7 DEF C
  <2>5. CASE ~(first_free >= C - 1)
    <3>1. NextBlock = q + first_free /\ pools_size' = pools_size /\ first_free' = first_free + 1
      BY <1>1, <1>2, <1>5, <2>5 DEF NextBlock, Block, Full, C, q, Alloc, FreelistGet, GetNextFree
    <3>2. Block(pools_size', first_free') = q + (first_free + 1)
      BY <3>1 DEF Block, C, q
    <3>3. q + first_free \in Nat
          /\ \A b \in Nat : b < q + first_free => b < q + (first_free + 1) /\ b # q + first_free
          /\ q + first_free < q + (first_free + 1)
      BY <1>1, <1>2
    <3>4. NextBlock \notin DOMAIN mem
      BY <1>3, <3>1, <3>3
    <3>5. \A b \in DOMAIN mem \cup {NextBlock} : b \in Nat /\ b < q + (first_free + 1)
      <4>1. \A b \in DOMAIN mem : b \in Nat /\ b < q + (first_free + 1)
        BY <1>3, <3>3
      <4>2. NextBlock \in Nat /\ NextBlock < q + (first_free + 1)
        BY <1>1, <1>2, <3>1
      <4> QED
        BY <4>1, <4>2
    <3>6. first_free + 1 \in 0 .. C - 1
      BY <1>1, <2>5
    <3>7. \E g : /\ Path(mem, g, free_list', "data") /\ Of(g) = Of(f) \ {NextBlock}
                 /\ NextBlock \in DOMAIN mem => NextBlock \in Of(f)
      BY <1>5, <2>2, <2>3, <3>4
    <3> QED
      BY <1>1, <3>1, <3>2, <3>3, <3>5, <3>6, <3>7 DEF C
  <2> QED
    BY <2>4, <2>5
<1> QED
  BY <1>4, <1>5

(* What the pool says of its blocks: there are finitely many, and NULL is  *)
(* none.                                                                   *)
LEMMA PoolBlocks ==
  ASSUME Pool
  PROVE  Blocks(mem) /\ Cells(mem) /\ \A e \in DOMAIN mem : e \in Nat /\ e # NULL
BY PoolAssumption DEF Pool, Blocks

(* A list holds blocks only, each of them once.                            *)
LEMMA PathOf ==
  ASSUME NEW m, NEW s, NEW b, NEW f, Path(m, s, b, f)
  PROVE  /\ s \in Seq(DOMAIN m) /\ Len(s) \in Nat /\ Of(s) \subseteq DOMAIN m
         /\ \A i, j \in 1 .. Len(s) : s[i] = s[j] => i = j
         /\ \A i \in 1 .. Len(s) : s[i] \in Of(s) /\ s[i] \in DOMAIN m
<1>1. /\ s \in Seq(DOMAIN m) /\ Len(s) \in Nat
      /\ \A i, j \in 1 .. Len(s) : s[i] = s[j] => i = j
  BY DEF Path
<1>2. \A i \in 1 .. Len(s) : s[i] \in DOMAIN m
  BY <1>1
<1>3. Of(s) \subseteq DOMAIN m /\ \A i \in 1 .. Len(s) : s[i] \in Of(s)
  BY <1>2 DEF Of
<1> QED
  BY <1>1, <1>2, <1>3

(* A list nobody touched.                                                  *)
LEMMA PathStays ==
  ASSUME NEW m, NEW n, NEW s, NEW b, NEW f, Path(m, s, b, f),
         \A e \in Of(s) : e \in DOMAIN n /\ n[e][f] = m[e][f]
  PROVE  Path(n, s, b, f)
<1>1. \A i \in 1 .. Len(s) : s[i] \in Of(s)
  BY PathOf
<1> QED
  BY <1>1, PathFrame

(* A key that is on no entry of a list stays so while no key of them       *)
(* changes.                                                                *)
LEMMA AbsentStays ==
  ASSUME NEW m, NEW n, NEW a, NEW k, Absent(m, a, k), \A e \in Of(a) : n[e].key = m[e].key
  PROVE  Absent(n, a, k)
BY DEF Absent, Of

(* A key that is in no chain.                                              *)
LEMMA AbsentIs ==
  ASSUME NEW m, NEW t, NEW a, NEW c, NEW k, Sound(m, t, a, c),
         \A e \in All(t, c) : m[e].key # k
  PROVE  Absent(m, a, k)
<1>1. \A i \in 1 .. Len(a) : a[i] \in Of(a)
  BY DEF Of
<1> QED
  BY <1>1 DEF Absent, Sound

-----------------------------------------------------------------------------
(* Functions of numbers as sequences.                                      *)

(* s is a function of the first n numbers.                                 *)
Numbered(s, n) == s = [i \in 1 .. n |-> s[i]]

(* Such a function is a sequence.                                          *)
LEMMA SeqIs ==
  ASSUME NEW n \in Nat, NEW s, Numbered(s, n), NEW S, \A i \in 1 .. n : s[i] \in S
  PROVE  s \in Seq(S) /\ Len(s) = n
BY DEF Numbered

(* What Append makes.                                                      *)
LEMMA AppendIs ==
  ASSUME NEW n \in Nat, NEW s, NEW y, NEW r,
         Numbered(s, n), Numbered(y, n + 1),
         y[n + 1] = r, \A i \in 1 .. n : y[i] = s[i]
  PROVE  y = Append(s, r)
<1> DEFINE S == {s[i] : i \in 1 .. n} \cup {r}
<1>1. r \in S /\ \A i \in 1 .. n : s[i] \in S
  OBVIOUS
<1>2. \A i \in 1 .. n + 1 : y[i] \in S
  <2>1. \A i \in 1 .. n + 1 : i = n + 1 \/ i \in 1 .. n
    OBVIOUS
  <2> QED
    BY <1>1, <2>1
<1> HIDE DEF S
<1>3. s \in Seq(S) /\ Len(s) = n
  BY <1>1, SeqIs
<1>4. n + 1 \in Nat
  OBVIOUS
<1>5. y \in Seq(S) /\ Len(y) = n + 1
  BY <1>2, <1>4, SeqIs
<1>6. /\ Append(s, r) \in Seq(S) /\ Len(Append(s, r)) = n + 1
      /\ \A i \in 1 .. n : Append(s, r)[i] = s[i]
      /\ Append(s, r)[n + 1] = r
  BY <1>1, <1>3, AppendProperties
<1>7. \A i \in 1 .. n + 1 : y[i] = Append(s, r)[i]
  <2>1. \A i \in 1 .. n + 1 : i = n + 1 \/ i \in 1 .. n
    OBVIOUS
  <2> QED
    BY <1>6, <2>1
<1> QED
  BY <1>5, <1>6, <1>7, SeqEqual

(* What Tail leaves.                                                       *)
LEMMA TailIs ==
  ASSUME NEW n \in Nat, n # 0, NEW s, NEW y,
         Numbered(s, n), Numbered(y, n - 1),
         \A i \in 1 .. n - 1 : y[i] = s[i + 1]
  PROVE  y = Tail(s)
<1> DEFINE S == {s[i] : i \in 1 .. n}
<1>1. \A i \in 1 .. n : s[i] \in S
  OBVIOUS
<1>2. \A i \in 1 .. n - 1 : y[i] \in S
  <2>1. \A i \in 1 .. n - 1 : i \in 1 .. n /\ i + 1 \in 1 .. n
    OBVIOUS
  <2> QED
    BY <1>1, <2>1
<1> HIDE DEF S
<1>3. s \in Seq(S) /\ Len(s) = n /\ s # <<>>
  <2>1. s \in Seq(S) /\ Len(s) = n
    BY <1>1, SeqIs
  <2> QED
    BY <2>1
<1>4. n - 1 \in Nat
  OBVIOUS
<1>5. y \in Seq(S) /\ Len(y) = n - 1
  BY <1>2, <1>4, SeqIs
<1>6. /\ Tail(s) \in Seq(S) /\ Len(Tail(s)) = n - 1
      /\ \A i \in 1 .. n - 1 : Tail(s)[i] = s[i + 1]
  BY <1>3, HeadTailProperties
<1> QED
  BY <1>5, <1>6, SeqEqual

(* What RemoveAt leaves.                                                   *)
LEMMA RemoveAtIs ==
  ASSUME NEW n \in Nat, NEW p \in 1 .. n, NEW s, NEW y,
         Numbered(s, n), Numbered(y, n - 1),
         \A i \in 1 .. n - 1 : y[i] = IF i < p THEN s[i] ELSE s[i + 1]
  PROVE  y = RemoveAt(s, p)
<1> DEFINE S == {s[i] : i \in 1 .. n}
           u == SubSeq(s, 1, p - 1)
           v == SubSeq(s, p + 1, n)
<1>1. \A i \in 1 .. n : s[i] \in S
  OBVIOUS
<1>2. \A i \in 1 .. n - 1 : y[i] \in S
  <2>1. \A i \in 1 .. n - 1 : i \in 1 .. n /\ i + 1 \in 1 .. n
    OBVIOUS
  <2> QED
    BY <1>1, <2>1
<1> HIDE DEF S
<1>3. s \in Seq(S) /\ Len(s) = n
  BY <1>1, SeqIs
<1>4. n - 1 \in Nat
  OBVIOUS
<1>5. y \in Seq(S) /\ Len(y) = n - 1
  BY <1>2, <1>4, SeqIs
<1>6. u \in Seq(S) /\ Len(u) = p - 1 /\ \A i \in 1 .. p - 1 : u[i] = s[i]
  BY <1>3
<1>7. v \in Seq(S) /\ Len(v) = n - p /\ \A i \in 1 .. n - p : v[i] = s[p + i]
  <2>1. v = [i \in 1 .. n - p |-> s[p + i]]
    BY <1>3
  <2>2. n - p \in Nat /\ \A i \in 1 .. n - p : v[i] \in S
    BY <1>1, <2>1
  <2> HIDE DEF v
  <2>3. Numbered(v, n - p)
    BY <2>1 DEF Numbered
  <2>4. v \in Seq(S) /\ Len(v) = n - p
    BY <2>2, <2>3, SeqIs
  <2> QED
    BY <2>1, <2>4
<1> HIDE DEF u, v
<1>8. /\ u \o v \in Seq(S) /\ Len(u \o v) = n - 1
      /\ \A i \in 1 .. n - 1 : (u \o v)[i] = IF i <= p - 1 THEN u[i] ELSE v[i - (p - 1)]
  <2>1. /\ u \o v \in Seq(S) /\ Len(u \o v) = Len(u) + Len(v)
        /\ \A i \in 1 .. Len(u) + Len(v) :
             (u \o v)[i] = IF i <= Len(u) THEN u[i] ELSE v[i - Len(u)]
    BY <1>6, <1>7, ConcatProperties
  <2>2. Len(u) + Len(v) = n - 1
    BY <1>6, <1>7
  <2> QED
    BY <1>6, <2>1, <2>2
<1>9. ASSUME NEW i \in 1 .. n - 1 PROVE (u \o v)[i] = y[i]
  <2>1. CASE i < p
    <3>1. i \in 1 .. p - 1 /\ i <= p - 1
      BY <2>1
    <3> QED
      BY <1>6, <1>8, <2>1, <3>1
  <2>2. CASE ~(i < p)
    <3>1. i - (p - 1) \in 1 .. n - p /\ p + (i - (p - 1)) = i + 1 /\ ~(i <= p - 1)
      BY <2>2
    <3> QED
      BY <1>7, <1>8, <2>2, <3>1
  <2> QED
    BY <2>1, <2>2
<1>10. u \o v = y
  BY <1>5, <1>8, <1>9, SeqEqual
<1> QED
  BY <1>3, <1>10 DEF RemoveAt, u, v

-----------------------------------------------------------------------------
(* What callers see.                                                       *)

(* The entries of a table by age, and the pairs of the entries of a list.  *)
Order(m, t)   == Walk(m, t.oldest, "newer")
PairsOf(m, s) == [i \in 1 .. Len(s) |-> [key |-> m[s[i]].key, data |-> m[s[i]].data]]
PairsIn(m, t) == LET s == Order(m, t)
                 IN  [i \in DOMAIN s |-> [key |-> m[s[i]].key, data |-> m[s[i]].data]]

(* A sound table shows the pairs of its list by age.                       *)
LEMMA OrderOf ==
  ASSUME NEW m, NEW t, NEW a, NEW c, Blocks(m), Sound(m, t, a, c)
  PROVE  Order(m, t) = a /\ PairsIn(m, t) = PairsOf(m, a)
<1>1. Path(m, a, t.oldest, "newer")
  BY DEF Sound, Aged
<1>2. Order(m, t) = a
  BY <1>1, WalkIs DEF Order
<1>3. DOMAIN a = 1 .. Len(a)
  BY <1>1, PathOf
<1> QED
  BY <1>2, <1>3 DEF PairsIn, PairsOf

(* Pairs are the same while no key and no data of the list changes.        *)
LEMMA SamePairs ==
  ASSUME NEW m, NEW n, NEW a,
         \A x \in Of(a) : n[x].key = m[x].key /\ n[x].data = m[x].data
  PROVE  PairsOf(n, a) = PairsOf(m, a)
<1>1. \A i \in 1 .. Len(a) : a[i] \in Of(a)
  BY DEF Of
<1> QED
  BY <1>1 DEF PairsOf

(* Pairs of two lists that have the same keys and data in the same order.  *)
LEMMA EqualPairs ==
  ASSUME NEW m, NEW a, NEW b, Len(b) = Len(a),
         \A i \in 1 .. Len(a) : m[b[i]].key = m[a[i]].key /\ m[b[i]].data = m[a[i]].data
  PROVE  PairsOf(m, b) = PairsOf(m, a)
BY DEF PairsOf

(* Which table callers see in a state.                                     *)
LEMMA CurrentIs ==
  /\ pc \in {"idle", "link"} => Current = ht
  /\ pc = "copy" => Current = IF cursor = NULL THEN tmp ELSE ht
  /\ Pairs = PairsIn(mem, Current)
  /\ Pairs' = PairsIn(mem', Current')
  /\ pc' \in {"idle", "link"} => Current' = ht'
  /\ pc' = "copy" => Current' = IF cursor' = NULL THEN tmp' ELSE ht'
<1>1. Pairs = PairsIn(mem, Current)
  BY DEF Pairs, PairsIn, PairOf, Ages, Order
<1>2. Pairs' = PairsIn(mem', Current')
  BY DEF Pairs, PairsIn, PairOf, Ages, Order
<1> QED
  BY <1>1, <1>2 DEF Current, Rehashing

(* The next state's pool has the same to say of its blocks.                *)
LEMMA PoolBlocksNext ==
  ASSUME Pool'
  PROVE  Blocks(mem')
BY PoolAssumption DEF Pool, Blocks

(* The invariant holds of the empty table and the pool with one empty      *)
(* array.                                                                  *)
LEMMA InitOk == Init => IInv
<1> SUFFICES ASSUME Init PROVE IInv
  OBVIOUS
<1> DEFINE c == [l \in Slots(ht) |-> <<>>]
<1>1. /\ mem = <<>> /\ free_list = NULL /\ pools_size = 1 /\ first_free = 0
      /\ ht = Create(InitialSize) /\ pc = "idle" /\ p_entry = NULL
  BY DEF Init, PoolInit
<1>2. DOMAIN mem = {}
  BY <1>1
<1>3. Cells(mem)
  BY <1>2 DEF Cells
<1>4. Pool
  <2>1. POOL_ARRAY_COUNT \in Nat \ {0, 1} /\ 0 \in 0 .. POOL_ARRAY_COUNT - 1
    BY PoolAssumption
  <2>2. IsFiniteSet(DOMAIN mem)
    BY <1>2, FS_EmptySet
  <2> QED
    BY <1>1, <1>2, <1>3, <2>1, <2>2 DEF Pool
<1>5. Sound(mem, ht, <<>>, c) /\ All(ht, c) = {}
  BY <1>1, HashAssumption, CreateIs
<1>6. Lists(mem, ht, tmp, pc, cursor, p_entry, l_key, <<>>, c, <<>>, c)
  BY <1>1, <1>5 DEF Lists, Sound
<1>7. Owned(mem, free_list, <<>>, All(ht, c), Copies(tmp, pc, c), Waiting(pc, p_entry))
  <2>1. Path(mem, <<>>, free_list, "data") /\ Of(<<>>) = {}
    BY <1>1 DEF Path, Of
  <2> QED
    BY <1>1, <1>2, <1>5, <2>1 DEF Owned, Copies, Waiting
<1> QED
  BY <1>1, <1>4, <1>6, <1>7 DEF IInv

(* A new entry.                                                            *)
LEMMA InsertNewOk ==
  ASSUME IInv, NEW k \in Key, NEW d \in Data, InsertNew(k, d)
  PROVE  IInv' /\ Pairs' = Pairs /\ mem'[p_entry'].data \in Data
<1>1. PICK f, a, c, b, z :
        /\ Lists(mem, ht, tmp, pc, cursor, p_entry, l_key, a, c, b, z)
        /\ Owned(mem, free_list, f, All(ht, c), Copies(tmp, pc, z), Waiting(pc, p_entry))
  BY DEF IInv
<1>2. /\ pc = "idle" /\ Search(ht, k) = NULL /\ l_key' = BucketOf(ht, k)
      /\ p_entry' = NextBlock /\ mem' = WithEntry(mem, NextBlock, k, d) /\ Alloc
      /\ ht' = ht
      /\ \/ ht.items > 2 * ht.size /\ pc' = "copy" /\ tmp' = Create(2 * ht.size)
            /\ cursor' = ht.oldest
         \/ pc' = "link"
  BY DEF InsertNew
<1>3. /\ Sound(mem, ht, a, c) /\ Chains(mem, ht, c) /\ Of(a) = All(ht, c)
      /\ Aged(mem, ht, a) /\ Shape(ht)
  BY <1>1, <1>2 DEF Lists, Sound, Chains
<1>4. /\ Path(mem, f, free_list, "data") /\ DOMAIN mem = Of(f) \cup Of(a)
      /\ Of(a) \cap Of(f) = {}
  BY <1>1, <1>2, <1>3 DEF Owned, Copies, Waiting
<1>5. Blocks(mem) /\ Cells(mem) /\ Pool /\ IsFiniteSet(DOMAIN mem)
  BY PoolBlocks DEF IInv, Pool
<1>6. /\ NextBlock \in Nat
      /\ pools_size' \in Nat \ {0} /\ first_free' \in 0 .. POOL_ARRAY_COUNT - 1
      /\ \A x \in DOMAIN mem \cup {NextBlock} :
           x \in Nat /\ x < Block(pools_size', first_free')
      /\ NextBlock \in DOMAIN mem => NextBlock \in Of(f)
  BY <1>2, <1>4, <1>5, AllocIs
<1>7. PICK g : Path(mem, g, free_list', "data") /\ Of(g) = Of(f) \ {NextBlock}
  BY <1>2, <1>4, <1>5, AllocIs
<1>8. /\ Cells(mem') /\ DOMAIN mem' = DOMAIN mem \cup {NextBlock}
      /\ mem'[NextBlock].newer = NULL /\ mem'[NextBlock].key = k /\ mem'[NextBlock].data = d
      /\ \A x \in DOMAIN mem : x # NextBlock => mem'[x] = mem[x]
  <2>0. Grown(mem, WithEntry(mem, NextBlock, k, d), NextBlock, k, d)
    BY <1>5, WithEntryIs
  <2> DEFINE n == WithEntry(mem, NextBlock, k, d)
  <2>1. /\ Cells(n) /\ DOMAIN n = DOMAIN mem \cup {NextBlock}
        /\ n[NextBlock].newer = NULL /\ n[NextBlock].key = k /\ n[NextBlock].data = d
        /\ \A x \in DOMAIN mem : x # NextBlock => n[x] = mem[x]
    BY <2>0 DEF Grown
  <2> HIDE DEF n
  <2>2. mem' = n
    BY <1>2 DEF n
  <2> QED
    BY <2>1, <2>2
<1>9. Pool'
  <2>1. IsFiniteSet(DOMAIN mem')
    BY <1>5, <1>8, FS_AddElement
  <2> QED
    BY <1>6, <1>8, <2>1 DEF Pool, Block
<1>10. \A x \in Of(a) \cup Of(g) : x \in DOMAIN mem /\ x # NextBlock /\ x \in DOMAIN mem' /\ mem'[x] = mem[x]
  BY <1>4, <1>6, <1>7, <1>8
<1>11. Sound(mem', ht, a, c)
  BY <1>3, <1>10, SoundFrame DEF SamePlace
<1>12. Path(mem', g, free_list', "data")
  BY <1>7, <1>10, PathStays
<1>13. Absent(mem', a, k)
  <2>1. \A x \in All(ht, c) : mem[x].key # k
    <3>1. \A j \in 1 .. Len(c[BucketOf(ht, k)]) : c[BucketOf(ht, k)][j] # NULL
      <4>1. BucketOf(ht, k) \in Slots(ht)
        BY <1>3, BucketIs
      <4>2. Path(mem, c[BucketOf(ht, k)], ht.bucket[BucketOf(ht, k)], "next")
        BY <1>3, <4>1 DEF Chains
      <4> QED
        BY <1>5, <4>2, PathOf DEF Blocks
    <3> QED
      BY <1>2, <1>3, <1>5, <3>1, SearchIs
  <2>2. Absent(mem, a, k)
    BY <1>3, <2>1, AbsentIs
  <2> QED
    BY <1>10, <2>2, AbsentStays
<1>14. Chains(mem', ht, c)
  BY <1>11 DEF Sound
<1>15. ASSUME NEW w, Copies(tmp', pc', w) = {}
       PROVE  Owned(mem', free_list', g, All(ht', c), Copies(tmp', pc', w), Waiting(pc', p_entry'))
  <2>1. Waiting(pc', p_entry') = {NextBlock}
    BY <1>2 DEF Waiting
  <2> QED
    BY <1>2, <1>3, <1>4, <1>6, <1>7, <1>8, <1>12, <1>15, <2>1 DEF Owned
<1>16. ASSUME pc' = "link" PROVE IInv'
  <2>1. Lists(mem', ht', tmp', pc', cursor', p_entry', l_key', a, c, b, z)
    BY <1>2, <1>8, <1>11, <1>13, <1>14, <1>16 DEF Lists
  <2>2. Copies(tmp', pc', z) = {}
    BY <1>16 DEF Copies
  <2>3. Owned(mem', free_list', g, All(ht', c), Copies(tmp', pc', z), Waiting(pc', p_entry'))
    BY <1>15, <2>2
  <2> QED
    BY <1>9, <1>16, <2>1, <2>3 DEF IInv
<1>17. ASSUME pc' = "copy" PROVE IInv'
  <2> DEFINE w == [l \in Slots(Create(2 * ht.size)) |-> <<>>]
  <2>1. ht.size \in Nat \ {0} /\ ht.items > 2 * ht.size /\ tmp' = Create(2 * ht.size) /\ cursor' = ht.oldest
    BY <1>2, <1>3, <1>17 DEF Shape
  <2>2. 2 * ht.size \in Nat \ {0} /\ ht.items = Len(a) /\ Len(a) \in Nat /\ Len(a) > 0
    <3>1. ht.items = Len(a) /\ Len(a) \in Nat
      BY <1>3, PathOf DEF Aged
    <3> QED
      BY <2>1, <3>1
  <2>3. Sound(mem', tmp', <<>>, w) /\ All(tmp', w) = {}
    BY <2>1, <2>2, CreateIs
  <2> HIDE DEF w
  <2>4. Copied(mem', a, <<>>, cursor')
    <3>1. cursor' = a[1]
      BY <1>3, <2>1, <2>2 DEF Aged, Path
    <3> QED
      BY <2>2, <3>1 DEF Copied
  <2>5. Absent(mem', <<>>, k)
    BY DEF Absent
  <2>6. Lists(mem', ht', tmp', pc', cursor', p_entry', l_key', a, c, <<>>, w)
    BY <1>2, <1>8, <1>11, <1>13, <1>14, <1>17, <2>3, <2>4, <2>5 DEF Lists
  <2>7. Copies(tmp', pc', w) = {}
    BY <2>3 DEF Copies
  <2>8. Owned(mem', free_list', g, All(ht', c), Copies(tmp', pc', w), Waiting(pc', p_entry'))
    BY <1>15, <2>7
  <2> QED
    BY <1>9, <1>17, <2>6, <2>8 DEF IInv
<1>18. IInv'
  BY <1>2, <1>16, <1>17
<1>19. Current = ht /\ Current' = ht
  <2>1. ASSUME pc' = "copy" PROVE cursor' # NULL
    <3>1. ht.items > 2 * ht.size /\ cursor' = ht.oldest /\ ht.size \in Nat \ {0}
      BY <1>2, <1>3, <2>1 DEF Shape
    <3>2. ht.items = Len(a) /\ Len(a) \in Nat /\ Path(mem, a, ht.oldest, "newer")
      BY <1>3, PathOf DEF Aged
    <3>3. 1 \in 1 .. Len(a) /\ cursor' = a[1]
      BY <3>1, <3>2 DEF Path
    <3> QED
      BY <1>5, <3>2, <3>3, PathOf DEF Blocks
  <2> QED
    BY <1>2, <2>1, CurrentIs
<1>20. Pairs' = Pairs
  <2>1. Pairs = PairsOf(mem, a)
    BY <1>3, <1>5, <1>19, CurrentIs, OrderOf
  <2>2. Pairs' = PairsOf(mem', a)
    BY <1>9, <1>11, <1>19, CurrentIs, OrderOf, PoolBlocksNext
  <2> QED
    BY <1>10, <2>1, <2>2, SamePairs
<1> QED
  BY <1>2, <1>8, <1>18, <1>20

(* What Linked leaves alone.                                               *)
LEMMA LinkedElsewhere ==
  ASSUME NEW m, NEW t, NEW a, NEW c, NEW l \in Slots(t), NEW e \in DOMAIN m, Cells(m), Blocks(m),
         Sound(m, t, a, c), NEW x \in DOMAIN m, x # e, x \notin Of(a)
  PROVE  LET n == Linked(m, t, l, e) IN SamePlace(n[x], m[x]) /\ n[x].data = m[x].data
<1> DEFINE n == Linked(m, t, l, e)
<1>1. /\ n[x].next = IF x = e THEN t.bucket[l] ELSE m[x].next
      /\ n[x].prev = IF x = e THEN NULL ELSE IF x = t.bucket[l] THEN e ELSE m[x].prev
      /\ n[x].older = IF x = e THEN t.newest ELSE m[x].older
      /\ n[x].newer = IF x # e /\ x = t.newest THEN e ELSE m[x].newer
      /\ n[x].key = m[x].key /\ n[x].data = m[x].data
  BY LinkedIs
<1> HIDE DEF n
<1>2. x # NULL
  BY DEF Blocks
<1>3. x # t.bucket[l]
  <2>1. Path(m, c[l], t.bucket[l], "next") /\ Of(a) = All(t, c)
    BY DEF Sound, Chains
  <2>2. t.bucket[l] \in Of(c[l]) \cup {NULL}
    <3>1. Len(c[l]) # 0 => 1 \in 1 .. Len(c[l])
      BY <2>1, PathOf
    <3> QED
      BY <2>1, <3>1 DEF Path, Of
  <2> QED
    BY <1>2, <2>1, <2>2 DEF All
<1>4. x # t.newest
  <2>1. Path(m, a, t.oldest, "newer") /\ t.newest = End(a)
    BY DEF Sound, Aged
  <2>2. Len(a) # 0 => Len(a) \in 1 .. Len(a)
    BY <2>1, PathOf
  <2> QED
    BY <1>2, <2>1, <2>2 DEF End, Of
<1> QED
  BY <1>1, <1>3, <1>4 DEF SamePlace, n

(* rehash copies the next entry.                                           *)
LEMMA CopyOk ==
  ASSUME IInv, Copy
  PROVE  IInv' /\ Pairs' = Pairs /\ mem'[p_entry'].data = mem[p_entry].data
<1>1. PICK f, a, c, b, z :
        /\ Lists(mem, ht, tmp, pc, cursor, p_entry, l_key, a, c, b, z)
        /\ Owned(mem, free_list, f, All(ht, c), Copies(tmp, pc, z), Waiting(pc, p_entry))
  BY DEF IInv
<1> DEFINE k == mem[cursor].key
           d == mem[cursor].data
           e == NextBlock
           l == BucketOf(tmp, k)
           m == WithEntry(mem, e, k, d)
           n == Linked(m, tmp, l, e)
           h == Len(b)
<1>2. /\ pc = "copy" /\ cursor # NULL /\ ht' = ht /\ p_entry' = p_entry /\ l_key' = l_key
      /\ \/ Search(tmp, k) # NULL
         \/ /\ Alloc /\ mem' = n /\ tmp' = WithLinked(tmp, l, e)
            /\ cursor' = mem[cursor].newer /\ pc' = pc
  BY DEF Copy
<1>3. /\ Sound(mem, ht, a, c) /\ Of(a) = All(ht, c) /\ Aged(mem, ht, a) /\ OneOfAKey(mem, a)
      /\ Sound(mem, tmp, b, z) /\ Of(b) = All(tmp, z) /\ Chains(mem, tmp, z) /\ Shape(tmp)
      /\ Absent(mem, b, mem[p_entry].key) /\ Absent(mem, a, mem[p_entry].key)
      /\ mem[p_entry].newer = NULL /\ mem[p_entry].key \in Key
      /\ Chains(mem, ht, c) /\ Copied(mem, a, b, cursor)
  BY <1>1, <1>2 DEF Lists, Sound, Chains
<1>4. /\ Path(mem, f, free_list, "data")
      /\ DOMAIN mem = Of(f) \cup Of(a) \cup Of(b) \cup {p_entry}
      /\ Of(a) \cap Of(f) = {} /\ Of(b) \cap Of(f) = {} /\ p_entry \notin Of(f)
      /\ Of(a) \cap Of(b) = {} /\ p_entry \notin Of(a) /\ p_entry \notin Of(b)
  BY <1>1, <1>2, <1>3 DEF Owned, Copies, Waiting
<1>5. Blocks(mem) /\ Cells(mem) /\ Pool /\ IsFiniteSet(DOMAIN mem)
  BY PoolBlocks DEF IInv, Pool
<1>6. /\ Len(a) \in Nat /\ h \in Nat /\ h < Len(a) /\ cursor = a[h + 1] /\ h + 1 \in 1 .. Len(a)
      /\ \A i \in 1 .. Len(a) : a[i] \in Of(a)
      /\ \A i \in 1 .. h : b[i] \in Of(b)
      /\ \A i \in 1 .. Len(a) : mem[a[i]].newer = IF i = Len(a) THEN NULL ELSE a[i + 1]
      /\ \A i \in 1 .. h : mem[b[i]].key = mem[a[i]].key /\ mem[b[i]].data = mem[a[i]].data
      /\ \A i, j \in 1 .. Len(a) : mem[a[i]].key = mem[a[j]].key => i = j
      /\ \A i, j \in 1 .. Len(a) : a[i] = a[j] => i = j
  <2>1. Path(mem, a, ht.oldest, "newer") /\ Path(mem, b, tmp.oldest, "newer")
    BY <1>3 DEF Sound, Aged
  <2>2. Len(a) \in Nat /\ h \in Nat
    BY <2>1, PathOf
  <2>3. h < Len(a) /\ cursor = a[h + 1]
    BY <1>3 DEF Copied
  <2>4. h + 1 \in 1 .. Len(a)
    BY <2>2, <2>3
  <2> QED
    BY <1>3, <2>1, <2>2, <2>3, <2>4 DEF Path, Of, Copied, OneOfAKey
<1>7. cursor \in Of(a) /\ cursor \in DOMAIN mem
  BY <1>4, <1>6
<1>8. k \in Key
  <2>1. PICK g \in Slots(ht) : cursor \in Of(c[g])
    BY <1>3, <1>7 DEF All
  <2> QED
    BY <1>3, <2>1 DEF Chains
<1>9. \A i \in 1 .. h : mem[b[i]].key # k
  BY <1>6
<1>10. Search(tmp, k) = NULL
  <2>1. \A x \in All(tmp, z) : mem[x].key # k
    BY <1>3, <1>9 DEF Of
  <2>2. l \in Slots(tmp)
    BY <1>3, <1>8, BucketIs
  <2>3. \A j \in 1 .. Len(z[l]) : z[l][j] \in All(tmp, z)
    BY <2>2 DEF All, Of
  <2> QED
    BY <1>3, <1>5, <1>8, <2>1, <2>3, SearchIs
<1>11. /\ e \in Nat
       /\ pools_size' \in Nat \ {0} /\ first_free' \in 0 .. POOL_ARRAY_COUNT - 1
       /\ \A x \in DOMAIN mem \cup {e} : x \in Nat /\ x < Block(pools_size', first_free')
       /\ e \in DOMAIN mem => e \in Of(f)
  BY <1>2, <1>4, <1>5, <1>10, AllocIs
<1>12. PICK g : Path(mem, g, free_list', "data") /\ Of(g) = Of(f) \ {e}
  BY <1>2, <1>4, <1>5, <1>10, AllocIs
<1>13. /\ Cells(m) /\ DOMAIN m = DOMAIN mem \cup {e}
       /\ m[e].newer = NULL /\ m[e].key = k /\ m[e].data = d
       /\ \A x \in DOMAIN mem : x # e => m[x] = mem[x]
  <2>1. Grown(mem, m, e, k, d)
    <3> HIDE DEF k, d, e
    <3> QED
      BY <1>5, WithEntryIs
  <2> QED
    BY <2>1 DEF Grown
<1>14. /\ mem' = n /\ tmp' = WithLinked(tmp, l, e)
       /\ cursor' = mem[cursor].newer /\ pc' = "copy" /\ m[e].key = k
  BY <1>2, <1>10, <1>13
<1>15. l \in Slots(tmp) /\ l = BucketOf(tmp, m[e].key)
  BY <1>3, <1>8, <1>13, BucketIs
<1> HIDE DEF k, d, e, l, m, n, h
<1>16. IsFiniteSet(DOMAIN m) /\ Blocks(m)
  <2>1. IsFiniteSet(DOMAIN m)
    BY <1>5, <1>13, FS_AddElement
  <2>2. NULL \notin DOMAIN m
    BY <1>5, <1>11, <1>13, PoolAssumption DEF Blocks
  <2> QED
    BY <2>1, <2>2 DEF Blocks
<1>17. \A x \in Of(a) \cup Of(b) \cup Of(g) \cup {p_entry} :
         x \in DOMAIN mem /\ x # e /\ x \in DOMAIN m /\ m[x] = mem[x]
  BY <1>4, <1>11, <1>12, <1>13
<1>18. Sound(m, tmp, b, z)
  BY <1>3, <1>17, SoundFrame DEF SamePlace
<1>19. e \notin Of(b) /\ e \in DOMAIN m /\ m[e].newer = NULL /\ m[e].key \in Key
       /\ \A i \in 1 .. Len(b) : m[b[i]].key # m[e].key
  BY <1>6, <1>8, <1>9, <1>13, <1>17 DEF h
<1> DEFINE b2 == Last1(b, e)
           z2 == [z EXCEPT ![l] = First1(e, z[l])]
<1>20. Sound(n, tmp', b2, z2)
  <2> DEFINE y == BucketOf(tmp, m[e].key)
  <2>1. Sound(Linked(m, tmp, y, e), WithLinked(tmp, y, e), b2, [z EXCEPT ![y] = First1(e, z[y])])
    BY <1>13, <1>16, <1>18, <1>19, LinkSound
  <2> QED
    BY <1>14, <1>15, <2>1 DEF n
<1>21. /\ Cells(n) /\ DOMAIN n = DOMAIN m /\ n[e].key = m[e].key /\ n[e].data = m[e].data
       /\ \A x \in DOMAIN m : n[x].key = m[x].key /\ n[x].data = m[x].data
  BY <1>13, <1>19, LinkedIs DEF n
<1>22. Of(b2) = Of(b) \cup {e} /\ Len(b2) = h + 1 /\ b2[h + 1] = e
       /\ \A i \in 1 .. h : b2[i] = b[i]
  <2>1. b \in Seq(DOMAIN m)
    BY <1>18, PathOf DEF Sound, Aged
  <2>2. Len(Last1(b, e)) = Len(b) + 1 /\ Last1(b, e)[Len(b) + 1] = e
    BY <1>19, <2>1, SeqOps
  <2>3. \A i \in 1 .. Len(b) : Last1(b, e)[i] = b[i]
    BY <1>19, <2>1, SeqOps
  <2>4. Of(Last1(b, e)) = Of(b) \cup {e}
    BY <1>19, <2>1, OfFirst
  <2> QED
    BY <2>2, <2>3, <2>4 DEF h
<1> HIDE DEF b2, z2
<1>23. ASSUME NEW x \in Of(a) \cup Of(g) \cup {p_entry}
       PROVE  x \in DOMAIN n /\ SamePlace(n[x], mem[x]) /\ n[x].data = mem[x].data
  <2>1. x \in DOMAIN m /\ x # e /\ m[x] = mem[x] /\ x \notin Of(b)
    BY <1>4, <1>12, <1>17
  <2>2. SamePlace(n[x], m[x]) /\ n[x].data = m[x].data
    BY <1>13, <1>15, <1>16, <1>18, <1>19, <2>1, LinkedElsewhere DEF n
  <2> QED
    BY <1>21, <2>1, <2>2
<1>24. Sound(n, ht, a, c) /\ Chains(n, ht, c)
  BY <1>3, <1>23, SoundFrame DEF Sound
<1>25. Path(n, g, free_list', "data")
  BY <1>12, <1>23, PathStays
<1>26. n[p_entry].newer = NULL /\ n[p_entry].key = mem[p_entry].key
  BY <1>3, <1>23 DEF SamePlace
<1>27. Absent(n, a, n[p_entry].key)
  BY <1>3, <1>23, <1>26, AbsentStays DEF SamePlace
<1>28. ASSUME NEW i \in 1 .. h + 1
       PROVE  n[b2[i]].key = n[a[i]].key /\ n[b2[i]].data = n[a[i]].data
  <2>0. i \in 1 .. Len(a)
    BY <1>6
  <2>1. n[a[i]].key = mem[a[i]].key /\ n[a[i]].data = mem[a[i]].data
    BY <1>6, <1>23, <2>0 DEF SamePlace
  <2>2. CASE i = h + 1
    BY <1>6, <1>13, <1>21, <1>22, <2>1, <2>2 DEF k, d
  <2>3. CASE i # h + 1
    <3>1. i \in 1 .. h
      BY <1>6, <2>3
    <3> QED
      BY <1>6, <1>17, <1>21, <1>22, <2>1, <3>1, SMTT(30)
  <2> QED
    BY <2>2, <2>3
<1>29. Absent(n, b2, n[p_entry].key)
  <2>1. \A i \in 1 .. h + 1 : i \in 1 .. Len(a)
    BY <1>6
  <2> QED
    BY <1>22, <1>27, <1>28, <2>1 DEF Absent
<1>30. cursor' # NULL => Copied(n, a, b2, cursor')
  <2>1. cursor' = IF h + 1 = Len(a) THEN NULL ELSE a[(h + 1) + 1]
    BY <1>6, <1>14
  <2>2. h + 1 # Len(a) => h + 1 < Len(a)
    BY <1>6
  <2> QED
    BY <1>22, <1>28, <2>1, <2>2 DEF Copied
<1>31. Lists(mem', ht', tmp', pc', cursor', p_entry', l_key', a, c, b2, z2)
  BY <1>2, <1>3, <1>14, <1>20, <1>24, <1>26, <1>27, <1>29, <1>30 DEF Lists
<1>32. Owned(mem', free_list', g, All(ht', c), Copies(tmp', pc', z2), Waiting(pc', p_entry'))
  <2>1. All(ht', c) = Of(a) /\ Copies(tmp', pc', z2) = Of(b2) /\ Waiting(pc', p_entry') = {p_entry}
    BY <1>2, <1>3, <1>14, <1>20 DEF Copies, Waiting, Sound
  <2>2. DOMAIN n = Of(g) \cup Of(a) \cup Of(b2) \cup {p_entry}
    BY <1>4, <1>12, <1>13, <1>21, <1>22
  <2>3. /\ Of(a) \cap Of(g) = {} /\ Of(b2) \cap Of(g) = {} /\ p_entry \notin Of(g)
        /\ Of(a) \cap Of(b2) = {} /\ p_entry \notin Of(a) /\ p_entry \notin Of(b2)
    BY <1>4, <1>12, <1>17, <1>22
  <2> QED
    BY <1>14, <1>25, <2>1, <2>2, <2>3 DEF Owned
<1>33. Pool'
  BY <1>11, <1>13, <1>14, <1>16, <1>21 DEF Pool, Block
<1>34. IInv'
  BY <1>14, <1>31, <1>32, <1>33 DEF IInv
<1>35. mem'[p_entry'].data = mem[p_entry].data
  BY <1>2, <1>14, <1>23
<1>36. Pairs' = Pairs
  <2>1. Pairs = PairsOf(mem, a)
    BY <1>2, <1>3, <1>5, CurrentIs, OrderOf
  <2>2. PairsOf(n, a) = PairsOf(mem, a)
    BY <1>23, SamePairs DEF SamePlace
  <2>3. Blocks(mem')
    BY <1>33, PoolBlocksNext
  <2>4. CASE cursor' = NULL
    <3>1. Pairs' = PairsOf(n, b2)
      BY <1>14, <1>20, <2>3, <2>4, CurrentIs, OrderOf
    <3>2. Len(b2) = Len(a)
      <4>1. cursor' = IF h + 1 = Len(a) THEN NULL ELSE a[(h + 1) + 1]
        BY <1>6, <1>14
      <4>2. ASSUME h + 1 # Len(a) PROVE FALSE
        <5>1. (h + 1) + 1 \in 1 .. Len(a)
          BY <1>6, <4>2
        <5>2. a[(h + 1) + 1] \in DOMAIN mem
          BY <1>4, <1>6, <5>1
        <5> QED
          BY <1>5, <2>4, <4>1, <4>2, <5>2 DEF Blocks
      <4> QED
        BY <1>22, <4>2
    <3>3. \A i \in 1 .. Len(a) : n[b2[i]].key = n[a[i]].key /\ n[b2[i]].data = n[a[i]].data
      BY <1>22, <1>28, <3>2
    <3> QED
      BY <2>1, <2>2, <3>1, <3>2, <3>3, EqualPairs
  <2>5. CASE cursor' # NULL
    <3>1. Pairs' = PairsOf(n, a)
      BY <1>2, <1>14, <1>24, <2>3, <2>5, CurrentIs, OrderOf
    <3> QED
      BY <2>1, <2>2, <3>1
  <2> QED
    BY <2>4, <2>5
<1> QED
  BY <1>34, <1>35, <1>36

(* rehash frees the old entries of a bucket.                               *)
LEMMA FreeChainOk ==
  ASSUME IInv, FreeChain
  PROVE  IInv' /\ Pairs' = Pairs /\ mem'[p_entry'].data = mem[p_entry].data
<1>1. PICK f, a, c, b, z :
        /\ Lists(mem, ht, tmp, pc, cursor, p_entry, l_key, a, c, b, z)
        /\ Owned(mem, free_list, f, All(ht, c), Copies(tmp, pc, z), Waiting(pc, p_entry))
  BY DEF IInv
<1>2. PICK l \in DOMAIN ht.bucket :
        /\ FreeAll(mem, Walk(mem, ht.bucket[l], "next"))
        /\ ht' = [ht EXCEPT !.bucket[l] = NULL]
  BY DEF FreeChain
<1>3. /\ pc = "copy" /\ cursor = NULL /\ tmp' = tmp /\ pc' = pc /\ p_entry' = p_entry
      /\ l_key' = l_key /\ cursor' = cursor
  BY DEF FreeChain
<1>4. /\ Chains(mem, ht, c) /\ Sound(mem, tmp, b, z) /\ Of(b) = All(tmp, z)
      /\ Absent(mem, b, mem[p_entry].key) /\ mem[p_entry].newer = NULL /\ mem[p_entry].key \in Key
  BY <1>1, <1>3 DEF Lists, Sound
<1>5. /\ Path(mem, f, free_list, "data")
      /\ DOMAIN mem = Of(f) \cup All(ht, c) \cup Of(b) \cup {p_entry}
      /\ All(ht, c) \cap Of(f) = {} /\ Of(b) \cap Of(f) = {} /\ p_entry \notin Of(f)
      /\ All(ht, c) \cap Of(b) = {} /\ p_entry \notin All(ht, c) /\ p_entry \notin Of(b)
  BY <1>1, <1>3, <1>4 DEF Owned, Copies, Waiting
<1>6. Blocks(mem) /\ Cells(mem) /\ Pool
  BY PoolBlocks DEF IInv
<1>7. /\ ht.size \in Nat \ {0}
      /\ ht = [g \in {"items", "size", "oldest", "newest", "bucket", "nr"} |-> ht[g]]
      /\ ht.bucket = [g \in Slots(ht) |-> ht.bucket[g]]
      /\ ht.nr = [g \in Slots(ht) |-> ht.nr[g]]
      /\ c = [g \in Slots(ht) |-> c[g]]
      /\ \A g \in Slots(ht) : Path(mem, c[g], ht.bucket[g], "next")
      /\ \A g \in Slots(ht) : \A e \in Of(c[g]) : mem[e].key \in Key /\ BucketOf(ht, mem[e].key) = g
  BY <1>4 DEF Chains, Shape
<1>8. l \in Slots(ht)
  BY <1>7
<1> DEFINE u == c[l]
           c2 == [c EXCEPT ![l] = <<>>]
           f2 == Before1(u, f)
<1>9. Path(mem, u, ht.bucket[l], "next") /\ Walk(mem, ht.bucket[l], "next") = u
  BY <1>6, <1>7, <1>8, WalkIs
<1>10. u \in Seq(DOMAIN mem) /\ (\A i, j \in 1 .. Len(u) : u[i] = u[j] => i = j)
       /\ Of(u) \subseteq All(ht, c) /\ Of(u) \cap Of(f) = {}
  BY <1>5, <1>8, <1>9, PathOf DEF All
<1>11. /\ mem' = Freed(mem, free_list, u)
       /\ free_list' = (IF u = <<>> THEN free_list ELSE u[Len(u)])
       /\ pools_size' = pools_size /\ first_free' = first_free
  BY <1>2, <1>9 DEF FreeAll
<1> HIDE DEF u
<1>12. /\ Cells(mem') /\ DOMAIN mem' = DOMAIN mem
       /\ \A e \in DOMAIN mem : e \notin Of(u) => mem'[e] = mem[e]
       /\ Path(mem', f2, free_list', "data")
       /\ Of(f2) = Of(u) \cup Of(f)
  <2> DEFINE n == Freed(mem, free_list, u)
  <2>1. /\ Cells(n) /\ DOMAIN n = DOMAIN mem
        /\ \A e \in DOMAIN mem : e \notin Of(u) => n[e] = mem[e]
        /\ Path(n, Before1(u, f), IF u = <<>> THEN free_list ELSE u[Len(u)], "data")
        /\ Of(Before1(u, f)) = Of(u) \cup Of(f)
    BY <1>5, <1>6, <1>10, FreedIs
  <2> HIDE DEF n
  <2>2. mem' = n
    BY <1>11 DEF n
  <2> QED
    BY <1>11, <2>1, <2>2
<1>13. /\ ht' = [g \in {"items", "size", "oldest", "newest", "bucket", "nr"} |-> ht'[g]]
       /\ ht'.size = ht.size /\ ht'.nr = ht.nr
       /\ ht'.bucket = [ht.bucket EXCEPT ![l] = NULL]
  BY <1>2, <1>7
<1>14. Slots(ht') = Slots(ht) /\ \A k : BucketOf(ht', k) = BucketOf(ht, k)
  BY <1>13 DEF Slots, BucketOf
<1>15. /\ ht'.bucket = [g \in Slots(ht) |-> ht'.bucket[g]]
       /\ \A g \in Slots(ht) : ht'.bucket[g] = IF g = l THEN NULL ELSE ht.bucket[g]
  BY <1>7, <1>13
<1>16. /\ c2 = [g \in Slots(ht) |-> c2[g]]
       /\ \A g \in Slots(ht) : c2[g] = IF g = l THEN <<>> ELSE c[g]
  BY <1>7, <1>8
<1> HIDE DEF c2, f2
<1>17. Path(mem', <<>>, NULL, "next") /\ Of(<<>>) = {}
  BY DEF Path, Of
<1>18. \A g \in Slots(ht) : \A e \in Of(c[g]) : e \in All(ht, c) /\ e \in DOMAIN mem
  BY <1>5 DEF All
<1>19. ASSUME NEW g \in Slots(ht), g # l, NEW e \in Of(c[g])
       PROVE  e \in DOMAIN mem' /\ mem'[e] = mem[e] /\ e \notin Of(u)
  <2>1. e \notin Of(u)
    BY <1>7, <1>8, <1>19 DEF u
  <2> QED
    BY <1>12, <1>18, <2>1
<1>20. ASSUME NEW g \in Slots(ht)
       PROVE  /\ Path(mem', c2[g], ht'.bucket[g], "next")
              /\ \A e \in Of(c2[g]) : mem'[e].key \in Key /\ BucketOf(ht', mem'[e].key) = g
  <2>1. CASE g = l
    BY <1>15, <1>16, <1>17, <2>1
  <2>2. CASE g # l
    <3>1. Path(mem', c[g], ht.bucket[g], "next")
      BY <1>7, <1>19, <2>2, PathStays
    <3> QED
      BY <1>7, <1>14, <1>15, <1>16, <1>19, <2>2, <3>1
  <2> QED
    BY <2>1, <2>2
<1>21. Chains(mem', ht', c2)
  <2>1. Shape(ht')
    BY <1>7, <1>13, <1>14, <1>15 DEF Shape
  <2> QED
    BY <1>14, <1>16, <1>20, <2>1 DEF Chains
<1>22. All(ht', c2) = All(ht, c) \ Of(u)
  <2>1. \A g \in Slots(ht) : g # l => Of(c[g]) \cap Of(u) = {}
    BY <1>19
  <2>2. \A g \in Slots(ht) : Of(c2[g]) = IF g = l THEN {} ELSE Of(c[g])
    BY <1>16, <1>17
  <2> QED
    BY <1>8, <1>14, <2>1, <2>2 DEF All, u
<1>23. \A e \in Of(b) \cup {p_entry} : e \in DOMAIN mem' /\ mem'[e] = mem[e]
  BY <1>5, <1>10, <1>12
<1>24. Sound(mem', tmp, b, z)
  BY <1>4, <1>23, SoundFrame DEF SamePlace
<1>25. Absent(mem', b, mem'[p_entry].key)
  BY <1>4, <1>23, AbsentStays
<1>26. Lists(mem', ht', tmp', pc', cursor', p_entry', l_key', a, c2, b, z)
  BY <1>3, <1>4, <1>21, <1>23, <1>24, <1>25 DEF Lists
<1>27. Owned(mem', free_list', f2, All(ht', c2), Copies(tmp', pc', z), Waiting(pc', p_entry'))
  <2>1. Copies(tmp', pc', z) = Of(b) /\ Waiting(pc', p_entry') = {p_entry}
    BY <1>3, <1>4 DEF Copies, Waiting
  <2> QED
    BY <1>5, <1>10, <1>12, <1>22, <2>1 DEF Owned
<1>28. Pool'
  BY <1>6, <1>11, <1>12 DEF Pool, Block
<1>29. IInv'
  BY <1>3, <1>26, <1>27, <1>28 DEF IInv
<1>30. mem'[p_entry'].data = mem[p_entry].data
  BY <1>3, <1>23
<1>31. Pairs' = Pairs
  <2>1. Current = tmp /\ Current' = tmp
    BY <1>3, CurrentIs
  <2>2. Pairs = PairsOf(mem, b)
    BY <1>4, <1>6, <2>1, CurrentIs, OrderOf
  <2>3. Pairs' = PairsOf(mem', b)
    BY <1>24, <1>28, <2>1, CurrentIs, OrderOf, PoolBlocksNext
  <2> QED
    BY <1>23, <2>2, <2>3, SamePairs
<1> QED
  BY <1>29, <1>30, <1>31

(* The copy takes the place of the table.                                  *)
LEMMA SwapOk ==
  ASSUME IInv, Swap
  PROVE  IInv' /\ Pairs' = Pairs /\ mem'[p_entry'].data = mem[p_entry].data
<1>1. PICK f, a, c, b, z :
        /\ Lists(mem, ht, tmp, pc, cursor, p_entry, l_key, a, c, b, z)
        /\ Owned(mem, free_list, f, All(ht, c), Copies(tmp, pc, z), Waiting(pc, p_entry))
  BY DEF IInv
<1>2. /\ pc = "copy" /\ cursor = NULL /\ ht' = tmp /\ pc' = "link" /\ p_entry' = p_entry
      /\ l_key' = BucketOf(tmp, mem[p_entry].key)
      /\ mem' = mem /\ free_list' = free_list /\ pools_size' = pools_size /\ first_free' = first_free
      /\ \A l \in DOMAIN ht.bucket : ht.bucket[l] = NULL
  BY DEF Swap, poolVars
<1>3. /\ Chains(mem, ht, c) /\ Sound(mem, tmp, b, z) /\ Chains(mem, tmp, z)
      /\ Absent(mem, b, mem[p_entry].key) /\ mem[p_entry].newer = NULL /\ mem[p_entry].key \in Key
  BY <1>1, <1>2 DEF Lists, Sound
<1>4. Blocks(mem) /\ Pool
  BY PoolBlocks DEF IInv
<1>5. All(ht, c) = {}
  <2>1. ASSUME NEW l \in Slots(ht) PROVE Of(c[l]) = {}
    <3>1. Path(mem, c[l], NULL, "next")
      BY <1>2, <1>3 DEF Chains, Shape
    <3>2. ASSUME Len(c[l]) # 0 PROVE FALSE
      <4>1. 1 \in 1 .. Len(c[l]) /\ c[l][1] = NULL
        BY <3>1, <3>2, PathOf DEF Path
      <4> QED
        BY <1>4, <3>1, <4>1, PathOf DEF Blocks
    <3> QED
      BY <3>2 DEF Of
  <2> QED
    BY <2>1 DEF All
<1>6. Lists(mem', ht', tmp', pc', cursor', p_entry', l_key', b, z, b, z)
  BY <1>2, <1>3 DEF Lists
<1>7. Owned(mem', free_list', f, All(ht', z), Copies(tmp', pc', z), Waiting(pc', p_entry'))
  BY <1>1, <1>2, <1>5 DEF Owned, Copies, Waiting
<1>8. Pool'
  BY <1>2, <1>4 DEF Pool, Block
<1>9. IInv'
  BY <1>2, <1>6, <1>7, <1>8 DEF IInv
<1>10. Pairs' = Pairs
  <2>1. Current = tmp /\ Current' = tmp
    BY <1>2, CurrentIs
  <2> QED
    BY <1>2, <2>1, CurrentIs
<1> QED
  BY <1>2, <1>9, <1>10

(* The entry that waited is linked.                                        *)
LEMMA LinkOk ==
  ASSUME IInv, Link
  PROVE  /\ IInv'
         /\ Pairs' = Append(Pairs, [key |-> mem[p_entry].key, data |-> mem[p_entry].data])
         /\ \A i \in DOMAIN Pairs : Pairs[i].key # mem[p_entry].key
         /\ mem[p_entry].key \in Key
<1>1. PICK f, a, c, b, z :
        /\ Lists(mem, ht, tmp, pc, cursor, p_entry, l_key, a, c, b, z)
        /\ Owned(mem, free_list, f, All(ht, c), Copies(tmp, pc, z), Waiting(pc, p_entry))
  BY DEF IInv
<1> DEFINE e == p_entry
           l == l_key
           n == Linked(mem, ht, l, e)
           u == WithLinked(ht, l, e)
           a2 == Last1(a, e)
           c2 == [c EXCEPT ![l] = First1(e, c[l])]
<1>2. /\ pc = "link" /\ pc' = "idle" /\ p_entry' = NULL /\ mem' = n /\ ht' = u
      /\ free_list' = free_list /\ pools_size' = pools_size /\ first_free' = first_free
  BY DEF Link
<1>3. /\ Sound(mem, ht, a, c) /\ Of(a) = All(ht, c) /\ Chains(mem, ht, c)
      /\ Absent(mem, a, mem[e].key) /\ l = BucketOf(ht, mem[e].key)
      /\ mem[e].newer = NULL /\ mem[e].key \in Key
  BY <1>1, <1>2 DEF Lists, Sound
<1>4. /\ Path(mem, f, free_list, "data")
      /\ DOMAIN mem = Of(f) \cup Of(a) \cup {e}
      /\ Of(a) \cap Of(f) = {} /\ e \notin Of(f) /\ e \notin Of(a)
  BY <1>1, <1>2, <1>3 DEF Owned, Copies, Waiting
<1>5. Blocks(mem) /\ Cells(mem) /\ Pool
  BY PoolBlocks DEF IInv
<1>6. l \in Slots(ht)
  BY <1>3, BucketIs DEF Chains
<1> HIDE DEF e, l, n, u, a2, c2
<1>7. e \in DOMAIN mem /\ \A i \in 1 .. Len(a) : mem[a[i]].key # mem[e].key
  BY <1>3, <1>4 DEF Absent
<1>8. Sound(n, u, a2, c2)
  <2> DEFINE y == BucketOf(ht, mem[e].key)
  <2>1. Sound(Linked(mem, ht, y, e), WithLinked(ht, y, e), Last1(a, e),
              [c EXCEPT ![y] = First1(e, c[y])])
    BY <1>3, <1>4, <1>5, <1>7, LinkSound
  <2> QED
    BY <1>3, <2>1 DEF n, u, a2, c2
<1>9. /\ Cells(n) /\ DOMAIN n = DOMAIN mem
      /\ \A x \in DOMAIN mem : n[x].data = mem[x].data
  BY <1>5, <1>7, LinkedIs DEF n
<1>10. Path(n, f, free_list, "data")
  <2>1. \A x \in Of(f) : x \in DOMAIN n /\ n[x]["data"] = mem[x]["data"]
    BY <1>4, <1>9
  <2> QED
    BY <1>4, <2>1, PathStays
<1>11. Of(a2) = Of(a) \cup {e}
  <2>1. a \in Seq(DOMAIN mem)
    BY <1>3, PathOf DEF Sound, Aged
  <2> QED
    BY <1>7, <2>1, OfFirst DEF a2
<1>12. All(u, c2) = Of(a2) /\ Chains(n, u, c2)
  BY <1>8 DEF Sound
<1>13. Lists(mem', ht', tmp', pc', cursor', p_entry', l_key', a2, c2, b, z)
  BY <1>2, <1>8, <1>12 DEF Lists
<1>14. Owned(mem', free_list', f, All(ht', c2), Copies(tmp', pc', z), Waiting(pc', p_entry'))
  <2>1. Copies(tmp', pc', z) = {} /\ Waiting(pc', p_entry') = {}
    BY <1>2 DEF Copies, Waiting
  <2> QED
    BY <1>2, <1>4, <1>9, <1>10, <1>11, <1>12, <2>1 DEF Owned
<1>15. Pool'
  BY <1>2, <1>5, <1>9 DEF Pool, Block
<1>16. IInv'
  BY <1>2, <1>13, <1>14, <1>15 DEF IInv
<1>17. Pairs = PairsOf(mem, a)
  BY <1>2, <1>3, <1>5, CurrentIs, OrderOf
<1>18. Pairs' = PairsOf(n, a2)
  BY <1>2, <1>8, <1>15, CurrentIs, OrderOf, PoolBlocksNext
<1>19. /\ a \in Seq(DOMAIN mem) /\ Len(a) \in Nat
       /\ \A i \in 1 .. Len(a) : a[i] \in DOMAIN mem
  BY <1>3, PathOf DEF Sound, Aged
<1>20. /\ Len(a2) = Len(a) + 1 /\ a2[Len(a) + 1] = e
       /\ \A i \in 1 .. Len(a) : a2[i] = a[i]
  <2>1. Len(Last1(a, e)) = Len(a) + 1 /\ Last1(a, e)[Len(a) + 1] = e
    BY <1>7, <1>19, SeqOps
  <2>2. \A i \in 1 .. Len(a) : Last1(a, e)[i] = a[i]
    BY <1>7, <1>19, SeqOps
  <2> QED
    BY <2>1, <2>2 DEF a2
<1>21. \A x \in DOMAIN mem : n[x].key = mem[x].key /\ n[x].data = mem[x].data
  BY <1>5, <1>7, LinkedIs DEF n
<1>22. PairsOf(n, a2) = Append(PairsOf(mem, a), [key |-> mem[e].key, data |-> mem[e].data])
  <2> DEFINE r == [key |-> mem[e].key, data |-> mem[e].data]
             s == PairsOf(mem, a)
             y == PairsOf(n, a2)
  <2>1. /\ Numbered(s, Len(a))
        /\ \A i \in 1 .. Len(a) : s[i] = [key |-> mem[a[i]].key, data |-> mem[a[i]].data]
    BY DEF PairsOf, Numbered
  <2>2. Numbered(y, Len(a) + 1)
    BY <1>20 DEF PairsOf, Numbered
  <2>3. \A i \in 1 .. Len(a) + 1 : y[i] = [key |-> n[a2[i]].key, data |-> n[a2[i]].data]
    BY <1>20 DEF PairsOf
  <2>4. y[Len(a) + 1] = r
    BY <1>7, <1>19, <1>20, <1>21, <2>3
  <2> HIDE DEF r, s, y
  <2>5. ASSUME NEW i \in 1 .. Len(a) PROVE y[i] = s[i]
    <3>1. i \in 1 .. Len(a) + 1 /\ a2[i] = a[i] /\ a[i] \in DOMAIN mem
      BY <1>19, <1>20
    <3>2. n[a2[i]].key = mem[a[i]].key /\ n[a2[i]].data = mem[a[i]].data
      BY <1>21, <3>1
    <3>3. y[i] = [key |-> n[a2[i]].key, data |-> n[a2[i]].data]
      BY <2>3, <3>1
    <3>4. s[i] = [key |-> mem[a[i]].key, data |-> mem[a[i]].data]
      BY <2>1
    <3> QED
      BY <3>2, <3>3, <3>4
  <2>6. y = Append(s, r)
    BY <1>19, <2>1, <2>2, <2>4, <2>5, AppendIs
  <2> QED
    BY <2>6 DEF r, s, y
<1>23. \A i \in DOMAIN Pairs : Pairs[i].key # mem[e].key
  BY <1>7, <1>17 DEF PairsOf
<1> QED
  BY <1>3, <1>16, <1>17, <1>18, <1>22, <1>23 DEF e

(* What a search of the table finds between two calls.                     *)
LEMMA FoundIs ==
  ASSUME NEW t, NEW a, NEW c, Pool, Sound(mem, t, a, c), NEW k \in Key, Search(t, k) # NULL
  PROVE  /\ BucketOf(t, k) \in Slots(t)
         /\ \E j \in 1 .. Len(c[BucketOf(t, k)]), p \in 1 .. Len(a) :
              /\ Search(t, k) = c[BucketOf(t, k)][j] /\ a[p] = c[BucketOf(t, k)][j]
              /\ mem[Search(t, k)].key = k
<1>1. Chains(mem, t, c) /\ Of(a) = All(t, c) /\ Blocks(mem)
  BY PoolBlocks DEF Sound
<1>2. BucketOf(t, k) \in Slots(t)
  BY <1>1, BucketIs DEF Chains
<1>3. PICK j \in 1 .. Len(c[BucketOf(t, k)]) :
        Search(t, k) = c[BucketOf(t, k)][j] /\ mem[Search(t, k)].key = k
  BY <1>1, SearchIs
<1>4. c[BucketOf(t, k)][j] \in All(t, c)
  BY <1>2 DEF All, Of
<1>5. c[BucketOf(t, k)][j] \in Of(a)
  BY <1>1, <1>4
<1>6. PICK p \in 1 .. Len(a) : a[p] = c[BucketOf(t, k)][j]
  BY <1>5 DEF Of
<1> QED
  BY <1>2, <1>3, <1>6

(* replace changes the data of the key's entry, if the table has one.      *)
LEMMA ReplaceOk ==
  ASSUME IInv, NEW k \in Key, NEW d \in Data, Replace(k, d)
  PROVE  /\ IInv'
         /\ Order(mem', ht') = Order(mem, ht)
         /\ Pairs' = PairsOf(mem', Order(mem, ht))
         /\ DOMAIN mem' = DOMAIN mem
         /\ \A x \in DOMAIN mem :
              /\ SamePlace(mem'[x], mem[x])
              /\ mem'[x].data = IF x = Search(ht, k) THEN d ELSE mem[x].data
<1>1. PICK f, a, c, b, z :
        /\ Lists(mem, ht, tmp, pc, cursor, p_entry, l_key, a, c, b, z)
        /\ Owned(mem, free_list, f, All(ht, c), Copies(tmp, pc, z), Waiting(pc, p_entry))
  BY DEF IInv
<1> DEFINE e == Search(ht, k)
<1>2. /\ pc = "idle" /\ pc' = pc /\ p_entry' = p_entry /\ l_key' = l_key /\ cursor' = cursor
      /\ tmp' = tmp /\ ht' = ht
      /\ free_list' = free_list /\ pools_size' = pools_size /\ first_free' = first_free
      /\ IF e = NULL THEN mem' = mem ELSE mem' = [mem EXCEPT ![e].data = d]
  BY DEF Replace, Idle
<1>3. /\ Sound(mem, ht, a, c) /\ Of(a) = All(ht, c)
  BY <1>1, <1>2 DEF Lists, Sound
<1>4. /\ Path(mem, f, free_list, "data") /\ DOMAIN mem = Of(f) \cup Of(a)
      /\ Of(a) \cap Of(f) = {}
  BY <1>1, <1>2, <1>3 DEF Owned, Copies, Waiting
<1>5. Blocks(mem) /\ Cells(mem) /\ Pool
  BY PoolBlocks DEF IInv
<1>6. e # NULL => e \in Of(a)
  BY <1>3, <1>5, FoundIs DEF Of
<1> HIDE DEF e
<1>7. /\ DOMAIN mem' = DOMAIN mem /\ Cells(mem')
      /\ \A x \in DOMAIN mem : SamePlace(mem'[x], mem[x]) /\ (x # e => mem'[x] = mem[x])
      /\ e \in DOMAIN mem => mem'[e].data = d
  <2>1. CASE e = NULL
    <3>1. mem' = mem
      BY <1>2, <2>1
    <3>2. e \notin DOMAIN mem
      BY <1>5, <2>1 DEF Blocks
    <3> QED
      BY <1>5, <3>1, <3>2 DEF SamePlace
  <2>2. CASE e # NULL
    <3>1. mem' = [mem EXCEPT ![e].data = d] /\ e \in DOMAIN mem
      BY <1>2, <1>4, <1>6, <2>2
    <3> DEFINE r == mem[e]
               q == [r EXCEPT !.data = d]
    <3>2. r = [g \in Fields |-> r[g]] /\ mem = [x \in DOMAIN mem |-> mem[x]]
          /\ \A x \in DOMAIN mem : mem[x] = [g \in Fields |-> mem[x][g]]
      BY <1>5, <3>1 DEF Cells
    <3>3. mem' = [mem EXCEPT ![e] = q]
      BY <3>1
    <3> HIDE DEF r
    <3>4. q = [g \in Fields |-> q[g]] /\ SamePlace(q, r) /\ q.data = d
      BY <3>2 DEF Fields, SamePlace
    <3> HIDE DEF q
    <3>5. /\ DOMAIN mem' = DOMAIN mem /\ mem' = [x \in DOMAIN mem |-> mem'[x]]
          /\ \A x \in DOMAIN mem : mem'[x] = IF x = e THEN q ELSE mem[x]
      BY <3>2, <3>3
    <3>6. Cells(mem')
      <4>1. ASSUME NEW x \in DOMAIN mem PROVE mem'[x] = [g \in Fields |-> mem'[x][g]]
        BY <3>2, <3>4, <3>5
      <4> QED
        BY <3>5, <4>1 DEF Cells
    <3>7. \A x \in DOMAIN mem : SamePlace(mem'[x], mem[x])
      BY <3>4, <3>5 DEF SamePlace, r
    <3>8. mem'[e].data = d
      BY <3>1, <3>4, <3>5
    <3> QED
      BY <3>5, <3>6, <3>7, <3>8
  <2> QED
    BY <2>1, <2>2
<1>8. Sound(mem', ht, a, c) /\ Chains(mem', ht, c)
  BY <1>3, <1>4, <1>7, SoundFrame DEF Sound
<1>9. Path(mem', f, free_list, "data")
  <2>1. \A x \in Of(f) : x \in DOMAIN mem' /\ mem'[x]["data"] = mem[x]["data"]
    <3>1. \A x \in Of(f) : x # e
      BY <1>4, <1>5, <1>6 DEF Blocks
    <3> QED
      BY <1>4, <1>7, <3>1
  <2> QED
    BY <1>4, <2>1, PathStays
<1>10. Lists(mem', ht', tmp', pc', cursor', p_entry', l_key', a, c, b, z)
  BY <1>2, <1>8 DEF Lists
<1>11. Owned(mem', free_list', f, All(ht', c), Copies(tmp', pc', z), Waiting(pc', p_entry'))
  BY <1>1, <1>2, <1>7, <1>9 DEF Owned
<1>12. Pool'
  BY <1>2, <1>5, <1>7 DEF Pool, Block
<1>13. pc' = "idle" /\ p_entry' = NULL
  BY <1>2 DEF IInv
<1>14. IInv'
  BY <1>10, <1>11, <1>12, <1>13 DEF IInv
<1>15. Order(mem, ht) = a
  BY <1>3, <1>5, OrderOf
<1>16. Order(mem', ht') = a /\ Pairs' = PairsOf(mem', a)
  BY <1>2, <1>8, <1>12, CurrentIs, OrderOf, PoolBlocksNext
<1>17. \A x \in DOMAIN mem : mem'[x].data = IF x = e THEN d ELSE mem[x].data
  BY <1>7
<1> QED
  BY <1>7, <1>14, <1>15, <1>16, <1>17 DEF e

(* remove takes the entry out of the table and gives its block to the free *)
(* list.                                                                   *)
LEMMA RemoveKeyOk ==
  ASSUME IInv, NEW k \in Key, RemoveKey(k), Search(ht, k) # NULL
  PROVE  /\ IInv'
         /\ \E p \in 1 .. Len(Order(mem, ht)) :
              /\ Order(mem, ht)[p] = Search(ht, k)
              /\ Order(mem', ht') = Without(Order(mem, ht), p)
              /\ Path(mem', Without(Order(mem, ht), p), ht'.oldest, "newer")
              /\ Pairs' = PairsOf(mem', Without(Order(mem, ht), p))
              /\ \A x \in Of(Without(Order(mem, ht), p)) :
                   mem'[x].key = mem[x].key /\ mem'[x].data = mem[x].data
<1>1. PICK f, a, c, b, z :
        /\ Lists(mem, ht, tmp, pc, cursor, p_entry, l_key, a, c, b, z)
        /\ Owned(mem, free_list, f, All(ht, c), Copies(tmp, pc, z), Waiting(pc, p_entry))
  BY DEF IInv
<1> DEFINE e == Search(ht, k)
           l == BucketOf(ht, k)
           n == Unlinked(mem, e)
           u == WithUnlinked(ht, mem, l, e)
<1>2. /\ pc = "idle" /\ pc' = pc /\ p_entry' = p_entry /\ l_key' = l_key /\ cursor' = cursor
      /\ tmp' = tmp /\ ht' = u /\ FreeAll(n, <<e>>)
  BY DEF RemoveKey, Idle
<1>3. /\ Sound(mem, ht, a, c) /\ Of(a) = All(ht, c)
  BY <1>1, <1>2 DEF Lists, Sound
<1>4. /\ Path(mem, f, free_list, "data") /\ DOMAIN mem = Of(f) \cup Of(a)
      /\ Of(a) \cap Of(f) = {}
  BY <1>1, <1>2, <1>3 DEF Owned, Copies, Waiting
<1>5. Blocks(mem) /\ Cells(mem) /\ Pool
  BY PoolBlocks DEF IInv
<1>6. l \in Slots(ht) /\ \E j \in 1 .. Len(c[l]), p \in 1 .. Len(a) : e = c[l][j] /\ a[p] = c[l][j]
  BY <1>3, <1>5, FoundIs
<1>7. PICK j \in 1 .. Len(c[l]), p \in 1 .. Len(a) : e = c[l][j] /\ a[p] = c[l][j]
  BY <1>6
<1> DEFINE a2 == Without(a, p)
           c2 == [c EXCEPT ![l] = Without(c[l], j)]
           f2 == Before1(<<e>>, f)
<1> HIDE DEF e, l, n, u
<1>8. Sound(n, u, a2, c2)
  <2> DEFINE y == c[l][j]
  <2>1. Sound(Unlinked(mem, y), WithUnlinked(ht, mem, l, y), Without(a, p),
              [c EXCEPT ![l] = Without(c[l], j)])
    BY <1>3, <1>5, <1>6, <1>7, UnlinkSound
  <2> QED
    BY <1>7, <2>1 DEF n, u
<1> HIDE DEF a2, c2, f2
<1>9. e \in Of(a) /\ e \in DOMAIN mem
  BY <1>4, <1>7 DEF Of
<1>10. /\ Cells(n) /\ DOMAIN n = DOMAIN mem
       /\ \A x \in DOMAIN mem : n[x].key = mem[x].key /\ n[x].data = mem[x].data
  BY <1>5, <1>9, UnlinkedIs DEF n
<1>11. Blocks(n)
  BY <1>5, <1>10 DEF Blocks
<1>12. Path(n, f, free_list, "data")
  <2>1. \A x \in Of(f) : x \in DOMAIN n /\ n[x]["data"] = mem[x]["data"]
    BY <1>4, <1>10
  <2> QED
    BY <1>4, <2>1, PathStays
<1>13. /\ <<e>> \in Seq(DOMAIN n) /\ Len(<<e>>) = 1 /\ <<e>>[1] = e /\ <<e>> # <<>>
       /\ \A x, y \in 1 .. Len(<<e>>) : <<e>>[x] = <<e>>[y] => x = y
       /\ Of(<<e>>) = {e}
  BY <1>9, <1>10 DEF Of
<1>14. mem' = Freed(n, free_list, <<e>>) /\ free_list' = e
       /\ pools_size' = pools_size /\ first_free' = first_free
  BY <1>2, <1>13 DEF FreeAll
<1>15. /\ Cells(mem') /\ DOMAIN mem' = DOMAIN mem
       /\ \A x \in DOMAIN mem : x # e => mem'[x] = n[x]
       /\ Path(mem', f2, free_list', "data")
       /\ Of(f2) = {e} \cup Of(f)
  <2> DEFINE v == <<e>>
             w == Freed(n, free_list, v)
  <2>1. Of(v) \cap Of(f) = {}
    BY <1>4, <1>9, <1>13
  <2>2. /\ v \in Seq(DOMAIN n) /\ \A x, y \in 1 .. Len(v) : v[x] = v[y] => x = y
    BY <1>13
  <2>3. mem' = w /\ Of(v) = {e} /\ free_list' = IF v = <<>> THEN free_list ELSE v[Len(v)]
    BY <1>13, <1>14
  <2>4. f2 = Before1(v, f)
    BY DEF f2
  <2> HIDE DEF v
  <2>5. /\ Cells(w) /\ DOMAIN w = DOMAIN n
        /\ \A x \in DOMAIN n : x \notin Of(v) => w[x] = n[x]
        /\ Path(w, Before1(v, f), IF v = <<>> THEN free_list ELSE v[Len(v)], "data")
        /\ Of(Before1(v, f)) = Of(v) \cup Of(f)
    BY <1>10, <1>11, <1>12, <2>1, <2>2, FreedIs
  <2> HIDE DEF w
  <2> QED
    BY <1>10, <2>3, <2>4, <2>5
<1>16. Of(a2) = Of(a) \ {e}
  <2>1. Path(mem, a, ht.oldest, "newer")
    BY <1>3 DEF Sound, Aged
  <2>2. a \in Seq(DOMAIN mem) /\ \A x, y \in 1 .. Len(a) : a[x] = a[y] => x = y
    BY <2>1, PathOf
  <2> QED
    BY <1>7, <2>2, OfWithout DEF a2
<1>17. Sound(mem', u, a2, c2)
  <2>1. \A x \in Of(a2) : x \in DOMAIN mem' /\ SamePlace(mem'[x], n[x])
    BY <1>4, <1>15, <1>16 DEF SamePlace
  <2> QED
    BY <1>8, <2>1, SoundFrame
<1>18. Chains(mem', u, c2) /\ All(u, c2) = Of(a2)
  BY <1>17 DEF Sound
<1>19. Lists(mem', ht', tmp', pc', cursor', p_entry', l_key', a2, c2, b, z)
  BY <1>2, <1>17, <1>18 DEF Lists
<1>20. Owned(mem', free_list', f2, All(ht', c2), Copies(tmp', pc', z), Waiting(pc', p_entry'))
  <2>1. Copies(tmp', pc', z) = {} /\ Waiting(pc', p_entry') = {}
    BY <1>2 DEF Copies, Waiting
  <2> QED
    BY <1>2, <1>4, <1>9, <1>15, <1>16, <1>18, <2>1 DEF Owned
<1>21. Pool'
  BY <1>5, <1>14, <1>15 DEF Pool, Block
<1>22. pc' = "idle" /\ p_entry' = NULL
  BY <1>2 DEF IInv
<1>23. IInv'
  BY <1>19, <1>20, <1>21, <1>22 DEF IInv
<1>24. Order(mem, ht) = a
  BY <1>3, <1>5, OrderOf
<1>25. Order(mem', ht') = a2 /\ Pairs' = PairsOf(mem', a2)
  BY <1>2, <1>17, <1>21, CurrentIs, OrderOf, PoolBlocksNext
<1>26. Path(mem', a2, ht'.oldest, "newer")
  BY <1>2, <1>17 DEF Sound, Aged
<1>27. \A x \in Of(a2) : mem'[x].key = mem[x].key /\ mem'[x].data = mem[x].data
  BY <1>4, <1>10, <1>15, <1>16
<1>28. p \in 1 .. Len(a) /\ a[p] = e
  BY <1>7
<1> QED
  BY <1>23, <1>24, <1>25, <1>26, <1>27, <1>28 DEF a2, e

(* Nothing else touches the lists.                                         *)
LEMMA Untouched ==
  ASSUME IInv, UNCHANGED <<poolVars, ht, tmp, pc, p_entry, l_key, cursor>>
  PROVE  IInv'
<1>1. /\ mem' = mem /\ free_list' = free_list /\ pools_size' = pools_size
      /\ first_free' = first_free /\ ht' = ht /\ tmp' = tmp /\ pc' = pc
      /\ p_entry' = p_entry /\ l_key' = l_key /\ cursor' = cursor
  BY DEF poolVars
<1>2. PICK f, a, c, b, z :
        /\ Lists(mem, ht, tmp, pc, cursor, p_entry, l_key, a, c, b, z)
        /\ Owned(mem, free_list, f, All(ht, c), Copies(tmp, pc, z), Waiting(pc, p_entry))
  BY DEF IInv
<1>3. /\ Lists(mem', ht', tmp', pc', cursor', p_entry', l_key', a, c, b, z)
      /\ Owned(mem', free_list', f, All(ht', c), Copies(tmp', pc', z), Waiting(pc', p_entry'))
  BY <1>1, <1>2
<1>4. Pool'
  BY <1>1 DEF IInv, Pool, Block
<1> QED
  BY <1>1, <1>3, <1>4 DEF IInv

(* Every step of the table keeps the invariant.                            *)
LEMMA StepOk == IInv /\ [Next]_vars => IInv'
<1> SUFFICES ASSUME IInv, [Next]_vars PROVE IInv'
  OBVIOUS
<1>1. CASE \E k \in Key : InsertPresent(k) \/ Get(k)
  BY <1>1, Untouched DEF InsertPresent, Get, Idle
<1>2. ASSUME NEW k \in Key, RemoveKey(k) PROVE IInv'
  <2>1. CASE Search(ht, k) = NULL
    BY <1>2, <2>1, Untouched DEF RemoveKey, Idle
  <2>2. CASE Search(ht, k) # NULL
    BY <1>2, <2>2, RemoveKeyOk
  <2> QED
    BY <2>1, <2>2
<1>3. CASE \E k \in Key, d \in Data : InsertNew(k, d)
  BY <1>3, InsertNewOk
<1>4. CASE \E k \in Key, d \in Data : Replace(k, d)
  BY <1>4, ReplaceOk
<1>5. CASE Copy
  BY <1>5, CopyOk
<1>6. CASE FreeChain
  BY <1>6, FreeChainOk
<1>7. CASE Swap
  BY <1>7, SwapOk
<1>8. CASE Link
  BY <1>8, LinkOk
<1>9. CASE First \/ NextPair
  BY <1>9, Untouched DEF First, NextPair, Yield, Idle
<1>10. CASE UNCHANGED vars
  BY <1>10, Untouched DEF vars
<1> QED
  BY <1>1, <1>2, <1>3, <1>4, <1>5, <1>6, <1>7, <1>8, <1>9, <1>10 DEF Next

(* The invariant holds in every state, whatever the keys and their hash    *)
(* values.                                                                 *)
LEMMA Invariant == Spec => []IInv
BY InitOk, StepOk, PTL DEF Spec

(* What Walk finds along a bucket is its chain, and Entries the blocks of  *)
(* all chains.                                                             *)
LEMMA EntriesIs ==
  ASSUME NEW t, NEW c, Blocks(mem), Chains(mem, t, c)
  PROVE  /\ DOMAIN t.bucket = Slots(t) /\ Entries(t) = All(t, c)
         /\ \A l \in Slots(t) : Walk(mem, t.bucket[l], "next") = c[l]
<1>1. DOMAIN t.bucket = Slots(t)
  BY DEF Chains, Shape
<1>2. ASSUME NEW l \in Slots(t)
      PROVE  Walk(mem, t.bucket[l], "next") = c[l] /\ ToSet(c[l]) = Of(c[l])
  <2>1. Path(mem, c[l], t.bucket[l], "next")
    BY DEF Chains
  <2>2. Walk(mem, t.bucket[l], "next") = c[l]
    BY <2>1, WalkIs
  <2>3. DOMAIN c[l] = 1 .. Len(c[l])
    BY <2>1, PathOf
  <2> QED
    BY <2>2, <2>3 DEF ToSet, Of
<1>3. Entries(t) = UNION {Of(c[l]) : l \in Slots(t)}
  BY <1>1, <1>2 DEF Entries
<1> QED
  BY <1>1, <1>2, <1>3 DEF All

(* A sound table is one whose chains, list and counters agree.             *)
LEMMA SoundAgrees ==
  ASSUME NEW t, NEW a, NEW c, Blocks(mem), Sound(mem, t, a, c)
  PROVE  Agree(t)
<1>1. /\ Chains(mem, t, c) /\ Counted(mem, t, c) /\ Aged(mem, t, a) /\ OneOfAKey(mem, a)
      /\ Of(a) = All(t, c)
  BY DEF Sound
<1>2. /\ Path(mem, a, t.oldest, "newer") /\ Back(mem, a, "older")
      /\ t.newest = End(a) /\ t.items = Len(a)
  BY <1>1 DEF Aged
<1>3. /\ Ages(t) = a /\ Walk(mem, t.newest, "older") = Reverse(a)
  BY <1>2, WalkIs, PathBack DEF Ages
<1>4. /\ DOMAIN a = 1 .. Len(a) /\ \A i, j \in 1 .. Len(a) : a[i] = a[j] => i = j
  BY <1>2, PathOf
<1>5. IsInjective(a) /\ ToSet(a) = Of(a)
  BY <1>4 DEF IsInjective, ToSet, Of
<1>6. /\ DOMAIN t.bucket = Slots(t) /\ Entries(t) = All(t, c)
      /\ \A l \in Slots(t) : Walk(mem, t.bucket[l], "next") = c[l]
  BY <1>1, EntriesIs
<1>7. ASSUME NEW l \in Slots(t)
      PROVE  /\ t.nr[l] = Len(c[l])
             /\ \A i \in DOMAIN c[l] :
                  /\ BucketOf(t, mem[c[l][i]].key) = l
                  /\ mem[c[l][i]].prev = IF i = 1 THEN NULL ELSE c[l][i - 1]
  <2>1. Path(mem, c[l], t.bucket[l], "next")
    BY <1>1 DEF Chains
  <2>2. DOMAIN c[l] = 1 .. Len(c[l]) /\ \A i \in 1 .. Len(c[l]) : c[l][i] \in Of(c[l])
    BY <2>1, PathOf
  <2>3. \A e \in Of(c[l]) : BucketOf(t, mem[e].key) = l
    BY <1>1 DEF Chains
  <2>4. t.nr[l] = Len(c[l]) /\ Back(mem, c[l], "prev")
    BY <1>1 DEF Counted
  <2> QED
    BY <2>2, <2>3, <2>4 DEF Back
<1>8. ASSUME NEW e \in Entries(t), NEW f \in Entries(t), mem[e].key = mem[f].key
      PROVE  e = f
  <2>1. PICK i \in 1 .. Len(a), j \in 1 .. Len(a) : e = a[i] /\ f = a[j]
    BY <1>1, <1>6 DEF Of
  <2> QED
    BY <1>1, <1>8, <2>1 DEF OneOfAKey
<1> QED
  BY <1>1, <1>2, <1>3, <1>5, <1>6, <1>7, <1>8 DEF Agree

(* The lists of the table agree in every state, whatever the keys and      *)
(* their hash values, through every insert, removal and rehash.            *)
THEOREM ListsAgree == Spec => []WellLinked
<1>1. ASSUME IInv PROVE WellLinked
  <2>1. Blocks(mem)
    BY <1>1, PoolBlocks DEF IInv
  <2>2. PICK a, c, b, z : Lists(mem, ht, tmp, pc, cursor, p_entry, l_key, a, c, b, z)
    BY <1>1 DEF IInv
  <2>3. pc \in {"idle", "copy", "link"}
    BY <1>1 DEF IInv
  <2>4. CASE pc = "copy" /\ cursor = NULL
    <3>1. Current = tmp
      BY <2>4 DEF Current, Rehashing
    <3>2. Sound(mem, tmp, b, z)
      BY <2>2, <2>4 DEF Lists
    <3> QED
      BY <2>1, <3>1, <3>2, SoundAgrees DEF WellLinked
  <2>5. CASE ~(pc = "copy" /\ cursor = NULL)
    <3>1. Current = ht
      BY <2>3, <2>5 DEF Current, Rehashing
    <3>2. Sound(mem, ht, a, c)
      BY <2>2, <2>5 DEF Lists
    <3> QED
      BY <2>1, <3>1, <3>2, SoundAgrees DEF WellLinked
  <2> QED
    BY <2>4, <2>5
<1> QED
  BY <1>1, Invariant, PTL

(* No block is lost or has two owners.                                     *)
THEOREM BlocksOwned == Spec => []OneOwner
<1>1. ASSUME IInv PROVE OneOwner
  <2>1. Blocks(mem) /\ \A e \in DOMAIN mem : e # NULL
    BY <1>1, PoolBlocks DEF IInv
  <2>2. PICK f, a, c, b, z :
          /\ Lists(mem, ht, tmp, pc, cursor, p_entry, l_key, a, c, b, z)
          /\ Owned(mem, free_list, f, All(ht, c), Copies(tmp, pc, z), Waiting(pc, p_entry))
    BY <1>1 DEF IInv
  <2>3. pc \in {"idle", "copy", "link"} /\ (pc = "idle" => p_entry = NULL)
    BY <1>1 DEF IInv
  <2> DEFINE A == All(ht, c)
             B == Copies(tmp, pc, z)
             E == Waiting(pc, p_entry)
  <2>4. /\ Path(mem, f, free_list, "data")
        /\ DOMAIN mem = Of(f) \cup A \cup B \cup E
        /\ A \cap Of(f) = {} /\ B \cap Of(f) = {} /\ E \cap Of(f) = {}
        /\ A \cap B = {} /\ A \cap E = {} /\ B \cap E = {}
    BY <2>2 DEF Owned
  <2>5. FreeList = f /\ IsInjective(f) /\ ToSet(f) = Of(f)
    <3>1. DOMAIN f = 1 .. Len(f) /\ \A i, j \in 1 .. Len(f) : f[i] = f[j] => i = j
      BY <2>4, PathOf
    <3>2. IsInjective(f) /\ ToSet(f) = Of(f)
      BY <3>1 DEF IsInjective, ToSet, Of
    <3> QED
      BY <2>1, <2>4, <3>2, WalkIs DEF FreeList
  <2>6. Entries(ht) = A
    BY <2>1, <2>2, EntriesIs DEF Lists
  <2>7. (IF Rehashing THEN Entries(tmp) ELSE {}) = B
    <3>1. CASE pc = "copy"
      <4>1. Chains(mem, tmp, z)
        BY <2>2, <3>1 DEF Lists, Sound
      <4> QED
        BY <2>1, <3>1, <4>1, EntriesIs DEF Rehashing, Copies
    <3>2. CASE pc # "copy"
      BY <2>3, <3>2 DEF Rehashing, Copies
    <3> QED
      BY <3>1, <3>2
  <2>8. {p_entry} \ {NULL} = E
    <3>1. CASE pc = "idle"
      BY <2>3, <3>1 DEF Waiting
    <3>2. CASE pc # "idle"
      <4>1. E = {p_entry}
        BY <3>2 DEF Waiting
      <4>2. p_entry # NULL
        BY <2>1, <2>4, <4>1
      <4> QED
        BY <4>1, <4>2
    <3> QED
      BY <3>1, <3>2
  <2> HIDE DEF A, B, E
  <2> DEFINE owned == <<A, B, E>>
  <2>9. owned = <<Entries(ht), IF Rehashing THEN Entries(tmp) ELSE {}, {p_entry} \ {NULL}>>
    BY <2>6, <2>7, <2>8
  <2>10. \A i \in 1 .. 3 : /\ owned[i] \cap Of(f) = {}
                           /\ \A j \in 1 .. i - 1 : owned[i] \cap owned[j] = {}
    <3>1. owned[1] = A /\ owned[2] = B /\ owned[3] = E
      OBVIOUS
    <3> HIDE DEF owned
    <3>2. \A i \in 1 .. 3 : i = 1 \/ i = 2 \/ i = 3
      OBVIOUS
    <3>3. \A j \in 1 .. 1 - 1 : FALSE
      OBVIOUS
    <3>4. \A j \in 1 .. 2 - 1 : j = 1
      OBVIOUS
    <3>5. \A j \in 1 .. 3 - 1 : j = 1 \/ j = 2
      OBVIOUS
    <3> QED
      BY <2>4, <3>1, <3>2, <3>3, <3>4, <3>5
  <2>11. DOMAIN mem = ToSet(FreeList) \cup owned[1] \cup owned[2] \cup owned[3]
    BY <2>4, <2>5
  <2> HIDE DEF owned
  <2> QED
    BY <2>5, <2>9, <2>10, <2>11 DEF OneOwner
<1> QED
  BY <1>1, Invariant, PTL

-----------------------------------------------------------------------------
(* The dictionary.                                                         *)

(* What follows in a list from its q-th block on, and the keys of a list.  *)
From(s, q)   == [i \in 1 .. Len(s) + 1 - q |-> s[i + q - 1]]
KeysIn(m, b) == LET due == Walk(m, b, "newer") IN [i \in DOMAIN due |-> m[due[i]].key]

(* What follows in a list from a block of it is a list.                    *)
LEMMA PathFrom ==
  ASSUME NEW m, NEW s, NEW b, NEW f, Path(m, s, b, f), NEW q \in 1 .. Len(s)
  PROVE  /\ Path(m, From(s, q), s[q], f) /\ Len(From(s, q)) = Len(s) + 1 - q
         /\ \A i \in 1 .. Len(s) + 1 - q : From(s, q)[i] = s[i + q - 1]
<1> DEFINE u == From(s, q)
           k == Len(s) + 1 - q
<1>1. /\ s \in Seq(DOMAIN m) /\ Len(s) \in Nat
      /\ \A i, j \in 1 .. Len(s) : s[i] = s[j] => i = j
      /\ \A i \in 1 .. Len(s) : s[i] \in DOMAIN m
      /\ \A i \in 1 .. Len(s) : m[s[i]][f] = IF i = Len(s) THEN NULL ELSE s[i + 1]
  BY PathOf DEF Path
<1>2. k \in Nat /\ k # 0 /\ \A i \in 1 .. k : i + q - 1 \in 1 .. Len(s)
  BY <1>1
<1>3. Numbered(u, k) /\ \A i \in 1 .. k : u[i] = s[i + q - 1]
  BY DEF From, Numbered
<1> HIDE DEF u
<1>4. \A i \in 1 .. k : u[i] \in DOMAIN m
  BY <1>1, <1>2, <1>3
<1> HIDE DEF k
<1>5. u \in Seq(DOMAIN m) /\ Len(u) = k
  BY <1>2, <1>3, <1>4, SeqIs
<1>6. ASSUME NEW i \in 1 .. k, NEW j \in 1 .. k, u[i] = u[j] PROVE i = j
  <2>1. i + q - 1 \in 1 .. Len(s) /\ j + q - 1 \in 1 .. Len(s)
    BY <1>2
  <2>2. s[i + q - 1] = s[j + q - 1]
    BY <1>3, <1>6
  <2>3. i + q - 1 = j + q - 1
    BY <1>1, <2>1, <2>2
  <2> QED
    BY <1>1, <2>3
<1>7. ASSUME NEW i \in 1 .. k PROVE m[u[i]][f] = IF i = k THEN NULL ELSE u[i + 1]
  <2>1. m[u[i]][f] = IF i + q - 1 = Len(s) THEN NULL ELSE s[(i + q - 1) + 1]
    BY <1>1, <1>2, <1>3
  <2>2. CASE i = k
    <3>1. i + q - 1 = Len(s)
      BY <1>1, <2>2 DEF k
    <3> QED
      BY <2>1, <2>2, <3>1
  <2>3. CASE i # k
    <3>0. Len(s) \in Nat /\ k = Len(s) + 1 - q /\ i \in 1 .. k /\ i # k
      BY <1>1, <2>3 DEF k
    <3>1. i + q - 1 # Len(s) /\ i + 1 \in 1 .. k /\ (i + q - 1) + 1 = (i + 1) + q - 1
      BY <3>0
    <3> QED
      BY <1>3, <2>1, <2>3, <3>1
  <2> QED
    BY <2>2, <2>3
<1>8. u[1] = s[q] /\ 1 \in 1 .. k
  <2>1. 1 \in 1 .. k /\ 1 + q - 1 = q
    BY <1>2
  <2> QED
    BY <1>3, <2>1
<1>9. Path(m, u, s[q], f)
  BY <1>2, <1>5, <1>6, <1>7, <1>8 DEF Path
<1> QED
  BY <1>3, <1>5, <1>9 DEF u, k

(* No key is due when no block is.                                         *)
LEMMA NoKeys ==
  ASSUME NEW m, Blocks(m)
  PROVE  KeysIn(m, NULL) = <<>>
<1>1. Path(m, <<>>, NULL, "newer")
  BY DEF Path
<1>2. Walk(m, NULL, "newer") = <<>>
  BY <1>1, WalkIs
<1> QED
  BY <1>2 DEF KeysIn

(* The keys an iteration has yet to yield are those from the block on that *)
(* it has come to.                                                         *)
LEMMA KeysFrom ==
  ASSUME NEW m, NEW s, NEW b, Blocks(m), Path(m, s, b, "newer"), NEW q \in 1 .. Len(s)
  PROVE  /\ Walk(m, s[q], "newer") = From(s, q)
         /\ Numbered(KeysIn(m, s[q]), Len(s) + 1 - q)
         /\ \A i \in 1 .. Len(s) + 1 - q : KeysIn(m, s[q])[i] = m[s[i + q - 1]].key
<1> DEFINE u == From(s, q)
<1>1. /\ Path(m, u, s[q], "newer") /\ Len(u) = Len(s) + 1 - q
      /\ \A i \in 1 .. Len(s) + 1 - q : u[i] = s[i + q - 1]
  BY PathFrom
<1> HIDE DEF u
<1>2. Walk(m, s[q], "newer") = u
  BY <1>1, WalkIs
<1>3. DOMAIN u = 1 .. Len(s) + 1 - q
  BY <1>1, PathOf
<1>4. KeysIn(m, s[q]) = [i \in 1 .. Len(s) + 1 - q |-> m[u[i]].key]
  BY <1>2, <1>3 DEF KeysIn
<1> QED
  BY <1>1, <1>2, <1>4 DEF Numbered, u

(* An iteration has come to an entry of the table, between two calls; the  *)
(* entry that waits has data of the caller.                                *)
Iterating == p_next # NULL => pc = "idle" /\ p_next \in Of(Order(mem, ht))
RInv == IInv /\ Iterating /\ (pc # "idle" => mem[p_entry].data \in Data)

(* What callers see between two calls.                                     *)
LEMMA ShownIs ==
  ASSUME IInv, pc = "idle", NEW s, s = Order(mem, ht)
  PROVE  /\ Blocks(mem) /\ Path(mem, s, ht.oldest, "newer") /\ Len(s) \in Nat
         /\ \A i \in 1 .. Len(s) : s[i] \in DOMAIN mem /\ s[i] # NULL
         /\ Pairs = PairsOf(mem, s) /\ DOMAIN Pairs = 1 .. Len(s)
         /\ \A i \in 1 .. Len(s) : Pairs[i].key = mem[s[i]].key /\ Pairs[i].data = mem[s[i]].data
         /\ \A i, j \in 1 .. Len(s) : mem[s[i]].key = mem[s[j]].key => i = j
         /\ \A k \in Key : Search(ht, k) = NULL => \A i \in 1 .. Len(s) : mem[s[i]].key # k
         /\ \A k \in Key : Search(ht, k) # NULL =>
              \E i \in 1 .. Len(s) : s[i] = Search(ht, k) /\ mem[s[i]].key = k
<1>1. PICK f, a, c, b, z :
        /\ Lists(mem, ht, tmp, pc, cursor, p_entry, l_key, a, c, b, z)
        /\ Owned(mem, free_list, f, All(ht, c), Copies(tmp, pc, z), Waiting(pc, p_entry))
  BY DEF IInv
<1>2. Blocks(mem) /\ Pool /\ Sound(mem, ht, a, c)
  BY <1>1, PoolBlocks DEF IInv, Lists
<1>3. s = a /\ Pairs = PairsOf(mem, a)
  BY <1>2, CurrentIs, OrderOf
<1>4. Path(mem, a, ht.oldest, "newer") /\ OneOfAKey(mem, a) /\ Chains(mem, ht, c)
  BY <1>2 DEF Sound, Aged
<1>5. Len(a) \in Nat /\ \A i \in 1 .. Len(a) : a[i] \in DOMAIN mem /\ a[i] # NULL
  BY <1>2, <1>4, PathOf DEF Blocks
<1>6. /\ DOMAIN Pairs = 1 .. Len(a)
      /\ \A i \in 1 .. Len(a) : Pairs[i].key = mem[a[i]].key /\ Pairs[i].data = mem[a[i]].data
  BY <1>3 DEF PairsOf
<1>7. ASSUME NEW k \in Key, Search(ht, k) = NULL
      PROVE  \A i \in 1 .. Len(a) : mem[a[i]].key # k
  <2>1. BucketOf(ht, k) \in Slots(ht)
    BY <1>4, BucketIs DEF Chains
  <2>2. Path(mem, c[BucketOf(ht, k)], ht.bucket[BucketOf(ht, k)], "next")
    BY <1>4, <2>1 DEF Chains
  <2>3. \A j \in 1 .. Len(c[BucketOf(ht, k)]) : c[BucketOf(ht, k)][j] # NULL
    BY <1>2, <2>2, PathOf DEF Blocks
  <2>4. \A x \in All(ht, c) : mem[x].key # k
    BY <1>2, <1>4, <1>7, <2>3, SearchIs
  <2>5. Absent(mem, a, k)
    BY <1>2, <2>4, AbsentIs
  <2> QED
    BY <2>5 DEF Absent
<1>8. ASSUME NEW k \in Key, Search(ht, k) # NULL
      PROVE  \E i \in 1 .. Len(a) : a[i] = Search(ht, k) /\ mem[a[i]].key = k
  BY <1>2, <1>8, FoundIs
<1> QED
  BY <1>2, <1>3, <1>4, <1>5, <1>6, <1>7, <1>8 DEF OneOfAKey

(* The key of an entry is where the dictionary has it.                     *)
LEMMA PlaceOf ==
  ASSUME IInv, pc = "idle", NEW s, s = Order(mem, ht), NEW p \in 1 .. Len(s), NEW k, mem[s[p]].key = k
  PROVE  Dict!Has(k) /\ Dict!At(k) = p /\ Pairs[p].data = mem[s[p]].data
<1>1. /\ DOMAIN Pairs = 1 .. Len(s)
      /\ \A i \in 1 .. Len(s) : Pairs[i].key = mem[s[i]].key /\ Pairs[i].data = mem[s[i]].data
      /\ \A i, j \in 1 .. Len(s) : mem[s[i]].key = mem[s[j]].key => i = j
  BY ShownIs
<1>2. \A i \in DOMAIN Pairs : Pairs[i].key = k <=> i = p
  BY <1>1
<1> QED
  BY <1>1, <1>2 DEF Dict!Has, Dict!At

(* The keys an iteration has yet to yield, between two calls.              *)
LEMMA RestIs ==
  /\ Rest = KeysIn(mem, p_next)
  /\ Rest' = KeysIn(mem', p_next')
BY DEF Rest, KeysIn, KeyOf

(* A step the dictionary does not see.                                     *)
Unseen == Pairs' = Pairs /\ Rest' = Rest /\ reply' = reply

(* The invariant with that of an iteration holds at first, of an empty     *)
(* dictionary.                                                             *)
LEMMA InitSeen == Init => RInv /\ Dict!Init
<1> SUFFICES ASSUME Init PROVE RInv /\ Dict!Init
  OBVIOUS
<1>1. IInv /\ pc = "idle" /\ p_next = NULL /\ reply = <<>> /\ mem = <<>> /\ ht.oldest = NULL
  BY InitOk DEF Init, PoolInit, Create
<1> DEFINE s == Order(mem, ht)
<1>2. s = <<>>
  <2>1. Blocks(mem)
    BY <1>1, PoolBlocks DEF IInv
  <2>2. Path(mem, <<>>, NULL, "newer")
    BY DEF Path
  <2> QED
    BY <1>1, <2>1, <2>2, WalkIs DEF Order
<1> HIDE DEF s
<1>3. Pairs = PairsOf(mem, s) /\ Blocks(mem) /\ Path(mem, s, ht.oldest, "newer")
  BY <1>1, ShownIs DEF s
<1>4. Pairs = <<>>
  BY <1>2, <1>3 DEF PairsOf
<1>5. Rest = <<>>
  BY <1>1, <1>3, RestIs, NoKeys
<1> QED
  BY <1>1, <1>4, <1>5 DEF RInv, Iterating, Dict!Init

(* Nothing is due when no iteration is in progress.                        *)
LEMMA NoneDue ==
  ASSUME IInv, IInv', p_next = NULL, p_next' = NULL
  PROVE  Rest = <<>> /\ Rest' = <<>>
<1>1. Blocks(mem) /\ Blocks(mem')
  BY PoolBlocks, PoolBlocksNext DEF IInv
<1>2. KeysIn(mem, NULL) = <<>> /\ KeysIn(mem', NULL) = <<>>
  BY <1>1, NoKeys
<1> QED
  BY <1>2, RestIs

(* The dictionary does not see an insert until it links its entry.         *)
LEMMA InsertingSeen ==
  ASSUME RInv, \/ Copy \/ FreeChain \/ Swap \/ \E k \in Key, d \in Data : InsertNew(k, d)
  PROVE  RInv' /\ Unseen
<1>1. CASE \E k \in Key, d \in Data : InsertNew(k, d)
  <2>1. PICK k \in Key, d \in Data : InsertNew(k, d)
    BY <1>1
  <2>2. IInv' /\ Pairs' = Pairs /\ mem'[p_entry'].data \in Data
    BY <2>1, InsertNewOk DEF RInv
  <2>3. p_next = NULL /\ p_next' = NULL /\ reply' = reply
    BY <2>1 DEF InsertNew
  <2>4. Rest' = Rest
    BY <2>2, <2>3, NoneDue DEF RInv
  <2> QED
    BY <2>2, <2>3, <2>4 DEF RInv, Iterating, Unseen
<1>2. CASE Copy \/ FreeChain \/ Swap
  <2>1. IInv' /\ Pairs' = Pairs /\ mem'[p_entry'].data = mem[p_entry].data
    BY <1>2, CopyOk, FreeChainOk, SwapOk DEF RInv
  <2>2. pc = "copy" /\ p_next' = p_next /\ reply' = reply
    BY <1>2 DEF Copy, FreeChain, Swap
  <2>3. p_next = NULL
    BY <2>2 DEF RInv, Iterating
  <2>4. Rest' = Rest
    BY <2>1, <2>2, <2>3, NoneDue DEF RInv
  <2> QED
    BY <2>1, <2>2, <2>3, <2>4 DEF RInv, Iterating, Unseen
<1> QED
  BY <1>1, <1>2

(* Linking the entry inserts the pair.                                     *)
LEMMA LinkSeen ==
  ASSUME RInv, Link
  PROVE  RInv' /\ \E k \in Key, d \in Data : Dict!Insert(k, d)
<1> DEFINE k == mem[p_entry].key
           d == mem[p_entry].data
<1>1. /\ IInv' /\ Pairs' = Append(Pairs, [key |-> k, data |-> d])
      /\ \A i \in DOMAIN Pairs : Pairs[i].key # k
      /\ k \in Key
  BY LinkOk DEF RInv
<1>2. pc = "link" /\ pc' = "idle" /\ p_next' = p_next /\ reply' = <<0>>
  BY DEF Link
<1>3. p_next = NULL /\ d \in Data
  BY <1>2 DEF RInv, Iterating
<1>4. Rest' = Rest
  BY <1>1, <1>2, <1>3, NoneDue DEF RInv
<1> HIDE DEF k, d
<1>5. Dict!Insert(k, d)
  BY <1>1, <1>2, <1>4 DEF Dict!Insert, Dict!Has
<1> QED
  BY <1>1, <1>2, <1>3, <1>5 DEF RInv, Iterating

(* A call that changes nothing but its reply.                              *)
LEMMA ReadOnly ==
  ASSUME RInv, Idle, UNCHANGED <<poolVars, ht, p_next>>
  PROVE  RInv' /\ Pairs' = Pairs /\ Rest' = Rest
<1>1. /\ mem' = mem /\ ht' = ht /\ p_next' = p_next /\ pc' = pc /\ cursor' = cursor
      /\ p_entry' = p_entry /\ tmp' = tmp /\ l_key' = l_key /\ pc = "idle"
  BY DEF poolVars, Idle
<1>2. IInv'
  BY <1>1, Untouched DEF RInv
<1>3. Pairs' = Pairs
  BY <1>1, CurrentIs
<1>4. Rest' = Rest
  BY <1>1, RestIs
<1> QED
  BY <1>1, <1>2, <1>3, <1>4 DEF RInv, Iterating, Order

(* insert of a key that is there, and get, are those of the dictionary.    *)
LEMMA ReadSeen ==
  ASSUME RInv, NEW k \in Key, InsertPresent(k) \/ Get(k)
  PROVE  RInv' /\ (Dict!Get(k) \/ \E d \in Data : Dict!Insert(k, d))
<1> DEFINE s == Order(mem, ht)
<1>1. IInv /\ pc = "idle" /\ RInv' /\ Pairs' = Pairs /\ Rest' = Rest
  BY ReadOnly DEF InsertPresent, Get, Idle, RInv
<1>2. Search(ht, k) = NULL => ~Dict!Has(k)
  BY <1>1, ShownIs DEF Dict!Has
<1>3. Search(ht, k) # NULL => Dict!Has(k) /\ Pairs[Dict!At(k)].data = mem[Search(ht, k)].data
  <2>1. ASSUME Search(ht, k) # NULL
        PROVE  Dict!Has(k) /\ Pairs[Dict!At(k)].data = mem[Search(ht, k)].data
    <3>1. PICK i \in 1 .. Len(s) : s[i] = Search(ht, k) /\ mem[s[i]].key = k
      BY <1>1, <2>1, ShownIs
    <3> HIDE DEF s
    <3>2. Dict!Has(k) /\ Dict!At(k) = i /\ Pairs[i].data = mem[s[i]].data
      BY <1>1, <3>1, PlaceOf DEF s
    <3> QED
      BY <3>1, <3>2
  <2> QED
    BY <2>1
<1>4. CASE InsertPresent(k)
  <2>1. Search(ht, k) # NULL /\ reply' = <<-1>>
    BY <1>4 DEF InsertPresent
  <2>2. PICK d \in Data : TRUE
    BY HashAssumption
  <2>3. Dict!Insert(k, d)
    BY <1>1, <1>3, <2>1 DEF Dict!Insert
  <2> QED
    BY <1>1, <2>3
<1>5. CASE Get(k)
  <2>1. reply' = IF Search(ht, k) = NULL THEN <<>> ELSE <<mem[Search(ht, k)].data>>
    BY <1>5 DEF Get
  <2>2. Dict!Get(k)
    BY <1>1, <1>2, <1>3, <2>1 DEF Dict!Get
  <2> QED
    BY <1>1, <2>2
<1> QED
  BY <1>4, <1>5

(* Two sequences of the same length and with the same elements.            *)
LEMMA SameNumbered ==
  ASSUME NEW n, NEW s, NEW t, Numbered(s, n), Numbered(t, n), \A i \in 1 .. n : s[i] = t[i]
  PROVE  s = t
<1>1. s = [i \in 1 .. n |-> s[i]] /\ t = [i \in 1 .. n |-> t[i]]
  BY DEF Numbered
<1>2. [i \in 1 .. n |-> s[i]] = [i \in 1 .. n |-> t[i]]
  OBVIOUS
<1> QED
  BY <1>1, <1>2

(* The keys due, between two calls.                                        *)
LEMMA DueIs ==
  ASSUME RInv, pc = "idle", NEW s, s = Order(mem, ht)
  PROVE  \/ p_next = NULL /\ Rest = <<>>
         \/ p_next # NULL /\ \E q \in 1 .. Len(s) :
              /\ p_next = s[q] /\ Walk(mem, p_next, "newer") = From(s, q)
              /\ Numbered(Rest, Len(s) + 1 - q)
              /\ \A i \in 1 .. Len(s) + 1 - q : Rest[i] = mem[s[i + q - 1]].key
<1>1. IInv /\ Iterating
  BY DEF RInv
<1>2. Blocks(mem) /\ Path(mem, s, ht.oldest, "newer")
  BY <1>1, ShownIs
<1>3. Rest = KeysIn(mem, p_next)
  BY RestIs
<1>4. CASE p_next = NULL
  BY <1>2, <1>3, <1>4, NoKeys
<1>5. CASE p_next # NULL
  <2>1. PICK q \in 1 .. Len(s) : p_next = s[q]
    BY <1>1, <1>5 DEF Iterating, Of
  <2>2. /\ Walk(mem, s[q], "newer") = From(s, q)
        /\ Numbered(KeysIn(mem, s[q]), Len(s) + 1 - q)
        /\ \A i \in 1 .. Len(s) + 1 - q : KeysIn(mem, s[q])[i] = mem[s[i + q - 1]].key
    BY ONLY <1>2, <2>1, KeysFrom
  <2> QED
    BY <1>3, <1>5, <2>1, <2>2
<1> QED
  BY <1>4, <1>5

(* What is due after an entry was yielded.                                 *)
LEMMA DueAfter ==
  ASSUME NEW m, NEW s, NEW b, Blocks(m), Path(m, s, b, "newer"), NEW q \in 1 .. Len(s)
  PROVE  LET e == m[s[q]].newer
         IN  /\ e # NULL => e \in Of(s)
             /\ Numbered(KeysIn(m, e), Len(s) - q)
             /\ \A i \in 1 .. Len(s) - q : KeysIn(m, e)[i] = m[s[q + i]].key
<1> DEFINE e == m[s[q]].newer
<1>1. Len(s) \in Nat /\ e = IF q = Len(s) THEN NULL ELSE s[q + 1]
  BY PathOf DEF Path
<1> HIDE DEF e
<1>2. CASE q = Len(s)
  <2>1. KeysIn(m, NULL) = <<>>
    BY NoKeys
  <2>2. e = NULL /\ Len(s) - q = 0
    BY <1>1, <1>2
  <2>3. Numbered(<<>>, 0) /\ 1 .. 0 = {}
    BY DEF Numbered
  <2> QED
    BY <2>1, <2>2, <2>3 DEF e
<1>3. CASE q # Len(s)
  <2>1. q + 1 \in 1 .. Len(s) /\ Len(s) + 1 - (q + 1) = Len(s) - q
    BY <1>1, <1>3
  <2>2. e = s[q + 1] /\ s[q + 1] \in Of(s)
    BY <1>1, <1>3, <2>1 DEF Of
  <2> DEFINE r == q + 1
  <2> HIDE DEF r
  <2>3. /\ Numbered(KeysIn(m, s[r]), Len(s) + 1 - r)
        /\ \A i \in 1 .. Len(s) + 1 - r : KeysIn(m, s[r])[i] = m[s[i + r - 1]].key
    <3>1. r \in 1 .. Len(s)
      BY <2>1 DEF r
    <3> QED
      BY <3>1, KeysFrom
  <2>4. \A i \in 1 .. Len(s) - q : i + (q + 1) - 1 = q + i
    BY <1>1
  <2> QED
    BY <2>1, <2>2, <2>3, <2>4 DEF e, r
<1> QED
  BY <1>2, <1>3

(* An iteration begins as the dictionary says.                             *)
LEMMA FirstSeen ==
  ASSUME RInv, First
  PROVE  RInv' /\ Dict!First
<1> DEFINE s == Order(mem, ht)
           n == Len(s)
<1>1. /\ pc = "idle" /\ pc' = pc /\ mem' = mem /\ ht' = ht /\ tmp' = tmp /\ cursor' = cursor
      /\ p_entry' = p_entry
      /\ IF ht.oldest = NULL THEN reply' = <<>> /\ p_next' = NULL
         ELSE /\ reply' = <<mem[ht.oldest].key, mem[ht.oldest].data>>
              /\ p_next' = mem[ht.oldest].newer
  BY DEF First, Yield, Idle, poolVars
<1>2. IInv /\ IInv'
  BY Untouched DEF First, Yield, Idle, RInv
<1>3. Pairs' = Pairs /\ Rest' = KeysIn(mem, p_next')
  BY <1>1, CurrentIs, RestIs
<1>4. /\ Blocks(mem) /\ Path(mem, s, ht.oldest, "newer") /\ n \in Nat
      /\ \A i \in 1 .. n : s[i] # NULL
      /\ Pairs = PairsOf(mem, s)
      /\ \A i \in 1 .. n : Pairs[i].key = mem[s[i]].key /\ Pairs[i].data = mem[s[i]].data
  BY <1>1, <1>2, ShownIs
<1> HIDE DEF s, n
<1>5. Numbered(Pairs, n)
  BY <1>4 DEF PairsOf, Numbered, n
<1>6. ht.oldest = IF n = 0 THEN NULL ELSE s[1]
  BY <1>4 DEF Path, n
<1>7. CASE n = 0
  <2>1. Pairs = <<>>
    BY <1>5, <1>7 DEF Numbered
  <2>2. p_next' = NULL /\ reply' = <<>>
    BY <1>1, <1>6, <1>7
  <2>3. Rest' = <<>>
    BY <1>3, <1>4, <2>2, NoKeys
  <2> QED
    BY <1>1, <1>2, <1>3, <2>1, <2>2, <2>3 DEF RInv, Iterating, Dict!First
<1>8. CASE n # 0
  <2>1. 1 \in 1 .. n /\ ht.oldest = s[1] /\ s[1] # NULL
    BY <1>4, <1>6, <1>8
  <2>2. reply' = <<Pairs[1].key, Pairs[1].data>> /\ p_next' = mem[s[1]].newer
    BY <1>1, <1>4, <2>1
  <2>3. /\ p_next' # NULL => p_next' \in Of(s)
        /\ Numbered(Rest', n - 1)
        /\ \A i \in 1 .. n - 1 : Rest'[i] = mem[s[1 + i]].key
    BY <1>3, <1>4, <2>1, <2>2, DueAfter DEF n
  <2> DEFINE y == [i \in 1 .. n - 1 |-> Pairs[i + 1]]
  <2>4. Numbered(y, n - 1) /\ \A i \in 1 .. n - 1 : y[i] = Pairs[i + 1]
    BY DEF Numbered
  <2>5. DOMAIN y = 1 .. n - 1
    OBVIOUS
  <2> HIDE DEF y
  <2>6. y = Tail(Pairs)
    BY <1>4, <1>5, <1>8, <2>4, TailIs
  <2>7. Dict!Keys(y) = [i \in 1 .. n - 1 |-> y[i].key]
    BY <2>5 DEF Dict!Keys
  <2>8. Numbered(Dict!Keys(y), n - 1) /\ \A i \in 1 .. n - 1 : Dict!Keys(y)[i] = y[i].key
    BY <2>7 DEF Numbered
  <2>9. ASSUME NEW i \in 1 .. n - 1 PROVE Rest'[i] = Dict!Keys(y)[i]
    <3>1. i + 1 \in 1 .. n /\ i + 1 = 1 + i
      BY <1>4
    <3> QED
      BY <1>4, <2>3, <2>4, <2>8, <3>1
  <2>10. Rest' = Dict!Keys(y)
    BY <2>3, <2>8, <2>9, SameNumbered
  <2>11. Pairs # <<>>
    BY <1>5, <2>1 DEF Numbered
  <2>12. Dict!First
    BY <1>3, <2>2, <2>6, <2>10, <2>11 DEF Dict!First
  <2>13. Iterating'
    BY <1>1, <2>3 DEF Iterating, s, Order
  <2> QED
    BY <1>1, <1>2, <2>12, <2>13 DEF RInv
<1> QED
  BY <1>7, <1>8

(* A step of an iteration is one of the dictionary's.                      *)
LEMMA NextPairSeen ==
  ASSUME RInv, NextPair
  PROVE  RInv' /\ Dict!NextPair
<1> DEFINE s == Order(mem, ht)
           n == Len(s)
<1>1. /\ pc = "idle" /\ pc' = pc /\ mem' = mem /\ ht' = ht /\ tmp' = tmp /\ cursor' = cursor
      /\ p_entry' = p_entry
      /\ IF p_next = NULL THEN reply' = <<>> /\ p_next' = NULL
         ELSE /\ reply' = <<mem[p_next].key, mem[p_next].data>>
              /\ p_next' = mem[p_next].newer
  BY DEF NextPair, Yield, Idle, poolVars
<1>2. IInv /\ IInv'
  BY Untouched DEF NextPair, Yield, Idle, RInv
<1>3. Pairs' = Pairs /\ Rest' = KeysIn(mem, p_next')
  BY <1>1, CurrentIs, RestIs
<1>4. Blocks(mem) /\ Path(mem, s, ht.oldest, "newer") /\ n \in Nat
  BY <1>1, <1>2, ShownIs
<1>5. \/ p_next = NULL /\ Rest = <<>>
      \/ p_next # NULL /\ \E q \in 1 .. n :
           /\ p_next = s[q]
           /\ Numbered(Rest, n + 1 - q)
           /\ \A i \in 1 .. n + 1 - q : Rest[i] = mem[s[i + q - 1]].key
  BY <1>1, DueIs
<1>6. CASE p_next = NULL
  <2>1. Rest = <<>> /\ Rest' = <<>> /\ p_next' = NULL /\ reply' = <<>>
    BY <1>1, <1>2, <1>6, NoneDue
  <2> QED
    BY <1>1, <1>2, <1>3, <2>1 DEF RInv, Iterating, Dict!NextPair
<1>7. CASE p_next # NULL
  <2>1. PICK q \in 1 .. n : /\ p_next = s[q]
                            /\ Numbered(Rest, n + 1 - q)
                            /\ \A i \in 1 .. n + 1 - q : Rest[i] = mem[s[i + q - 1]].key
    BY <1>5, <1>7
  <2>2. /\ p_next' = mem[s[q]].newer
        /\ reply' = <<mem[s[q]].key, mem[s[q]].data>>
    BY <1>1, <1>7, <2>1
  <2>3. /\ p_next' # NULL => p_next' \in Of(s)
        /\ Numbered(Rest', n - q)
        /\ \A i \in 1 .. n - q : Rest'[i] = mem[s[q + i]].key
    BY <1>3, <1>4, <2>2, DueAfter
  <2>4. Dict!Has(mem[s[q]].key) /\ Pairs[Dict!At(mem[s[q]].key)].data = mem[s[q]].data
    BY <1>1, <1>2, PlaceOf
  <2> HIDE DEF s, n
  <2>5. /\ n + 1 - q \in Nat /\ n + 1 - q # 0 /\ 1 \in 1 .. n + 1 - q
        /\ n + 1 - q - 1 = n - q /\ 1 + q - 1 = q
    BY <1>4
  <2>6. Rest # <<>>
    BY <2>1, <2>5 DEF Numbered
  <2>7. Head(Rest) = mem[s[q]].key
    <3>1. Rest[1] = mem[s[q]].key
      BY <2>1, <2>5
    <3> DEFINE k == n + 1 - q
               S == {Rest[i] : i \in 1 .. k}
    <3>2. k \in Nat /\ Numbered(Rest, k) /\ \A i \in 1 .. k : Rest[i] \in S
      BY <2>1, <2>5
    <3> HIDE DEF k, S
    <3>3. Rest \in Seq(S)
      BY <3>2, SeqIs
    <3> QED
      BY <2>6, <3>1, <3>3
  <2>8. Rest' = Tail(Rest)
    <3>1. ASSUME NEW i \in 1 .. n - q PROVE Rest'[i] = Rest[i + 1]
      <4>1. i + 1 \in 1 .. n + 1 - q /\ (i + 1) + q - 1 = q + i
        BY <1>4
      <4> QED
        BY <2>1, <2>3, <4>1
    <3> DEFINE k == n + 1 - q
    <3>2. k \in Nat /\ k # 0 /\ k - 1 = n - q
      BY <1>4, <2>5
    <3>3. Numbered(Rest, k)
      BY <2>1
    <3> HIDE DEF k
    <3> QED
      BY <2>3, <3>1, <3>2, <3>3, TailIs
  <2>9. Dict!NextPair
    BY <1>3, <2>2, <2>4, <2>6, <2>7, <2>8 DEF Dict!NextPair
  <2>10. Iterating'
    BY <1>1, <2>3 DEF Iterating, s, Order
  <2> QED
    BY <1>1, <1>2, <2>9, <2>10 DEF RInv
<1> QED
  BY <1>6, <1>7

(* replace changes the pair and nothing else.                              *)
LEMMA ReplaceSeen ==
  ASSUME RInv, NEW k \in Key, NEW d \in Data, Replace(k, d)
  PROVE  RInv' /\ Dict!Replace(k, d)
<1> DEFINE s == Order(mem, ht)
           n == Len(s)
           e == Search(ht, k)
<1>1. /\ pc = "idle" /\ pc' = pc /\ p_next' = p_next
      /\ IF e = NULL THEN reply' = <<-1>> /\ mem' = mem
         ELSE reply' = <<mem[e].data>>
  BY DEF Replace, Idle
<1>2. /\ IInv /\ IInv' /\ Order(mem', ht') = s /\ Pairs' = PairsOf(mem', s)
      /\ DOMAIN mem' = DOMAIN mem
      /\ \A x \in DOMAIN mem : SamePlace(mem'[x], mem[x])
      /\ \A x \in DOMAIN mem : mem'[x].data = IF x = e THEN d ELSE mem[x].data
  BY ReplaceOk DEF RInv
<1>3. /\ Blocks(mem) /\ Path(mem, s, ht.oldest, "newer") /\ n \in Nat
      /\ \A i \in 1 .. n : s[i] \in DOMAIN mem /\ s[i] # NULL
      /\ Pairs = PairsOf(mem, s)
      /\ \A i, j \in 1 .. n : mem[s[i]].key = mem[s[j]].key => i = j
      /\ e = NULL => \A i \in 1 .. n : mem[s[i]].key # k
      /\ e # NULL => \E i \in 1 .. n : s[i] = e /\ mem[s[i]].key = k
  BY <1>1, <1>2, ShownIs
<1>4. \A i \in 1 .. n : e # NULL /\ s[i] = e =>
        Dict!Has(k) /\ Dict!At(k) = i /\ Pairs[i].data = mem[s[i]].data
  <2>1. ASSUME NEW i \in 1 .. n, e # NULL, s[i] = e
        PROVE  Dict!Has(k) /\ Dict!At(k) = i /\ Pairs[i].data = mem[s[i]].data
    <3>1. mem[s[i]].key = k
      BY <1>3, <2>1
    <3> QED
      BY <1>1, <1>2, <3>1, PlaceOf
  <2> QED
    BY <2>1
<1>5. e = NULL => ~Dict!Has(k)
  <2>1. DOMAIN Pairs = 1 .. n /\ \A i \in 1 .. n : Pairs[i].key = mem[s[i]].key
    BY <1>3 DEF PairsOf
  <2> QED
    BY <1>3, <2>1 DEF Dict!Has
<1>6. \/ p_next = NULL
      \/ p_next # NULL /\ \E q \in 1 .. n :
           /\ p_next = s[q] /\ Numbered(Rest, n + 1 - q)
           /\ \A i \in 1 .. n + 1 - q : Rest[i] = mem[s[i + q - 1]].key
  BY <1>1, DueIs
<1>7. Iterating'
  BY <1>1, <1>2 DEF RInv, Iterating
<1> HIDE DEF s, n, e
<1>8. Path(mem', s, ht.oldest, "newer") /\ Blocks(mem')
  <2>1. \A x \in Of(s) : x \in DOMAIN mem' /\ mem'[x]["newer"] = mem[x]["newer"]
    BY <1>2, <1>3 DEF SamePlace, Of, n
  <2>2. Blocks(mem')
    BY <1>2, PoolBlocksNext DEF IInv
  <2> QED
    BY <1>3, <2>1, <2>2, PathStays
<1>9. Rest' = Rest
  <2>1. CASE p_next = NULL
    BY <1>1, <1>2, <2>1, NoneDue
  <2>2. CASE p_next # NULL
    <3>1. PICK q \in 1 .. n : /\ p_next = s[q] /\ Numbered(Rest, n + 1 - q)
                              /\ \A i \in 1 .. n + 1 - q : Rest[i] = mem[s[i + q - 1]].key
      BY <1>6, <2>2
    <3>2. Rest' = KeysIn(mem', s[q])
      BY <1>1, <3>1, RestIs
    <3>3. /\ Numbered(KeysIn(mem', s[q]), n + 1 - q)
          /\ \A i \in 1 .. n + 1 - q : KeysIn(mem', s[q])[i] = mem'[s[i + q - 1]].key
      BY <1>8, KeysFrom DEF n
    <3>4. ASSUME NEW i \in 1 .. n + 1 - q PROVE Rest'[i] = Rest[i]
      <4>1. i + q - 1 \in 1 .. n
        BY <1>3
      <4>2. mem'[s[i + q - 1]].key = mem[s[i + q - 1]].key
        BY <1>2, <1>3, <4>1 DEF SamePlace
      <4> QED
        BY <3>1, <3>2, <3>3, <4>2
    <3> QED
      BY <3>1, <3>2, <3>3, <3>4, SameNumbered
  <2> QED
    BY <2>1, <2>2
<1>10. Dict!Replace(k, d)
  <2>1. CASE e = NULL
    <3>1. reply' = <<-1>> /\ Pairs' = Pairs
      BY <1>1, <1>2, <1>3, <2>1
    <3> QED
      BY <1>5, <1>9, <2>1, <3>1 DEF Dict!Replace
  <2>2. CASE e # NULL
    <3>1. PICK p \in 1 .. n : s[p] = e
      BY <1>3, <2>2
    <3>2. Dict!Has(k) /\ Dict!At(k) = p /\ reply' = <<Pairs[p].data>>
      BY <1>1, <1>4, <2>2, <3>1
    <3>3. ASSUME NEW i \in 1 .. n
          PROVE  [key |-> mem'[s[i]].key, data |-> mem'[s[i]].data]
                   = IF i = p THEN [[key |-> mem[s[i]].key, data |-> mem[s[i]].data] EXCEPT !.data = d]
                     ELSE [key |-> mem[s[i]].key, data |-> mem[s[i]].data]
      <4>1. mem'[s[i]].key = mem[s[i]].key
        BY <1>2, <1>3 DEF SamePlace
      <4>2. mem'[s[i]].data = IF i = p THEN d ELSE mem[s[i]].data
        BY <1>2, <1>3, <3>1
      <4> QED
        BY <4>1, <4>2
    <3>4. /\ Pairs = [i \in 1 .. n |-> [key |-> mem[s[i]].key, data |-> mem[s[i]].data]]
          /\ Pairs' = [i \in 1 .. n |-> [key |-> mem'[s[i]].key, data |-> mem'[s[i]].data]]
      BY <1>2, <1>3 DEF PairsOf, n
    <3>5. Pairs' = [Pairs EXCEPT ![p].data = d]
      BY <3>3, <3>4
    <3> QED
      BY <1>9, <3>2, <3>5 DEF Dict!Replace
  <2> QED
    BY <2>1, <2>2
<1> QED
  BY <1>1, <1>2, <1>7, <1>10 DEF RInv

(* remove takes the pair out, unless an iteration has yet to yield it.     *)
LEMMA RemoveSeen ==
  ASSUME RInv, NEW k \in Key, RemoveKey(k)
  PROVE  RInv' /\ Dict!RemoveKey(k)
<1> DEFINE s == Order(mem, ht)
           n == Len(s)
           e == Search(ht, k)
<1>1. /\ pc = "idle" /\ pc' = pc /\ p_next' = p_next /\ IInv
      /\ IF e = NULL THEN reply' = <<0>>
         ELSE /\ reply' = <<mem[e].data>>
              /\ \A b \in ToSet(Walk(mem, p_next, "newer")) : b # e
  BY DEF RemoveKey, Idle, RInv
<1>2. /\ Blocks(mem) /\ Path(mem, s, ht.oldest, "newer") /\ n \in Nat
      /\ \A i \in 1 .. n : s[i] \in DOMAIN mem /\ s[i] # NULL
      /\ Pairs = PairsOf(mem, s) /\ DOMAIN Pairs = 1 .. n
      /\ \A i \in 1 .. n : Pairs[i].key = mem[s[i]].key
      /\ \A i, j \in 1 .. n : mem[s[i]].key = mem[s[j]].key => i = j
      /\ e = NULL => \A i \in 1 .. n : mem[s[i]].key # k
  BY <1>1, ShownIs
<1>3. \/ p_next = NULL /\ Rest = <<>>
      \/ p_next # NULL /\ \E q \in 1 .. n :
           /\ p_next = s[q] /\ Walk(mem, p_next, "newer") = From(s, q)
           /\ Numbered(Rest, n + 1 - q)
           /\ \A i \in 1 .. n + 1 - q : Rest[i] = mem[s[i + q - 1]].key
  BY <1>1, DueIs
<1>4. /\ Dict!ToSet(Rest) = ToSet(Rest)
      /\ \A p : Dict!RemoveAt(Pairs, p) = RemoveAt(Pairs, p)
  BY DEF Dict!ToSet, ToSet, Dict!RemoveAt, RemoveAt
<1>5. CASE e = NULL
  <2>1. RInv' /\ Pairs' = Pairs /\ Rest' = Rest
    BY <1>1, <1>5, ReadOnly DEF RemoveKey
  <2>2. ~Dict!Has(k)
    BY <1>2, <1>5 DEF Dict!Has
  <2> HIDE DEF s, n, e
  <2>3. k \notin ToSet(Rest)
    <3>1. CASE p_next = NULL
      BY <1>3, <3>1 DEF ToSet
    <3>2. CASE p_next # NULL
      <4>1. PICK q \in 1 .. n : /\ Numbered(Rest, n + 1 - q)
                                /\ \A i \in 1 .. n + 1 - q : Rest[i] = mem[s[i + q - 1]].key
        BY <1>3, <3>2
      <4>2. \A i \in 1 .. n + 1 - q : i + q - 1 \in 1 .. n
        BY <1>2
      <4>3. DOMAIN Rest = 1 .. n + 1 - q
        BY <4>1 DEF Numbered
      <4> QED
        BY <1>2, <1>5, <4>1, <4>2, <4>3 DEF ToSet
    <3> QED
      BY <3>1, <3>2
  <2> QED
    BY <1>1, <1>5, <1>4, <2>1, <2>2, <2>3 DEF Dict!RemoveKey
<1>6. CASE e # NULL
  <2>1. /\ IInv'
        /\ \E p \in 1 .. n :
             /\ s[p] = e
             /\ Order(mem', ht') = Without(s, p)
             /\ Path(mem', Without(s, p), ht'.oldest, "newer")
             /\ Pairs' = PairsOf(mem', Without(s, p))
             /\ \A x \in Of(Without(s, p)) :
                  mem'[x].key = mem[x].key /\ mem'[x].data = mem[x].data
    BY <1>1, <1>6, RemoveKeyOk
  <2>2. PICK p \in 1 .. n :
          /\ s[p] = e
          /\ Order(mem', ht') = Without(s, p)
          /\ Path(mem', Without(s, p), ht'.oldest, "newer")
          /\ Pairs' = PairsOf(mem', Without(s, p))
          /\ \A x \in Of(Without(s, p)) :
               mem'[x].key = mem[x].key /\ mem'[x].data = mem[x].data
    BY <2>1
  <2>3. mem[s[p]].key = k
    <3>1. \E i \in 1 .. n : s[i] = e /\ mem[s[i]].key = k
      BY <1>1, <1>6, ShownIs
    <3> QED
      BY <2>2, <3>1
  <2>4. Dict!Has(k) /\ Dict!At(k) = p /\ Pairs[p].data = mem[s[p]].data
    BY <1>1, <2>3, PlaceOf
  <2> DEFINE t == Without(s, p)
  <2>5. /\ Len(t) = n - 1
        /\ \A i \in 1 .. n - 1 : t[i] = IF i < p THEN s[i] ELSE s[i + 1]
    <3>1. s \in Seq(DOMAIN mem)
      BY <1>2, PathOf
    <3> QED
      BY <3>1, WithoutIs
  <2>6. /\ Order(mem', ht') = t /\ Path(mem', t, ht'.oldest, "newer") /\ Pairs' = PairsOf(mem', t)
        /\ \A x \in Of(t) : mem'[x].key = mem[x].key /\ mem'[x].data = mem[x].data
    BY <2>2
  <2> HIDE DEF s, n, e, t
  <2>7. Pairs' = RemoveAt(Pairs, p)
    <3>1. Pairs' = PairsOf(mem, t)
      BY <2>6, SamePairs
    <3> DEFINE y == PairsOf(mem, t)
               x == PairsOf(mem, s)
    <3>2. Numbered(y, n - 1) /\ Numbered(x, n)
      BY <2>5 DEF PairsOf, Numbered, n
    <3>3. ASSUME NEW i \in 1 .. n - 1 PROVE y[i] = IF i < p THEN x[i] ELSE x[i + 1]
      <4>1. y[i] = [key |-> mem[t[i]].key, data |-> mem[t[i]].data]
        BY <2>5 DEF PairsOf
      <4>2. i \in 1 .. n /\ i + 1 \in 1 .. n
        BY <1>2
      <4>3. /\ x[i] = [key |-> mem[s[i]].key, data |-> mem[s[i]].data]
            /\ x[i + 1] = [key |-> mem[s[i + 1]].key, data |-> mem[s[i + 1]].data]
        BY <4>2 DEF PairsOf, n
      <4> HIDE DEF x, y
      <4>4. t[i] = IF i < p THEN s[i] ELSE s[i + 1]
        BY <2>5
      <4> QED
        BY <4>1, <4>3, <4>4
    <3> HIDE DEF x, y
    <3>4. y = RemoveAt(x, p)
      BY <1>2, <3>2, <3>3, RemoveAtIs
    <3> QED
      BY <1>2, <3>1, <3>4 DEF x, y
  <2>8. CASE p_next = NULL
    <3>1. Rest = <<>> /\ Rest' = Rest
      BY <1>1, <2>1, <2>8, NoneDue
    <3>2. k \notin ToSet(Rest)
      BY <3>1 DEF ToSet
    <3>3. Dict!RemoveKey(k)
      BY <1>1, <1>6, <1>4, <2>2, <2>4, <2>7, <3>1, <3>2 DEF Dict!RemoveKey
    <3> QED
      BY <1>1, <2>1, <2>8, <3>3 DEF RInv, Iterating
  <2>9. CASE p_next # NULL
    <3>1. PICK q \in 1 .. n :
            /\ p_next = s[q] /\ Walk(mem, p_next, "newer") = From(s, q)
            /\ Numbered(Rest, n + 1 - q)
            /\ \A i \in 1 .. n + 1 - q : Rest[i] = mem[s[i + q - 1]].key
      BY <1>3, <2>9
    <3>2. /\ DOMAIN From(s, q) = 1 .. n + 1 - q
          /\ \A i \in 1 .. n + 1 - q : From(s, q)[i] = s[i + q - 1]
      BY DEF From, n
    <3>3. p < q
      <4>1. ASSUME ~(p < q) PROVE FALSE
        <5>1. p - q + 1 \in 1 .. n + 1 - q /\ (p - q + 1) + q - 1 = p
          BY <1>2, <4>1
        <5>2. From(s, q)[p - q + 1] = e
          BY <2>2, <3>2, <5>1
        <5>3. e \in ToSet(From(s, q))
          BY <3>2, <5>1, <5>2 DEF ToSet
        <5> QED
          BY <1>1, <1>6, <3>1, <5>3
      <4> QED
        BY <4>1
    <3>4. k \notin ToSet(Rest)
      <4>1. ASSUME NEW i \in 1 .. n + 1 - q PROVE Rest[i] # k
        <5>1. i + q - 1 \in 1 .. n /\ i + q - 1 # p
          BY <1>2, <3>3
        <5> QED
          BY <1>2, <2>3, <3>1, <5>1
      <4>2. DOMAIN Rest = 1 .. n + 1 - q
        BY <3>1 DEF Numbered
      <4> QED
        BY <4>1, <4>2 DEF ToSet
    <3> DEFINE r == q - 1
    <3>5. /\ r \in 1 .. n - 1 /\ ~(r < p) /\ r + 1 = q
          /\ (n - 1) + 1 - r = n + 1 - q
      BY <1>2, <3>3
    <3>6. t[r] = s[q]
      BY <2>5, <3>5
    <3>7. Rest' = KeysIn(mem', t[r])
      BY <1>1, <3>1, <3>6, RestIs
    <3> HIDE DEF r
    <3>8. Blocks(mem')
      BY <2>1, PoolBlocksNext DEF IInv
    <3>9. /\ Numbered(KeysIn(mem', t[r]), n + 1 - q)
          /\ \A i \in 1 .. n + 1 - q : KeysIn(mem', t[r])[i] = mem'[t[i + r - 1]].key
      <4>1. r \in 1 .. Len(t) /\ Len(t) + 1 - r = n + 1 - q
        BY <2>5, <3>5
      <4>2. /\ Numbered(KeysIn(mem', t[r]), Len(t) + 1 - r)
            /\ \A i \in 1 .. Len(t) + 1 - r : KeysIn(mem', t[r])[i] = mem'[t[i + r - 1]].key
        BY <2>6, <3>8, <4>1, KeysFrom
      <4> QED
        BY <4>1, <4>2
    <3>10. ASSUME NEW i \in 1 .. n + 1 - q PROVE Rest'[i] = Rest[i]
      <4>1. /\ i + r - 1 \in 1 .. n - 1 /\ ~(i + r - 1 < p)
            /\ (i + r - 1) + 1 = i + q - 1
        BY <1>2, <3>5
      <4>2. t[i + r - 1] = s[i + q - 1]
        BY <2>5, <4>1
      <4>3. t[i + r - 1] \in Of(t)
        BY <2>5, <4>1 DEF Of
      <4> QED
        BY <2>6, <3>1, <3>7, <3>9, <4>2, <4>3
    <3>11. Rest' = Rest
      BY <3>1, <3>7, <3>9, <3>10, SameNumbered
    <3>12. Dict!RemoveKey(k)
      BY <1>1, <1>6, <1>4, <2>2, <2>4, <2>7, <3>4, <3>11 DEF Dict!RemoveKey
    <3>13. Iterating'
      <4>1. t[r] \in Of(t)
        BY <2>5, <3>5 DEF Of
      <4> QED
        BY <1>1, <2>6, <3>1, <3>6, <4>1 DEF Iterating
    <3> QED
      BY <1>1, <2>1, <3>12, <3>13 DEF RInv
  <2> QED
    BY <2>8, <2>9
<1> QED
  BY <1>5, <1>6

(* Every step is one of the dictionary or not seen, and keeps the          *)
(* invariant with that of an iteration.                                    *)
LEMMA StepSeen == RInv /\ [Next]_vars => RInv' /\ [Dict!Next]_(Dict!vars)
<1> SUFFICES ASSUME RInv, [Next]_vars PROVE RInv' /\ [Dict!Next]_(Dict!vars)
  OBVIOUS
<1>1. Unseen => UNCHANGED Dict!vars
  BY DEF Unseen, Dict!vars
<1>2. ASSUME NEW k \in Key, InsertPresent(k) \/ Get(k) PROVE RInv' /\ [Dict!Next]_(Dict!vars)
  BY <1>2, ReadSeen DEF Dict!Next
<1>3. ASSUME NEW k \in Key, RemoveKey(k) PROVE RInv' /\ [Dict!Next]_(Dict!vars)
  BY <1>3, RemoveSeen DEF Dict!Next
<1>4. ASSUME NEW k \in Key, NEW d \in Data, Replace(k, d)
      PROVE  RInv' /\ [Dict!Next]_(Dict!vars)
  BY <1>4, ReplaceSeen DEF Dict!Next
<1>5. ASSUME \/ Copy \/ FreeChain \/ Swap \/ \E k \in Key, d \in Data : InsertNew(k, d)
      PROVE  RInv' /\ [Dict!Next]_(Dict!vars)
  BY <1>1, <1>5, InsertingSeen
<1>6. ASSUME Link PROVE RInv' /\ [Dict!Next]_(Dict!vars)
  BY <1>6, LinkSeen DEF Dict!Next
<1>7. ASSUME First PROVE RInv' /\ [Dict!Next]_(Dict!vars)
  BY <1>7, FirstSeen DEF Dict!Next
<1>8. ASSUME NextPair PROVE RInv' /\ [Dict!Next]_(Dict!vars)
  BY <1>8, NextPairSeen DEF Dict!Next
<1>9. ASSUME UNCHANGED vars PROVE RInv' /\ [Dict!Next]_(Dict!vars)
  <2>1. /\ IInv' /\ mem' = mem /\ ht' = ht /\ tmp' = tmp /\ pc' = pc /\ cursor' = cursor
        /\ p_entry' = p_entry /\ p_next' = p_next /\ reply' = reply
    BY <1>9, Untouched DEF vars, poolVars, RInv
  <2>2. Pairs' = Pairs /\ Rest' = Rest
    <3>1. Current' = Current
      BY <2>1 DEF Current, Rehashing
    <3> QED
      BY <2>1, <3>1, CurrentIs, RestIs
  <2> QED
    BY <1>1, <2>1, <2>2 DEF RInv, Iterating, Order, Unseen
<1> QED
  BY <1>2, <1>3, <1>4, <1>5, <1>6, <1>7, <1>8, <1>9 DEF Next

(* The tables are the dictionary their callers see: what is in it, in      *)
(* which order, and what an iteration yields, whatever the keys, their     *)
(* hash values and the rehashes in between.                                *)
THEOREM DictionaryImplemented == Spec => ImplementsDictionary
BY InitSeen, StepSeen, PTL DEF Spec, ImplementsDictionary, Dict!Spec
=============================================================================
