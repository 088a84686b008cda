----------------------------- MODULE CommonLemmas -----------------------------
(***************************************************************************)
(* Lemmas that the proofs of several components rest on: about sets of     *)
(* numbers, and about texts joined one after the other.                    *)
(***************************************************************************)
EXTENDS Integers, SequencesExt, SequenceTheorems, FiniteSetTheorems, WellFoundedInduction, TLAPS

(* Every set of natural numbers but the empty one has a least element: of  *)
(* the intervals from zero to a member of it, one contains no other.       *)
LEMMA Least ==
  ASSUME NEW S \in SUBSET Nat, S # {}
  PROVE  \E n \in S : \A k \in S : n <= k
<1>1. PICK m \in S : TRUE
  OBVIOUS
<1> DEFINE N == 0 .. m
           T == {0 .. k : k \in S \cap N}
<1>2. T \in SUBSET (SUBSET N) /\ T # {}
  <2>1. 0 .. m \in T
    OBVIOUS
  <2> QED
    BY <2>1
<1>3. IsWellFoundedOn(StrictSubsetOrdering(N), SUBSET N)
  <2>1. IsFiniteSet(N)
    BY <1>1, FS_Interval
  <2>2. FiniteSubsetsOf(N) = SUBSET N
    BY <2>1, FS_FiniteSubsetsOfFinite
  <2> HIDE DEF N
  <2>3. IsWellFoundedOn(StrictSubsetOrdering(N), FiniteSubsetsOf(N))
    BY FS_StrictSubsetOrderingWellFounded
  <2> QED
    BY <2>2, <2>3
<1> HIDE DEF T
<1>4. PICK A \in T : \A B \in T : <<B, A>> \notin StrictSubsetOrdering(N)
  BY <1>2, <1>3, WFMin, Zenon
<1>5. PICK n \in S \cap N : A = 0 .. n
  BY <1>4 DEF T
<1>6. ASSUME NEW k \in S, k < n
      PROVE  FALSE
  <2>1. k \in N /\ 0 .. k \in T /\ 0 .. n \in T
    BY <1>4, <1>5, <1>6 DEF T
  <2>2. <<0 .. k, 0 .. n>> \notin StrictSubsetOrdering(N)
    BY <1>4, <1>5, <2>1
  <2>3. 0 .. k \subseteq 0 .. n /\ n \in 0 .. n /\ n \notin 0 .. k
    BY <1>6
  <2> QED
    BY <2>1, <2>2, <2>3, <1>2 DEF StrictSubsetOrdering
<1>7. QED
  BY <1>5, <1>6

-----------------------------------------------------------------------------
(* The texts of the first n of a sequence of texts, one after the other.   *)
Joins(g, ss, n) == g = [k \in 1 .. n |-> IF k = 1 THEN ss[k] ELSE g[k - 1] \o ss[k]]

(* g has the texts joined so far.                                          *)
JoinedBy(g, ss, S, N) ==
  /\ \A k \in 1 .. N : g[k] \in Seq(S)
  /\ \A k \in 1 .. N : g[k] = IF k = 1 THEN ss[k] ELSE g[k - 1] \o ss[k]
  /\ FlattenSeq(ss) = IF N = 0 THEN ss ELSE g[N]

(* Joining texts one after the other.                                      *)
LEMMA Joining ==
  ASSUME NEW S, NEW N \in Nat, NEW ss \in [1 .. N -> Seq(S)]
  PROVE  \E g : JoinedBy(g, ss, S, N)
<1>0. Len(ss) = N /\ \A k \in 1 .. N : ss[k] \in Seq(S)
  OBVIOUS
<1> DEFINE Bad == {n \in 0 .. N : ~ \E g : Joins(g, ss, n)}
<1>1. ASSUME Bad # {} PROVE FALSE
  <2>1. Bad \in SUBSET Nat
    OBVIOUS
  <2> HIDE DEF Bad
  <2>2. PICK j \in Bad : \A k \in Bad : j <= k
    BY <1>1, <2>1, Least
  <2>3. j \in Nat /\ \A k \in Nat : k < j => k \notin Bad
    BY <2>1, <2>2
  <2> USE DEF Bad
  <2>4. j \in 0 .. N /\ ~ \E g : Joins(g, ss, j)
    BY <2>2
  <2>5. j # 0
    <3>1. Joins([k \in 1 .. 0 |-> <<>>], ss, 0)
      BY DEF Joins
    <3> QED
      BY <2>4, <3>1
  <2>6. j - 1 \in 0 .. N /\ j - 1 \in Nat /\ j - 1 < j
    BY <2>4, <2>5
  <2>7. PICK g : Joins(g, ss, j - 1)
    BY <2>3, <2>6
  <2> DEFINE r == [k \in 1 .. j |-> IF k < j THEN g[k] ELSE IF k = 1 THEN ss[k] ELSE g[k - 1] \o ss[k]]
  <2>8. ASSUME NEW k \in 1 .. j
        PROVE  r[k] = IF k = 1 THEN ss[k] ELSE r[k - 1] \o ss[k]
    <3>1. k # 1 => k - 1 \in 1 .. j /\ k - 1 < j /\ r[k - 1] = g[k - 1]
      BY <2>4
    <3>2. CASE k < j
      <4>1. k \in 1 .. j - 1
        BY <2>4, <3>2
      <4>2. g[k] = IF k = 1 THEN ss[k] ELSE g[k - 1] \o ss[k]
        BY <2>7, <4>1 DEF Joins
      <4> QED
        BY <3>1, <3>2, <4>2
    <3>3. CASE k = j
      BY <2>4, <3>1, <3>3
    <3> QED
      BY <2>4, <3>2, <3>3
  <2>9. r = [k \in 1 .. j |-> r[k]]
    OBVIOUS
  <2> HIDE DEF r
  <2>10. Joins(r, ss, j)
    BY <2>8, <2>9 DEF Joins
  <2> QED
    BY <2>4, <2>10
<1>2. \E g : Joins(g, ss, N)
  <2>1. N \in 0 .. N
    OBVIOUS
  <2>2. N \notin Bad
    BY <1>1
  <2> QED
    BY <2>1, <2>2
<1> HIDE DEF Bad
<1> DEFINE g == CHOOSE h : Joins(h, ss, N)
<1>3. Joins(g, ss, N)
  BY <1>2
<1>4. FlattenSeq(ss) = IF N = 0 THEN ss ELSE g[N]
  BY <1>0 DEF FlattenSeq, Joins
<1> HIDE DEF g
<1>5. \A k \in 1 .. N : g[k] = IF k = 1 THEN ss[k] ELSE g[k - 1] \o ss[k]
  BY <1>3 DEF Joins
<1> DEFINE Worse == {k \in 1 .. N : g[k] \notin Seq(S)}
<1>6. ASSUME Worse # {} PROVE FALSE
  <2>1. Worse \in SUBSET Nat
    OBVIOUS
  <2> HIDE DEF Worse
  <2>2. PICK j \in Worse : \A k \in Worse : j <= k
    BY <1>6, <2>1, Least
  <2>3. j \in 1 .. N /\ g[j] \notin Seq(S) /\ \A k \in 1 .. N : k < j => g[k] \in Seq(S)
    BY <2>2 DEF Worse
  <2>4. CASE j = 1
    BY <1>0, <1>5, <2>3, <2>4
  <2>5. CASE j # 1
    <3>1. j - 1 \in 1 .. N /\ j - 1 < j
      BY <2>3, <2>5
    <3>2. g[j - 1] \in Seq(S) /\ ss[j] \in Seq(S) /\ g[j] = g[j - 1] \o ss[j]
      BY <1>0, <1>5, <2>3, <2>5, <3>1
    <3>3. g[j] \in Seq(S)
      BY <3>2, ConcatProperties
    <3> QED
      BY <2>3, <3>3
  <2> QED
    BY <2>4, <2>5
<1>7. \A k \in 1 .. N : g[k] \in Seq(S)
  BY <1>6
<1>8. JoinedBy(g, ss, S, N)
  BY <1>4, <1>5, <1>7 DEF JoinedBy
<1> QED
  BY <1>8

(* A sequence of texts is joined to a text.                                *)
LEMMA Joined ==
  ASSUME NEW S, NEW N \in Nat, NEW ss \in [1 .. N -> Seq(S)]
  PROVE  FlattenSeq(ss) \in Seq(S)
<1>1. PICK g : JoinedBy(g, ss, S, N)
  BY Joining
<1>2. N # 0 => g[N] \in Seq(S)
  BY <1>1 DEF JoinedBy
<1>3. N = 0 => ss \in Seq(S)
  OBVIOUS
<1> QED
  BY <1>1, <1>2, <1>3 DEF JoinedBy
===============================================================================
