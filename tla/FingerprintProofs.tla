------------------------- MODULE FingerprintProofs --------------------------
(***************************************************************************)
(* Proofs about fingerprints, for any number of IPs, of handles and of     *)
(* references.  The manager implements a stack of semantics per IP and     *)
(* letter, and unloading a fingerprint undoes loading it.  What a program  *)
(* holds of FILE, of SOCK and SCKE and of REFC is what it was given, and   *)
(* what the turtle of TURT drew is what its file shows.                    *)
(***************************************************************************)
EXTENDS Manager, FileHandles, Sockets, References, Turtle, CommonLemmas

(* What is pushed: the semantic a fingerprint has for a letter, or the     *)
(* reflection that FING puts in an empty place.                            *)
Value == {<<f.name, l>> : f \in Range(ImplementedFingerprints), l \in Letter} \cup {Reflect}

(* The arrays of a letter are at least as long as what is in use of them,  *)
(* and all that is in use was pushed.                                      *)
Array == {a \in [top : Nat, entries : Seq(Value \cup {Unwritten})] :
            /\ a.top <= Len(a.entries)
            /\ \A i \in 1 .. a.top : a.entries[i] \in Value}
Own   == [Letter -> Array]

ManagerInv == /\ ips \subseteq IP
              /\ fingerOpcodes \in [IP -> Own]

-----------------------------------------------------------------------------
(* The letters of a loader are those the table has for it.                 *)
Listed(f) == /\ f.loads \in Seq(Letter)
             /\ f.name # "NULL" => Range(f.loads) = f.opcodes

(* The letters, one by one. *)
LEMMA LettersAre ==
  Letter = {"A", "B", "C", "D", "E", "F", "G", "H", "I", "J", "K", "L", "M",
            "N", "O", "P", "Q", "R", "S", "T", "U", "V", "W", "X", "Y", "Z"}
  BY DEF Letter, Alphabet

(* Every loader pushes letters, and all but that of NULL those that the
   table has for the fingerprint, be it in another order. *)
LEMMA TableListed ==
  \A i \in 1 .. Len(ImplementedFingerprints) : Listed(ImplementedFingerprints[i])
<1>1. Len(ImplementedFingerprints) = 31
  BY SMT DEF ImplementedFingerprints
<1>2. Range(load_HRTI) = Range(<<"E", "G", "M", "S", "T">>)
  BY SMT DEF Range, load_HRTI
<1>3. Range(load_ORTH) = Range(<<"A", "E", "G", "O", "P", "S", "V", "W", "X", "Y", "Z">>)
  BY SMT DEF Range, load_ORTH
<1>4. /\ Listed(ImplementedFingerprints[1])
       /\ Listed(ImplementedFingerprints[2])
       /\ Listed(ImplementedFingerprints[3])
       /\ Listed(ImplementedFingerprints[4])
       /\ Listed(ImplementedFingerprints[5])
       /\ Listed(ImplementedFingerprints[6])
       /\ Listed(ImplementedFingerprints[7])
       /\ Listed(ImplementedFingerprints[8])
  <2>1. /\ ImplementedFingerprints[1].loads = load_3DSP
        /\ ImplementedFingerprints[2].loads = load_BASE
        /\ ImplementedFingerprints[3].loads = load_BOOL
        /\ ImplementedFingerprints[4].loads = load_CPLI
        /\ ImplementedFingerprints[5].loads = load_DATE
        /\ ImplementedFingerprints[6].loads = load_DIRF
        /\ ImplementedFingerprints[7].loads = load_FILE
        /\ ImplementedFingerprints[8].loads = load_FING
    BY SMT DEF ImplementedFingerprints, Entry
  <2>2. /\ load_3DSP \in Seq(Letter)
        /\ load_BASE \in Seq(Letter)
        /\ load_BOOL \in Seq(Letter)
        /\ load_CPLI \in Seq(Letter)
        /\ load_DATE \in Seq(Letter)
        /\ load_DIRF \in Seq(Letter)
        /\ load_FILE \in Seq(Letter)
        /\ load_FING \in Seq(Letter)
    BY LettersAre, SMT DEF load_3DSP, load_BASE, load_BOOL, load_CPLI,
       load_DATE, load_DIRF, load_FILE, load_FING
  <2>3. /\ ImplementedFingerprints[1].opcodes = Range(load_3DSP)
        /\ ImplementedFingerprints[2].opcodes = Range(load_BASE)
        /\ ImplementedFingerprints[3].opcodes = Range(load_BOOL)
        /\ ImplementedFingerprints[4].opcodes = Range(load_CPLI)
        /\ ImplementedFingerprints[5].opcodes = Range(load_DATE)
        /\ ImplementedFingerprints[6].opcodes = Range(load_DIRF)
        /\ ImplementedFingerprints[7].opcodes = Range(load_FILE)
        /\ ImplementedFingerprints[8].opcodes = Range(load_FING)
    BY SMT DEF ImplementedFingerprints, Entry, load_3DSP, load_BASE,
       load_BOOL, load_CPLI, load_DATE, load_DIRF, load_FILE, load_FING
  <2> QED
    BY <1>2, <1>3, <2>1, <2>2, <2>3 DEF Listed
<1>5. /\ Listed(ImplementedFingerprints[9])
       /\ Listed(ImplementedFingerprints[10])
       /\ Listed(ImplementedFingerprints[11])
       /\ Listed(ImplementedFingerprints[12])
       /\ Listed(ImplementedFingerprints[13])
       /\ Listed(ImplementedFingerprints[14])
       /\ Listed(ImplementedFingerprints[15])
       /\ Listed(ImplementedFingerprints[16])
  <2>1. /\ ImplementedFingerprints[9].loads = load_FIXP
        /\ ImplementedFingerprints[10].loads = load_FPDP
        /\ ImplementedFingerprints[11].loads = load_FPSP
        /\ ImplementedFingerprints[12].loads = load_FRTH
        /\ ImplementedFingerprints[13].loads = load_HRTI
        /\ ImplementedFingerprints[14].loads = load_INDV
        /\ ImplementedFingerprints[15].loads = load_JSTR
        /\ ImplementedFingerprints[16].loads = load_MODU
    BY SMT DEF ImplementedFingerprints, Entry
  <2>2. /\ load_FIXP \in Seq(Letter)
        /\ load_FPDP \in Seq(Letter)
        /\ load_FPSP \in Seq(Letter)
        /\ load_FRTH \in Seq(Letter)
        /\ load_HRTI \in Seq(Letter)
        /\ load_INDV \in Seq(Letter)
        /\ load_JSTR \in Seq(Letter)
        /\ load_MODU \in Seq(Letter)
    BY LettersAre, SMT DEF load_FIXP, load_FPDP, load_FPSP, load_FRTH,
       load_HRTI, load_INDV, load_JSTR, load_MODU
  <2>3. /\ ImplementedFingerprints[9].opcodes = Range(load_FIXP)
        /\ ImplementedFingerprints[10].opcodes = Range(load_FPDP)
        /\ ImplementedFingerprints[11].opcodes = Range(load_FPSP)
        /\ ImplementedFingerprints[12].opcodes = Range(load_FRTH)
        /\ ImplementedFingerprints[13].opcodes = Range(<<"E", "G", "M", "S", "T">>)
        /\ ImplementedFingerprints[14].opcodes = Range(load_INDV)
        /\ ImplementedFingerprints[15].opcodes = Range(load_JSTR)
        /\ ImplementedFingerprints[16].opcodes = Range(load_MODU)
    BY SMT DEF ImplementedFingerprints, Entry, load_FIXP, load_FPDP,
       load_FPSP, load_FRTH, load_INDV, load_JSTR, load_MODU
  <2> QED
    BY <1>2, <1>3, <2>1, <2>2, <2>3 DEF Listed
<1>6. /\ Listed(ImplementedFingerprints[17])
       /\ Listed(ImplementedFingerprints[18])
       /\ Listed(ImplementedFingerprints[19])
       /\ Listed(ImplementedFingerprints[20])
       /\ Listed(ImplementedFingerprints[21])
       /\ Listed(ImplementedFingerprints[22])
       /\ Listed(ImplementedFingerprints[23])
       /\ Listed(ImplementedFingerprints[24])
  <2>1. /\ ImplementedFingerprints[17].loads = load_NCRS
        /\ ImplementedFingerprints[18].loads = load_NULL
        /\ ImplementedFingerprints[19].loads = load_ORTH
        /\ ImplementedFingerprints[20].loads = load_PERL
        /\ ImplementedFingerprints[21].loads = load_REFC
        /\ ImplementedFingerprints[22].loads = load_REXP
        /\ ImplementedFingerprints[23].loads = load_ROMA
        /\ ImplementedFingerprints[24].loads = load_SCKE
    BY SMT DEF ImplementedFingerprints, Entry
  <2>2. /\ load_NCRS \in Seq(Letter)
        /\ load_NULL \in Seq(Letter)
        /\ load_ORTH \in Seq(Letter)
        /\ load_PERL \in Seq(Letter)
        /\ load_REFC \in Seq(Letter)
        /\ load_REXP \in Seq(Letter)
        /\ load_ROMA \in Seq(Letter)
        /\ load_SCKE \in Seq(Letter)
    BY LettersAre, SMT DEF Alphabet, load_NCRS, load_NULL, load_ORTH,
       load_PERL, load_REFC, load_REXP, load_ROMA, load_SCKE
  <2>3. /\ ImplementedFingerprints[17].opcodes = Range(load_NCRS)
        /\ ImplementedFingerprints[18].name = "NULL"
        /\ ImplementedFingerprints[19].opcodes
             = Range(<<"A", "E", "G", "O", "P", "S", "V", "W", "X", "Y", "Z">>)
        /\ ImplementedFingerprints[20].opcodes = Range(load_PERL)
        /\ ImplementedFingerprints[21].opcodes = Range(load_REFC)
        /\ ImplementedFingerprints[22].opcodes = Range(load_REXP)
        /\ ImplementedFingerprints[23].opcodes = Range(load_ROMA)
        /\ ImplementedFingerprints[24].opcodes = Range(load_SCKE)
    BY SMT DEF ImplementedFingerprints, Entry, load_NCRS, load_PERL,
       load_REFC, load_REXP, load_ROMA, load_SCKE
  <2> QED
    BY <1>2, <1>3, <2>1, <2>2, <2>3 DEF Listed
<1>7. /\ Listed(ImplementedFingerprints[25])
       /\ Listed(ImplementedFingerprints[26])
       /\ Listed(ImplementedFingerprints[27])
       /\ Listed(ImplementedFingerprints[28])
       /\ Listed(ImplementedFingerprints[29])
       /\ Listed(ImplementedFingerprints[30])
       /\ Listed(ImplementedFingerprints[31])
  <2>1. /\ ImplementedFingerprints[25].loads = load_SOCK
        /\ ImplementedFingerprints[26].loads = load_STRN
        /\ ImplementedFingerprints[27].loads = load_SUBR
        /\ ImplementedFingerprints[28].loads = load_TERM
        /\ ImplementedFingerprints[29].loads = load_TIME
        /\ ImplementedFingerprints[30].loads = load_TOYS
        /\ ImplementedFingerprints[31].loads = load_TURT
    BY SMT DEF ImplementedFingerprints, Entry
  <2>2. /\ load_SOCK \in Seq(Letter)
        /\ load_STRN \in Seq(Letter)
        /\ load_SUBR \in Seq(Letter)
        /\ load_TERM \in Seq(Letter)
        /\ load_TIME \in Seq(Letter)
        /\ load_TOYS \in Seq(Letter)
        /\ load_TURT \in Seq(Letter)
    BY LettersAre, SMT DEF Alphabet, load_SOCK, load_STRN, load_SUBR,
       load_TERM, load_TIME, load_TOYS, load_TURT
  <2>3. /\ ImplementedFingerprints[25].opcodes = Range(load_SOCK)
        /\ ImplementedFingerprints[26].opcodes = Range(load_STRN)
        /\ ImplementedFingerprints[27].opcodes = Range(load_SUBR)
        /\ ImplementedFingerprints[28].opcodes = Range(load_TERM)
        /\ ImplementedFingerprints[29].opcodes = Range(load_TIME)
        /\ ImplementedFingerprints[30].opcodes = Range(load_TOYS)
        /\ ImplementedFingerprints[31].opcodes = Range(load_TURT)
    BY SMT DEF ImplementedFingerprints, Entry, load_SOCK, load_STRN,
       load_SUBR, load_TERM, load_TIME, load_TOYS, load_TURT
  <2> QED
    BY <1>2, <1>3, <2>1, <2>2, <2>3 DEF Listed
<1> QED
  BY <1>1, <1>4, <1>5, <1>6, <1>7
-----------------------------------------------------------------------------
(* What the operations do to the array of one letter, seen from above.     *)

(* No semantic that is pushed is the NULL an empty stack answers with.     *)
LEMMA NoneNotPushed ==
  None \notin Value
<1>1. "NULL" \notin Letter
  BY LettersAre
<1>2. Reflect # None
  BY DEF Reflect, None
<1> QED
  BY <1>1, <1>2 DEF Value, None

(* The semantics in use, one by one.                                       *)
LEMMA LiveOf ==
  ASSUME NEW a \in Array
  PROVE  /\ Live(a) \in Seq(Value)
         /\ Len(Live(a)) = a.top
         /\ \A i \in 1 .. a.top : Live(a)[i] = a.entries[i]
<1> DEFINE e == a.entries
           n == a.top
<1>1. n \in Nat /\ \A i \in 1 .. n : e[i] \in Value
  BY DEF Array
<1> HIDE DEF e, n
<1>2. /\ SubSeq(e, 1, n) \in Seq(Value)
      /\ Len(SubSeq(e, 1, n)) = IF 1 <= n THEN n - 1 + 1 ELSE 0
      /\ \A i \in 1 .. n - 1 + 1 : SubSeq(e, 1, n)[i] = e[1 + i - 1]
  BY <1>1, SubSeqProperties
<1> QED
  BY <1>1, <1>2 DEF Live, e, n

(* Arrays with the same entries in use hold the same stack.                *)
LEMMA LiveIs ==
  ASSUME NEW a \in Array, NEW s \in Seq(Value), Len(s) = a.top,
         \A i \in 1 .. a.top : s[i] = a.entries[i]
  PROVE  Live(a) = s
<1> DEFINE t == Live(a)
<1>1. /\ t \in Seq(Value) /\ Len(t) = Len(s)
      /\ \A i \in 1 .. Len(t) : t[i] = s[i]
  BY LiveOf
<1> HIDE DEF t
<1>2. t = s
  BY <1>1, SeqEqual
<1> QED
  BY <1>2 DEF t

(* The array of a letter that nothing was loaded for. *)
LEMMA EmptyLive ==
  Empty \in Array /\ Live(Empty) = <<>>
<1>1. Empty \in Array /\ Empty.top = 0
  BY DEF Empty, Array
<1>2. Live(Empty) \in Seq(Value) /\ Len(Live(Empty)) = 0
  BY <1>1, LiveOf
<1> QED
  BY <1>1, <1>2

(* A push leaves what lies below and appends to it, whether the array grows
   or not. *)
LEMMA PushLive ==
  ASSUME NEW a \in Array, NEW v \in Value
  PROVE  /\ Pushed(a, v) \in Array
         /\ Live(Pushed(a, v)) = Append(Live(a), v)
<1> DEFINE b == Pushed(a, v)
           g == Grown(a)
           n == a.top
<1>1. /\ n \in Nat /\ n <= Len(a.entries) /\ a.entries \in Seq(Value \cup {Unwritten})
      /\ \A i \in 1 .. n : a.entries[i] \in Value
  BY DEF Array
<1>2. /\ g \in Seq(Value \cup {Unwritten}) /\ n + 1 <= Len(g)
      /\ \A i \in 1 .. n : g[i] = a.entries[i]
  <2>1. CASE n = Len(a.entries)
    <3>1. g = a.entries \o <<Unwritten, Unwritten>>
      <4>1. [i \in 1 .. ALLOCCHUNKSIZE |-> Unwritten] = <<Unwritten, Unwritten>>
        BY DEF ALLOCCHUNKSIZE
      <4> QED
        BY <2>1, <4>1 DEF Grown
    <3> QED
      BY <1>1, <2>1, <3>1
  <2>2. CASE n # Len(a.entries)
    BY <1>1, <2>2 DEF Grown
  <2> QED
    BY <2>1, <2>2
<1>3. b = [top |-> n + 1, entries |-> [g EXCEPT ![n + 1] = v]]
  BY DEF Pushed
<1> HIDE DEF g, b, n
<1> DEFINE h == [g EXCEPT ![n + 1] = v]
<1>4. /\ h \in Seq(Value \cup {Unwritten}) /\ n + 1 <= Len(h)
      /\ h[n + 1] = v /\ \A i \in 1 .. n : h[i] = a.entries[i]
  BY <1>1, <1>2
<1> HIDE DEF h
<1>5. b.top = n + 1 /\ b.entries = h /\ b \in [top : Nat, entries : Seq(Value \cup {Unwritten})]
  BY <1>1, <1>3, <1>4 DEF h
<1>6. b \in Array
  BY <1>1, <1>4, <1>5 DEF Array
<1> DEFINE s == Append(Live(a), v)
<1>7. /\ s \in Seq(Value) /\ Len(s) = b.top
      /\ \A i \in 1 .. b.top : s[i] = b.entries[i]
  <2>1. /\ Live(a) \in Seq(Value) /\ Len(Live(a)) = n
        /\ \A i \in 1 .. n : Live(a)[i] = a.entries[i]
    BY LiveOf DEF n
  <2> QED
    BY <1>1, <1>4, <1>5, <2>1
<1> HIDE DEF s
<1>8. Live(b) = s
  BY <1>6, <1>7, LiveIs
<1> QED
  BY <1>6, <1>8 DEF b, s

(* A drop takes the top away, if there is one, and nothing else. *)
LEMMA DropLive ==
  ASSUME NEW a \in Array
  PROVE  /\ opcode_stack_drop(a) \in Array
         /\ Live(opcode_stack_drop(a)) = S!Dropped(Live(a))
<1> DEFINE b == opcode_stack_drop(a)
           t == Live(a)
           s == S!Dropped(t)
<1>1. /\ a \in [top : Nat, entries : Seq(Value \cup {Unwritten})] /\ a.top <= Len(a.entries)
      /\ \A i \in 1 .. a.top : a.entries[i] \in Value
  BY DEF Array
<1>2. /\ b \in [top : Nat, entries : Seq(Value \cup {Unwritten})]
      /\ b.top = (IF a.top = 0 THEN 0 ELSE a.top - 1) /\ b.entries = a.entries
  BY <1>1 DEF opcode_stack_drop
<1> HIDE DEF b
<1>3. b \in Array
  BY <1>1, <1>2 DEF Array
<1>4. t \in Seq(Value) /\ Len(t) = a.top /\ \A i \in 1 .. a.top : t[i] = a.entries[i]
  BY LiveOf
<1> HIDE DEF t
<1>5. /\ s \in Seq(Value) /\ Len(s) = b.top
      /\ \A i \in 1 .. b.top : s[i] = b.entries[i]
  <2>1. CASE a.top = 0
    <3>1. t = <<>>
      BY <1>4, <2>1
    <3> QED
      BY <1>2, <1>4, <2>1, <3>1 DEF S!Dropped
  <2>2. CASE a.top # 0
    <3>1. t # <<>> /\ s = SubSeq(t, 1, Len(t) - 1)
      BY <1>4, <2>2 DEF S!Dropped, S!Front
    <3> DEFINE n == Len(t) - 1
    <3>2. n \in Nat /\ \A i \in 1 .. n : t[i] \in Value
      BY <1>1, <1>4, <2>2
    <3> HIDE DEF n
    <3>3. /\ SubSeq(t, 1, n) \in Seq(Value)
          /\ Len(SubSeq(t, 1, n)) = IF 1 <= n THEN n - 1 + 1 ELSE 0
          /\ \A i \in 1 .. n - 1 + 1 : SubSeq(t, 1, n)[i] = t[1 + i - 1]
      BY <3>2, SubSeqProperties
    <3> HIDE DEF s
    <3> QED
      BY <1>1, <1>2, <1>4, <2>2, <3>1, <3>2, <3>3 DEF n
  <2> QED
    BY <2>1, <2>2
<1> HIDE DEF s
<1>6. Live(b) = s
  BY <1>3, <1>5, LiveIs
<1> QED
  BY <1>3, <1>6 DEF b, s, t

(* The semantic on top, or NULL for none, which FING makes a reflection.   *)
LEMMA TopLive ==
  ASSUME NEW a \in Array
  PROVE  /\ Popped(a) = None <=> a.top = 0
         /\ Named(Popped(a)) = S!TopOf(Live(a))
         /\ Named(Popped(a)) \in Value
<1> DEFINE t == Live(a)
<1>1. /\ a.top \in Nat /\ \A i \in 1 .. a.top : a.entries[i] \in Value
  BY DEF Array
<1>2. t \in Seq(Value) /\ Len(t) = a.top /\ \A i \in 1 .. a.top : t[i] = a.entries[i]
  BY LiveOf
<1> HIDE DEF t
<1>3. CASE a.top = 0
  <2>1. t = <<>> /\ Popped(a) = None
    BY <1>2, <1>3 DEF Popped
  <2>2. Reflect \in Value
    BY DEF Value
  <2> QED
    BY <1>3, <2>1, <2>2 DEF Named, S!TopOf, t
<1>4. CASE a.top # 0
  <2>1. t # <<>> /\ Popped(a) = a.entries[a.top] /\ a.top \in 1 .. a.top
    BY <1>1, <1>2, <1>4 DEF Popped
  <2>2. Popped(a) \in Value /\ Popped(a) # None
    BY <1>1, <2>1, NoneNotPushed
  <2>3. S!TopOf(t) = t[Len(t)]
    BY <2>1 DEF S!TopOf, S!Last
  <2> QED
    BY <1>2, <1>4, <2>1, <2>2, <2>3 DEF Named, t
<1> QED
  BY <1>3, <1>4

(* What was pushed comes off again.                                        *)
LEMMA DropUndoesPush ==
  ASSUME NEW a \in Array, NEW v \in Value
  PROVE  Live(opcode_stack_drop(Pushed(a, v))) = Live(a)
<1> DEFINE b == Pushed(a, v)
           c == opcode_stack_drop(b)
           t == Live(a)
<1>1. b \in Array /\ Live(b) = Append(t, v) /\ c \in Array
  BY PushLive, DropLive
<1>2. /\ t \in Seq(Value) /\ Len(t) = a.top /\ a.top \in Nat
      /\ \A i \in 1 .. a.top : t[i] = a.entries[i]
  BY LiveOf DEF Array
<1>3. b.top \in Nat /\ Len(Live(b)) = b.top /\ \A i \in 1 .. b.top : Live(b)[i] = b.entries[i]
  BY <1>1, LiveOf DEF Array
<1>4. c.top = (IF b.top = 0 THEN 0 ELSE b.top - 1) /\ c.entries = b.entries
  BY <1>1 DEF opcode_stack_drop, Array
<1> HIDE DEF b, c, t
<1>5. Len(t) = c.top /\ \A i \in 1 .. c.top : t[i] = c.entries[i]
  <2> DEFINE u == Append(t, v)
  <2>1. Len(u) = a.top + 1 /\ \A i \in 1 .. a.top : u[i] = t[i]
    BY <1>2
  <2> HIDE DEF u
  <2>2. b.top = a.top + 1 /\ c.top = a.top
    BY <1>1, <1>2, <1>3, <1>4, <2>1 DEF u
  <2>3. ASSUME NEW i \in 1 .. a.top PROVE t[i] = c.entries[i]
    <3>1. i \in 1 .. b.top
      BY <1>2, <2>2
    <3>2. Live(b)[i] = u[i] /\ u[i] = t[i]
      BY <1>1, <2>1 DEF u
    <3> QED
      BY <1>3, <1>4, <3>1, <3>2
  <2> QED
    BY <1>2, <2>2, <2>3
<1>6. Live(c) = t
  BY <1>1, <1>2, <1>5, LiveIs
<1> QED
  BY <1>6 DEF b, c, t

(* A stack whose top is popped and pushed again is the same.               *)
LEMMA PushUndoesDrop ==
  ASSUME NEW a \in Array, Popped(a) # None
  PROVE  /\ Pushed(opcode_stack_drop(a), Popped(a)) \in Array
         /\ Live(Pushed(opcode_stack_drop(a), Popped(a))) = Live(a)
<1> DEFINE b == opcode_stack_drop(a)
           v == Popped(a)
           c == Pushed(b, v)
           t == Live(a)
<1>1. a.top # 0 /\ v = a.entries[a.top] /\ a.top \in Nat
  BY TopLive DEF Popped, Array
<1>2. v \in Value
  BY <1>1 DEF Array
<1>3. b \in Array /\ b.top = a.top - 1 /\ b.entries = a.entries
  BY <1>1, DropLive DEF opcode_stack_drop, Array
<1> HIDE DEF b, v
<1>4. c \in Array /\ Live(c) = Append(Live(b), v)
  BY <1>2, <1>3, PushLive
<1>5. /\ t \in Seq(Value) /\ Len(t) = a.top
      /\ \A i \in 1 .. a.top : t[i] = a.entries[i]
  BY LiveOf
<1>6. /\ Live(b) \in Seq(Value) /\ Len(Live(b)) = b.top
      /\ \A i \in 1 .. b.top : Live(b)[i] = b.entries[i]
  BY <1>3, LiveOf
<1> DEFINE w == Append(Live(b), v)
<1>7. /\ w \in Seq(Value) /\ Len(w) = Len(t)
      /\ \A i \in 1 .. Len(w) : w[i] = t[i]
  BY <1>1, <1>2, <1>3, <1>5, <1>6
<1> HIDE DEF w, t
<1>8. w = t
  BY <1>5, <1>7, SeqEqual
<1> QED
  BY <1>4, <1>8 DEF b, v, c, w, t

(* A child's array holds the semantics of its parent's.                    *)
LEMMA DuplicateLive ==
  ASSUME NEW a \in Array
  PROVE  /\ opcode_stack_duplicate(a) \in Array
         /\ Live(opcode_stack_duplicate(a)) = Live(a)
<1> DEFINE b == opcode_stack_duplicate(a)
           t == Live(a)
<1>1. /\ a.top \in Nat /\ t \in Seq(Value) /\ Len(t) = a.top
      /\ \A i \in 1 .. a.top : t[i] \in Value
  BY LiveOf DEF Array
<1>2. CASE a.top = 0
  <2>1. b = Empty
    BY <1>2 DEF opcode_stack_duplicate
  <2>2. b \in Array /\ b.top = 0
    BY <2>1 DEF Empty, Array
  <2> HIDE DEF b, t
  <2>3. Len(t) = b.top /\ \A i \in 1 .. b.top : t[i] = b.entries[i]
    BY <1>1, <1>2, <2>2
  <2>4. Live(b) = t
    BY <1>1, <2>2, <2>3, LiveIs
  <2> QED
    BY <2>2, <2>4 DEF b, t
<1>3. CASE a.top # 0
  <2>1. b = [top |-> a.top, entries |-> Append(t, Unwritten)]
    BY <1>3 DEF opcode_stack_duplicate
  <2> HIDE DEF b, t
  <2> DEFINE e == Append(t, Unwritten)
  <2>2. /\ e \in Seq(Value \cup {Unwritten}) /\ Len(e) = a.top + 1
        /\ \A i \in 1 .. a.top : e[i] = t[i]
    BY <1>1
  <2> HIDE DEF e
  <2>3. /\ b \in [top : Nat, entries : Seq(Value \cup {Unwritten})]
        /\ b.top = a.top /\ b.entries = e
    BY <1>1, <2>1, <2>2 DEF e
  <2>4. b \in Array
    BY <1>1, <2>2, <2>3 DEF Array
  <2>5. Live(b) = t
    BY <1>1, <2>2, <2>3, <2>4, LiveIs
  <2> QED
    BY <2>4, <2>5 DEF b, t
<1> QED
  BY <1>2, <1>3
-----------------------------------------------------------------------------
(* What an instruction makes of the letters of one IP, seen from above.    *)

(* One letter of an IP with another array has the stack of that array; the
   others have what they had. *)
LEMMA SemExcept ==
  ASSUME NEW own \in Own, NEW l \in Letter, NEW a \in Array
  PROVE  /\ [own EXCEPT ![l] = a] \in Own
         /\ SemOf([own EXCEPT ![l] = a]) = [SemOf(own) EXCEPT ![l] = Live(a)]
  BY DEF Own, SemOf

(* A drop from one letter of an IP. *)
LEMMA SemDrop ==
  ASSUME NEW own \in Own, NEW l \in Letter
  PROVE  /\ [own EXCEPT ![l] = opcode_stack_drop(@)] \in Own
         /\ SemOf([own EXCEPT ![l] = opcode_stack_drop(@)])
              = [SemOf(own) EXCEPT ![l] = S!Dropped(@)]
<1>1. own[l] \in Array /\ SemOf(own)[l] = Live(own[l])
  BY DEF Own, SemOf
<1> DEFINE a == opcode_stack_drop(own[l])
<1>2. a \in Array /\ Live(a) = S!Dropped(SemOf(own)[l])
  BY <1>1, DropLive
<1> HIDE DEF a
<1>3. /\ [own EXCEPT ![l] = a] \in Own
      /\ SemOf([own EXCEPT ![l] = a]) = [SemOf(own) EXCEPT ![l] = Live(a)]
  BY <1>2, SemExcept
<1> QED
  BY <1>2, <1>3 DEF a

(* A push on one letter of an IP. *)
LEMMA SemPush ==
  ASSUME NEW own \in Own, NEW l \in Letter, NEW v \in Value
  PROVE  /\ [own EXCEPT ![l] = Pushed(@, v)] \in Own
         /\ SemOf([own EXCEPT ![l] = Pushed(@, v)]) = [SemOf(own) EXCEPT ![l] = Append(@, v)]
<1>1. own[l] \in Array /\ SemOf(own)[l] = Live(own[l])
  BY DEF Own, SemOf
<1> DEFINE a == Pushed(own[l], v)
<1>2. a \in Array /\ Live(a) = Append(SemOf(own)[l], v)
  BY <1>1, PushLive
<1> HIDE DEF a
<1>3. /\ [own EXCEPT ![l] = a] \in Own
      /\ SemOf([own EXCEPT ![l] = a]) = [SemOf(own) EXCEPT ![l] = Live(a)]
  BY <1>2, SemExcept
<1> QED
  BY <1>2, <1>3 DEF a

(* A step that leaves an IP with these arrays is one that leaves it with   *)
(* these stacks, and changes those of no other IP.                         *)
LEMMA StepMaps ==
  ASSUME ManagerInv, NEW ip \in IP, NEW own \in Own, NEW result, Becomes(ip, own, result)
  PROVE  ManagerInv' /\ S!Becomes(ip, SemOf(own), result)
<1>1. fingerOpcodes' = [fingerOpcodes EXCEPT ![ip] = own] /\ reply' = result /\ ips' = ips
  BY DEF Becomes
<1>2. ManagerInv'
  BY <1>1 DEF ManagerInv
<1>3. [x \in IP |-> SemOf(fingerOpcodes[x])]' 
        = [[x \in IP |-> SemOf(fingerOpcodes[x])] EXCEPT ![ip] = SemOf(own)]
  BY <1>1 DEF ManagerInv
<1> QED
  BY <1>1, <1>2, <1>3 DEF S!Becomes

(* An IP of the manager and what it has.                                   *)
LEMMA OwnOf ==
  ASSUME ManagerInv, NEW ip \in IP
  PROVE  /\ fingerOpcodes[ip] \in Own
         /\ [x \in IP |-> SemOf(fingerOpcodes[x])][ip] = SemOf(fingerOpcodes[ip])
  BY DEF ManagerInv

(* The cells FING takes for letters name letters. *)
LEMMA FingLettersAreLetters ==
  FingLetters \subseteq Letter
<1>1. \A i \in 1 .. 26 : Alphabet[i] \in Letter
  BY DEF Letter
<1>2. ASSUME NEW n PROVE pop_stack_spec(n) \subseteq Letter
  <2>1. CASE n \in 0 .. 25
    <3>1. pop_stack_spec(n) = {Alphabet[n + 1]} /\ n + 1 \in 1 .. 26
      BY <2>1 DEF pop_stack_spec
    <3> QED
      BY <1>1, <3>1
  <2>2. CASE n \in 65 .. 90
    <3>1. pop_stack_spec(n) = {Alphabet[n - 64]} /\ n - 64 \in 1 .. 26
      BY <2>2 DEF pop_stack_spec
    <3> QED
      BY <1>1, <3>1
  <2>3. CASE n \notin 0 .. 25 /\ n \notin 65 .. 90
    BY <2>3 DEF pop_stack_spec
  <2> QED
    BY <2>1, <2>2, <2>3
<1> QED
  BY <1>2 DEF FingLetters

(* A request finds one fingerprint at most.                                *)
LEMMA FoundOne ==
  ASSUME NEW cells \in Requests
  PROVE  /\ Found[cells] \subseteq 1 .. Len(ImplementedFingerprints)
         /\ \A i, j \in Found[cells] : i = j
         /\ \A i \in Found[cells] :
              ImplementedFingerprints[i] \in
                 {ImplementedFingerprints[j] : j \in UNION Range(Found)}
<1> DEFINE n == Len(ImplementedFingerprints)
<1>1. n \in Nat
  <2>1. n = 31
    BY SMT DEF ImplementedFingerprints
  <2> QED
    BY <2>1
<1> HIDE DEF n
<1>2. Found[cells] = find_fingerprint(FprintOf(cells))
  BY DEF Found
<1>3. /\ find_fingerprint(FprintOf(cells)) \subseteq 1 .. n
      /\ \A i, j \in find_fingerprint(FprintOf(cells)) : i <= j
  BY DEF find_fingerprint, n
<1>4. Found[cells] \in Range(Found)
  BY DEF Found, Range
<1> QED
  BY <1>1, <1>2, <1>3, <1>4 DEF n

(* The letters a loader has pushed for.                                    *)
LEMMA SemLoaded ==
  ASSUME NEW own \in Own, NEW i \in 1 .. Len(ImplementedFingerprints), NEW letters
  PROVE  LET f     == ImplementedFingerprints[i]
             after == [l \in Letter |-> LoadedOn(own[l], f, l, letters)]
         IN  after \in Own /\ SemOf(after) = S!PushedOn(SemOf(own), f, letters)
<1> DEFINE f     == ImplementedFingerprints[i]
           after == [l \in Letter |-> LoadedOn(own[l], f, l, letters)]
<1>1. \A l \in Letter : <<f.name, l>> \in Value
  BY DEF Value, Range
<1> HIDE DEF f
<1>2. ASSUME NEW l \in Letter
      PROVE  /\ LoadedOn(own[l], f, l, letters) \in Array
             /\ Live(LoadedOn(own[l], f, l, letters))
                  = IF l \in letters THEN Append(Live(own[l]), <<f.name, l>>) ELSE Live(own[l])
  <2>1. own[l] \in Array
    BY DEF Own
  <2> DEFINE v == <<f.name, l>>
  <2>2. v \in Value
    BY <1>1
  <2> HIDE DEF v
  <2>3. Pushed(own[l], v) \in Array /\ Live(Pushed(own[l], v)) = Append(Live(own[l]), v)
    BY <2>1, <2>2, PushLive
  <2> QED
    BY <2>1, <2>3 DEF LoadedOn, v
<1>3. after \in Own
  BY <1>2 DEF Own
<1>4. SemOf(after) = [l \in Letter |-> IF l \in letters THEN Append(SemOf(own)[l], <<f.name, l>>)
                                      ELSE SemOf(own)[l]]
  BY <1>2 DEF SemOf
<1> QED
  BY <1>3, <1>4 DEF S!PushedOn, f

(* One semantic less on each letter of a fingerprint that is unloaded. *)
LEMMA SemUnloaded ==
  ASSUME NEW own \in Own, NEW f
  PROVE  LET after == [l \in Letter |-> UnloadedOn(own[l], f, l)]
         IN  after \in Own /\ SemOf(after) = S!DroppedFrom(SemOf(own), f.opcodes)
<1>1. ASSUME NEW l \in Letter
      PROVE  /\ UnloadedOn(own[l], f, l) \in Array
             /\ Live(UnloadedOn(own[l], f, l))
                  = IF l \in f.opcodes THEN S!Dropped(Live(own[l])) ELSE Live(own[l])
  <2>1. own[l] \in Array
    BY DEF Own
  <2>2. /\ opcode_stack_drop(own[l]) \in Array
        /\ Live(opcode_stack_drop(own[l])) = S!Dropped(Live(own[l]))
    BY <2>1, DropLive
  <2> QED
    BY <2>1, <2>2 DEF UnloadedOn
<1> QED
  BY <1>1 DEF Own, SemOf, S!DroppedFrom
-----------------------------------------------------------------------------
(* Every operation is one of the specification above, and leaves the       *)
(* arrays sound. S!Next for the IP that takes the step.                    *)
Refines(ip) ==
  /\ ManagerInv'
  /\ \/ S!Refused(ip) \/ S!Other(ip)
     \/ \E first, second \in FingLetters : S!Swap(ip, first, second) \/ S!Push(ip, first, second)
     \/ \E l \in FingLetters : S!Drop(ip, l)
     \/ S!Split(ip) \/ S!Die(ip)
     \/ \E f \in {ImplementedFingerprints[i] : i \in UNION Range(Found)} :
           S!Load(ip, f) \/ S!Unload(ip, f)

(* A step that leaves the semantics alone. *)
LEMMA IdleRefines ==
  ASSUME ManagerInv, NEW ip \in IP, NEW result \in {"ok", "reflected"},
         Becomes(ip, fingerOpcodes[ip], result)
  PROVE  Refines(ip)
<1>1. ManagerInv' /\ S!Becomes(ip, SemOf(fingerOpcodes[ip]), result)
  BY OwnOf, StepMaps
<1> QED
  BY <1>1, OwnOf DEF Refines, S!Refused, S!Other

(* ( whether all letters are pushed or memory ends before one of them. *)
LEMMA LoadRefines ==
  ASSUME ManagerInv, NEW ip \in IP, NEW cells \in Requests, Load(ip, cells)
  PROVE  Refines(ip)
<1> DEFINE own == fingerOpcodes[ip]
           sem == [x \in IP |-> SemOf(fingerOpcodes[x])][ip]
<1>1. own \in Own /\ sem = SemOf(own)
  BY OwnOf
<1>2. PICK i \in Found[cells] :
        LET f           == ImplementedFingerprints[i]
            After(some) == [l \in Letter |-> LoadedOn(own[l], f, l, some)]
        IN  \/ Becomes(ip, After(Range(f.loads)), "loaded")
            \/ \E n \in FailsAt(own, f) :
                  Becomes(ip, After(Range(SubSeq(f.loads, 1, n - 1))), "reflected")
  BY DEF Load
<1> DEFINE f           == ImplementedFingerprints[i]
           After(some) == [l \in Letter |-> LoadedOn(own[l], f, l, some)]
<1>3. /\ i \in 1 .. Len(ImplementedFingerprints)
      /\ f \in {ImplementedFingerprints[j] : j \in UNION Range(Found)}
  BY FoundOne
<1>4. \A some : After(some) \in Own /\ SemOf(After(some)) = S!PushedOn(SemOf(own), f, some)
  BY <1>1, <1>3, SemLoaded
<1>5. f.loads \in Seq(Letter)
  BY <1>3, TableListed DEF Listed
<1>6. \/ Becomes(ip, After(Range(f.loads)), "loaded")
      \/ \E n \in FailsAt(own, f) :
            Becomes(ip, After(Range(SubSeq(f.loads, 1, n - 1))), "reflected")
  BY <1>2
<1>7. FailsAt(own, f) \subseteq 1 .. Len(f.loads)
  BY DEF FailsAt
<1> HIDE DEF own, f, After, sem
<1>8. \A some, result : Becomes(ip, After(some), result) =>
         ManagerInv' /\ S!Becomes(ip, S!PushedOn(sem, f, some), result)
  <2> SUFFICES ASSUME NEW some, NEW result, Becomes(ip, After(some), result)
               PROVE  ManagerInv' /\ S!Becomes(ip, S!PushedOn(sem, f, some), result)
    OBVIOUS
  <2> DEFINE after == After(some)
  <2>1. after \in Own /\ SemOf(after) = S!PushedOn(sem, f, some) /\ Becomes(ip, after, result)
    BY <1>1, <1>4
  <2> HIDE DEF after
  <2> QED
    BY <2>1, StepMaps
<1>9. \A some : S!Range(SubSeq(f.loads, 1, some)) = Range(SubSeq(f.loads, 1, some))
  BY DEF S!Range, Range
<1>10. ManagerInv' /\ S!Load(ip, f)
  <2>1. CASE Becomes(ip, After(Range(f.loads)), "loaded")
    <3>1. ManagerInv' /\ S!Becomes(ip, S!PushedOn(sem, f, Range(f.loads)), "loaded")
      BY <1>8, <2>1
    <3>2. Len(f.loads) \in 0 .. Len(f.loads) /\ SubSeq(f.loads, 1, Len(f.loads)) = f.loads
      BY <1>5, SubSeqFull
    <3> QED
      BY <1>9, <3>1, <3>2 DEF S!Load, sem
  <2>2. ASSUME NEW n \in FailsAt(own, f),
               Becomes(ip, After(Range(SubSeq(f.loads, 1, n - 1))), "reflected")
        PROVE  ManagerInv' /\ S!Load(ip, f)
    <3>1. /\ ManagerInv'
          /\ S!Becomes(ip, S!PushedOn(sem, f, Range(SubSeq(f.loads, 1, n - 1))), "reflected")
      BY <1>8, <2>2
    <3>2. n - 1 \in 0 .. Len(f.loads) /\ n - 1 # Len(f.loads)
      BY <1>5, <1>7
    <3> QED
      BY <1>9, <3>1, <3>2 DEF S!Load, sem
  <2> QED
    BY <1>6, <2>1, <2>2
<1> QED
  BY <1>3, <1>10 DEF Refines, f

(* ) drops one semantic from each letter of the table. *)
LEMMA UnloadRefines ==
  ASSUME ManagerInv, NEW ip \in IP, NEW cells \in Requests, Unload(ip, cells)
  PROVE  Refines(ip)
<1> DEFINE own == fingerOpcodes[ip]
           sem == [x \in IP |-> SemOf(fingerOpcodes[x])][ip]
<1>1. own \in Own /\ sem = SemOf(own)
  BY OwnOf
<1>2. PICK i \in Found[cells] :
        Becomes(ip, [l \in Letter |-> UnloadedOn(own[l], ImplementedFingerprints[i], l)], "ok")
  BY DEF Unload
<1> DEFINE f     == ImplementedFingerprints[i]
           after == [l \in Letter |-> UnloadedOn(own[l], f, l)]
<1>3. f \in {ImplementedFingerprints[j] : j \in UNION Range(Found)}
  BY FoundOne
<1>4. after \in Own /\ SemOf(after) = S!DroppedFrom(sem, f.opcodes)
  BY <1>1, SemUnloaded
<1>5. Becomes(ip, after, "ok")
  BY <1>2
<1> HIDE DEF after, own, sem, f
<1>6. ManagerInv' /\ S!Becomes(ip, S!DroppedFrom(sem, f.opcodes), "ok")
  BY <1>4, <1>5, StepMaps
<1> QED
  BY <1>3, <1>6 DEF Refines, S!Unload, sem

(* X of FING, with the two places where memory may run out.                *)
LEMMA SwapRefines ==
  ASSUME ManagerInv, NEW ip \in IP, finger_FING_swap(ip)
  PROVE  Refines(ip)
<1> DEFINE sem == [x \in IP |-> SemOf(fingerOpcodes[x])][ip]
           own == fingerOpcodes[ip]
<1>1. own \in Own /\ sem = SemOf(own)
  BY OwnOf
<1>2. PICK first, second \in FingLetters :
        LET one  == [own EXCEPT ![first] = opcode_stack_drop(@)]
            both == [one EXCEPT ![second] = opcode_stack_drop(@)]
            half == [both EXCEPT ![second] = Pushed(@, Named(Popped(own[first])))]
        IN  \/ Becomes(ip, [half EXCEPT ![first] = Pushed(@, Named(Popped(one[second])))], "ok")
            \/ Becomes(ip, both, "reflected")
            \/ Becomes(ip, half, "reflected")
  BY DEF finger_FING_swap
<1>3. first \in Letter /\ second \in Letter
  BY FingLettersAreLetters
<1> DEFINE one  == [own EXCEPT ![first] = opcode_stack_drop(@)]
           both == [one EXCEPT ![second] = opcode_stack_drop(@)]
           v    == Named(Popped(own[first]))
           w    == Named(Popped(one[second]))
           half == [both EXCEPT ![second] = Pushed(@, v)]
           whole == [half EXCEPT ![first] = Pushed(@, w)]
           a    == [sem EXCEPT ![first] = S!Dropped(@)]
           b    == [a EXCEPT ![second] = S!Dropped(@)]
           c    == [b EXCEPT ![second] = Append(@, S!TopOf(sem[first]))]
           d    == [c EXCEPT ![first] = Append(@, S!TopOf(a[second]))]
<1>4. Becomes(ip, whole, "ok") \/ Becomes(ip, both, "reflected") \/ Becomes(ip, half, "reflected")
  BY <1>2
<1> HIDE DEF own, sem
<1>5. one \in Own /\ SemOf(one) = a
  BY <1>1, <1>3, SemDrop
<1>6. v \in Value /\ v = S!TopOf(sem[first])
  BY <1>1, <1>3, TopLive DEF Own, SemOf
<1> HIDE DEF one, a
<1>7. both \in Own /\ SemOf(both) = b
  BY <1>3, <1>5, SemDrop
<1>8. w \in Value /\ w = S!TopOf(a[second])
  BY <1>3, <1>5, TopLive DEF Own, SemOf
<1> HIDE DEF both, b, v, w
<1>9. half \in Own /\ SemOf(half) = c
  BY <1>3, <1>6, <1>7, SemPush
<1> HIDE DEF half, c
<1>10. whole \in Own /\ SemOf(whole) = d
  BY <1>3, <1>8, <1>9, SemPush
<1> HIDE DEF whole, d
<1>11. /\ ManagerInv'
       /\ \/ S!Becomes(ip, d, "ok")
          \/ S!Becomes(ip, b, "reflected")
          \/ S!Becomes(ip, c, "reflected")
  BY <1>4, <1>7, <1>9, <1>10, StepMaps
<1>12. S!Swap(ip, first, second)
  BY <1>11 DEF S!Swap, a, b, c, d, sem
<1> QED
  BY <1>11, <1>12 DEF Refines

(* Z of FING.                                                              *)
LEMMA PushRefines ==
  ASSUME ManagerInv, NEW ip \in IP, finger_FING_push(ip)
  PROVE  Refines(ip)
<1> DEFINE sem == [x \in IP |-> SemOf(fingerOpcodes[x])][ip]
           own == fingerOpcodes[ip]
<1>1. own \in Own /\ sem = SemOf(own)
  BY OwnOf
<1>2. PICK dst, src \in FingLetters :
        LET op   == Popped(own[src])
            kept == IF op = None THEN own
                    ELSE [own EXCEPT ![src] = Pushed(opcode_stack_drop(@), op)]
        IN  \/ Becomes(ip, [kept EXCEPT ![dst] = Pushed(@, Named(op))], "ok")
            \/ Becomes(ip, kept, "reflected")
  BY DEF finger_FING_push
<1>3. dst \in Letter /\ src \in Letter
  BY FingLettersAreLetters
<1> DEFINE op   == Popped(own[src])
           again == Pushed(opcode_stack_drop(own[src]), op)
           kept == IF op = None THEN own ELSE [own EXCEPT ![src] = again]
           v    == Named(op)
           whole == [kept EXCEPT ![dst] = Pushed(@, v)]
           d    == [sem EXCEPT ![dst] = Append(@, S!TopOf(sem[src]))]
<1>4. Becomes(ip, whole, "ok") \/ Becomes(ip, kept, "reflected")
  BY <1>2
<1>5. own[src] \in Array /\ sem[src] = Live(own[src])
  BY <1>1, <1>3 DEF Own, SemOf
<1>6. v \in Value /\ v = S!TopOf(sem[src])
  BY <1>5, TopLive
<1>7. op # None => again \in Array /\ Live(again) = sem[src]
  BY <1>5, PushUndoesDrop
<1> HIDE DEF own, sem, again, op, v
<1>8. kept \in Own /\ SemOf(kept) = sem
  <2>1. CASE op = None
    BY <1>1, <2>1
  <2>2. CASE op # None
    <3>1. kept \in Own /\ SemOf(kept) = [SemOf(own) EXCEPT ![src] = Live(again)]
      BY <1>1, <1>3, <1>7, <2>2, SemExcept
    <3>2. [SemOf(own) EXCEPT ![src] = sem[src]] = sem
      BY <1>1 DEF SemOf
    <3> QED
      BY <1>7, <2>2, <3>1, <3>2
  <2> QED
    BY <2>1, <2>2
<1> HIDE DEF kept
<1>9. whole \in Own /\ SemOf(whole) = d
  BY <1>3, <1>6, <1>8, SemPush
<1> HIDE DEF whole, d
<1>10. ManagerInv' /\ (S!Becomes(ip, d, "ok") \/ S!Becomes(ip, sem, "reflected"))
  BY <1>4, <1>8, <1>9, StepMaps
<1>11. S!Push(ip, dst, src)
  BY <1>10 DEF S!Push, S!Refused, d, sem
<1> QED
  BY <1>10, <1>11 DEF Refines

(* Y of FING.                                                              *)
LEMMA DropRefines ==
  ASSUME ManagerInv, NEW ip \in IP, finger_FING_drop(ip)
  PROVE  Refines(ip)
<1> DEFINE sem == [x \in IP |-> SemOf(fingerOpcodes[x])][ip]
           own == fingerOpcodes[ip]
<1>1. own \in Own /\ sem = SemOf(own)
  BY OwnOf
<1>2. PICK l \in FingLetters : Becomes(ip, [own EXCEPT ![l] = opcode_stack_drop(@)], "ok")
  BY DEF finger_FING_drop
<1>3. l \in Letter
  BY FingLettersAreLetters
<1> DEFINE after == [own EXCEPT ![l] = opcode_stack_drop(@)]
<1>4. Becomes(ip, after, "ok")
  BY <1>2
<1> HIDE DEF own, sem
<1>5. after \in Own /\ SemOf(after) = [sem EXCEPT ![l] = S!Dropped(@)]
  BY <1>1, <1>3, SemDrop
<1> HIDE DEF after
<1>6. ManagerInv' /\ S!Becomes(ip, [sem EXCEPT ![l] = S!Dropped(@)], "ok")
  BY <1>4, <1>5, StepMaps
<1> QED
  BY <1>6 DEF Refines, S!Drop, sem

(* A to Z.                                                                 *)
LEMMA LetterRefines ==
  ASSUME ManagerInv, NEW ip \in IP, handle_fprint(ip)
  PROVE  Refines(ip)
<1>1. \/ Becomes(ip, fingerOpcodes[ip], "reflected")
      \/ Becomes(ip, fingerOpcodes[ip], "ok")
      \/ finger_FING_swap(ip) \/ finger_FING_drop(ip) \/ finger_FING_push(ip)
  BY Zenon DEF handle_fprint, Reflects
<1>2. CASE Becomes(ip, fingerOpcodes[ip], "reflected")
  BY <1>2, IdleRefines
<1>3. CASE Becomes(ip, fingerOpcodes[ip], "ok")
  BY <1>3, IdleRefines
<1> QED
  BY <1>1, <1>2, <1>3, SwapRefines, DropRefines, PushRefines

(* t gives the child what its parent has loaded.                           *)
LEMMA SplitRefines ==
  ASSUME ManagerInv, NEW ip \in ips, manager_duplicate(ip)
  PROVE  Refines(ip)
<1>1. PICK child \in IP \ ips :
        /\ ips' = ips \cup {child}
        /\ fingerOpcodes' = [fingerOpcodes EXCEPT ![child] =
              [l \in Letter |-> opcode_stack_duplicate(fingerOpcodes[ip][l])]]
        /\ reply' = "ok"
  BY DEF manager_duplicate
<1> DEFINE own == fingerOpcodes[ip]
           twin == [l \in Letter |-> opcode_stack_duplicate(own[l])]
<1>2. ip \in IP /\ own \in Own
  BY DEF ManagerInv
<1>3. fingerOpcodes' = [fingerOpcodes EXCEPT ![child] = twin]
  BY <1>1
<1>4. twin \in Own /\ SemOf(twin) = SemOf(own)
  <2>1. \A l \in Letter : /\ opcode_stack_duplicate(own[l]) \in Array
                           /\ Live(opcode_stack_duplicate(own[l])) = Live(own[l])
    BY <1>2, DuplicateLive DEF Own
  <2> HIDE DEF own
  <2> QED
    BY <2>1 DEF Own, SemOf
<1> HIDE DEF twin
<1>5. ManagerInv'
  BY <1>1, <1>3, <1>4 DEF ManagerInv
<1> DEFINE sem == [x \in IP |-> SemOf(fingerOpcodes[x])]
<1>6. sem' = [sem EXCEPT ![child] = sem[ip]]
  BY <1>1, <1>2, <1>3, <1>4 DEF ManagerInv
<1>7. S!Split(ip)
  BY <1>1, <1>6 DEF S!Split
<1> QED
  BY <1>5, <1>7 DEF Refines

(* The stacks of an IP that ends are freed.                                *)
LEMMA DieRefines ==
  ASSUME ManagerInv, NEW ip \in ips, manager_free(ip)
  PROVE  Refines(ip)
<1> DEFINE none == [l \in Letter |-> Empty]
           sem  == [x \in IP |-> SemOf(fingerOpcodes[x])]
<1>1. /\ ips' = ips \ {ip} /\ reply' = "ok"
      /\ fingerOpcodes' = [fingerOpcodes EXCEPT ![ip] = none]
  BY DEF manager_free
<1>2. none \in Own /\ SemOf(none) = [l \in Letter |-> <<>>]
  BY EmptyLive DEF Own, SemOf
<1> HIDE DEF none
<1>3. ManagerInv'
  BY <1>1, <1>2 DEF ManagerInv
<1>4. sem' = [sem EXCEPT ![ip] = [l \in Letter |-> <<>>]]
  BY <1>1, <1>2 DEF ManagerInv
<1> QED
  BY <1>1, <1>3, <1>4 DEF Refines, S!Die

(* Every step of the manager is one of the specification above. *)
LEMMA NextRefines ==
  ASSUME ManagerInv, Next
  PROVE  ManagerInv' /\ S!Next
<1>1. PICK ip \in ips :
        \/ Rejected(ip)
        \/ \E cells \in Requests : Load(ip, cells) \/ Unload(ip, cells)
        \/ handle_fprint(ip)
        \/ manager_duplicate(ip)
        \/ manager_free(ip)
  BY DEF Next
<1>2. ip \in IP
  BY DEF ManagerInv
<1>3. Refines(ip)
  <2>1. CASE Rejected(ip)
    BY <1>2, <2>1, IdleRefines DEF Rejected, Reflects
  <2>2. ASSUME NEW cells \in Requests, Load(ip, cells) \/ Unload(ip, cells)
        PROVE  Refines(ip)
    BY <1>2, <2>2, LoadRefines, UnloadRefines
  <2>3. CASE handle_fprint(ip)
    BY <1>2, <2>3, LetterRefines
  <2> QED
    BY <1>1, <2>1, <2>2, <2>3, SplitRefines, DieRefines
<1> QED
  BY <1>3 DEF Refines, S!Next

(* Nothing is loaded at first, on either level. *)
LEMMA InitRefines ==
  ASSUME Init
  PROVE  ManagerInv /\ S!Init
<1> DEFINE none == [l \in Letter |-> Empty]
<1>1. none \in Own /\ SemOf(none) = [l \in Letter |-> <<>>]
  BY EmptyLive DEF Own, SemOf
<1>2. (\E ip \in IP : ips = {ip}) /\ fingerOpcodes = [ip \in IP |-> none] /\ reply = "ok"
  BY DEF Init
<1> HIDE DEF none
<1>3. ManagerInv
  BY <1>1, <1>2 DEF ManagerInv
<1> QED
  BY <1>1, <1>2, <1>3 DEF S!Init

(* What leaves the variables alone leaves the stacks alone. *)
LEMMA StutterRefines ==
  ASSUME ManagerInv, UNCHANGED vars
  PROVE  ManagerInv' /\ UNCHANGED S!vars
  BY DEF ManagerInv, vars, S!vars

(* What is in use of every array was pushed, in every state that is reached. *)
THEOREM ArraysSound == Spec => []ManagerInv
<1>1. Init => ManagerInv
  BY InitRefines
<1>2. ManagerInv /\ [Next]_vars => ManagerInv'
  BY NextRefines, StutterRefines
<1> QED
  BY <1>1, <1>2, PTL DEF Spec

(* The manager implements a stack of semantics per IP and letter.          *)
THEOREM SemanticsImplemented == Spec => ImplementsSemantics
<1>1. Init => S!Init
  BY InitRefines
<1>2. ManagerInv /\ [Next]_vars => [S!Next]_(S!vars)
  BY NextRefines, StutterRefines
<1> QED
  BY <1>1, <1>2, ArraysSound, PTL DEF Spec, ImplementsSemantics, S!Spec

-----------------------------------------------------------------------------
(* A load that is not cut short leaves one semantic for each letter that   *)
(* the table has, and nothing else.                                        *)
LEMMA LoadComesOff ==
  ASSUME ManagerInv, NEW ip \in ips, NEW cells \in Requests, Load(ip, cells),
         reply' = "loaded", NEW i \in Found[cells], NEW l \in Letter,
         ImplementedFingerprints[i].name # "NULL"
  PROVE  Live(UnloadedOn(fingerOpcodes'[ip][l], ImplementedFingerprints[i], l))
           = Live(fingerOpcodes[ip][l])
<1> DEFINE f == ImplementedFingerprints[i]
           a == fingerOpcodes[ip][l]
<1>1. PICK j \in Found[cells] :
        LET g           == ImplementedFingerprints[j]
            own         == fingerOpcodes[ip]
            After(some) == [x \in Letter |-> LoadedOn(own[x], g, x, some)]
        IN  \/ Becomes(ip, After(Range(g.loads)), "loaded")
            \/ \E n \in FailsAt(own, g) :
                  Becomes(ip, After(Range(SubSeq(g.loads, 1, n - 1))), "reflected")
  BY DEF Load
<1>2. j = i /\ i \in 1 .. Len(ImplementedFingerprints)
  BY FoundOne
<1>3. Range(f.loads) = f.opcodes /\ <<f.name, l>> \in Value
  BY <1>2, TableListed DEF Listed, Value, Range
<1>4. fingerOpcodes' = [fingerOpcodes EXCEPT ![ip] =
                          [x \in Letter |-> LoadedOn(fingerOpcodes[ip][x], f, x, Range(f.loads))]]
  BY <1>1, <1>2 DEF Becomes
<1>5. ip \in IP /\ fingerOpcodes \in [IP -> Own] /\ a \in Array
  BY DEF ManagerInv, Own
<1> HIDE DEF f
<1>6. fingerOpcodes'[ip][l] = LoadedOn(a, f, l, f.opcodes)
  BY <1>3, <1>4, <1>5
<1> HIDE DEF a
<1>7. CASE l \in f.opcodes
  BY <1>3, <1>5, <1>6, <1>7, DropUndoesPush DEF LoadedOn, UnloadedOn, f, a
<1>8. CASE l \notin f.opcodes
  BY <1>6, <1>8 DEF LoadedOn, UnloadedOn, f, a
<1> QED
  BY <1>7, <1>8

(* Unloading what was just loaded gives back what every letter did before, *)
(* for every fingerprint of the table but NULL.                            *)
THEOREM LoadedComesOff == Spec => UnloadUndoesLoad
<1>1. ASSUME ManagerInv, [Next]_vars
      PROVE  [ComesOff(Names \ {"NULL"})]_vars
  <2> SUFFICES ASSUME reply' = "loaded", NEW ip \in ips, NEW cells \in Requests, Load(ip, cells),
                      NEW i \in Found[cells], ImplementedFingerprints[i].name # "NULL",
                      NEW l \in Letter
               PROVE  Live(UnloadedOn(fingerOpcodes'[ip][l], ImplementedFingerprints[i], l))
                        = Live(fingerOpcodes[ip][l])
    BY Zenon DEF ComesOff
  <2> QED
    BY <1>1, LoadComesOff
<1> QED
  BY <1>1, ArraysSound, PTL DEF Spec, UnloadUndoesLoad

-----------------------------------------------------------------------------
(* A table: its entries are of the given set, or there is none.            *)
Table(Kind) == Seq(Kind \cup {NoEntry})

(* A table that is extended has no entry in its new part, and the others   *)
(* stay where they are.                                                    *)
LEMMA ExtendedTable ==
  ASSUME NEW Kind, NEW table \in Table(Kind)
  PROVE  /\ Extended(table) \in Table(Kind)
         /\ Len(table) <= Len(Extended(table))
         /\ \A h \in 0 .. Len(table) - 1 : At(Extended(table), h) = At(table, h)
         /\ \A h \in 0 .. Len(Extended(table)) - 1 :
              h >= Len(table) => At(Extended(table), h) = NoEntry
         /\ Valid(Extended(table)) = Valid(table)
<1>1. /\ Extended(table) \in Table(Kind)
      /\ Len(table) <= Len(Extended(table))
      /\ \A h \in 0 .. Len(table) - 1 : At(Extended(table), h) = At(table, h)
      /\ \A h \in 0 .. Len(Extended(table)) - 1 :
           h >= Len(table) => At(Extended(table), h) = NoEntry
  <2>1. CASE Extended(table) = table
    BY <2>1 DEF Table
  <2>2. CASE Extended(table) = table \o EmptyTable
    <3>1. EmptyTable = <<NoEntry, NoEntry>>
      BY DEF EmptyTable, ALLOCCHUNK
    <3>2. Extended(table) = table \o <<NoEntry, NoEntry>>
      BY <2>2, <3>1
    <3> QED
      BY <3>2 DEF Table, At
  <2> QED
    BY <2>1, <2>2 DEF Extended
<1>2. Valid(Extended(table)) = Valid(table)
  BY <1>1 DEF Valid, Table
<1> QED
  BY <1>1, <1>2

(* The handle given out next is free: its slot, if there is one already,   *)
(* holds no entry, and the extended table has a slot for it. No lower      *)
(* handle is free.                                                         *)
LEMMA NextFreeIsLowest ==
  ASSUME NEW Kind, NEW table \in Table(Kind)
  PROVE  /\ NextFree(table) \in 0 .. Len(Extended(table)) - 1
         /\ NextFree(table) \notin Valid(table)
         /\ \A h \in Nat : h < NextFree(table) => h \in Valid(table)
<1> DEFINE free == {h \in 0 .. Len(table) - 1 : At(table, h) = NoEntry}
<1>1. Len(table) \in Nat
  BY DEF Table
<1>2. CASE free = {}
  <2>1. NextFree(table) = Len(table)
    BY <1>2 DEF NextFree
  <2>2. Extended(table) = table \o <<NoEntry, NoEntry>>
    BY <2>1 DEF Extended, EmptyTable, ALLOCCHUNK
  <2>3. Len(Extended(table)) = Len(table) + 2
    BY <2>2 DEF Table
  <2> QED
    BY <1>1, <1>2, <2>1, <2>3 DEF Valid
<1>3. CASE free # {}
  <2>1. NextFree(table) = CHOOSE h \in free : \A g \in free : h <= g
    BY <1>3 DEF NextFree
  <2>2. \E h \in free : \A g \in free : h <= g
    <3>1. free \in SUBSET Nat
      BY <1>1
    <3> HIDE DEF free
    <3> QED
      BY <1>3, <3>1, Least
  <2>3. NextFree(table) \in free /\ \A g \in free : NextFree(table) <= g
    BY <2>1, <2>2
  <2>4. NextFree(table) \in 0 .. Len(Extended(table)) - 1
    BY <1>1, <2>3 DEF Extended
  <2> QED
    BY <1>1, <2>3, <2>4 DEF Valid
<1> QED
  BY <1>2, <1>3

(* allocate_handle: one handle more, with the new entry; the others keep   *)
(* theirs.                                                                 *)
LEMMA AllocateHandle ==
  ASSUME NEW Kind, NoEntry \notin Kind, NEW table \in Table(Kind),
         NEW entry \in Kind
  PROVE  LET new == allocate_handle(table, entry)
             h   == NextFree(table)
         IN  /\ new \in Table(Kind)
             /\ Valid(new) = Valid(table) \cup {h} /\ h \notin Valid(table)
             /\ At(new, h) = entry
             /\ \A g \in Valid(table) : At(new, g) = At(table, g)
<1> DEFINE ext == Extended(table)
           new == allocate_handle(table, entry)
           h   == NextFree(table)
<1>1. /\ ext \in Table(Kind) /\ Valid(ext) = Valid(table)
      /\ \A g \in Valid(table) : At(ext, g) = At(table, g)
  BY ExtendedTable DEF Valid
<1>2. h \in 0 .. Len(ext) - 1 /\ h \notin Valid(table)
  BY NextFreeIsLowest
<1>3. new = [ext EXCEPT ![h + 1] = entry]
  BY DEF allocate_handle, With
<1> HIDE DEF ext, new, h
<1>4. /\ new \in Table(Kind) /\ Len(new) = Len(ext)
      /\ \A g \in 0 .. Len(ext) - 1 :
           At(new, g) = IF g = h THEN entry ELSE At(ext, g)
  BY <1>1, <1>2, <1>3 DEF Table, At
<1>5. Valid(new) = Valid(ext) \cup {h}
  BY <1>1, <1>2, <1>4 DEF Valid
<1>6. At(new, h) = entry /\ \A g \in Valid(table) : At(new, g) = At(table, g)
  BY <1>1, <1>2, <1>4 DEF Valid
<1> QED
  BY <1>1, <1>2, <1>4, <1>5, <1>6 DEF new, h

(* free_handle: one handle less; the others keep their entries.            *)
LEMMA FreeHandle ==
  ASSUME NEW Kind, NoEntry \notin Kind, NEW table \in Table(Kind),
         NEW h \in Valid(table)
  PROVE  LET new == free_handle(table, h)
         IN  /\ new \in Table(Kind)
             /\ Valid(new) = Valid(table) \ {h}
             /\ \A g \in Valid(new) : At(new, g) = At(table, g)
<1> DEFINE new == free_handle(table, h)
<1>1. new = [table EXCEPT ![h + 1] = NoEntry] /\ h \in 0 .. Len(table) - 1
  BY DEF free_handle, With, Valid
<1> HIDE DEF new
<1>2. /\ new \in Table(Kind) /\ Len(new) = Len(table)
      /\ \A g \in 0 .. Len(table) - 1 :
           At(new, g) = IF g = h THEN NoEntry ELSE At(table, g)
  BY <1>1 DEF Table, At
<1>3. Valid(new) = Valid(table) \ {h}
  BY <1>1, <1>2 DEF Valid
<1>4. \A g \in Valid(new) : At(new, g) = At(table, g)
  BY <1>2, <1>3 DEF Valid
<1> QED
  BY <1>2, <1>3, <1>4 DEF new

(* The entries of valid handles are entries; a table without an entry has  *)
(* no valid handle; and without memory none comes or goes.                 *)
LEMMA TableFacts ==
  ASSUME NEW Kind
  PROVE  /\ EmptyTable \in Table(Kind) /\ Valid(EmptyTable) = {}
         /\ \A table \in Table(Kind) :
              /\ \A h \in Valid(table) : At(table, h) \in Kind
              /\ \A h : valid_handle(table, h) <=> h \in Valid(table)
              /\ \A new \in Starved(table) :
                   /\ new \in Table(Kind) /\ Valid(new) = Valid(table)
                   /\ \A h \in Valid(table) : At(new, h) = At(table, h)
<1>1. EmptyTable = <<NoEntry, NoEntry>>
  BY DEF EmptyTable, ALLOCCHUNK
<1>2. EmptyTable \in Table(Kind) /\ Valid(EmptyTable) = {}
  BY <1>1 DEF Table, Valid, At
<1>3. ASSUME NEW table \in Table(Kind)
      PROVE  /\ \A h \in Valid(table) : At(table, h) \in Kind
             /\ \A h : valid_handle(table, h) <=> h \in Valid(table)
  BY DEF Table, Valid, valid_handle, At
<1>4. ASSUME NEW table \in Table(Kind), NEW new \in Starved(table)
      PROVE  /\ new \in Table(Kind) /\ Valid(new) = Valid(table)
             /\ \A h \in Valid(table) : At(new, h) = At(table, h)
  <2>1. CASE new = table
    BY <2>1
  <2>2. CASE new = Extended(table)
    BY <2>2, ExtendedTable DEF Valid
  <2> QED
    BY <2>1, <2>2 DEF Starved
<1> QED
  BY <1>2, <1>3, <1>4

-----------------------------------------------------------------------------
(* The handles of FILE.                                                    *)
FileEntry  == [file : StreamName, buffvect : Buffer]
OpenStream == [text : Seq(Byte), pos : Nat, mode : Mode,
               last : {"seek", "read", "write"}]

(* Types of the variables.                                                 *)
FileTypeOK == /\ handles \in Table(FileEntry)
              /\ streams \in [StreamName -> OpenStream \cup {Closed}]
              /\ space \in [DOMAIN Cells -> Byte \cup Wide]

(* Handles and open streams are in one-to-one correspondence.              *)
Matched ==
  /\ \A h \in Valid(handles) : StreamOf(h) # Closed
  /\ \A g, h \in Valid(handles) :
       At(handles, g).file = At(handles, h).file => g = h
  /\ \A f \in StreamName : streams[f] # Closed =>
       \E h \in Valid(handles) : At(handles, h).file = f

IInv == FileTypeOK /\ Matched

-----------------------------------------------------------------------------
(* A stream that is open is not the closed one.                            *)
LEMMA OpenIsNotClosed == \A s \in OpenStream : s # Closed
BY DEF OpenStream, Closed, Mode

(* The valid handles have an entry each, with a stream and a buffer.       *)
LEMMA HandleEntries ==
  ASSUME IInv
  PROVE  \A h \in Valid(handles) : /\ At(handles, h) \in FileEntry
                                   /\ At(handles, h).file \in StreamName
                                   /\ At(handles, h).buffvect \in Buffer
<1>1. \A h \in Valid(handles) : At(handles, h) \in FileEntry
  BY TableFacts DEF IInv, FileTypeOK
<1>2. \A e \in FileEntry : e.file \in StreamName /\ e.buffvect \in Buffer
  BY DEF FileEntry
<1> QED
  BY <1>1, <1>2

(* What a valid handle stands for.                                         *)
LEMMA HandleOfStream ==
  ASSUME IInv, NEW h, valid_handle(handles, h)
  PROVE  /\ h \in Valid(handles) /\ At(handles, h) \in FileEntry
         /\ At(handles, h).file \in StreamName
         /\ At(handles, h).buffvect \in Buffer
         /\ StreamOf(h) \in OpenStream
<1>1. h \in Valid(handles)
  BY TableFacts DEF IInv, FileTypeOK
<1>2. /\ At(handles, h) \in FileEntry /\ At(handles, h).file \in StreamName
      /\ At(handles, h).buffvect \in Buffer
  BY <1>1, HandleEntries
<1>3. StreamOf(h) \in OpenStream
  BY <1>1, <1>2 DEF IInv, FileTypeOK, Matched, StreamOf
<1> QED
  BY <1>1, <1>2, <1>3

(* A call that leaves every stream open that was keeps the correspondence. *)
LEMMA TurnedKeepsIInv ==
  ASSUME IInv, NEW h, valid_handle(handles, h), NEW s \in OpenStream,
         Turned(h, s), handles' = handles,
         space' \in [DOMAIN Cells -> Byte \cup Wide]
  PROVE  IInv'
<1> DEFINE f == At(handles, h).file
<1>1. f \in StreamName /\ StreamOf(h) # Closed /\ s # Closed
  BY HandleOfStream, OpenIsNotClosed
<1>2. streams' = [streams EXCEPT ![f] = s] /\ streams[f] # Closed
  BY <1>1 DEF Turned, StreamOf
<1>3. FileTypeOK'
  BY <1>1, <1>2 DEF IInv, FileTypeOK
<1>4. \A k \in StreamName : streams'[k] # Closed <=> streams[k] # Closed
  BY <1>1, <1>2 DEF IInv, FileTypeOK
<1>5. \A g \in Valid(handles) : At(handles, g).file \in StreamName
  BY HandleEntries
<1>6. Matched'
  BY <1>4, <1>5 DEF IInv, Matched, StreamOf
<1> QED
  BY <1>3, <1>6 DEF IInv

(* So does one that leaves the handles and the streams alone, or is        *)
(* refused.                                                                *)
LEMMA UnchangedKeepsIInv ==
  ASSUME IInv, UNCHANGED <<handles, streams>>,
         space' \in [DOMAIN Cells -> Byte \cup Wide]
  PROVE  IInv'
BY DEF IInv, FileTypeOK, Matched, StreamOf

-----------------------------------------------------------------------------
(* finger_FILE_fopen: a stream that was closed and a handle that was free. *)
LEMMA OpenKeepsIInv ==
  ASSUME FileAssumption, IInv, finger_FILE_fopen \/ OpenFails
  PROVE  IInv'
<1>0. /\ NoEntry \notin FileEntry /\ handles \in Table(FileEntry)
      /\ space' \in [DOMAIN Cells -> Byte \cup Wide]
      /\ \A g \in Valid(handles) : At(handles, g).file \in StreamName
  <2>1. NoEntry \notin FileEntry
    BY DEF FileAssumption, FileEntry, StreamName
  <2>2. space' = space
    BY DEF finger_FILE_fopen, OpenFails
  <2> QED
    BY <2>1, <2>2, HandleEntries DEF IInv, FileTypeOK
<1>1. CASE OpenFails
  <2>1. /\ handles' \in Table(FileEntry) /\ Valid(handles') = Valid(handles)
        /\ \A h \in Valid(handles) : At(handles', h) = At(handles, h)
        /\ streams' = streams
    BY <1>0, <1>1, TableFacts DEF OpenFails
  <2> QED
    BY <1>0, <2>1 DEF IInv, FileTypeOK, Matched, StreamOf
<1>2. CASE finger_FILE_fopen
  <2> DEFINE closed == {f \in StreamName : streams[f] = Closed}
             f      == CHOOSE g \in closed : \A k \in closed : g <= k
             h      == NextFree(handles)
  <2>1. PICK mode \in Mode, text \in Contents, x \in Buffer :
          /\ closed # {}
          /\ handles' = allocate_handle(handles, [file |-> f, buffvect |-> x])
          /\ streams' = [streams EXCEPT ![f] = Opened(mode, text)]
    BY <1>2 DEF finger_FILE_fopen
  <2>2. f \in StreamName /\ streams[f] = Closed
    <3>1. closed \in SUBSET Nat
      BY DEF StreamName
    <3> HIDE DEF closed
    <3>2. f \in closed
      BY <2>1, <3>1, Least
    <3> QED
      BY <3>2 DEF closed
  <2>3. Opened(mode, text) \in OpenStream
    <3>1. text \in Seq(Byte) /\ <<>> \in Seq(Byte)
      BY DEF FileAssumption
    <3> QED
      BY <3>1 DEF Opened, OpenStream
  <2> HIDE DEF closed, f, h
  <2> DEFINE new == [file |-> f, buffvect |-> x]
  <2>4. new \in FileEntry
    BY <2>2 DEF FileEntry
  <2>5. new.file = f
    OBVIOUS
  <2> HIDE DEF new
  <2>6. /\ handles' \in Table(FileEntry)
        /\ Valid(handles') = Valid(handles) \cup {h} /\ h \notin Valid(handles)
        /\ At(handles', h) = new
        /\ \A g \in Valid(handles) : At(handles', g) = At(handles, g)
    BY <1>0, <2>1, <2>4, AllocateHandle DEF h, new
  <2>7. FileTypeOK'
    BY <1>0, <2>1, <2>2, <2>3, <2>6 DEF IInv, FileTypeOK
  <2>8. /\ streams'[f] # Closed
        /\ \A k \in StreamName : k # f => streams'[k] = streams[k]
    BY <2>1, <2>2, <2>3, OpenIsNotClosed DEF IInv, FileTypeOK
  <2>9. \A g \in Valid(handles) : At(handles, g).file # f
    BY <2>2 DEF IInv, Matched, StreamOf
  <2>10. Matched'
    <3>1. \A g \in Valid(handles') : streams'[At(handles', g).file] # Closed
      BY <1>0, <2>5, <2>6, <2>8, <2>9 DEF IInv, Matched, StreamOf
    <3>2. \A g, k \in Valid(handles') :
            At(handles', g).file = At(handles', k).file => g = k
      BY <2>5, <2>6, <2>9 DEF IInv, Matched
    <3>3. \A k \in StreamName : streams'[k] # Closed =>
            \E g \in Valid(handles') : At(handles', g).file = k
      BY <2>5, <2>6, <2>8 DEF IInv, Matched
    <3> QED
      BY <3>1, <3>2, <3>3 DEF Matched, StreamOf
  <2> QED
    BY <2>7, <2>10 DEF IInv
<1> QED
  BY <1>1, <1>2

(* finger_FILE_fclose: the handle goes with its stream.                    *)
LEMMA CloseKeepsIInv ==
  ASSUME FileAssumption, IInv, NEW h, valid_handle(handles, h),
         Turned(h, Closed), handles' = free_handle(handles, h), space' = space
  PROVE  IInv'
<1> DEFINE f == At(handles, h).file
<1>1. h \in Valid(handles) /\ f \in StreamName
  BY HandleOfStream
<1>2. NoEntry \notin FileEntry /\ handles \in Table(FileEntry)
  BY DEF FileAssumption, FileEntry, StreamName, IInv, FileTypeOK
<1>3. /\ handles' \in Table(FileEntry) /\ Valid(handles') = Valid(handles) \ {h}
      /\ \A g \in Valid(handles') : At(handles', g) = At(handles, g)
  BY <1>1, <1>2, FreeHandle
<1>4. /\ streams' = [streams EXCEPT ![f] = Closed] /\ streams'[f] = Closed
      /\ \A k \in StreamName : k # f => streams'[k] = streams[k]
  BY <1>1 DEF Turned, IInv, FileTypeOK
<1>5. FileTypeOK'
  BY <1>1, <1>3, <1>4 DEF IInv, FileTypeOK
<1>6. \A g \in Valid(handles) : g # h =>
        At(handles, g).file # f /\ At(handles, g).file \in StreamName
  BY <1>1, HandleEntries DEF IInv, Matched
<1>7. Matched'
  BY <1>1, <1>3, <1>4, <1>6 DEF IInv, Matched, StreamOf
<1> QED
  BY <1>5, <1>7 DEF IInv
-----------------------------------------------------------------------------
(* The lesser and the greater of two numbers.                              *)
LEMMA MinMaxOfTwo ==
  ASSUME NEW m \in Int, NEW n \in Int
  PROVE  /\ Min({m, n}) = IF m <= n THEN m ELSE n
         /\ Max({m, n}) = IF m <= n THEN n ELSE m
<1>1. Min({m, n}) = IF m <= n THEN m ELSE n
  BY DEF Min
<1>2. Max({m, n}) = IF m <= n THEN n ELSE m
  BY DEF Max
<1> QED
  BY <1>1, <1>2

(* Reading on moves the position and nothing else.                         *)
LEMMA ReadOpen ==
  ASSUME NEW s \in OpenStream, NEW n \in Nat
  PROVE  /\ Read(s, n) \in OpenStream
         /\ Read(s, n).text = s.text /\ Read(s, n).pos = s.pos + n
<1>1. s.pos + n \in Nat
  BY DEF OpenStream
<1> DEFINE pos == s.pos + n
<1> HIDE DEF pos
<1>2. Read(s, n) = [s EXCEPT !.pos = pos, !.last = "read"]
  BY DEF Read, pos
<1>3. /\ Read(s, n) \in OpenStream
      /\ Read(s, n).text = s.text /\ Read(s, n).pos = pos
  BY <1>1, <1>2 DEF OpenStream, pos
<1> QED
  BY <1>3 DEF pos

(* What is left to be read is a text, shorter than the whole.              *)
LEMMA RestIsText ==
  ASSUME NEW s \in OpenStream
  PROVE  /\ Rest(s) \in Seq(Byte) /\ Len(Rest(s)) \in Nat
         /\ s.text \in Seq(Byte) /\ s.pos \in Nat
         /\ Len(Rest(s)) = IF s.pos <= Len(s.text) THEN Len(s.text) - s.pos ELSE 0
         /\ \A i \in 1 .. Len(Rest(s)) : Rest(s)[i] = s.text[s.pos + i]
<1>1. s.text \in Seq(Byte) /\ s.pos \in Nat
  BY DEF OpenStream
<1> DEFINE text == s.text
           pos  == s.pos
           rest == SubSeq(text, pos + 1, Len(text))
<1>2. text \in Seq(Byte) /\ pos \in Nat
  BY <1>1
<1> HIDE DEF text, pos
<1>3. CASE pos <= Len(text)
  <2>1. pos + 1 \in 1 .. Len(text) + 1 /\ Len(text) \in pos + 1 - 1 .. Len(text)
    BY <1>2, <1>3
  <2>2. /\ rest \in Seq(Byte) /\ Len(rest) = Len(text) - (pos + 1) + 1
        /\ \A i \in 1 .. Len(text) - (pos + 1) + 1 : rest[i] = text[pos + 1 + i - 1]
    BY <1>2, <2>1, SubSeqProperties
  <2>3. Len(rest) = Len(text) - pos /\ Len(rest) \in Nat
    BY <1>2, <1>3, <2>2
  <2>4. \A i \in 1 .. Len(rest) : rest[i] = text[pos + i]
    BY <1>2, <2>2, <2>3
  <2> QED
    BY <1>1, <1>3, <2>2, <2>3, <2>4 DEF Rest, text, pos
<1>4. CASE ~(pos <= Len(text))
  <2>1. rest = <<>>
    BY <1>2, <1>4
  <2> QED
    BY <1>1, <1>4, <2>1 DEF Rest, text, pos
<1> QED
  BY <1>3, <1>4

(* The length of the line fgets takes, for every text: all of the text     *)
(* when it has no line end, and otherwise up to the first, or to the line  *)
(* feed right after it.                                                    *)
LEMMA LineLengthOf ==
  ASSUME CR # LF, NEW text \in Seq(Byte)
  PROVE  /\ LineLength(text) \in 0 .. Len(text)
         /\ \/ /\ \A i \in 1 .. Len(text) : text[i] \notin {CR, LF}
               /\ LineLength(text) = Len(text)
            \/ \E e \in 1 .. Len(text) :
                 /\ text[e] \in {CR, LF}
                 /\ \A i \in 1 .. e - 1 : text[i] \notin {CR, LF}
                 /\ IF text[e] = CR /\ e < Len(text) /\ text[e + 1] = LF
                      THEN LineLength(text) = e + 1
                      ELSE LineLength(text) = e
<1> DEFINE ends == {i \in DOMAIN text : text[i] \in {CR, LF}}
<1>1. CASE ends = {}
  BY <1>1 DEF LineLength
<1>2. CASE ends # {}
  <2> DEFINE e == CHOOSE i \in ends : \A j \in ends : i <= j
  <2>1. e \in ends /\ \A j \in ends : e <= j
    <3>1. ends \in SUBSET Nat
      OBVIOUS
    <3> HIDE DEF ends
    <3> QED
      BY <1>2, <3>1, Least
  <2>2. LineLength(text) = IF text[e] = CR /\ e < Len(text) /\ text[e + 1] = LF
                             THEN e + 1 ELSE e
    BY <1>2 DEF LineLength
  <2> HIDE DEF e
  <2>3. e \in 1 .. Len(text) /\ text[e] \in {CR, LF}
    BY <2>1
  <2>4. \A i \in 1 .. e - 1 : text[i] \notin {CR, LF}
    BY <2>1, <2>3
  <2> QED
    BY <2>2, <2>3, <2>4
<1> QED
  BY <1>1, <1>2

(* Writing makes a longer text of bytes, wherever the position was.        *)
LEMMA OverwrittenOpen ==
  ASSUME FileAssumption, NEW s \in OpenStream, NEW bytes \in Seq(Byte)
  PROVE  Overwritten(s, bytes) \in OpenStream
<1> DEFINE from == IF s.mode \in Appends THEN Len(s.text) ELSE s.pos
           end  == from + Len(bytes)
           len  == Max({end, Len(s.text)})
           ByteAt(i) == IF i \in from + 1 .. end THEN bytes[i - from]
                        ELSE IF i \in DOMAIN s.text THEN s.text[i] ELSE Hole
<1>1. s.text \in Seq(Byte) /\ s.pos \in Nat
  BY DEF OpenStream
<1>2. from \in Nat /\ end \in Nat /\ Len(s.text) \in Nat
  BY <1>1
<1>3. len \in Nat
  <2> HIDE DEF end
  <2>1. end \in Int /\ Len(s.text) \in Int
    BY <1>2
  <2>2. len = IF end <= Len(s.text) THEN Len(s.text) ELSE end
    BY <2>1, MinMaxOfTwo
  <2> HIDE DEF len
  <2> QED
    BY <1>2, <2>2
<1>4. Hole \in Byte
  BY DEF Hole, FileAssumption
<1>5. \A i \in 1 .. len : ByteAt(i) \in Byte
  <2> SUFFICES ASSUME NEW i \in 1 .. len PROVE ByteAt(i) \in Byte
    OBVIOUS
  <2>1. CASE i \in from + 1 .. end
    <3>1. i - from \in 1 .. Len(bytes)
      BY <1>2, <2>1
    <3> QED
      BY <2>1, <3>1
  <2>2. CASE i \notin from + 1 .. end
    BY <1>1, <1>4, <2>2
  <2> QED
    BY <2>1, <2>2
<1>6. Overwritten(s, bytes) = [s EXCEPT !.text = [i \in 1 .. len |-> ByteAt(i)],
                                        !.pos = end, !.last = "write"]
  BY DEF Overwritten
<1> HIDE DEF len, ByteAt, end
<1>7. [i \in 1 .. len |-> ByteAt(i)] \in Seq(Byte)
  BY <1>3, <1>5
<1> QED
  BY <1>2, <1>6, <1>7 DEF OpenStream

(* Whether bytes are written or not, the correspondence stays.             *)
LEMMA PutKeepsIInv ==
  ASSUME FileAssumption, IInv, NEW h, valid_handle(handles, h),
         NEW bytes \in Seq(Byte), NEW call, Put(call, h, bytes),
         handles' = handles, space' = space
  PROVE  IInv'
<1>1. space' \in [DOMAIN Cells -> Byte \cup Wide]
  BY DEF IInv, FileTypeOK
<1>2. StreamOf(h) \in OpenStream
  BY HandleOfStream
<1>3. CASE Turned(h, Overwritten(StreamOf(h), bytes))
  BY <1>1, <1>2, <1>3, OverwrittenOpen, TurnedKeepsIInv
<1>4. CASE UNCHANGED streams
  BY <1>1, <1>4, UnchangedKeepsIInv
<1> QED
  BY <1>3, <1>4 DEF Put

-----------------------------------------------------------------------------
(* finger_FILE_fgets, finger_FILE_ftell and finger_FILE_fseek.             *)
LEMMA ReadingKeepsIInv ==
  ASSUME FileAssumption, IInv,
         finger_FILE_fgets \/ finger_FILE_ftell \/ finger_FILE_fseek
  PROVE  IInv'
<1>1. /\ handles' = handles /\ space' = space
      /\ space' \in [DOMAIN Cells -> Byte \cup Wide]
  BY DEF finger_FILE_fgets, finger_FILE_ftell, finger_FILE_fseek, Rejects,
     IInv, FileTypeOK
<1>2. CASE finger_FILE_fgets
  <2>1. PICK h \in Handle :
          \/ UNCHANGED streams
          \/ /\ valid_handle(handles, h)
             /\ \E k \in 0 .. LineLength(Rest(StreamOf(h))) :
                  Turned(h, Read(StreamOf(h), k))
    <3>1. PICK h \in Handle :
            \/ Rejects("G", h)
            \/ /\ valid_handle(handles, h)
               /\ \/ Turned(h, Read(StreamOf(h), LineLength(Rest(StreamOf(h)))))
                  \/ /\ LineLength(Rest(StreamOf(h))) > 1
                     /\ Turned(h, Read(StreamOf(h), LineLength(Rest(StreamOf(h))) - 1))
                  \/ \E k \in 0 .. LineLength(Rest(StreamOf(h))) :
                       Turned(h, Read(StreamOf(h), k))
                  \/ UNCHANGED streams
      BY <1>2 DEF finger_FILE_fgets
    <3>2. CASE valid_handle(handles, h)
      <4>1. LineLength(Rest(StreamOf(h))) \in Nat
        BY <3>2, HandleOfStream, RestIsText, LineLengthOf DEF FileAssumption
      <4> QED
        BY <3>1, <3>2, <4>1 DEF Rejects
    <3> QED
      BY <3>1, <3>2 DEF Rejects
  <2>2. CASE UNCHANGED streams
    BY <1>1, <2>2, UnchangedKeepsIInv
  <2>3. CASE ~UNCHANGED streams
    <3>1. StreamOf(h) \in OpenStream
      BY <2>1, <2>3, HandleOfStream
    <3>2. PICK k \in Nat : Turned(h, Read(StreamOf(h), k))
      <4>1. LineLength(Rest(StreamOf(h))) \in Nat
        BY <3>1, RestIsText, LineLengthOf DEF FileAssumption
      <4> QED
        BY <2>1, <2>3, <4>1
    <3> QED
      BY <1>1, <2>1, <2>3, <3>1, <3>2, ReadOpen, TurnedKeepsIInv
  <2> QED
    BY <2>2, <2>3
<1>3. CASE finger_FILE_ftell
  <2>1. UNCHANGED streams
    BY <1>3 DEF finger_FILE_ftell, Rejects
  <2> QED
    BY <1>1, <2>1, UnchangedKeepsIInv
<1>4. CASE finger_FILE_fseek
  <2>1. PICK h \in Handle, m \in 0 .. 3, n \in -1 .. 1 :
          \/ UNCHANGED streams
          \/ /\ valid_handle(handles, h)
             /\ Target(StreamOf(h), m, n) \in 0 .. MaxText
             /\ Turned(h, [StreamOf(h) EXCEPT !.pos = Target(StreamOf(h), m, n),
                                              !.last = "seek"])
    BY <1>4 DEF finger_FILE_fseek, Rejects
  <2>2. CASE UNCHANGED streams
    BY <1>1, <2>2, UnchangedKeepsIInv
  <2>3. CASE ~UNCHANGED streams
    <3> DEFINE s == StreamOf(h)
               t == Target(s, m, n)
    <3>1. s \in OpenStream /\ t \in Nat
      BY <2>1, <2>3, HandleOfStream DEF FileAssumption
    <3> HIDE DEF s, t
    <3>2. [s EXCEPT !.pos = t, !.last = "seek"] \in OpenStream
      BY <3>1 DEF OpenStream
    <3> QED
      BY <1>1, <2>1, <2>3, <3>2, TurnedKeepsIInv DEF s, t
  <2> QED
    BY <2>2, <2>3
<1> QED
  BY <1>2, <1>3, <1>4

(* finger_FILE_fputs and finger_FILE_fwrite.                               *)
LEMMA WritingKeepsIInv ==
  ASSUME FileAssumption, IInv, finger_FILE_fputs \/ finger_FILE_fwrite
  PROVE  IInv'
<1>1. /\ handles' = handles /\ space' = space
      /\ space' \in [DOMAIN Cells -> Byte \cup Wide]
  BY DEF finger_FILE_fputs, finger_FILE_fwrite, Rejects, IInv, FileTypeOK
<1>2. CASE finger_FILE_fputs
  <2>1. PICK h \in Handle, str \in Contents :
          Rejects("P", h) \/ (valid_handle(handles, h) /\ Put("P", h, str))
    BY <1>2 DEF finger_FILE_fputs
  <2>2. str \in Seq(Byte)
    BY DEF FileAssumption
  <2> QED
    BY <1>1, <2>1, <2>2, PutKeepsIInv, UnchangedKeepsIInv DEF Rejects
<1>3. CASE finger_FILE_fwrite
  <2>1. PICK h \in Handle, n \in 0 .. MaxCount :
          \/ UNCHANGED streams
          \/ /\ valid_handle(handles, h)
             /\ Put("W", h, [i \in 1 .. n |->
                              ByteOf(space[At(handles, h).buffvect + i])])
    BY <1>3 DEF finger_FILE_fwrite, Rejects
  <2>2. CASE UNCHANGED streams
    BY <1>1, <2>2, UnchangedKeepsIInv
  <2>3. CASE ~UNCHANGED streams
    <3> DEFINE x == At(handles, h).buffvect
               bytes == [i \in 1 .. n |-> ByteOf(space[x + i])]
    <3>1. x \in Nat /\ x + MaxCount <= Len(Cells)
      BY <2>1, <2>3, HandleOfStream DEF FileAssumption
    <3>2. n \in Nat /\ n <= MaxCount /\ DOMAIN Cells = 1 .. Len(Cells)
          /\ Len(Cells) \in Nat /\ MaxCount \in Nat
      BY DEF FileAssumption
    <3>3. \A i \in 1 .. n : space[x + i] \in Byte \cup Wide
      <4> HIDE DEF x
      <4>1. \A i \in 1 .. n : x + i \in DOMAIN Cells
        BY <3>1, <3>2
      <4> QED
        BY <4>1 DEF IInv, FileTypeOK
    <3>4. \A c \in Byte \cup Wide : ByteOf(c) \in Byte
      BY DEF FileAssumption, ByteOf
    <3>5. bytes \in Seq(Byte)
      <4> HIDE DEF x
      <4> QED
        BY <3>2, <3>3, <3>4
    <3> QED
      BY <1>1, <2>1, <2>3, <3>5, PutKeepsIInv
  <2> QED
    BY <2>2, <2>3
<1> QED
  BY <1>2, <1>3

(* finger_FILE_fread: only the bytes that were read get to funge-space.    *)
LEMMA FreadKeepsIInv ==
  ASSUME FileAssumption, IInv, finger_FILE_fread
  PROVE  IInv'
<1>1. handles' = handles
  BY DEF finger_FILE_fread, Rejects
<1>2. CASE UNCHANGED <<streams, space>>
  BY <1>1, <1>2, UnchangedKeepsIInv DEF IInv, FileTypeOK
<1>3. CASE ~UNCHANGED <<streams, space>>
  <2>1. PICK h \in Handle, n \in 0 .. MaxCount :
          LET s == StreamOf(h)
              x == At(handles, h).buffvect
              got == Min({n, Len(Rest(s))})
          IN  /\ valid_handle(handles, h)
              /\ \/ /\ Turned(h, Read(s, got))
                    /\ space' = [c \in DOMAIN Cells |->
                                   IF c \in x + 1 .. x + got
                                     THEN Rest(s)[c - x] ELSE space[c]]
                 \/ /\ \E k \in 0 .. got : Turned(h, Read(s, k))
                    /\ UNCHANGED space
    BY <1>3 DEF finger_FILE_fread, Rejects
  <2> DEFINE s == StreamOf(h)
             x == At(handles, h).buffvect
             got == Min({n, Len(Rest(s))})
  <2>2. s \in OpenStream /\ x \in Nat
    BY <2>1, HandleOfStream DEF FileAssumption
  <2>3. /\ Rest(s) \in Seq(Byte) /\ Len(Rest(s)) \in Nat
        /\ got \in Nat /\ got <= Len(Rest(s))
    <3>1. Rest(s) \in Seq(Byte) /\ Len(Rest(s)) \in Nat /\ n \in Int
      BY <2>2, RestIsText
    <3> HIDE DEF s
    <3> QED
      BY <3>1, MinMaxOfTwo
  <2>4. space' \in [DOMAIN Cells -> Byte \cup Wide]
    <3> HIDE DEF s, x, got
    <3>1. CASE UNCHANGED space
      BY <3>1 DEF IInv, FileTypeOK
    <3>2. CASE space' = [c \in DOMAIN Cells |-> IF c \in x + 1 .. x + got
                                                 THEN Rest(s)[c - x] ELSE space[c]]
      <4>1. \A c \in x + 1 .. x + got : Rest(s)[c - x] \in Byte
        <5> SUFFICES ASSUME NEW c \in x + 1 .. x + got
                     PROVE  Rest(s)[c - x] \in Byte
          OBVIOUS
        <5>1. c - x \in 1 .. Len(Rest(s))
          BY <2>2, <2>3
        <5> QED
          BY <2>3, <5>1
      <4>2. \A c \in DOMAIN Cells : space[c] \in Byte \cup Wide
        BY DEF IInv, FileTypeOK
      <4> QED
        BY <3>2, <4>1, <4>2
    <3> QED
      BY <2>1, <3>1, <3>2 DEF s, x, got
  <2>5. PICK k \in Nat : Turned(h, Read(s, k))
    BY <2>1, <2>3
  <2>6. Read(s, k) \in OpenStream
    BY <2>2, ReadOpen
  <2> QED
    BY <1>1, <2>1, <2>4, <2>5, <2>6, TurnedKeepsIInv
<1> QED
  BY <1>2, <1>3

(* Every call of FILE.                                                     *)
LEMMA NextIInv == ASSUME FileAssumption PROVE IInv /\ [FileNext]_fileVars => IInv'
<1> SUFFICES ASSUME IInv, [FileNext]_fileVars PROVE IInv'
  OBVIOUS
<1>1. CASE finger_FILE_fopen \/ OpenFails
  BY <1>1, OpenKeepsIInv
<1>2. CASE finger_FILE_fclose
  <2>1. PICK h \in Handle :
          \/ UNCHANGED <<handles, streams, space>>
          \/ /\ valid_handle(handles, h) /\ Turned(h, Closed)
             /\ handles' = free_handle(handles, h) /\ space' = space
    BY <1>2 DEF finger_FILE_fclose, Rejects
  <2> QED
    BY <2>1, CloseKeepsIInv, UnchangedKeepsIInv DEF IInv, FileTypeOK
<1>3. CASE finger_FILE_delete \/ UNCHANGED fileVars
  <2>1. UNCHANGED <<handles, streams, space>>
    BY <1>3 DEF finger_FILE_delete, fileVars
  <2> QED
    BY <2>1, UnchangedKeepsIInv DEF IInv, FileTypeOK
<1>4. CASE finger_FILE_fgets \/ finger_FILE_ftell \/ finger_FILE_fseek
  BY <1>4, ReadingKeepsIInv
<1>5. CASE finger_FILE_fputs \/ finger_FILE_fwrite
  BY <1>5, WritingKeepsIInv
<1>6. CASE finger_FILE_fread
  BY <1>6, FreadKeepsIInv
<1> QED
  BY <1>1, <1>2, <1>3, <1>4, <1>5, <1>6 DEF FileNext

(* Before the first call there is neither a handle nor a stream.           *)
LEMMA InitIInv == ASSUME FileAssumption PROVE FileInit => IInv
<1> SUFFICES ASSUME FileInit PROVE IInv
  OBVIOUS
<1>1. handles \in Table(FileEntry) /\ Valid(handles) = {}
  BY TableFacts DEF FileInit
<1>2. streams \in [StreamName -> OpenStream \cup {Closed}]
  BY DEF FileInit
<1>3. space \in [DOMAIN Cells -> Byte \cup Wide]
  BY DEF FileInit, FileAssumption
<1>4. Matched
  BY <1>1 DEF FileInit, Matched
<1> QED
  BY <1>1, <1>2, <1>3, <1>4 DEF IInv, FileTypeOK

(* The handles, the streams and the cells keep their types, and handles    *)
(* and open streams correspond.                                            *)
THEOREM Invariance == ASSUME FileAssumption PROVE FileSpec => []IInv
BY InitIInv, NextIInv, PTL DEF FileSpec

(* However often files are opened, closed, refused and not found: every    *)
(* open stream has exactly one handle, and every handle an open stream.    *)
THEOREM EveryStreamHeld == ASSUME FileAssumption PROVE FileSpec => []StreamsHeld
<1>1. IInv => StreamsHeld
  BY HandleEntries DEF IInv, Matched, StreamsHeld
<1> QED
  BY <1>1, Invariance, PTL
-----------------------------------------------------------------------------
(* What fgets returns of a stream when it stops after n bytes, and what it *)
(* leaves of it.                                                           *)
LEMMA TakenAndLeft ==
  ASSUME NEW s \in OpenStream, NEW n \in 0 .. Len(Rest(s))
  PROVE  LET line == SubSeq(s.text, s.pos + 1, s.pos + n)
             left == Rest(Read(s, n))
         IN  /\ n \in 0 .. Len(Rest(s)) /\ Len(Rest(s)) \in Nat
             /\ line \in Seq(Byte) /\ Len(line) = n
             /\ \A i \in 1 .. n : line[i] = Rest(s)[i]
             /\ Len(left) = Len(Rest(s)) - n
             /\ Len(left) > 0 => left[1] = Rest(s)[n + 1]
<1> DEFINE text == s.text
           pos  == s.pos
           line == SubSeq(text, pos + 1, pos + n)
           left == Rest(Read(s, n))
<1>1. /\ n \in 0 .. Len(Rest(s)) /\ Len(Rest(s)) \in Nat /\ n \in Nat
      /\ text \in Seq(Byte) /\ pos \in Nat
      /\ Len(Rest(s)) = IF pos <= Len(text) THEN Len(text) - pos ELSE 0
      /\ \A i \in 1 .. Len(Rest(s)) : Rest(s)[i] = text[pos + i]
  BY RestIsText
<1>2. /\ Read(s, n) \in OpenStream
      /\ Read(s, n).text = text /\ Read(s, n).pos = pos + n
  BY <1>1, ReadOpen
<1>3. /\ Len(left) = IF pos + n <= Len(text) THEN Len(text) - (pos + n) ELSE 0
      /\ \A i \in 1 .. Len(left) : left[i] = text[pos + n + i]
  BY <1>2, RestIsText
<1> HIDE DEF text, pos, left
<1>4. /\ line \in Seq(Byte) /\ Len(line) = n
      /\ \A i \in 1 .. n : line[i] = text[pos + i]
  <2>1. CASE n = 0
    <3>1. line = <<>>
      BY <1>1, <2>1
    <3> HIDE DEF line
    <3>2. line \in Seq(Byte) /\ Len(line) = 0
      BY <3>1
    <3> QED
      BY <2>1, <3>2
  <2>2. CASE n # 0
    <3>1. pos + n <= Len(text)
      BY <1>1, <2>2
    <3>2. pos + 1 \in 1 .. Len(text) + 1 /\ pos + n \in pos + 1 - 1 .. Len(text)
      BY <1>1, <3>1
    <3>3. /\ line \in Seq(Byte) /\ Len(line) = pos + n - (pos + 1) + 1
          /\ \A i \in 1 .. pos + n - (pos + 1) + 1 :
               line[i] = text[pos + 1 + i - 1]
      BY <1>1, <3>2, SubSeqProperties
    <3> HIDE DEF line
    <3>4. /\ pos + n - (pos + 1) + 1 = n
          /\ \A i \in 1 .. n : pos + 1 + i - 1 = pos + i
      BY <1>1
    <3>5. \A i \in 1 .. n : line[i] = text[pos + i]
      BY <3>3, <3>4
    <3> QED
      BY <3>3, <3>4, <3>5
  <2> QED
    BY <2>1, <2>2
<1> HIDE DEF line
<1>5. /\ Len(left) = Len(Rest(s)) - n
      /\ Len(left) > 0 => left[1] = Rest(s)[n + 1]
  <2>1. Len(left) = Len(Rest(s)) - n
    BY <1>1, <1>3
  <2>2. ASSUME Len(left) > 0 PROVE left[1] = Rest(s)[n + 1]
    <3>1. 1 \in 1 .. Len(left) /\ n + 1 \in 1 .. Len(Rest(s))
      BY <1>1, <2>1, <2>2
    <3>2. left[1] = text[pos + n + 1] /\ Rest(s)[n + 1] = text[pos + (n + 1)]
      BY <1>1, <1>3, <3>1
    <3> QED
      BY <1>1, <3>2
  <2> QED
    BY <2>1, <2>2
<1>6. \A i \in 1 .. n : line[i] = Rest(s)[i]
  BY <1>1, <1>4
<1> QED
  BY <1>1, <1>4, <1>5, <1>6 DEF line, left, text, pos

(* It is one whole line, or the end of the text.                           *)
LEMMA LineIsWhole ==
  ASSUME CR # LF, NEW s \in OpenStream, NEW n, n = LineLength(Rest(s))
  PROVE  LET line == SubSeq(s.text, s.pos + 1, s.pos + n)
             left == Rest(Read(s, n))
         IN  /\ \A i \in 1 .. Len(line) - 1 :
                  line[i] \in {CR, LF} =>
                    i = Len(line) - 1 /\ line[i] = CR /\ line[i + 1] = LF
             /\ line = <<>> \/ Last(line) \notin {CR, LF} => left = <<>>
             /\ left # <<>> /\ Head(left) = LF => Last(line) # CR
<1> DEFINE rest == Rest(s)
           line == SubSeq(s.text, s.pos + 1, s.pos + n)
           left == Rest(Read(s, n))
<1>1. /\ rest \in Seq(Byte) /\ Len(rest) \in Nat /\ n \in Nat
      /\ n <= Len(rest) /\ line \in Seq(Byte)
      /\ Len(line) = n /\ \A i \in 1 .. n : line[i] = rest[i]
      /\ Len(left) = Len(rest) - n
      /\ Len(left) > 0 => left[1] = rest[n + 1]
  <2>1. rest \in Seq(Byte) /\ Len(rest) \in Nat
    BY RestIsText
  <2>2. n \in 0 .. Len(rest)
    BY <2>1, LineLengthOf
  <2>3. /\ Len(line) = n /\ \A i \in 1 .. n : line[i] = rest[i]
        /\ Len(left) = Len(rest) - n
        /\ Len(left) > 0 => left[1] = rest[n + 1]
        /\ line \in Seq(Byte)
    BY <2>2, TakenAndLeft
  <2> HIDE DEF rest, line, left
  <2> QED
    BY <2>1, <2>2, <2>3
<1>2. left \in Seq(Byte)
  BY <1>1, ReadOpen, RestIsText
<1>3. \/ /\ \A i \in 1 .. Len(rest) : rest[i] \notin {CR, LF}
         /\ n = Len(rest)
      \/ \E e \in 1 .. Len(rest) :
           /\ rest[e] \in {CR, LF}
           /\ \A i \in 1 .. e - 1 : rest[i] \notin {CR, LF}
           /\ IF rest[e] = CR /\ e < Len(rest) /\ rest[e + 1] = LF
                THEN n = e + 1 ELSE n = e
  BY <1>1, LineLengthOf
<1>4. line \in Seq(Byte)
  BY <1>1
<1> HIDE DEF rest, line, left
<1>5. Last(line) = line[n] /\ (left # <<>> => Len(left) > 0 /\ Head(left) = left[1])
  BY <1>1, <1>2, <1>4 DEF Last
<1>6. left = <<>> <=> Len(left) = 0
  BY <1>2
<1>7. CASE /\ \A i \in 1 .. Len(rest) : rest[i] \notin {CR, LF}
           /\ n = Len(rest)
  <2>1. left = <<>>
    BY <1>1, <1>6, <1>7
  <2>2. \A i \in 1 .. Len(line) - 1 : line[i] \notin {CR, LF}
    BY <1>1, <1>7
  <2> QED
    BY <2>1, <2>2 DEF rest, line, left
<1>8. CASE \E e \in 1 .. Len(rest) :
             /\ rest[e] \in {CR, LF}
             /\ \A i \in 1 .. e - 1 : rest[i] \notin {CR, LF}
             /\ IF rest[e] = CR /\ e < Len(rest) /\ rest[e + 1] = LF
                  THEN n = e + 1 ELSE n = e
  <2>1. PICK e \in 1 .. Len(rest) :
             /\ rest[e] \in {CR, LF}
             /\ \A i \in 1 .. e - 1 : rest[i] \notin {CR, LF}
             /\ IF rest[e] = CR /\ e < Len(rest) /\ rest[e + 1] = LF
                  THEN n = e + 1 ELSE n = e
    BY <1>8
  <2>2. e \in Nat /\ 0 < e /\ e <= Len(rest)
    BY <1>1
  <2>3. /\ n > 0 /\ n \in 1 .. n /\ line # <<>> /\ line[n] = rest[n]
        /\ rest[n] \in {CR, LF}
    BY <1>1, <1>4, <2>1, <2>2
  <2>4. ASSUME NEW i \in 1 .. Len(line) - 1, line[i] \in {CR, LF}
        PROVE  i = Len(line) - 1 /\ line[i] = CR /\ line[i + 1] = LF
    <3>1. i \in 1 .. n /\ i + 1 \in 1 .. n /\ rest[i] \in {CR, LF}
      BY <1>1, <2>4
    <3>2. i >= e
      BY <2>1, <2>2, <3>1
    <3>3. n = e + 1 /\ rest[e] = CR /\ rest[e + 1] = LF
      BY <1>1, <2>1, <2>2, <3>1, <3>2
    <3>4. i = e
      BY <1>1, <2>2, <3>1, <3>2, <3>3
    <3> QED
      BY <1>1, <3>1, <3>3, <3>4
  <2>5. ASSUME left # <<>>, Head(left) = LF PROVE Last(line) # CR
    <3>1. rest[n + 1] = LF /\ n < Len(rest)
      BY <1>1, <1>5, <2>5
    <3> QED
      BY <1>5, <2>1, <2>3, <3>1
  <2> QED
    BY <1>5, <2>3, <2>4, <2>5 DEF rest, line, left
<1> QED
  BY <1>3, <1>7, <1>8

(* When the read after the carriage return fails, the line ends with it    *)
(* and the line feed is what comes next.                                   *)
LEMMA LineIsTorn ==
  ASSUME CR # LF, NEW s \in OpenStream, NEW n, n = LineLength(Rest(s)),
         n > 1, Rest(s)[n - 1] = CR
  PROVE  LET line == SubSeq(s.text, s.pos + 1, s.pos + (n - 1))
             left == Rest(Read(s, n - 1))
         IN  /\ \A i \in 1 .. Len(line) - 1 : line[i] \notin {CR, LF}
             /\ line # <<>> /\ Last(line) = CR
             /\ left # <<>> /\ Head(left) = LF
<1> DEFINE rest == Rest(s)
           line == SubSeq(s.text, s.pos + 1, s.pos + (n - 1))
           left == Rest(Read(s, n - 1))
<1>1. rest \in Seq(Byte) /\ Len(rest) \in Nat
  BY RestIsText
<1>2. n \in 0 .. Len(rest)
  BY <1>1, LineLengthOf
<1>3. n - 1 \in 0 .. Len(rest) /\ n - 1 \in Nat
  BY <1>1, <1>2
<1>4. /\ line \in Seq(Byte) /\ Len(line) = n - 1
      /\ \A i \in 1 .. n - 1 : line[i] = rest[i]
      /\ Len(left) = Len(rest) - (n - 1)
      /\ Len(left) > 0 => left[1] = rest[(n - 1) + 1]
  BY <1>3, TakenAndLeft
<1>5. left \in Seq(Byte)
  BY <1>3, ReadOpen, RestIsText
<1>6. \/ /\ \A i \in 1 .. Len(rest) : rest[i] \notin {CR, LF}
         /\ n = Len(rest)
      \/ \E e \in 1 .. Len(rest) :
           /\ rest[e] \in {CR, LF}
           /\ \A i \in 1 .. e - 1 : rest[i] \notin {CR, LF}
           /\ IF rest[e] = CR /\ e < Len(rest) /\ rest[e + 1] = LF
                THEN n = e + 1 ELSE n = e
  BY <1>1, LineLengthOf
<1> HIDE DEF rest, line, left
<1>7. n - 1 \in 1 .. Len(rest) /\ rest[n - 1] = CR
  BY <1>1, <1>2 DEF rest
<1>8. rest[n] = LF /\ \A i \in 1 .. n - 2 : rest[i] \notin {CR, LF}
  <2>1. PICK e \in 1 .. Len(rest) :
             /\ rest[e] \in {CR, LF}
             /\ \A i \in 1 .. e - 1 : rest[i] \notin {CR, LF}
             /\ IF rest[e] = CR /\ e < Len(rest) /\ rest[e + 1] = LF
                  THEN n = e + 1 ELSE n = e
    BY <1>6, <1>7
  <2>2. CASE n = e
    <3>1. n - 1 \in 1 .. e - 1
      BY <1>1, <1>7, <2>2
    <3> QED
      BY <1>7, <2>1, <3>1
  <2>3. CASE n # e
    <3>1. n = e + 1 /\ rest[e + 1] = LF
      BY <2>1, <2>3
    <3> QED
      BY <1>1, <2>1, <3>1
  <2> QED
    BY <2>2, <2>3
<1>9. /\ line # <<>> /\ Last(line) = CR
      /\ \A i \in 1 .. Len(line) - 1 : line[i] \notin {CR, LF}
  <2>1. n - 1 \in 1 .. n - 1 /\ line # <<>>
    BY <1>2, <1>4
  <2>2. Last(line) = line[n - 1]
    BY <1>4 DEF Last
  <2>3. \A i \in 1 .. n - 2 : line[i] = rest[i]
    BY <1>2, <1>4
  <2>4. Len(line) - 1 = n - 2
    BY <1>2, <1>4
  <2> QED
    BY <1>4, <1>7, <1>8, <2>1, <2>2, <2>3, <2>4
<1>10. left # <<>> /\ Head(left) = LF
  <2>1. Len(left) > 0 /\ (n - 1) + 1 = n
    BY <1>1, <1>2, <1>4
  <2> QED
    BY <1>4, <1>5, <1>8, <2>1
<1> QED
  BY <1>9, <1>10 DEF line, left

(* G takes one whole line, for every text a file may hold and every        *)
(* position in it: no line end in the middle of what it pushes, no text    *)
(* left when there is none at its end, and a carriage return parted from   *)
(* its line feed exactly when the read after it fails, which G does not    *)
(* notice.                                                                 *)
THEOREM LinesReadWhole == ASSUME FileAssumption PROVE FileSpec => LinesWhole
<1> DEFINE Whole ==
      said'.call = "G" /\ ~said'.reflects =>
        LET h    == said'.handle
            old  == StreamOf(h)
            new  == streams'[At(handles, h).file]
            line == said'.pushed
        IN  /\ line = SubSeq(old.text, old.pos + 1, new.pos)
            /\ \A i \in 1 .. Len(line) - 1 :
                  line[i] \in {CR, LF} => i = Len(line) - 1 /\ line[i] = CR /\ line[i + 1] = LF
            /\ line = <<>> \/ Last(line) \notin {CR, LF} => Rest(new) = <<>>
            /\ said'.unnoticed <=>
                  Rest(new) # <<>> /\ Head(Rest(new)) = LF /\ Last(line) = CR
<1>1. IInv /\ [FileNext]_fileVars => [Whole]_fileVars
  <2> SUFFICES ASSUME IInv, FileNext PROVE Whole
    OBVIOUS
  <2>1. CASE ~finger_FILE_fgets
    <3>1. \A call, h, pushed, reflects :
            Says(call, h, pushed, reflects) => said'.call = call
      BY DEF Says, Outcome
    <3>2. CASE finger_FILE_fopen \/ OpenFails
      BY <3>1, <3>2 DEF finger_FILE_fopen, OpenFails
    <3>3. CASE finger_FILE_fclose \/ finger_FILE_delete
      BY <3>1, <3>3 DEF finger_FILE_fclose, finger_FILE_delete, Rejects
    <3>4. CASE finger_FILE_ftell
      BY <3>1, <3>4 DEF finger_FILE_ftell, Rejects
    <3>5. CASE finger_FILE_fseek
      BY <3>1, <3>5 DEF finger_FILE_fseek, Rejects
    <3>6. CASE finger_FILE_fputs \/ finger_FILE_fwrite
      BY <3>1, <3>6 DEF finger_FILE_fputs, finger_FILE_fwrite, Rejects, Put
    <3>7. CASE finger_FILE_fread
      BY <3>1, <3>7 DEF finger_FILE_fread, Rejects
    <3> QED
      BY <2>1, <3>2, <3>3, <3>4, <3>5, <3>6, <3>7 DEF FileNext
  <2>2. CASE finger_FILE_fgets
    <3>1. PICK h \in Handle :
            \/ said'.reflects
            \/ LET s == StreamOf(h)
                   n == LineLength(Rest(s))
               IN  /\ valid_handle(handles, h)
                   /\ \/ /\ Turned(h, Read(s, n))
                         /\ Outcome("G", h, SubSeq(s.text, s.pos + 1, s.pos + n), FALSE, FALSE)
                      \/ /\ n > 1 /\ Rest(s)[n - 1] = CR
                         /\ Turned(h, Read(s, n - 1))
                         /\ Outcome("G", h, SubSeq(s.text, s.pos + 1, s.pos + (n - 1)),
                                 FALSE, TRUE)
      BY <2>2 DEF finger_FILE_fgets, Rejects, Says, Outcome
    <3> DEFINE s == StreamOf(h)
               n == LineLength(Rest(s))
    <3>2. CASE said'.reflects
      BY <3>2
    <3>3. ASSUME ~said'.reflects
          PROVE  /\ s \in OpenStream /\ At(handles, h).file \in StreamName
                 /\ n \in Nat /\ CR # LF
      <4>1. valid_handle(handles, h)
        BY <3>1, <3>3
      <4>2. s \in OpenStream /\ At(handles, h).file \in StreamName
        BY <4>1, HandleOfStream
      <4> QED
        BY <4>2, RestIsText, LineLengthOf DEF FileAssumption
    <3>4. ASSUME ~said'.reflects, NEW k \in Nat, Turned(h, Read(s, k))
          PROVE  /\ streams'[At(handles, h).file] = Read(s, k)
                 /\ Read(s, k).pos = s.pos + k
      <4>1. streams'[At(handles, h).file] = Read(s, k)
        BY <3>3, <3>4 DEF Turned, IInv, FileTypeOK
      <4> QED
        BY <3>3, <3>4, <4>1, ReadOpen
    <3>5. CASE /\ ~said'.reflects /\ Turned(h, Read(s, n))
               /\ Outcome("G", h, SubSeq(s.text, s.pos + 1, s.pos + n), FALSE, FALSE)
      <4> DEFINE line == SubSeq(s.text, s.pos + 1, s.pos + n)
                 left == Rest(Read(s, n))
      <4>1. said'.handle = h /\ said'.pushed = line /\ said'.unnoticed = FALSE
        BY <3>5 DEF Outcome
      <4>2. /\ streams'[At(handles, h).file] = Read(s, n)
            /\ Read(s, n).pos = s.pos + n
        BY <3>3, <3>4, <3>5
      <4>3. /\ \A i \in 1 .. Len(line) - 1 :
                 line[i] \in {CR, LF} =>
                   i = Len(line) - 1 /\ line[i] = CR /\ line[i + 1] = LF
            /\ line = <<>> \/ Last(line) \notin {CR, LF} => left = <<>>
            /\ left # <<>> /\ Head(left) = LF => Last(line) # CR
        BY <3>3, <3>5, LineIsWhole
      <4>4. line = SubSeq(s.text, s.pos + 1, Read(s, n).pos)
        BY <4>2
      <4> HIDE DEF s, n, line
      <4> QED
        BY <4>1, <4>2, <4>3, <4>4 DEF s
    <3>6. CASE /\ ~said'.reflects /\ n > 1 /\ Rest(s)[n - 1] = CR
               /\ Turned(h, Read(s, n - 1))
               /\ Outcome("G", h, SubSeq(s.text, s.pos + 1, s.pos + (n - 1)), FALSE, TRUE)
      <4> DEFINE line == SubSeq(s.text, s.pos + 1, s.pos + (n - 1))
                 left == Rest(Read(s, n - 1))
      <4>1. said'.handle = h /\ said'.pushed = line /\ said'.unnoticed = TRUE
        BY <3>6 DEF Outcome
      <4>2. n - 1 \in Nat
        BY <3>3, <3>6
      <4>3. /\ streams'[At(handles, h).file] = Read(s, n - 1)
            /\ Read(s, n - 1).pos = s.pos + (n - 1)
        BY <3>4, <3>6, <4>2
      <4>4. /\ \A i \in 1 .. Len(line) - 1 : line[i] \notin {CR, LF}
            /\ line # <<>> /\ Last(line) = CR
            /\ left # <<>> /\ Head(left) = LF
        BY <3>3, <3>6, LineIsTorn
      <4>5. line = SubSeq(s.text, s.pos + 1, Read(s, n - 1).pos)
        BY <4>3
      <4> HIDE DEF s, n, line
      <4> QED
        BY <4>1, <4>3, <4>4, <4>5 DEF s
    <3> QED
      BY <3>1, <3>2, <3>5, <3>6
  <2> QED
    BY <2>1, <2>2
<1> QED
  BY <1>1, Invariance, PTL DEF FileSpec, LinesWhole

-----------------------------------------------------------------------------
(* SOCK and SCKE.                                                          *)
Descriptor  == -1 .. MaxDescriptor
SocketEntry == [fd : Descriptor, family : Family \cup {"unset"}]

SocketTypeOK == /\ sockets \in Table(SocketEntry)
                /\ descriptors \subseteq 0 .. MaxDescriptor

SocketInv == SocketTypeOK /\ SocketsHeld

-----------------------------------------------------------------------------
(* A valid handle has a descriptor and a family.                           *)
LEMMA SocketEntries ==
  ASSUME SocketTypeOK
  PROVE  \A h \in Valid(sockets) : /\ DescriptorOf(h) \in Descriptor
                                   /\ At(sockets, h).family \in Family \cup {"unset"}
<1>1. \A h \in Valid(sockets) : At(sockets, h) \in SocketEntry
  BY TableFacts DEF SocketTypeOK
<1>2. \A e \in SocketEntry : e.fd \in Descriptor /\ e.family \in Family \cup {"unset"}
  BY DEF SocketEntry
<1> QED
  BY <1>1, <1>2 DEF DescriptorOf

(* The kernel gives out a descriptor that was not open.                    *)
LEMMA LowestUnclosed ==
  ASSUME Unclosed # {}
  PROVE  Lowest \in Unclosed /\ Lowest \in 0 .. MaxDescriptor
<1>1. Unclosed \in SUBSET Nat
  BY DEF Unclosed
<1>2. Lowest \in Unclosed
  BY <1>1, Least DEF Lowest
<1> QED
  BY <1>2 DEF Unclosed

(* One handle more and no descriptor, or the one it stands for.            *)
LEMMA AllocateKeepsSockets ==
  ASSUME SocketAssumption, SocketInv, NEW entry \in SocketEntry,
         sockets' = allocate_handle(sockets, entry),
         \/ descriptors' = descriptors
         \/ descriptors' = descriptors \cup {entry.fd} /\ entry.fd >= 0
  PROVE  SocketInv'
<1>1. NoEntry \notin SocketEntry
  BY DEF SocketAssumption, SocketEntry, Descriptor, Family
<1>2. /\ sockets' \in Table(SocketEntry)
      /\ Valid(sockets') = Valid(sockets) \cup {NextFree(sockets)}
      /\ At(sockets', NextFree(sockets)) = entry
      /\ \A g \in Valid(sockets) : At(sockets', g) = At(sockets, g)
  BY <1>1, AllocateHandle DEF SocketInv, SocketTypeOK
<1>3. SocketTypeOK'
  <2>1. entry.fd \in Descriptor
    BY DEF SocketEntry
  <2>2. entry.fd >= 0 => entry.fd \in 0 .. MaxDescriptor
    BY <2>1 DEF Descriptor, SocketAssumption
  <2> QED
    BY <1>2, <2>2 DEF SocketInv, SocketTypeOK
<1>4. SocketsHeld'
  <2> SUFFICES ASSUME NEW d \in descriptors'
               PROVE  \E h \in Valid(sockets') : At(sockets', h).fd = d
    BY DEF SocketsHeld, DescriptorOf
  <2>1. CASE d = entry.fd
    BY <1>2, <2>1
  <2>2. CASE d # entry.fd
    <3>1. d \in descriptors
      BY <2>2
    <3>2. PICK h \in Valid(sockets) : At(sockets, h).fd = d
      BY <3>1 DEF SocketInv, SocketsHeld, DescriptorOf
    <3> QED
      BY <1>2, <3>2
  <2> QED
    BY <2>1, <2>2
<1> QED
  BY <1>3, <1>4 DEF SocketInv

(* A table without a new entry, and no descriptor more.                    *)
LEMMA StarvedKeepsSockets ==
  ASSUME SocketInv, sockets' = sockets \/ sockets' \in Starved(sockets),
         descriptors' = descriptors
  PROVE  SocketInv'
<1>1. /\ sockets' \in Table(SocketEntry) /\ Valid(sockets') = Valid(sockets)
      /\ \A h \in Valid(sockets) : At(sockets', h) = At(sockets, h)
  BY TableFacts DEF SocketInv, SocketTypeOK
<1> QED
  BY <1>1 DEF SocketInv, SocketTypeOK, SocketsHeld, DescriptorOf

(* finger_SOCK_create: in each of its outcomes.                            *)
LEMMA CreateKeepsSockets ==
  ASSUME SocketAssumption, SocketInv, finger_SOCK_create
  PROVE  SocketInv'
<1>1. PICK fam \in Family :
        \/ sockets' \in Starved(sockets) /\ descriptors' = descriptors
        \/ /\ sockets' = allocate_handle(sockets, [fd |-> Invalid, family |-> "unset"])
           /\ descriptors' = descriptors
        \/ /\ Unclosed # {}
           /\ sockets' = allocate_handle(sockets, [fd |-> Lowest, family |-> "unset"])
           /\ descriptors' = descriptors
        \/ /\ Unclosed # {}
           /\ sockets' = allocate_handle(sockets, [fd |-> Lowest, family |-> fam])
           /\ descriptors' = descriptors \cup {Lowest}
  BY DEF finger_SOCK_create
<1>2. CASE sockets' \in Starved(sockets) /\ descriptors' = descriptors
  BY <1>2, StarvedKeepsSockets
<1>3. CASE /\ sockets' = allocate_handle(sockets, [fd |-> Invalid, family |-> "unset"])
           /\ descriptors' = descriptors
  <2>1. [fd |-> Invalid, family |-> "unset"] \in SocketEntry
    BY DEF SocketEntry, Descriptor, Invalid, SocketAssumption
  <2> QED
    BY <1>3, <2>1, AllocateKeepsSockets
<1>4. CASE /\ Unclosed # {}
           /\ \E f \in {"unset", fam} :
                sockets' = allocate_handle(sockets, [fd |-> Lowest, family |-> f])
           /\ descriptors' = descriptors \/ descriptors' = descriptors \cup {Lowest}
  <2>1. PICK f \in {"unset", fam} :
          sockets' = allocate_handle(sockets, [fd |-> Lowest, family |-> f])
    BY <1>4
  <2>2. Lowest \in 0 .. MaxDescriptor
    BY <1>4, LowestUnclosed
  <2> DEFINE entry == [fd |-> Lowest, family |-> f]
  <2>3. entry \in SocketEntry /\ entry.fd = Lowest /\ entry.fd >= 0
    BY <2>2 DEF SocketEntry, Descriptor, SocketAssumption
  <2> HIDE DEF entry
  <2>4. sockets' = allocate_handle(sockets, entry)
    BY <2>1 DEF entry
  <2> QED
    BY <1>4, <2>3, <2>4, AllocateKeepsSockets
<1> QED
  BY <1>1, <1>2, <1>3, <1>4

(* finger_SOCK_accept: the new socket has the family of the one it came    *)
(* from.                                                                   *)
LEMMA AcceptKeepsSockets ==
  ASSUME SocketAssumption, SocketInv, finger_SOCK_accept
  PROVE  SocketInv'
<1>1. PICK s \in SocketHandle :
        \/ /\ sockets' = sockets \/ sockets' \in Starved(sockets)
           /\ descriptors' = descriptors
        \/ /\ Works(s) /\ Unclosed # {}
           /\ sockets' = allocate_handle(sockets,
                             [fd |-> Lowest, family |-> At(sockets, s).family])
           /\ descriptors' = descriptors \cup {Lowest}
  BY DEF finger_SOCK_accept
<1>2. CASE /\ sockets' = sockets \/ sockets' \in Starved(sockets)
           /\ descriptors' = descriptors
  BY <1>2, StarvedKeepsSockets
<1>3. CASE /\ Works(s) /\ Unclosed # {}
           /\ sockets' = allocate_handle(sockets,
                             [fd |-> Lowest, family |-> At(sockets, s).family])
           /\ descriptors' = descriptors \cup {Lowest}
  <2>1. s \in Valid(sockets)
    BY <1>3, TableFacts DEF Works, SocketInv, SocketTypeOK
  <2>2. At(sockets, s).family \in Family \cup {"unset"}
    BY <2>1, SocketEntries DEF SocketInv
  <2>3. Lowest \in 0 .. MaxDescriptor
    BY <1>3, LowestUnclosed
  <2> DEFINE entry == [fd |-> Lowest, family |-> At(sockets, s).family]
  <2>4. entry \in SocketEntry /\ entry.fd = Lowest /\ entry.fd >= 0
    BY <2>2, <2>3 DEF SocketEntry, Descriptor, SocketAssumption
  <2>5. sockets' = allocate_handle(sockets, entry)
    BY <1>3
  <2> HIDE DEF entry
  <2> QED
    BY <1>3, <2>4, <2>5, AllocateKeepsSockets
<1> QED
  BY <1>1, <1>2, <1>3

(* finger_SOCK_kill: the handle is gone, and the descriptor it stood for   *)
(* is not open any more, whichever other handles have it.                  *)
LEMMA KillKeepsSockets ==
  ASSUME SocketAssumption, SocketInv, finger_SOCK_kill
  PROVE  SocketInv'
<1>1. PICK s \in SocketHandle :
        \/ Keeps
        \/ /\ valid_handle(sockets, s)
           /\ sockets' = free_handle(sockets, s)
           /\ descriptors' = descriptors \ {DescriptorOf(s)}
  BY DEF finger_SOCK_kill
<1>2. CASE Keeps
  BY <1>2, StarvedKeepsSockets DEF Keeps
<1>3. CASE /\ valid_handle(sockets, s)
           /\ sockets' = free_handle(sockets, s)
           /\ descriptors' = descriptors \ {DescriptorOf(s)}
  <2>1. s \in Valid(sockets) /\ NoEntry \notin SocketEntry
    BY <1>3, TableFacts DEF SocketInv, SocketTypeOK, SocketAssumption, SocketEntry,
       Descriptor, Family
  <2>2. /\ sockets' \in Table(SocketEntry) /\ Valid(sockets') = Valid(sockets) \ {s}
        /\ \A g \in Valid(sockets') : At(sockets', g) = At(sockets, g)
    BY <1>3, <2>1, FreeHandle DEF SocketInv, SocketTypeOK
  <2> QED
    BY <1>3, <2>2 DEF SocketInv, SocketTypeOK, SocketsHeld, DescriptorOf
<1> QED
  BY <1>1, <1>2, <1>3

(* Every call of SOCK and SCKE.                                            *)
LEMMA SocketStep ==
  ASSUME SocketAssumption
  PROVE  SocketInv /\ [SocketNext]_socketVars => SocketInv'
<1> SUFFICES ASSUME SocketInv, [SocketNext]_socketVars PROVE SocketInv'
  OBVIOUS
<1>1. CASE finger_SOCK_create \/ finger_SOCK_accept \/ finger_SOCK_kill
  BY <1>1, CreateKeepsSockets, AcceptKeepsSockets, KillKeepsSockets
<1>2. CASE ~(finger_SOCK_create \/ finger_SOCK_accept \/ finger_SOCK_kill)
  <2>1. Keeps
    BY <1>2 DEF SocketNext, socketVars, Keeps, Tries, finger_SOCK_bind,
       finger_SOCK_open, finger_SOCK_listen, finger_SOCK_setopt,
       finger_SOCK_fromascii, finger_SOCK_receive, finger_SOCK_write,
       finger_SCKE_gethostbyname, finger_SCKE_peek
  <2> QED
    BY <2>1, StarvedKeepsSockets DEF Keeps
<1> QED
  BY <1>1, <1>2

(* Every open descriptor can be closed through a handle, for any number of *)
(* sockets created, accepted and killed, and any calls that failed.        *)
THEOREM EverySocketHeld == ASSUME SocketAssumption PROVE SocketSpec => []SocketsHeld
<1>1. SocketInit => SocketInv
  BY TableFacts DEF SocketInit, SocketInv, SocketTypeOK, SocketsHeld
<1>2. SocketInv => SocketsHeld
  BY DEF SocketInv
<1> QED
  BY <1>1, <1>2, SocketStep, PTL DEF SocketSpec

-----------------------------------------------------------------------------
(* The array of references is always longer than what is in use, by the    *)
(* item with index 0.                                                      *)
RefTypeOK == /\ references \in Seq(Vector \cup {NoVector})
             /\ referencesTop \in Nat /\ referencesTop < referencesSize
             /\ made \in Seq(Vector)

RefInv == RefTypeOK /\ ReferencesKept

(* A vector put into an array with room for it, which the array it was     *)
(* made of is the beginning of.                                            *)
LEMMA StoredKeepsReferences ==
  ASSUME RefInv, NEW v \in Vector, NEW array \in Seq(Vector \cup {NoVector}),
         referencesTop + 2 <= Len(array), Len(references) <= Len(array),
         \A i \in 1 .. Len(references) : array[i] = references[i],
         Stored(array, v)
  PROVE  RefInv'
<1>1. /\ references' = [array EXCEPT ![referencesTop + 2] = v]
      /\ referencesTop' = referencesTop + 1
      /\ made' = Append(made, v) /\ answer' = <<referencesTop + 1>>
  BY DEF Stored
<1>2. /\ referencesTop \in Nat /\ referencesTop < Len(references)
      /\ made \in Seq(Vector) /\ referencesTop = Len(made)
      /\ \A i \in 1 .. referencesTop : references[i + 1] = made[i]
      /\ Len(references) \in Nat /\ Len(array) \in Nat
  BY DEF RefInv, RefTypeOK, ReferencesKept, Item, referencesSize
<1>3. /\ references' \in Seq(Vector \cup {NoVector})
      /\ Len(references') = Len(array)
      /\ \A i \in 1 .. Len(array) :
           references'[i] = IF i = referencesTop + 2 THEN v ELSE array[i]
  BY <1>1, <1>2
<1>4. /\ made' \in Seq(Vector) /\ Len(made') = referencesTop'
      /\ \A i \in 1 .. referencesTop' :
           made'[i] = IF i = referencesTop' THEN v ELSE made[i]
  BY <1>1, <1>2
<1>5. ASSUME NEW i \in 1 .. referencesTop'
      PROVE  i < Len(references') /\ references'[i + 1] = made'[i]
  <2>1. CASE i = referencesTop'
    BY <1>1, <1>2, <1>3, <1>4, <2>1
  <2>2. CASE i # referencesTop'
    <3>1. i \in 1 .. referencesTop /\ i + 1 \in 1 .. Len(references)
      BY <1>1, <1>2, <2>2
    <3> QED
      BY <1>1, <1>2, <1>3, <1>4, <2>2, <3>1
  <2> QED
    BY <2>1, <2>2
<1>6. RefTypeOK'
  BY <1>1, <1>2, <1>3, <1>4 DEF RefTypeOK, referencesSize
<1>7. Len(answer') # 2
  BY <1>1
<1> QED
  BY <1>4, <1>5, <1>6, <1>7 DEF RefInv, ReferencesKept, Item, referencesSize

(* R, whether the array has room, has to move, or cannot.                  *)
LEMMA ReferenceKeepsReferences ==
  ASSUME RefInv, finger_REFC_reference
  PROVE  RefInv'
<1>1. /\ references \in Seq(Vector \cup {NoVector}) /\ Len(references) \in Nat
      /\ referencesTop \in Nat /\ referencesTop < Len(references)
  BY DEF RefInv, RefTypeOK, referencesSize
<1>2. PICK v \in Vector :
        \/ ~Full /\ Stored(references, v)
        \/ Full /\ Stored(references \o Chunk, v)
        \/ answer' = <<>> /\ UNCHANGED <<references, referencesTop, made>>
  BY DEF finger_REFC_reference
<1>3. CASE ~Full /\ Stored(references, v)
  <2>1. referencesTop + 2 <= Len(references)
    BY <1>1, <1>3 DEF Full, referencesSize
  <2> QED
    BY <1>1, <1>3, <2>1, StoredKeepsReferences
<1>4. CASE Full /\ Stored(references \o Chunk, v)
  <2> DEFINE array == references \o Chunk
  <2>1. Chunk = <<NoVector, NoVector, NoVector, NoVector, NoVector>>
    BY DEF Chunk, REFCCHUNK
  <2>2. /\ array \in Seq(Vector \cup {NoVector})
        /\ Len(array) = Len(references) + 5
        /\ \A i \in 1 .. Len(references) : array[i] = references[i]
    BY <1>1, <2>1
  <2>3. Stored(array, v)
    BY <1>4
  <2> HIDE DEF array
  <2>4. referencesTop + 2 <= Len(array) /\ Len(references) <= Len(array)
    BY <1>1, <2>2
  <2> QED
    BY <2>2, <2>3, <2>4, StoredKeepsReferences
<1>5. CASE answer' = <<>> /\ UNCHANGED <<references, referencesTop, made>>
  BY <1>5 DEF RefInv, RefTypeOK, ReferencesKept, Item, referencesSize
<1> QED
  BY <1>2, <1>3, <1>4, <1>5

(* D answers with what R was given.                                        *)
LEMMA DereferenceKeepsReferences ==
  ASSUME RefInv, finger_REFC_dereference
  PROVE  RefInv'
<1>1. PICK ref \in -1 .. MaxReferences + 1 :
        /\ answer' = IF ref <= 0 \/ ref > referencesTop THEN <<>>
                     ELSE <<ref, Item(ref)>>
        /\ UNCHANGED <<references, referencesTop, made>>
  BY DEF finger_REFC_dereference
<1>2. Len(answer') = 2 => answer'[2] = made'[answer'[1]]
  <2>1. CASE ref <= 0 \/ ref > referencesTop
    BY <1>1, <2>1
  <2>2. CASE ~(ref <= 0 \/ ref > referencesTop)
    <3>1. ref \in 1 .. referencesTop
      BY <2>2 DEF RefInv, RefTypeOK
    <3>2. Item(ref) = made[ref]
      BY <3>1 DEF RefInv, ReferencesKept
    <3> QED
      BY <1>1, <2>2, <3>2
  <2> QED
    BY <2>1, <2>2
<1> QED
  BY <1>1, <1>2 DEF RefInv, RefTypeOK, ReferencesKept, Item, referencesSize

(* A reference leads to the vector R was given, whatever was referenced    *)
(* after it and however often the array moved.                             *)
THEOREM EveryReferenceKept == RefSpec => []ReferencesKept
<1>1. RefInit => RefInv
  <2> SUFFICES ASSUME RefInit PROVE RefInv
    OBVIOUS
  <2>1. references = <<NoVector, NoVector, NoVector, NoVector, NoVector>>
    BY DEF RefInit, Chunk, REFCCHUNK
  <2>2. RefTypeOK
    BY <2>1 DEF RefInit, RefTypeOK, referencesSize
  <2>3. ReferencesKept
    BY DEF RefInit, ReferencesKept
  <2> QED
    BY <2>2, <2>3 DEF RefInv
<1>2. RefInv /\ [RefNext]_refVars => RefInv'
  <2>1. RefInv /\ UNCHANGED refVars => RefInv'
    BY DEF refVars, RefInv, RefTypeOK, ReferencesKept, Item, referencesSize
  <2> QED
    BY <2>1, ReferenceKeepsReferences, DereferenceKeepsReferences DEF RefNext
<1>3. RefInv => ReferencesKept
  BY DEF RefInv
<1> QED
  BY <1>1, <1>2, <1>3, PTL DEF RefSpec

-----------------------------------------------------------------------------
(* The turtle.                                                             *)

(* Points of the list, and what is written of them.                        *)
Place == Int \X Int
Point == [p : Place, down : BOOLEAN, colour : Colours \cup {0}]
Text  == Seq({"M", "L"} \X Place)

(* The stroke that ends at a point of the list, and the strokes that the   *)
(* first n points stand for.                                               *)
Stroke(w, j)  == <<IF j = 1 THEN Origin ELSE w[j - 1].p, w[j].p, w[j].colour>>
Strokes(w, n) == {Stroke(w, j) : j \in {k \in 1 .. n : w[k].down}}

(* g has what is written after each of the first n points.                 *)
Blank      == [pieces |-> {}, open |-> <<>>, cut |-> FALSE]
Rounds(g, n) == g = [i \in 0 .. n |-> IF i = 0 THEN Blank ELSE Written(g[i - 1], i)]

(* The list can be written to its end.                                     *)
LEMMA WrittenToTheEnd ==
  ASSUME NEW N \in Nat
  PROVE  \E g : Rounds(g, N)
<1> DEFINE Bad == {n \in 0 .. N : ~ \E g : Rounds(g, n)}
<1>1. ASSUME Bad # {} PROVE FALSE
  <2>1. Bad \in SUBSET Nat
    OBVIOUS
  <2> HIDE DEF Bad
  <2>2. PICK j \in Bad : \A k \in Bad : j <= k
    BY <1>1, <2>1, Least
  <2> USE DEF Bad
  <2>3. j \in 0 .. N /\ ~ \E g : Rounds(g, j)
    BY <2>2
  <2>4. j # 0
    <3>1. Rounds([i \in 0 .. 0 |-> Blank], 0)
      BY DEF Rounds
    <3> QED
      BY <2>3, <3>1
  <2>5. j - 1 \in 0 .. N /\ j - 1 \notin Bad
    BY <2>2, <2>3, <2>4
  <2>6. PICK g : Rounds(g, j - 1)
    BY <2>5
  <2> DEFINE r == [i \in 0 .. j |-> IF i < j THEN g[i] ELSE Written(g[i - 1], i)]
  <2>7. ASSUME NEW i \in 0 .. j
        PROVE  r[i] = IF i = 0 THEN Blank ELSE Written(r[i - 1], i)
    <3>1. i # 0 => i - 1 \in 0 .. j /\ i - 1 < j /\ r[i - 1] = g[i - 1]
      BY <2>3
    <3>2. CASE i < j
      <4>1. i \in 0 .. j - 1
        BY <2>3, <3>2
      <4>2. g[i] = IF i = 0 THEN Blank ELSE Written(g[i - 1], i)
        BY <2>6, <4>1 DEF Rounds
      <4> QED
        BY <3>1, <3>2, <4>2
    <3>3. CASE i = j
      BY <2>3, <2>4, <3>1, <3>3
    <3> QED
      BY <2>3, <3>2, <3>3
  <2>8. r = [i \in 0 .. j |-> r[i]]
    OBVIOUS
  <2> HIDE DEF r
  <2>9. Rounds(r, j)
    BY <2>7, <2>8 DEF Rounds
  <2> QED
    BY <2>3, <2>9
<1>2. N \notin Bad
  BY <1>1
<1> QED
  BY <1>2

(* A viewer draws the same of a longer text, and a line more when it       *)
(* begins where the text stood and "L" ends it.                            *)
LEMMA ShownMore ==
  ASSUME NEW text \in Text, NEW m \in {"M", "L"} \X Place, NEW c
  PROVE  Shown(<<c, Append(text, m)>>) =
           Shown(<<c, text>>) \cup
           IF m[1] = "L" /\ text # <<>> THEN {<<text[Len(text)][2], m[2], c>>} ELSE {}
<1> DEFINE n == Len(text)
           more == Append(text, m)
<1>1. n \in Nat /\ Len(more) = n + 1 /\ more[n + 1] = m /\ \A i \in 1 .. n : more[i] = text[i]
  BY AppendProperties, LenProperties DEF Text
<1>2. text # <<>> <=> n >= 1
  BY EmptySeq, LenProperties DEF Text
<1> HIDE DEF n, more
<1>3. ASSUME NEW l PROVE l \in Shown(<<c, more>>) <=>
        \E i \in 2 .. n + 1 : more[i][1] = "L" /\ l = <<more[i - 1][2], more[i][2], c>>
  BY <1>1 DEF Shown
<1>4. ASSUME NEW l PROVE l \in Shown(<<c, text>>) <=>
        \E i \in 2 .. n : text[i][1] = "L" /\ l = <<text[i - 1][2], text[i][2], c>>
  BY DEF Shown, n
<1>5. \A i \in 2 .. n : more[i] = text[i] /\ more[i - 1] = text[i - 1]
  BY <1>1
<1>6. ASSUME NEW l
      PROVE  l \in Shown(<<c, more>>) <=>
               \/ l \in Shown(<<c, text>>)
               \/ n >= 1 /\ m[1] = "L" /\ l = <<text[n][2], m[2], c>>
  <2>1. ASSUME l \in Shown(<<c, text>>) PROVE l \in Shown(<<c, more>>)
    <3>1. PICK i \in 2 .. n : text[i][1] = "L" /\ l = <<text[i - 1][2], text[i][2], c>>
      BY <1>4, <2>1
    <3>2. i \in 2 .. n + 1
      BY <1>1
    <3> QED
      BY <1>3, <1>5, <3>1, <3>2
  <2>2. ASSUME n >= 1, m[1] = "L", l = <<text[n][2], m[2], c>> PROVE l \in Shown(<<c, more>>)
    <3>1. n + 1 \in 2 .. n + 1 /\ (n + 1) - 1 = n /\ n \in 1 .. n
      BY <1>1, <2>2
    <3>2. more[n + 1] = m /\ more[(n + 1) - 1] = text[n]
      BY <1>1, <3>1
    <3> QED
      BY <1>3, <2>2, <3>1, <3>2
  <2>3. ASSUME l \in Shown(<<c, more>>)
        PROVE  l \in Shown(<<c, text>>) \/ (n >= 1 /\ m[1] = "L" /\ l = <<text[n][2], m[2], c>>)
    <3>1. PICK i \in 2 .. n + 1 : more[i][1] = "L" /\ l = <<more[i - 1][2], more[i][2], c>>
      BY <1>3, <2>3
    <3>2. CASE i \in 2 .. n
      BY <1>4, <1>5, <3>1, <3>2
    <3>3. CASE i = n + 1
      <4>1. n >= 1 /\ i - 1 = n /\ n \in 1 .. n
        BY <1>1, <3>1, <3>3
      <4> QED
        BY <1>1, <3>1, <3>3, <4>1
    <3> QED
      BY <1>1, <3>1, <3>2, <3>3
  <2> QED
    BY <2>1, <2>2, <2>3
<1> QED
  BY <1>2, <1>6 DEF n, more

(* A move shows nothing.                                                   *)
LEMMA ShownMoved ==
  ASSUME NEW text \in Text, NEW q \in Place, NEW c
  PROVE  Shown(<<c, Append(text, <<"M", q>>)>>) = Shown(<<c, text>>)
<1>1. <<"M", q>> \in {"M", "L"} \X Place /\ <<"M", q>>[1] = "M"
  OBVIOUS
<1>2. Shown(<<c, Append(text, <<"M", q>>)>>) = Shown(<<c, text>>) \cup {}
  BY ONLY <1>1, ShownMore, "M" # "L", text \in Text
<1> QED
  BY ONLY <1>2

(* A line is shown from where the text stood.                              *)
LEMMA ShownLine ==
  ASSUME NEW text \in Text, text # <<>>, NEW q \in Place, NEW c
  PROVE  Shown(<<c, Append(text, <<"L", q>>)>>) =
           Shown(<<c, text>>) \cup {<<text[Len(text)][2], q, c>>}
<1>1. <<"L", q>> \in {"M", "L"} \X Place /\ <<"L", q>>[1] = "L" /\ <<"L", q>>[2] = q
  OBVIOUS
<1> QED
  BY <1>1, ShownMore

(* A text stands where its last mark is.                                   *)
LEMMA TextMore ==
  ASSUME NEW text \in Text, NEW q \in Place, NEW a \in {"M", "L"}
  PROVE  LET more == Append(text, <<a, q>>)
         IN  more \in Text /\ more # <<>> /\ more[Len(more)][2] = q
<1> DEFINE m == <<a, q>>
<1>1. m \in {"M", "L"} \X Place /\ m[2] = q
  OBVIOUS
<1> HIDE DEF m
<1>2. Append(text, m) \in Text
  BY <1>1, AppendProperties DEF Text
<1>3. /\ Append(text, m) # <<>> /\ Len(Append(text, m)) = Len(text) + 1
      /\ Append(text, m)[Len(text) + 1] = m
  BY <1>1, AppendProperties DEF Text
<1>4. Append(text, m)[Len(Append(text, m))][2] = q
  BY <1>1, <1>3
<1> QED
  BY <1>2, <1>3, <1>4 DEF m

(* Nothing is drawn of a text of one mark at most.                         *)
LEMMA ShownNone ==
  ASSUME NEW c
  PROVE  Shown(<<c, <<>>>>) = {} /\ \A m : Shown(<<c, <<m>>>>) = {}
  BY DEF Shown

-----------------------------------------------------------------------------
(* What a viewer draws of a set of pieces.                                 *)
ShownOf(pieces) == UNION {Shown(x) : x \in pieces}

(* A piece more shows what it shows and no more.                           *)
LEMMA ShownOfMore ==
  ASSUME NEW pieces, NEW x
  PROVE  ShownOf(pieces \cup {x}) = ShownOf(pieces) \cup Shown(x)
  BY DEF ShownOf

(* What the first i points have left when they are written: what is drawn  *)
(* of the pieces and of the one being written are their strokes, and what  *)
(* is being written ends where the last of them is.                        *)
Drawn(r, i) ==
  /\ r.open \in Text
  /\ i = 0 => r = Blank
  /\ i > 0 =>
       /\ r.cut = Cut(i)
       /\ r.cut => r.open = <<>>
       /\ i < Len(path) /\ ~r.cut => r.open # <<>> /\ r.open[Len(r.open)][2] = path[i].p
       /\ ShownOf(r.pieces) \cup Shown(<<path[i].colour, r.open>>) = Strokes(path, i)

(* A point more is a stroke more, or none.                                 *)
LEMMA StrokesMore ==
  ASSUME NEW w, NEW i \in Nat \ {0}
  PROVE  Strokes(w, i) = Strokes(w, i - 1) \cup IF w[i].down THEN {Stroke(w, i)} ELSE {}
<1>1. 1 .. i = (1 .. i - 1) \cup {i}
  OBVIOUS
<1> QED
  BY <1>1 DEF Strokes

(* The text of a round: what was open, and this point's stroke.            *)
LEMMA RoundText ==
  ASSUME NEW r, NEW i \in 1 .. Len(path), path \in Seq(Point), Drawn(r, i - 1)
  PROVE  LET text == r.open \o Lead(r.cut, i) \o Mark(i)
             c    == path[i].colour
         IN  /\ text \in Text
             /\ Shown(<<c, text>>) =
                  Shown(<<c, r.open>>) \cup IF path[i].down THEN {Stroke(path, i)} ELSE {}
             /\ i < Len(path) \/ path[i].down =>
                  text # <<>> /\ text[Len(text)][2] = path[i].p
<1> DEFINE c == path[i].colour
           q == path[i].p
<1>1. path[i] \in Point /\ q \in Place /\ path[i].down \in BOOLEAN /\ r.open \in Text
  <2>1. path[i] \in Point
    BY ElementOfSeq
  <2>2. r.open \in Text
    BY DEF Drawn
  <2> QED
    BY <2>1, <2>2 DEF Point
<1>2. i > 1 => i - 1 \in 1 .. Len(path) /\ path[i - 1].p \in Place
  <2>1. i > 1 => i - 1 \in 1 .. Len(path)
    BY LenProperties
  <2>2. i > 1 => path[i - 1] \in Point
    BY <2>1, ElementOfSeq
  <2> QED
    BY <2>1, <2>2 DEF Point
<1>3. Origin \in Place
  BY DEF Origin, Place
<1>4. \A m : r.open \o <<>> = r.open /\ <<>> \o <<m>> = <<m>> /\ r.open \o <<m>> = Append(r.open, m)
  <2>1. r.open \o <<>> = r.open
    BY <1>1, ConcatEmptySeq DEF Text
  <2> QED
    BY <1>1, <2>1 DEF Text
<1>5. CASE ~path[i].down
  <2>1. Lead(r.cut, i) = <<>>
    BY <1>5 DEF Lead
  <2>2. CASE i < Len(path)
    <3>1. Mark(i) = <<<<"M", q>>>>
      BY <1>5, <2>2 DEF Mark
    <3>2. r.open \o Lead(r.cut, i) \o Mark(i) = Append(r.open, <<"M", q>>)
      BY <1>4, <2>1, <3>1
    <3>3. <<"M", q>> \in {"M", "L"} \X Place
      BY <1>1
    <3> HIDE DEF c, q
    <3>4. Shown(<<c, Append(r.open, <<"M", q>>)>>) = Shown(<<c, r.open>>)
      BY ONLY <1>1, ShownMoved, Zenon
    <3> USE DEF c, q
    <3>5. LET t == Append(r.open, <<"M", q>>) IN t \in Text /\ t # <<>> /\ t[Len(t)][2] = q
      BY <1>1, TextMore
    <3> QED
      BY <1>5, <3>2, <3>4, <3>5
  <2>3. CASE ~(i < Len(path))
    <3>1. Mark(i) = <<>>
      BY <1>5, <2>3 DEF Mark
    <3>2. r.open \o Lead(r.cut, i) \o Mark(i) = r.open
      BY <1>4, <2>1, <3>1
    <3> QED
      BY <1>1, <1>5, <2>3, <3>2
  <2> QED
    BY <2>2, <2>3
<1>6. CASE path[i].down
  <2>1. Mark(i) = <<<<"L", q>>>>
    BY <1>6 DEF Mark
  <2>2. <<"L", q>> \in {"M", "L"} \X Place
    BY <1>1
  <2> DEFINE o == r.open \o Lead(r.cut, i)
             from == IF i = 1 THEN Origin ELSE path[i - 1].p
  <2>3. o \in Text /\ o # <<>> /\ o[Len(o)][2] = from /\ Shown(<<c, o>>) = Shown(<<c, r.open>>)
    <3>1. CASE i = 1
      <4>1. r.open = <<>> /\ Lead(r.cut, i) = <<<<"M", Origin>>>>
        BY <1>6, <3>1 DEF Lead, Drawn, Blank
      <4>2. o = <<<<"M", Origin>>>>
        BY <1>4, <4>1
      <4>3. o \in Text /\ o # <<>> /\ o[Len(o)][2] = Origin
        BY <1>3, <4>2 DEF Text
      <4>4. Shown(<<c, o>>) = Shown(<<c, r.open>>)
        BY <4>1, <4>2, ShownNone
      <4> QED
        BY <3>1, <4>3, <4>4
    <3>2. CASE i # 1 /\ r.cut
      <4>0. r.open = <<>>
        <5>1. i - 1 > 0
          BY <3>2
        <5> QED
          BY <3>2, <5>1 DEF Drawn
      <4>1. r.open = <<>> /\ Lead(r.cut, i) = <<<<"M", path[i - 1].p>>>>
        BY <1>6, <3>2, <4>0 DEF Lead
      <4>2. o = <<<<"M", path[i - 1].p>>>>
        BY <1>4, <4>1
      <4>3. path[i - 1].p \in Place
        BY <1>2, <3>2
      <4>4. o \in Text /\ o # <<>> /\ o[Len(o)][2] = path[i - 1].p
        BY <4>2, <4>3 DEF Text
      <4>5. Shown(<<c, o>>) = Shown(<<c, r.open>>)
        BY <4>1, <4>2, ShownNone
      <4> QED
        BY <3>2, <4>4, <4>5
    <3>3. CASE i # 1 /\ ~r.cut
      <4>1. Lead(r.cut, i) = <<>>
        BY <1>6, <3>3 DEF Lead
      <4>2. o = r.open
        BY <1>4, <4>1
      <4>3. i - 1 > 0 /\ i - 1 < Len(path)
        BY <3>3, LenProperties
      <4>4. r.open # <<>> /\ r.open[Len(r.open)][2] = path[i - 1].p
        BY <3>3, <4>3 DEF Drawn
      <4> QED
        BY <1>1, <3>3, <4>2, <4>4
    <3> QED
      BY <3>1, <3>2, <3>3
  <2> HIDE DEF o
  <2>4. o \o Mark(i) = Append(o, <<"L", q>>)
    BY <2>1, <2>3 DEF Text
  <2>5. Shown(<<c, Append(o, <<"L", q>>)>>) = Shown(<<c, r.open>>) \cup {<<from, q, c>>}
    <3> HIDE DEF c, q, from
    <3>1. Shown(<<c, Append(o, <<"L", q>>)>>) = Shown(<<c, o>>) \cup {<<o[Len(o)][2], q, c>>}
      BY ONLY <1>1, <2>3, ShownLine, Zenon
    <3> QED
      BY ONLY <2>3, <3>1, Zenon
  <2>6. LET t == Append(o, <<"L", q>>) IN t \in Text /\ t # <<>> /\ t[Len(t)][2] = q
    BY <1>1, <2>3, TextMore
  <2>7. r.open \o Lead(r.cut, i) \o Mark(i) = Append(o, <<"L", q>>)
    BY <2>4 DEF o
  <2>8. Stroke(path, i) = <<from, q, c>>
    BY DEF Stroke
  <2>9. CASE path[i].down
    BY <2>5, <2>6, <2>7, <2>8, <2>9
  <2> QED
    BY <1>6, <2>9
<1> QED
  BY <1>1, <1>5, <1>6

(* A round draws the next point.                                           *)
LEMMA RoundDraws ==
  ASSUME NEW r, NEW i \in 1 .. Len(path), path \in Seq(Point), Drawn(r, i - 1)
  PROVE  Drawn(Written(r, i), i)
<1> DEFINE text == r.open \o Lead(r.cut, i) \o Mark(i)
           c    == path[i].colour
           new  == IF path[i].down THEN {Stroke(path, i)} ELSE {}
           s    == Written(r, i)
<1>1. /\ text \in Text
      /\ Shown(<<c, text>>) = Shown(<<c, r.open>>) \cup new
      /\ i < Len(path) => text # <<>> /\ text[Len(text)][2] = path[i].p
  BY RoundText
<1>2. /\ s.pieces = IF Cut(i) THEN r.pieces \cup {<<c, text>>} ELSE r.pieces
      /\ s.open = IF Cut(i) THEN <<>> ELSE text
      /\ s.cut = Cut(i)
  BY DEF Written
<1>3. ShownOf(r.pieces) \cup Shown(<<c, r.open>>) = Strokes(path, i - 1)
  <2>1. CASE i = 1
    <3>1. r = Blank /\ r.pieces = {} /\ r.open = <<>>
      BY <2>1 DEF Drawn, Blank
    <3>2. Strokes(path, i - 1) = {}
      BY <2>1 DEF Strokes
    <3> QED
      BY <3>1, <3>2, ShownNone DEF ShownOf
  <2>2. CASE i # 1
    <3>1. i - 1 > 0 /\ i - 1 \in Nat
      BY <2>2
    <3>2. r.cut = Cut(i - 1) /\ (r.cut => r.open = <<>>)
      BY <3>1 DEF Drawn
    <3>3. ~r.cut => path[i - 1].colour = path[i].colour
      <4>1. i - 1 < Len(path) /\ (i - 1) + 1 = i
        BY LenProperties
      <4> QED
        BY <3>2, <4>1 DEF Cut
    <3>4. Shown(<<c, r.open>>) = Shown(<<path[i - 1].colour, r.open>>)
      BY <3>2, <3>3, ShownNone
    <3>5. ShownOf(r.pieces) \cup Shown(<<path[i - 1].colour, r.open>>) = Strokes(path, i - 1)
      BY <3>1 DEF Drawn
    <3> QED
      BY <3>4, <3>5
  <2> QED
    BY <2>1, <2>2
<1>4. Strokes(path, i) = Strokes(path, i - 1) \cup new
  BY StrokesMore
<1>5. <<>> \in Text
  BY DEF Text
<1> HIDE DEF text, c, new, s
<1>6. ShownOf(s.pieces) \cup Shown(<<c, s.open>>) = Strokes(path, i)
  <2>1. CASE Cut(i)
    <3>1. ShownOf(s.pieces) = ShownOf(r.pieces) \cup Shown(<<c, text>>)
      <4>1. s.pieces = r.pieces \cup {<<c, text>>}
        BY <1>2, <2>1
      <4> QED
        BY <4>1, ShownOfMore
    <3>2. Shown(<<c, s.open>>) = {}
      BY <1>2, <2>1, ShownNone
    <3> QED
      BY ONLY <1>1, <1>3, <1>4, <3>1, <3>2
  <2>2. CASE ~Cut(i)
    <3>1. s.pieces = r.pieces /\ s.open = text
      BY <1>2, <2>2
    <3> QED
      BY ONLY <1>1, <1>3, <1>4, <3>1
  <2> QED
    BY <2>1, <2>2
<1>7. i > 0 /\ i # 0
  OBVIOUS
<1>8. s.open \in Text /\ (s.cut => s.open = <<>>)
      /\ (i < Len(path) /\ ~s.cut => s.open # <<>> /\ s.open[Len(s.open)][2] = path[i].p)
  BY <1>1, <1>2, <1>5
<1>9. Drawn(s, i)
  BY <1>2, <1>6, <1>7, <1>8 DEF Drawn, c
<1> QED
  BY <1>9 DEF s

(* A viewer draws the strokes of the list, and no others.                  *)
LEMMA ListDrawn ==
  ASSUME path \in Seq(Point)
  PROVE  Lines = Strokes(path, Len(path))
<1> DEFINE N == Len(path)
           g == CHOOSE h : Rounds(h, N)
<1>1. N \in Nat
  BY LenProperties
<1>2. Rounds(g, N)
  BY <1>1, WrittenToTheEnd
<1>3. path # <<>> => generate_paths = g[N].pieces \cup {<<Last(path).colour, g[N].open>>}
  BY DEF generate_paths, Rounds, Blank
<1> HIDE DEF g, N
<1>4. g[0] = Blank /\ \A i \in 1 .. N : g[i] = Written(g[i - 1], i)
  BY <1>1, <1>2 DEF Rounds
<1> DEFINE Bad == {i \in 0 .. N : ~Drawn(g[i], i)}
<1>5. ASSUME Bad # {} PROVE FALSE
  <2>1. Bad \in SUBSET Nat
    BY <1>1
  <2> HIDE DEF Bad
  <2>2. PICK j \in Bad : \A k \in Bad : j <= k
    BY <1>5, <2>1, Least
  <2> USE DEF Bad
  <2>3. j \in 0 .. N /\ ~Drawn(g[j], j)
    BY <2>2
  <2>4. j # 0
    <3>1. Drawn(Blank, 0)
      BY DEF Drawn, Blank, Text
    <3> QED
      BY <1>4, <2>3, <3>1
  <2>5. j - 1 \in 0 .. N /\ j - 1 \notin Bad /\ j \in 1 .. Len(path)
    BY <1>1, <2>2, <2>3, <2>4 DEF N
  <2>6. Drawn(g[j - 1], j - 1)
    BY <2>5
  <2>7. Drawn(Written(g[j - 1], j), j)
    BY <2>5, <2>6, RoundDraws
  <2> QED
    BY <1>4, <2>3, <2>5, <2>7 DEF N
<1>6. Drawn(g[N], N)
  <2>1. N \in 0 .. N /\ N \notin Bad
    BY <1>1, <1>5
  <2> QED
    BY <2>1
<1>7. CASE path = <<>>
  BY <1>7 DEF Lines, generate_paths, Strokes
<1>8. CASE path # <<>>
  <2>1. N > 0 /\ Last(path) = path[N]
    BY <1>1, <1>8, EmptySeq DEF N, Last
  <2>2. ShownOf(g[N].pieces) \cup Shown(<<path[N].colour, g[N].open>>) = Strokes(path, N)
    BY <1>6, <2>1 DEF Drawn
  <2> QED
    <3>1. Lines = ShownOf(g[N].pieces \cup {<<path[N].colour, g[N].open>>})
      BY <1>3, <1>8, <2>1 DEF Lines, ShownOf
    <3>2. Lines = ShownOf(g[N].pieces) \cup Shown(<<path[N].colour, g[N].open>>)
      BY <3>1, ShownOfMore
    <3> QED
      BY <2>2, <3>2 DEF N
<1> QED
  BY <1>7, <1>8

-----------------------------------------------------------------------------
(* A place is within the bounds.                                           *)
Inside(q, lo, hi) == \A i \in 1 .. 2 : q[i] \in lo[i] .. hi[i]
Ends == DOMAIN dots \cup {s[2] : s \in strokes}

TurtleTyped ==
  /\ p \in Place /\ heading \in 0 .. 3 /\ colour \in Colours \cup {0}
  /\ penDown \in BOOLEAN /\ movedWithoutDraw \in BOOLEAN /\ stands \in BOOLEAN
  /\ least \in Place /\ greatest \in Place /\ path \in Seq(Point)
  /\ DOMAIN dots \subseteq Place

(* What was drawn is what the list stands for. A turtle that did not move  *)
(* since it drew is where the list ends, if the paper was not cleared      *)
(* since; if it was, nothing is on it. So a place where the pen came down  *)
(* is shown when the turtle leaves it or lifts the pen.                    *)
TurtleInv ==
  /\ TurtleTyped
  /\ strokes = Strokes(path, Len(path))
  /\ stands => ~movedWithoutDraw /\ path = <<>> /\ touched = {}
  /\ ~stands /\ ~movedWithoutDraw =>
       path # <<>> /\ path[Len(path)].down /\ path[Len(path)].p = p
  /\ touched \ (IF penDown THEN {p} ELSE {}) \subseteq Marks
  /\ \A q \in Ends : Inside(q, least, greatest)

(* A longer list stands for a stroke more if the pen was down.             *)
LEMMA StrokesAppended ==
  ASSUME NEW w \in Seq(Point), NEW x \in Point
  PROVE  /\ Append(w, x) \in Seq(Point)
         /\ Append(w, x) # <<>> /\ Append(w, x)[Len(Append(w, x))] = x
         /\ Strokes(Append(w, x), Len(Append(w, x))) =
              Strokes(w, Len(w)) \cup
              IF x.down THEN {<<IF w = <<>> THEN Origin ELSE w[Len(w)].p, x.p, x.colour>>} ELSE {}
<1> DEFINE n == Len(w)
           v == Append(w, x)
<1>1. /\ n \in Nat /\ v \in Seq(Point) /\ Len(v) = n + 1 /\ v[n + 1] = x
      /\ \A i \in 1 .. n : v[i] = w[i]
  BY AppendProperties, LenProperties
<1>2. v # <<>> /\ (w = <<>> <=> n = 0)
  BY <1>1, EmptySeq, LenProperties
<1> HIDE DEF n, v
<1>3. Strokes(v, n + 1) = Strokes(v, n) \cup IF x.down THEN {Stroke(v, n + 1)} ELSE {}
  <2>1. n + 1 \in Nat \ {0} /\ (n + 1) - 1 = n
    BY <1>1
  <2> QED
    BY <1>1, <2>1, StrokesMore
<1>4. Strokes(v, n) = Strokes(w, n)
  <2>1. \A j \in 1 .. n : v[j] = w[j] /\ Stroke(v, j) = Stroke(w, j)
    BY <1>1 DEF Stroke
  <2> QED
    BY <2>1 DEF Strokes
<1>5. Stroke(v, n + 1) = <<IF w = <<>> THEN Origin ELSE w[n].p, x.p, x.colour>>
  <2>1. (n + 1 = 1 <=> w = <<>>) /\ (n + 1) - 1 = n /\ (n # 0 => v[n] = w[n])
    BY <1>1, <1>2
  <2> QED
    BY <1>1, <1>2, <2>1 DEF Stroke
<1> QED
  BY <1>1, <1>2, <1>3, <1>4, <1>5 DEF n, v

(* Strokes go from a place to a place.                                     *)
LEMMA StrokesArePlaces ==
  ASSUME NEW w \in Seq(Point)
  PROVE  \A s \in Strokes(w, Len(w)) : s[2] \in Place
<1>1. \A j \in 1 .. Len(w) : w[j].p \in Place
  <2>1. \A j \in 1 .. Len(w) : w[j] \in Point
    BY ElementOfSeq
  <2> QED
    BY <2>1 DEF Point
<1> QED
  BY <1>1 DEF Strokes, Stroke

(* The last point of the list, when the pen drew to it, ends a stroke.     *)
LEMMA LastIsShown ==
  ASSUME TurtleInv, ~stands, ~movedWithoutDraw
  PROVE  \E s \in strokes : s[2] = p
<1>1. path \in Seq(Point) /\ path # <<>> /\ path[Len(path)].down /\ path[Len(path)].p = p
  BY DEF TurtleInv, TurtleTyped
<1>2. Len(path) \in 1 .. Len(path)
  BY <1>1, EmptySeq, LenProperties
<1>3. Stroke(path, Len(path)) \in strokes /\ Stroke(path, Len(path))[2] = p
  BY <1>1, <1>2 DEF Strokes, Stroke, TurtleInv
<1> QED
  BY <1>3

(* The bounds take in a place, and lose none.                              *)
LEMMA BoundsGrow ==
  ASSUME NEW q \in Place, least \in Place, greatest \in Place, newDraw(least, greatest, q)
  PROVE  /\ least' \in Place /\ greatest' \in Place
         /\ Inside(q, least', greatest')
         /\ \A x \in Place : Inside(x, least, greatest) => Inside(x, least', greatest')
<1>1. /\ q[1] \in Int /\ q[2] \in Int /\ least[1] \in Int /\ least[2] \in Int
      /\ greatest[1] \in Int /\ greatest[2] \in Int
  BY DEF Place
<1>2. /\ least' = <<IF q[1] < least[1] THEN q[1] ELSE least[1],
                    IF q[2] < least[2] THEN q[2] ELSE least[2]>>
      /\ greatest' = <<IF q[1] > greatest[1] THEN q[1] ELSE greatest[1],
                       IF q[2] > greatest[2] THEN q[2] ELSE greatest[2]>>
  BY DEF newDraw
<1>3. /\ least'[1] \in Int /\ least'[2] \in Int /\ greatest'[1] \in Int /\ greatest'[2] \in Int
      /\ least'[1] <= least[1] /\ least'[2] <= least[2] /\ least'[1] <= q[1] /\ least'[2] <= q[2]
      /\ greatest[1] <= greatest'[1] /\ greatest[2] <= greatest'[2]
      /\ q[1] <= greatest'[1] /\ q[2] <= greatest'[2]
  BY <1>1, <1>2
<1>4. least' \in Place /\ greatest' \in Place
  BY <1>1, <1>2 DEF Place
<1>5. Inside(q, least', greatest')
  BY <1>1, <1>3 DEF Inside
<1>6. ASSUME NEW x \in Place, Inside(x, least, greatest)
      PROVE  Inside(x, least', greatest')
  <2>1. x[1] \in least[1] .. greatest[1] /\ x[2] \in least[2] .. greatest[2]
    BY <1>6 DEF Inside
  <2>2. x[1] \in least'[1] .. greatest'[1] /\ x[2] \in least'[2] .. greatest'[2]
    BY <1>1, <1>3, <2>1
  <2> QED
    BY <2>2 DEF Inside
<1> QED
  BY <1>4, <1>5, <1>6

(* Every end of a stroke, and every dot, is a place within the bounds.     *)
LEMMA EndsInside ==
  ASSUME TurtleInv
  PROVE  \A q \in Ends : q \in Place /\ Inside(q, least, greatest)
<1>1. \A s \in strokes : s[2] \in Place
  BY StrokesArePlaces DEF TurtleInv, TurtleTyped
<1> QED
  BY <1>1 DEF Ends, TurtleInv, TurtleTyped

(* A dot is put where the pen came down after a move, within the bounds.   *)
LEMMA PointAdded ==
  ASSUME TurtleInv, tryAddPoint
  PROVE  /\ path' = path /\ least' \in Place /\ greatest' \in Place
         /\ DOMAIN dots' \subseteq Place /\ DOMAIN dots \subseteq DOMAIN dots'
         /\ movedWithoutDraw /\ penDown => p \in DOMAIN dots'
         /\ \A q \in DOMAIN dots' \cup {s[2] : s \in strokes} : Inside(q, least', greatest')
<1>0. /\ p \in Place /\ least \in Place /\ greatest \in Place /\ DOMAIN dots \subseteq Place
      /\ movedWithoutDraw \in BOOLEAN /\ penDown \in BOOLEAN
  BY DEF TurtleInv, TurtleTyped
<1>1. \A q \in Ends : q \in Place /\ Inside(q, least, greatest)
  BY EndsInside
<1>2. CASE movedWithoutDraw /\ penDown
  <2>1. path' = path /\ DOMAIN dots' = DOMAIN dots \cup {p}
    BY <1>2 DEF tryAddPoint
  <2>2. IF p \in DOMAIN dots THEN UNCHANGED <<least, greatest>> ELSE newDraw(least, greatest, p)
    BY <1>2 DEF tryAddPoint
  <2>3. CASE p \in DOMAIN dots
    BY <1>0, <1>1, <2>1, <2>2, <2>3 DEF Ends
  <2>4. CASE p \notin DOMAIN dots
    <3>1. /\ least' \in Place /\ greatest' \in Place /\ Inside(p, least', greatest')
          /\ \A x \in Place : Inside(x, least, greatest) => Inside(x, least', greatest')
      BY <1>0, <2>2, <2>4, BoundsGrow
    <3>2. \A q \in DOMAIN dots' \cup {s[2] : s \in strokes} : q = p \/ q \in Ends
      BY <2>1 DEF Ends
    <3>3. \A q \in DOMAIN dots' \cup {s[2] : s \in strokes} : Inside(q, least', greatest')
      BY <1>1, <3>1, <3>2
    <3> QED
      BY <1>0, <2>1, <3>1, <3>3
  <2> QED
    BY <2>3, <2>4
<1>3. CASE ~(movedWithoutDraw /\ penDown)
  <2>1. UNCHANGED <<least, greatest, path, dots>>
    BY <1>3 DEF tryAddPoint, drawing
  <2> QED
    BY <1>0, <1>1, <1>3, <2>1 DEF Ends
<1> QED
  BY <1>2, <1>3

(* What the turtle goes ahead to is a place.                               *)
LEMMA AheadIsPlace ==
  ASSUME p \in Place, heading \in 0 .. 3, NEW n \in Int
  PROVE  Ahead(n) \in Place
<1> DEFINE d == <<<<1, 0>>, <<0, 1>>, <<-1, 0>>, <<0, -1>>>>[heading + 1]
           q == Plus(p, Times(d, n))
<1>1. d \in {<<1, 0>>, <<0, 1>>, <<-1, 0>>, <<0, -1>>}
  <2>1. heading = 0 \/ heading = 1 \/ heading = 2 \/ heading = 3
    OBVIOUS
  <2> QED
    BY <2>1
<1>2. d[1] \in -1 .. 1 /\ d[2] \in -1 .. 1
  BY <1>1
<1> HIDE DEF d
<1>3. \A k \in -1 .. 1 : n * k \in Int
  <2>1. \A k \in -1 .. 1 : k = -1 \/ k = 0 \/ k = 1
    OBVIOUS
  <2>2. n * (-1) \in Int /\ n * 0 \in Int /\ n * 1 \in Int
    OBVIOUS
  <2> QED
    BY <2>1, <2>2
<1>4. n * d[1] \in Int /\ n * d[2] \in Int
  BY <1>2, <1>3
<1>5. q[1] \in Int /\ q[2] \in Int
  BY <1>4 DEF Plus, Times, Place
<1>6. \A c \in Int : Coordinate(c) \in Int
  BY TurtAssumption DEF Coordinate
<1> HIDE DEF q
<1>7. Coordinate(q[1]) \in Int /\ Coordinate(q[2]) \in Int
  BY <1>5, <1>6
<1> QED
  BY <1>7 DEF Ahead, d, q, Place

(* A move with the pen down makes a stroke, from where the turtle was or,  *)
(* if the paper was cleared there, from the origin.                        *)
LEMMA MoveDraws ==
  ASSUME TurtleInv, NEW n \in Int, move(n), penDown
  PROVE  TurtleInv'
<1> DEFINE c == IF stands THEN Origin ELSE p
           x == [p |-> p', down |-> TRUE, colour |-> colour]
           w == Started(p)
<1>1. /\ p \in Place /\ heading \in 0 .. 3 /\ colour \in Colours \cup {0} /\ path \in Seq(Point)
      /\ penDown \in BOOLEAN /\ movedWithoutDraw \in BOOLEAN /\ stands \in BOOLEAN
      /\ least \in Place /\ greatest \in Place /\ DOMAIN dots \subseteq Place
  BY DEF TurtleInv, TurtleTyped
<1>2. /\ p' = Ahead(n) /\ UNCHANGED <<heading, colour, penDown, dots>>
      /\ movedWithoutDraw' = FALSE /\ stands' = FALSE
      /\ path' = Append(w, x) /\ newDraw(least, greatest, p')
      /\ strokes' = strokes \cup {<<c, p', colour>>} /\ touched' = touched \cup {p'}
  BY DEF move
<1>3. p' \in Place
  BY <1>1, <1>2, AheadIsPlace
<1>4. x \in Point /\ x.p = p' /\ x.down /\ x.colour = colour
  BY <1>1, <1>3 DEF Point
<1>5. /\ w \in Seq(Point) /\ Strokes(w, Len(w)) = strokes
      /\ (IF w = <<>> THEN Origin ELSE w[Len(w)].p) = c
  <2>1. strokes = Strokes(path, Len(path))
    BY DEF TurtleInv
  <2>2. CASE movedWithoutDraw
    <3> DEFINE y == [p |-> p, down |-> FALSE, colour |-> 0]
    <3>1. w = Append(path, y) /\ y \in Point /\ ~y.down /\ y.p = p
      BY <1>1, <2>2 DEF Started, Point
    <3> HIDE DEF y
    <3>2. /\ Append(path, y) \in Seq(Point) /\ Append(path, y) # <<>>
          /\ Append(path, y)[Len(Append(path, y))] = y
          /\ Strokes(Append(path, y), Len(Append(path, y))) = Strokes(path, Len(path))
      BY <1>1, <3>1, StrokesAppended
    <3>3. ~stands
      BY <2>2 DEF TurtleInv
    <3> QED
      BY <2>1, <3>1, <3>2, <3>3
  <2>3. CASE ~movedWithoutDraw
    <3>1. w = path
      BY <2>3 DEF Started
    <3>2. stands => path = <<>>
      BY DEF TurtleInv
    <3>3. ~stands => path # <<>> /\ path[Len(path)].p = p
      BY <2>3 DEF TurtleInv
    <3> QED
      BY <1>1, <2>1, <3>1, <3>2, <3>3
  <2> QED
    BY <2>2, <2>3
<1> HIDE DEF c, x, w
<1>6. /\ path' \in Seq(Point) /\ path' # <<>> /\ path'[Len(path')] = x
      /\ Strokes(path', Len(path')) = strokes'
  <2>1. /\ Append(w, x) \in Seq(Point) /\ Append(w, x) # <<>>
        /\ Append(w, x)[Len(Append(w, x))] = x
        /\ Strokes(Append(w, x), Len(Append(w, x))) =
             Strokes(w, Len(w)) \cup {<<IF w = <<>> THEN Origin ELSE w[Len(w)].p, x.p, x.colour>>}
    BY <1>4, <1>5, StrokesAppended
  <2> QED
    BY <1>2, <1>4, <1>5, <2>1
<1>7. /\ least' \in Place /\ greatest' \in Place /\ Inside(p', least', greatest')
      /\ \A q \in Place : Inside(q, least, greatest) => Inside(q, least', greatest')
  BY <1>1, <1>2, <1>3, BoundsGrow
<1>8. \A q \in Ends' : Inside(q, least', greatest')
  <2>1. \A q \in Ends : q \in Place /\ Inside(q, least, greatest)
    BY EndsInside
  <2>2. \A q \in Ends' : q = p' \/ q \in Ends
    BY <1>2 DEF Ends
  <2> QED
    BY <1>7, <2>1, <2>2
<1>9. touched' \ {p'} \subseteq Marks'
  <2>1. touched \ {p} \subseteq Marks
    BY DEF TurtleInv
  <2>2. Marks \subseteq Marks'
    BY <1>2 DEF Marks
  <2>3. ~stands => p \in Marks'
    <3>1. <<c, p', colour>> \in strokes' /\ <<c, p', colour>>[1] = c
      BY <1>2
    <3>2. c \in Marks'
      BY <3>1 DEF Marks
    <3> QED
      BY <3>2 DEF c
  <2>4. stands => touched = {}
    BY DEF TurtleInv
  <2> QED
    BY <1>2, <2>1, <2>2, <2>3, <2>4
<1>10. TurtleTyped'
  BY <1>1, <1>2, <1>3, <1>6, <1>7 DEF TurtleTyped
<1> QED
  BY <1>2, <1>4, <1>6, <1>8, <1>9, <1>10 DEF TurtleInv

(* A move with the pen up leaves the paper as it is.                       *)
LEMMA MoveGoes ==
  ASSUME TurtleInv, NEW n \in Int, move(n), ~penDown
  PROVE  TurtleInv'
<1>1. /\ p' = Ahead(n) /\ UNCHANGED <<heading, colour, penDown, dots>>
      /\ movedWithoutDraw' = TRUE /\ stands' = FALSE
      /\ UNCHANGED <<path, least, greatest, strokes, touched>>
  BY DEF move
<1>2. p' \in Place
  BY <1>1, AheadIsPlace DEF TurtleInv, TurtleTyped
<1>3. TurtleTyped'
  BY <1>1, <1>2 DEF TurtleInv, TurtleTyped
<1>4. Ends' = Ends /\ Marks' = Marks
  BY <1>1 DEF Ends, Marks
<1> QED
  BY <1>1, <1>3, <1>4 DEF TurtleInv

(* A turtle that adds its point may turn, change its pen's colour, lift    *)
(* its pen, or go elsewhere without drawing.                               *)
LEMMA PointKeeps ==
  ASSUME TurtleInv, tryAddPoint, UNCHANGED strokes, TurtleTyped',
         movedWithoutDraw' \in {movedWithoutDraw, TRUE},
         stands' => stands /\ ~movedWithoutDraw' /\ touched' = touched,
         ~movedWithoutDraw' => p' = p /\ stands' = stands,
         touched' \ (IF penDown' THEN {p'} ELSE {}) \subseteq touched
  PROVE  TurtleInv'
<1>1. /\ path' = path /\ DOMAIN dots \subseteq DOMAIN dots'
      /\ movedWithoutDraw /\ penDown => p \in DOMAIN dots'
      /\ \A q \in DOMAIN dots' \cup {s[2] : s \in strokes} : Inside(q, least', greatest')
  BY PointAdded
<1>2. \A q \in Ends' : Inside(q, least', greatest')
  BY <1>1 DEF Ends
<1>3. touched \subseteq Marks'
  <2>1. touched \ (IF penDown THEN {p} ELSE {}) \subseteq Marks
    BY DEF TurtleInv
  <2>2. Marks \subseteq Marks'
    BY <1>1 DEF Marks
  <2>3. movedWithoutDraw /\ penDown => p \in Marks'
    BY <1>1 DEF Marks
  <2>4. ~movedWithoutDraw /\ ~stands => p \in Marks'
    BY LastIsShown DEF Marks
  <2>5. stands => touched = {}
    BY DEF TurtleInv
  <2> QED
    BY <2>1, <2>2, <2>3, <2>4, <2>5
<1>4. touched' \ (IF penDown' THEN {p'} ELSE {}) \subseteq Marks'
  BY <1>3
<1> QED
  BY <1>1, <1>2, <1>4 DEF TurtleInv

-----------------------------------------------------------------------------
(* A turtle that has not drawn.                                            *)
LEMMA TurtleBegins ==
  ASSUME TurtInit
  PROVE  TurtleInv
<1>1. /\ p = Origin /\ heading = 0 /\ colour = 0 /\ penDown = FALSE /\ movedWithoutDraw = TRUE
      /\ least = Origin /\ greatest = Origin /\ path = <<>> /\ DOMAIN dots = {}
      /\ strokes = {} /\ touched = {} /\ stands = FALSE
  BY DEF TurtInit
<1>2. Origin \in Place
  BY DEF Origin, Place
<1>3. TurtleTyped
  <2>1. path \in Seq(Point) /\ DOMAIN dots \subseteq Place
    BY <1>1
  <2>2. heading \in 0 .. 3 /\ colour \in Colours \cup {0}
    BY <1>1
  <2> QED
    BY <1>1, <1>2, <2>1, <2>2 DEF TurtleTyped
<1>4. Strokes(path, Len(path)) = {}
  BY <1>1 DEF Strokes
<1>5. Ends = {}
  BY <1>1 DEF Ends
<1> QED
  BY <1>1, <1>3, <1>4, <1>5 DEF TurtleInv

(* Every instruction keeps the paper and the list together.                *)
LEMMA TurtleGoesOn ==
  ASSUME TurtleInv, [TurtNext]_turtVars
  PROVE  TurtleInv'
<1>0. /\ TurtleTyped /\ Distances \subseteq Int /\ Places \subseteq Place
      /\ movedWithoutDraw \in BOOLEAN /\ penDown \in BOOLEAN /\ stands \in BOOLEAN
  BY TurtAssumption DEF TurtleInv, TurtleTyped, Place
<1>1. ASSUME NEW n \in Int, move(n) PROVE TurtleInv'
  BY <1>1, MoveDraws, MoveGoes
<1>2. CASE finger_TURT_forward
  BY <1>0, <1>1, <1>2 DEF finger_TURT_forward
<1>3. CASE finger_TURT_back
  <2>1. PICK n \in Distances : move(-n)
    BY <1>3 DEF finger_TURT_back
  <2>2. -n \in Int
    BY <1>0
  <2> QED
    BY <1>1, <2>1, <2>2
<1>4. ASSUME UNCHANGED <<p, colour, penDown, movedWithoutDraw, drawing, paper>>, heading' \in 0 .. 3
      PROVE  TurtleInv'
  <2>1. UNCHANGED <<p, colour, penDown, movedWithoutDraw, least, greatest, path, dots,
                    strokes, touched, stands>>
    BY <1>4 DEF drawing, paper
  <2>2. TurtleTyped'
    BY <1>0, <1>4, <2>1 DEF TurtleTyped
  <2>3. Ends' = Ends /\ Marks' = Marks
    BY <2>1 DEF Ends, Marks
  <2> QED
    BY <2>1, <2>2, <2>3 DEF TurtleInv
<1>5. ASSUME NEW h \in Int, Turns(h) PROVE TurtleInv'
  <2>1. h % 4 \in 0 .. 3
    OBVIOUS
  <2> QED
    BY <1>4, <1>5, <2>1 DEF Turns
<1>6. heading \in Int
  BY <1>0 DEF TurtleTyped
<1>7. CASE finger_TURT_turn_left
  BY <1>5, <1>6, <1>7 DEF finger_TURT_turn_left
<1>8. CASE finger_TURT_turn_right
  BY <1>5, <1>6, <1>8 DEF finger_TURT_turn_right
<1>9. CASE finger_TURT_set_heading
  BY <1>5, <1>9 DEF finger_TURT_set_heading
<1>10. ASSUME tryAddPoint, UNCHANGED <<heading, strokes>>, p' \in Place,
              colour' \in Colours \cup {0}, penDown' \in BOOLEAN,
              movedWithoutDraw' \in BOOLEAN, stands' \in BOOLEAN
       PROVE  TurtleTyped'
  <2>1. path' = path /\ least' \in Place /\ greatest' \in Place /\ DOMAIN dots' \subseteq Place
    BY <1>10, PointAdded
  <2> QED
    BY <1>0, <1>10, <2>1 DEF TurtleTyped
<1>11. CASE finger_TURT_pen_colour
  <2>1. /\ tryAddPoint /\ UNCHANGED <<p, heading, penDown, movedWithoutDraw>>
        /\ UNCHANGED <<strokes, touched, stands>> /\ colour' \in Colours
    BY <1>11 DEF finger_TURT_pen_colour, paper
  <2>2. TurtleTyped'
    BY <1>0, <1>10, <2>1 DEF TurtleTyped
  <2> QED
    BY <1>0, <2>1, <2>2, PointKeeps DEF TurtleInv
<1>12. CASE finger_TURT_show_display \/ finger_TURT_print_drawing
  <2>1. /\ tryAddPoint /\ UNCHANGED <<p, heading, colour, penDown, movedWithoutDraw>>
        /\ UNCHANGED <<strokes, touched, stands>>
    BY <1>12 DEF finger_TURT_show_display, finger_TURT_print_drawing, Looks, turtle, paper
  <2>2. TurtleTyped'
    BY <1>0, <1>10, <2>1 DEF TurtleTyped
  <2> QED
    BY <1>0, <2>1, <2>2, PointKeeps DEF TurtleInv
<1>13. CASE finger_TURT_teleport
  <2>1. /\ tryAddPoint /\ p' \in Places /\ movedWithoutDraw' = TRUE
        /\ stands' = FALSE /\ touched' = IF penDown THEN touched \cup {p'} ELSE touched
        /\ UNCHANGED <<heading, colour, penDown, strokes>>
    BY <1>13 DEF finger_TURT_teleport
  <2>2. TurtleTyped'
    BY <1>0, <1>10, <2>1 DEF TurtleTyped
  <2>3. touched' \ (IF penDown' THEN {p'} ELSE {}) \subseteq touched
    BY <2>1
  <2> QED
    BY <2>1, <2>2, <2>3, PointKeeps
<1>14. CASE finger_TURT_pen_position
  <2>1. PICK down \in BOOLEAN :
          /\ penDown' = down
          /\ IF down THEN UNCHANGED drawing ELSE tryAddPoint
          /\ touched' = IF down /\ ~stands THEN touched \cup {p} ELSE touched
    BY <1>14 DEF finger_TURT_pen_position
  <2>2. UNCHANGED <<p, heading, colour, movedWithoutDraw, strokes, stands>>
    BY <1>14 DEF finger_TURT_pen_position
  <2>3. CASE down
    <3>1. UNCHANGED <<least, greatest, path, dots>>
      BY <2>1, <2>3 DEF drawing
    <3>2. TurtleTyped'
      BY <1>0, <2>1, <2>2, <3>1 DEF TurtleTyped
    <3>3. Ends' = Ends /\ Marks' = Marks
      BY <2>2, <3>1 DEF Ends, Marks
    <3>4. touched' \ {p} \subseteq touched \ {p} /\ touched \ {p} \subseteq Marks
      BY <2>1 DEF TurtleInv
    <3> QED
      BY <2>1, <2>2, <2>3, <3>1, <3>2, <3>3, <3>4 DEF TurtleInv
  <2>4. CASE ~down
    <3>1. tryAddPoint /\ penDown' = FALSE /\ touched' = touched
      BY <2>1, <2>4
    <3>2. TurtleTyped'
      BY <1>0, <1>10, <2>2, <3>1 DEF TurtleTyped
    <3> QED
      BY <1>0, <2>2, <3>1, <3>2, PointKeeps DEF TurtleInv
  <2> QED
    BY <2>3, <2>4
<1>15. CASE finger_TURT_clear_paper
  <2>1. /\ least' = Origin /\ greatest' = Origin /\ path' = <<>> /\ DOMAIN dots' = {}
        /\ UNCHANGED <<p, heading, colour, penDown, movedWithoutDraw>>
        /\ strokes' = {} /\ stands' = ~movedWithoutDraw
        /\ touched' = IF penDown /\ movedWithoutDraw THEN {p} ELSE {}
    BY <1>15 DEF finger_TURT_clear_paper, turtle
  <2>2. Origin \in Place
    BY DEF Origin, Place
  <2>3. TurtleTyped'
    BY <1>0, <2>1, <2>2 DEF TurtleTyped
  <2>4. Strokes(path', Len(path')) = {}
    BY <2>1 DEF Strokes
  <2>5. Ends' = {}
    BY <2>1 DEF Ends
  <2> QED
    BY <1>0, <2>1, <2>3, <2>4, <2>5 DEF TurtleInv
<1>16. CASE UNCHANGED turtVars
  <2>1. UNCHANGED <<p, colour, penDown, movedWithoutDraw, drawing, paper>> /\ heading' = heading
    BY <1>16 DEF turtVars, turtle
  <2> QED
    BY <1>0, <1>4, <2>1 DEF TurtleTyped
<1> QED
  BY <1>2, <1>3, <1>7, <1>8, <1>9, <1>11, <1>12, <1>13, <1>14, <1>15, <1>16 DEF TurtNext

(* The drawing shows the strokes, each in its colour and from where the    *)
(* pen was (the first after N of a turtle that stays: from the origin),    *)
(* and no other, for any list of points, however long and in whatever      *)
(* colours, with a dot where the pen only came down; dots and the ends of  *)
(* strokes, but not all of their starts, are within the bounds (move,      *)
(* tryAddPoint and generate_paths of TURT.c).                              *)
THEOREM StrokesAreDrawn ==
  TurtSpec => []DrawingShowsStrokes
<1>1. TurtInit => TurtleInv
  BY TurtleBegins
<1>2. TurtleInv /\ [TurtNext]_turtVars => TurtleInv'
  BY TurtleGoesOn
<1>3. TurtleInv => DrawingShowsStrokes
  <2> SUFFICES ASSUME TurtleInv PROVE DrawingShowsStrokes
    OBVIOUS
  <2>1. Lines = strokes
    BY ListDrawn DEF TurtleInv, TurtleTyped
  <2> QED
    BY <2>1 DEF DrawingShowsStrokes, TurtleInv, Ends, Inside
<1> QED
  BY <1>1, <1>2, <1>3, PTL DEF TurtSpec
=============================================================================
