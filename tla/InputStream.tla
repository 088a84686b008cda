----------------------------- MODULE InputStream -----------------------------
(***************************************************************************)
(* What a program sees of standard input (README.md: "Standard input is    *)
(* read one line at a time and buffered internally"): a stream and one     *)
(* position in it, which every call takes the next characters from.        *)
(***************************************************************************)
EXTENDS Integers, SequencesExt

CONSTANTS Char, LF, CR, NUL, Digit, Upper, Streams, Bases, FUNGECELL_MAX, NULL

VARIABLES stream, position, asking, reply

vars == <<stream, position, asking, reply>>

At(n) == IF n > Len(stream) THEN LF ELSE stream[n]

(* The end of the line that character n is in, line feed included.         *)
LineEnd(n) == Min({m \in n .. Len(stream) : stream[m] = LF} \cup {Len(stream)})

TakeChar ==
  /\ position < Len(stream)
  /\ reply' = [char |-> stream[position + 1]]
  /\ position' = position + 1

TakeLine ==
  LET end  == LineEnd(position + 1)
      nuls == {n \in position + 1 .. end : stream[n] = NUL}
  IN  /\ position < Len(stream)
      /\ reply' = [line |-> SubSeq(stream, position + 1,
                                Min({n - 1 : n \in nuls} \cup {end}))]
      /\ position' = end

IsDigit(c, base) == c \in DOMAIN Digit /\ Digit[c] < base

StartsNumber(c, base) == IsDigit(c, base) \/ (base = 16 /\ c \in Upper)

Value(digits, base) ==
  LET v[n \in 0 .. Len(digits)] ==
        IF n = 0 THEN 0 ELSE v[n - 1] * base + Digit[digits[n]]
  IN  v[Len(digits)]

(* The value of the digits n to m                                          *)
ValueOf(n, m, base) == Value(SubSeq(stream, n, m), base)

(* The digits from character n on that fit are taken, and the rest of the  *)
(* line when a line end comes after them: README.md, "if the next char is  *)
(* a newline it will be discarded".                                        *)
TakeNumber ==
  \E n \in position + 1 .. LineEnd(position + 1) :
    /\ StartsNumber(stream[n], asking)
    /\ \A k \in position + 1 .. n - 1 : ~StartsNumber(stream[k], asking)
    /\ \E last \in n - 1 .. Len(stream) :
         /\ \A k \in n .. last : IsDigit(stream[k], asking)
         /\ ValueOf(n, last, asking) <= FUNGECELL_MAX
         /\ \/ last = Len(stream)
            \/ ~IsDigit(stream[last + 1], asking)
            \/ ValueOf(n, last + 1, asking) > FUNGECELL_MAX
         /\ reply' = [number |-> ValueOf(n, last, asking)]
         /\ position' = IF At(last + 1) \in {LF, CR}
                        THEN LineEnd(Min({last + 1, Len(stream)}))
                        ELSE last

SkipLine ==
  /\ position < Len(stream)
  /\ position' = LineEnd(position + 1)
  /\ \A k \in position + 1 .. position' : ~StartsNumber(stream[k], asking)

Init == stream \in Streams /\ position = 0 /\ asking = NULL /\ reply = NULL

Next ==
  /\ UNCHANGED stream
  /\ \/ asking = NULL /\ (TakeChar \/ TakeLine) /\ UNCHANGED asking
     \/ asking = NULL /\ asking' \in Bases /\ UNCHANGED <<position, reply>>
     \/ asking # NULL /\ TakeNumber /\ asking' = NULL
     \/ asking # NULL /\ SkipLine /\ UNCHANGED <<asking, reply>>
     \/ /\ position = Len(stream)
        /\ reply' = [eof |-> TRUE] /\ asking' = NULL /\ UNCHANGED position

Spec == Init /\ [][Next]_vars
=============================================================================
