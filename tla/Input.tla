-------------------------------- MODULE Input --------------------------------
(***************************************************************************)
(* Standard input as src/src/input.c keeps it: the last line that was read *)
(* from the stream, in a buffer, and a pointer to how far it was consumed. *)
(* The instructions that read characters, lines and numbers (& and ~, and  *)
(* those of the fingerprints BASE, FILE and STRN) all share it.            *)
(***************************************************************************)
EXTENDS Characters, Integers, SequencesExt

CONSTANTS
  Char, NUL,          \* the characters of the stream, and the one that ends a C string
  Digit,              \* the value of every character in `digits'
  Upper,              \* what isxdigit accepts besides: upper case
  Streams,            \* what there may be on standard input
  Bases,              \* the bases numbers are read in
  FUNGECELL_MAX,
  FirstSize           \* what cf_getline allocates at first

ASSUME CharAssumption ==
  /\ {LF, CR, NUL} \subseteq Char /\ Streams \subseteq Seq(Char)
  /\ DOMAIN Digit \subseteq Char \ {LF, CR, NUL} /\ Range(Digit) \subseteq 0 .. 35
  /\ Upper \subseteq Char \ {LF, CR, NUL}
ASSUME NumberAssumption == /\ Bases \subseteq 2 .. 36 /\ FUNGECELL_MAX \in Nat
                           /\ FirstSize \in Nat \ {0}
ASSUME NullAssumption == NULL \notin Seq(Char) /\ NULL \notin Int

VARIABLES
  stream,            \* all there is on standard input
  taken,             \* how much of it cf_getline has read
  lastline,          \* the line in the buffer, NULL when there is none
  linesize,          \* the size of the buffer
  lastline_current,  \* an index into it, from 0, or NULL
  asking,            \* & is looking for a number
  reply              \* what the last call returned

vars == <<stream, taken, lastline, linesize, lastline_current, asking, reply>>
lineVars == <<lastline, linesize, lastline_current>>

-----------------------------------------------------------------------------
(* The rest of the stream up to its next line feed, or all of it.          *)
NextLine ==
  LET rest == SubSeq(stream, taken + 1, Len(stream))
      ends == {n \in DOMAIN rest : rest[n] = LF}
  IN  IF ends = {} THEN rest ELSE SubSeq(rest, 1, Min(ends))

(* The sizes of a buffer, each twice as large as the one before and one   *)
(* more: 2 * *n + 1.                                                       *)
BufferSizes(size, length) ==
  LET s[k \in 0 .. length] == IF k = 0 THEN size ELSE 2 * s[k - 1] + 1
  IN  Range(s)

(* Mutant: the buffer grows once it is full, without room for the 0.       *)
SizeFor_Full(size, length) == Min({s \in BufferSizes(size, length) : s >= length})

(* cf_getdelim: the buffer grows until there is room for the line and a 0  *)
(* after it.                                                               *)
SizeFor(size, length) == Min({s \in BufferSizes(size, length) : s > length})

(* get_line reads when there is no line, or nothing left of it.            *)
NeedsLine == ~(/\ lastline # NULL
               /\ lastline_current # NULL
               /\ lastline_current < Len(lastline))

AtEnd == NeedsLine /\ taken = Len(stream)

(* The line and the place in it after get_line.                            *)
Line  == IF NeedsLine THEN NextLine ELSE lastline
Start == IF NeedsLine THEN 0 ELSE lastline_current
Char0(n) == IF n = Len(Line) THEN NUL ELSE Line[n + 1]

(* get_line, when it returns true: its effect on the stream and the buffer *)
Fetched ==
  /\ ~AtEnd
  /\ taken' = IF NeedsLine THEN taken + Len(NextLine) ELSE taken
  /\ UNCHANGED stream

BufferSize == IF ~NeedsLine THEN linesize
              ELSE SizeFor(IF lastline = NULL THEN FirstSize ELSE linesize,
                           Len(NextLine))

Discarded == lastline' = NULL /\ linesize' = 0 /\ lastline_current' = NULL

Kept(current) == /\ lastline' = Line
                 /\ linesize' = BufferSize
                 /\ lastline_current' = current

-----------------------------------------------------------------------------
(* isdigit, isxdigit or a search in `digits'                               *)
StartsNumber(c, base) ==
  \/ c \in DOMAIN Digit /\ Digit[c] < base
  \/ base = 16 /\ c \in Upper

IsDigit(n, base) == Char0(n) \in DOMAIN Digit /\ Digit[Char0(n)] < base

(* The value of a sequence of digits                                       *)
Value(digits, base) ==
  LET v[n \in 0 .. Len(digits)] ==
        IF n = 0 THEN 0 ELSE v[n - 1] * base + Digit[digits[n]]
  IN  v[Len(digits)]

(* The value of the digits from index first up to end                      *)
ValueOf(first, end, base) == Value(SubSeq(Line, first + 1, end), base)

(* parse_int stops at end: no digit, or one that does not fit any more.    *)
StopsAt(first, end, base) ==
  /\ \A n \in first .. end - 1 : IsDigit(n, base)
  /\ ValueOf(first, end, base) <= FUNGECELL_MAX
  /\ IsDigit(end, base) => ValueOf(first, end + 1, base) > FUNGECELL_MAX

(* Mutant: what follows a number is dropped only at the end of the buffer. *)
EndsLine_Buffer(n) == n >= Len(Line)

(* Only a line end is left, or nothing.                                    *)
EndsLine(n) == n >= Len(Line) \/ Char0(n) \in {LF, CR}

-----------------------------------------------------------------------------
(* Nothing is left on standard input. A buffer was allocated all the same. *)
EndOfInput ==
  /\ AtEnd
  /\ lastline' = IF lastline = NULL THEN <<>> ELSE lastline
  /\ linesize' = IF lastline = NULL THEN FirstSize ELSE linesize
  /\ reply' = [eof |-> TRUE]
  /\ asking' = NULL
  /\ UNCHANGED <<stream, taken, lastline_current>>

(* ~: input_getchar                                                        *)
GetChar ==
  /\ asking = NULL
  /\ Fetched
  /\ IF Start + 1 >= Len(Line) THEN Discarded ELSE Kept(Start + 1)
  /\ reply' = [char |-> Line[Start + 1]]
  /\ UNCHANGED asking

(* I of STRN: input_getline, which ends at a 0 and drops what follows it.  *)
GetLine ==
  /\ asking = NULL
  /\ Fetched
  /\ LET rest == SubSeq(Line, Start + 1, Len(Line))
         nuls == {n \in DOMAIN rest : rest[n] = NUL}
     IN  reply' = [line |-> SubSeq(rest, 1, IF nuls = {} THEN Len(rest)
                                            ELSE Min(nuls) - 1)]
  /\ Discarded
  /\ UNCHANGED asking

(* & and I of BASE, which call input_getint until there is a number.       *)
Ask(base) ==
  /\ asking = NULL
  /\ asking' = base
  /\ UNCHANGED <<stream, taken, lineVars, reply>>

(* Mutant: a line without a number is kept.                                *)
NoNumber_KeepsLine ==
  /\ asking # NULL
  /\ Fetched
  /\ ~\E n \in Start .. Len(Line) : StartsNumber(Char0(n), asking)
  /\ Kept(Start)
  /\ UNCHANGED <<reply, asking>>

(* input_getint without a number in the line                               *)
NoNumber ==
  /\ asking # NULL
  /\ Fetched
  /\ ~\E n \in Start .. Len(Line) : StartsNumber(Char0(n), asking)
  /\ Kept(NULL)
  /\ UNCHANGED <<reply, asking>>

(* input_getint that finds one                                             *)
Number ==
  /\ asking # NULL
  /\ Fetched
  /\ \E first \in Start .. Len(Line), end \in Start .. Len(Line) :
       /\ StartsNumber(Char0(first), asking)
       /\ \A n \in Start .. first - 1 : ~StartsNumber(Char0(n), asking)
       /\ first <= end /\ StopsAt(first, end, asking)
       /\ IF EndsLine(end) THEN Discarded ELSE Kept(end)
       /\ reply' = [number |-> ValueOf(first, end, asking)]
  /\ asking' = NULL

Init == /\ stream \in Streams
        /\ taken = 0
        /\ lastline = NULL
        /\ linesize = 0
        /\ lastline_current = NULL
        /\ asking = NULL
        /\ reply = NULL

Answer == NoNumber \/ Number \/ (asking # NULL /\ EndOfInput)

Next == \/ GetChar \/ GetLine
        \/ asking = NULL /\ EndOfInput
        \/ \E base \in Bases : Ask(base)
        \/ Answer

Spec == Init /\ [][Next]_vars

(* A number that is looked for is looked for without a pause.              *)
FairSpec == Spec /\ WF_vars(Answer)

-----------------------------------------------------------------------------
(* The buffer holds the line with a 0 after it, and the pointer into it is *)
(* never at its end: what an instruction did not take is there for the     *)
(* next one, whichever it is.                                              *)
BufferSound ==
  /\ lastline # NULL => Len(lastline) < linesize
  /\ lastline_current # NULL =>
       lastline # NULL /\ lastline_current \in 0 .. Len(lastline) - 1
  /\ taken \in 0 .. Len(stream)

(* & and I of BASE come to an answer, however many lines without a number  *)
(* there are.                                                              *)
AnswerComes == asking # NULL ~> asking = NULL

(* What the instructions see is the stream itself, with one position in it *)
(* that moves forward.                                                     *)
Position == IF NeedsLine THEN taken
            ELSE taken - Len(lastline) + lastline_current

Stream == INSTANCE InputStream WITH position <- Position
ImplementsStream == Stream!Spec
=============================================================================
