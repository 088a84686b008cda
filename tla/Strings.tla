------------------------------- MODULE Strings -------------------------------
(***************************************************************************)
(* STRN (src/src/fingerprints/STRN/STRN.c): strings on the stack, ended by *)
(* a 0, and in funge-space. Running out of memory is left out: the         *)
(* instruction then reflects. D only prints.                               *)
(***************************************************************************)
EXTENDS Machine

CONSTANTS
  Texts,    \* the strings the program pushes, and those it reads
  Numbers,  \* lengths, positions and numbers it pushes
  Places,   \* where it puts strings
  Reach,    \* bound on the x coordinates strings are read from
  MaxStack, \* bound on the cells of the stack
  MaxCalls  \* bound on the instructions executed

VARIABLES t, calls  \* the machine, and the instructions executed

-----------------------------------------------------------------------------
String(s) == StringOf(s.stack)
Below(s)  == [s EXCEPT !.stack = UnderString(@)]
Says(s, z) == [s EXCEPT !.stack = PushedString(@, z)]

finger_STRN_append(s) == LET u == Below(s) IN Says(Below(u), String(s) \o String(u))

(* The first difference, that of the ending zeros included.                *)
Compared(a, b) ==
  LET N == {i \in DOMAIN a \cap DOMAIN b : a[i] # b[i]}
      C(z, i) == IF i \in DOMAIN z THEN z[i] ELSE 0
      n == IF N # {} THEN CHOOSE i \in N : \A j \in N : i <= j
           ELSE 1 + (IF Len(a) < Len(b) THEN Len(a) ELSE Len(b))
  IN  C(a, n) - C(b, n)
finger_STRN_compare(s) ==
  LET u == Below(s) IN Pushed(Below(u), Compared(String(s), String(u)))

finger_STRN_display(s) == Below(s)

(* funge_strstr: where the lower string is in the upper one first, up to   *)
(* its end.                                                                *)
finger_STRN_search(s) ==
  LET u == Below(s)
      z == String(s)
      w == String(u)
      Fits(i) == SubSeq(z, i + 1, i + Len(w)) = w
      N == {i \in 0 .. Len(z) - Len(w) : Fits(i)}
  IN  IF N = {} THEN Pushed(Below(u), 0)
      ELSE Says(Below(u), SubSeq(z, 1 + CHOOSE i \in N : \A j \in N : i <= j, Len(z)))

(* What G and P take from the stack.                                       *)
Place(s) == Plus(VectorAt(s.stack, 0), s.offset)

(* Each cell is taken before the check whether it is out of bounds.        *)
finger_STRN_get(s) ==
  LET p     == Place(s)
      r     == Popped(s, 2)
      C(n)  == At(r, Plus(p, <<n, 0>>))
      Out(n) == p[1] + n < r.tl[1] \/ p[1] + n > r.br[1]
      n     == CHOOSE n \in 0 .. Reach : /\ C(n) = 0 \/ Out(n)
                                         /\ \A k \in 0 .. n - 1 : C(k) # 0 /\ ~Out(k)
  IN  IF p[2] < r.tl[2] \/ p[2] > r.br[2] \/ C(n) # 0 THEN ip_reverse(r)
      ELSE Says(r, [i \in 1 .. n |-> C(i - 1)])

(* Mutant: the 0 that ends the string is not written.                      *)
finger_STRN_put_NoEnd(s) ==
  LET p == Place(s)
      r == Popped(s, 2)
      z == String(r)
  IN  FoldLeft(LAMBDA u, i : fungespace_set(u, Plus(p, <<i - 1, 0>>), z[i]),
               Below(r), [i \in DOMAIN z |-> i])

finger_STRN_put(s) ==
  LET p == Place(s)
      r == Popped(s, 2)
      z == Append(String(r), 0)
  IN  FoldLeft(LAMBDA u, i : fungespace_set(u, Plus(p, <<i - 1, 0>>), z[i]),
               Below(r), [i \in DOMAIN z |-> i])

(* What input_getline answers with: a line, without its end, or at the end *)
(* of the input none.                                                      *)
finger_STRN_input(s, got, line) == IF got THEN Says(s, line) ELSE ip_reverse(s)

Shorter(n, z) == IF n < Len(z) THEN n ELSE Len(z)

finger_STRN_left(s) ==
  LET n == Top(s.stack)
      r == Popped(s, 1)
      z == String(r)
  IN  IF n < 0 THEN ip_reverse(Below(r))
      ELSE Says(Below(r), SubSeq(z, 1, Shorter(n, z)))

finger_STRN_right(s) ==
  LET n == Top(s.stack)
      r == Popped(s, 1)
      z == String(r)
  IN  IF n < 0 THEN ip_reverse(Below(r))
      ELSE Says(Below(r), SubSeq(z, Len(z) - Shorter(n, z) + 1, Len(z)))

(* The slice is ended by a 0, and the rest of the string pushed below it.  *)
finger_STRN_slice(s) ==
  LET n == Top(s.stack)
      p == Nth(s.stack, 2)
      r == Popped(s, 2)
      z == String(r)
      k == IF Len(z) < p + n THEN Len(z) - p ELSE n
      rest == [SubSeq(z, p + 1, Len(z)) \o <<0>> EXCEPT ![k + 1] = 0]
  IN  IF p < 0 \/ n < 0 \/ Len(z) < p THEN ip_reverse(Below(r))
      ELSE [Below(r) EXCEPT !.stack = @ \o Reverse(rest)]

finger_STRN_length(s) == Pushed(s, StringLength(s.stack))

(* S writes a number in base ten, V reads one: blanks, a sign, digits.     *)
Decimal(n) ==
  LET d[k \in Nat] == (IF k < 10 THEN <<>> ELSE d[k \div 10]) \o <<48 + (k % 10)>>
  IN  IF n < 0 THEN <<45>> \o d[-n] ELSE d[n]

Atoi(z) ==
  LET N(S(_), i) == LET F == {j \in i .. Len(z) : ~S(z[j])}
                    IN  IF F = {} THEN Len(z) + 1 ELSE CHOOSE j \in F : \A k \in F : j <= k
      first  == N(LAMBDA c : c \in {32} \cup 9 .. 13, 1)
      signed == first <= Len(z) /\ z[first] \in {43, 45}
      start  == IF signed THEN first + 1 ELSE first
      digits == SubSeq(z, start, N(LAMBDA c : c \in 48 .. 57, start) - 1)
      value  == FoldLeft(LAMBDA v, c : 10 * v + c - 48, 0, digits)
  IN  IF signed /\ z[first] = 45 THEN -value ELSE value

finger_STRN_itoa(s) == Says(Popped(s, 1), Decimal(Top(s.stack)))
finger_STRN_atoi(s) == Pushed(Below(s), Atoi(String(s)))

-----------------------------------------------------------------------------
StringsInit ==
  /\ t = [cells |-> [p \in {<<0, 0>>} |-> Code.z], tl |-> <<0, 0>>, br |-> <<0, 0>>,
          pos |-> <<0, 0>>, delta |-> East, offset |-> <<1, 0>>, stack |-> <<>>]
  /\ calls = 0

Becomes(s) == /\ calls < MaxCalls /\ calls' = calls + 1
              /\ Len(s.stack) <= MaxStack /\ t' = s
With(args) == [t EXCEPT !.stack = @ \o args]

(* The program pushes strings, and what an instruction takes above them.   *)
PushText == \E z \in Texts : Becomes(Says(t, z))
Append_  == Becomes(finger_STRN_append(t))
Compare  == Becomes(finger_STRN_compare(t))
Display  == Becomes(finger_STRN_display(t))
Search   == Becomes(finger_STRN_search(t))
Get      == \E p \in Places : \E s \in Bounded(With(p)) : Becomes(finger_STRN_get(s))
Input    == \E got \in BOOLEAN, line \in Texts : Becomes(finger_STRN_input(t, got, line))
Leftmost  == \E n \in Numbers : Becomes(finger_STRN_left(With(<<n>>)))
Rightmost == \E n \in Numbers : Becomes(finger_STRN_right(With(<<n>>)))
Slice    == \E p, n \in Numbers : Becomes(finger_STRN_slice(With(<<p, n>>)))
Measure  == Becomes(finger_STRN_length(t))
Put      == \E p \in Places : Becomes(finger_STRN_put(With(p)))
Write    == \E n \in Numbers : Becomes(finger_STRN_itoa(With(<<n>>)))
Read     == Becomes(finger_STRN_atoi(t))

StringsNext == \/ PushText \/ Append_ \/ Compare \/ Display \/ Search \/ Get \/ Input
               \/ Leftmost \/ Rightmost \/ Slice \/ Measure \/ Put \/ Write \/ Read

-----------------------------------------------------------------------------
(* Wherever a program is with its strings and its funge-space, G finds     *)
(* what P has put somewhere - unless it begins with spaces the bounds no   *)
(* longer hold -, L and R between them keep the whole string, F finds what *)
(* has been appended, and V reads the number S wrote.                      *)
StringsComeBack ==
  LET z    == String(t)
      rest == Below(t)
  IN  /\ \A p \in Places :
           \A s \in Bounded([finger_STRN_put(With(p)) EXCEPT !.stack = @ \o p]) :
             Place(s)[1] \in s.tl[1] .. s.br[1]
               => finger_STRN_get(s).stack = Says(rest, z).stack
      /\ \A n \in 0 .. Len(z) :
           LET l == finger_STRN_left(Pushed(Says(rest, z), n)).stack
               r == finger_STRN_right(Pushed(Says(rest, z), Len(z) - n)).stack
               both == Says(Says(rest, StringOf(r)), StringOf(l))
               found == Says(Says(rest, StringOf(r)), z)
           IN  /\ UnderString(l) = rest.stack /\ UnderString(r) = rest.stack
               /\ finger_STRN_append(both) = Says(rest, z)
               /\ LET f == String(finger_STRN_search(found))
                  IN  Len(f) >= Len(z) - n /\ IsPrefix(StringOf(r), f)
      /\ \A n \in Numbers :
           finger_STRN_atoi(finger_STRN_itoa(Pushed(rest, n))) = Pushed(rest, n)
=============================================================================
