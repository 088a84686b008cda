----------------------------- MODULE Interpreter -----------------------------
(***************************************************************************)
(* One IP executing a program (src/src/interpreter.c), with k              *)
(* (src/src/instructions/iterate.c) and the subroutines of SUBR. An        *)
(* instruction is an operator from a machine - the IP and funge-space - to *)
(* the machine after it, so that k can execute it any number of times. The *)
(* instructions about stacks of stacks, IPs, files and fingerprints are    *)
(* modelled in modules of their own.                                       *)
(***************************************************************************)
EXTENDS Machine

CONSTANTS
  Programs,   \* the programs: from positions to the cells that are no spaces
  Stacks,     \* what may be on the stack at first
  Standards,  \* setting_current_standard: 93, 98 or 109
  Random,     \* what the random number generator returns, over and over
  MaxSteps,   \* bound on the instructions executed
  MaxCount,   \* bound on the count k takes
  CellMin,    \* FUNGECELL_MIN
  MaxPath     \* bound on a search for an instruction, over the line and over

VARIABLES
  m,      \* the machine: the IP, funge-space and the random numbers to come
  std,    \* setting_current_standard
  steps,  \* the instructions executed so far
  below,  \* the stack when the string being read was opened
  text    \* the cells of that string, as they lie in funge-space

vars == <<m, std, steps, below, text>>

Digits == 48 .. 57 \cup 97 .. 102
Value(c) == IF c < 58 THEN c - 48 ELSE c - 87

(* funge_division and funge_modulo                                         *)
Quotient(a, b)       == Line(<<0, 0>>, <<0, 0>>)!Quotient(a, b)
funge_division(a, b) == IF b = 0 THEN 0
                        ELSE IF a = CellMin /\ b = -1 THEN CellMin ELSE Quotient(a, b)
funge_modulo(a, b)   == IF b = 0 \/ (a = CellMin /\ b = -1) THEN 0
                        ELSE a - b * Quotient(a, b)

Flag(b) == IF b THEN 1 ELSE 0

-----------------------------------------------------------------------------
(* The search for an instruction. The n-th cell ahead, and the nearest one *)
(* where the search stops, if it ever does.                                *)
Path(s) == LET p[n \in 0 .. MaxPath] ==
                 IF n = 0 THEN s.pos
                 ELSE fungespace_wrap(s, Plus(p[n - 1], s.delta), s.delta)
           IN  p

Nearest(s, path, Stops(_)) ==
  LET N == {n \in 1 .. MaxPath : Stops(n)}
  IN  IF N = {} THEN [s EXCEPT !.spins = TRUE]
      ELSE [s EXCEPT !.pos = path[CHOOSE n \in N : \A k \in N : n <= k]]

(* Spaces, and what is between two semicolons, take no tick.               *)
SkippedSpaces(s) ==
  LET path == Path(s) IN Nearest(s, path, LAMBDA n : At(s, path[n]) # Code.blank)
SkippedComment(s) ==
  LET path == Path(s) IN Nearest(s, path, LAMBDA n : At(s, path[n]) = Code.semicolon)

(* Mutant: a semicolon the search starts on opens no comment.              *)
find_next_instr_Outside(s) ==
  LET path      == Path(s)
      Outside(n) == Cardinality({k \in 1 .. n : At(s, path[k]) = Code.semicolon}) % 2 = 0
  IN  Nearest(s, path, LAMBDA n : /\ At(s, path[n]) \notin {Code.blank, Code.semicolon}
                                  /\ Outside(n))

(* find_next_instr, from a space or a semicolon: an instruction that has   *)
(* an even number of semicolons before it.                                 *)
find_next_instr(s) ==
  LET path      == Path(s)
      Outside(n) == Cardinality({k \in 0 .. n : At(s, path[k]) = Code.semicolon}) % 2 = 0
  IN  Nearest(s, path, LAMBDA n : /\ At(s, path[n]) \notin {Code.blank, Code.semicolon}
                                  /\ Outside(n))

-----------------------------------------------------------------------------
(* One space of a run is read (SGML style), except in Funge-93.            *)
handle_string_mode(s, c) ==
  IF c = Code.quote THEN [s EXCEPT !.quoted = FALSE]
  ELSE IF c = Code.blank /\ s.spaced /\ std # 93 THEN s
  ELSE [Pushed(s, c) EXCEPT !.spaced = (c = Code.blank)]

(* Mutant: the last string's last space is still in mind.                  *)
OpensString_KeepsSpaced(s) == [s EXCEPT !.quoted = TRUE]

(* The quote that opens a string: no space of it is read yet.              *)
OpensString(s) == [s EXCEPT !.quoted = TRUE, !.spaced = FALSE]

(* j                                                                       *)
Jumped(s) ==
  LET n    == Top(s.stack)
      near == ip_forward(Popped(s, 1))
      far  == ip_forward(Turned(near, Times(s.delta, n)))
  IN  [IF n = 0 THEN near ELSE Turned(far, s.delta) EXCEPT !.needMove = FALSE]

(* w                                                                       *)
Compared(s) == LET a == Nth(s.stack, 2)
                   b == Nth(s.stack, 1)
                   r == Popped(s, 2)
               IN  IF a < b THEN Left(r) ELSE IF a > b THEN Right(r) ELSE r

(* ?                                                                       *)
Lost(s) == [Turned(s, <<North, East, South, West>>[Head(s.random) + 1])
              EXCEPT !.random = Append(Tail(@), Head(@))]

(* g and p are relative to the storage offset, ' and s to the IP; s does   *)
(* not wrap.                                                               *)
Place(s) == Plus(VectorAt(s.stack, 0), s.offset)
Got(s)   == Pushed(Popped(s, 2), At(s, Place(s)))
Put(s)   == fungespace_set(Popped(s, 3), Place(s), Nth(s.stack, 3))
Fetched(s) == LET r == ip_forward(s) IN Pushed(r, Here(r))
Stored(s)  == LET p == Plus(s.pos, s.delta)
              IN  fungespace_set([Popped(s, 1) EXCEPT !.pos = p], p, Top(s.stack))

(* stack_dup_top, stack_swap_top                                           *)
Duplicated(s) == [s EXCEPT !.stack = Under(@, 1) \o <<Top(@), Top(@)>>]
Swapped(s)    == [s EXCEPT !.stack = Under(@, 2) \o <<Nth(@, 1), Nth(@, 2)>>]

-----------------------------------------------------------------------------
(* SUBR. A call leaves the position and the delta of the caller below the  *)
(* n cells it hands over, a return takes them from there.                  *)
Target(s, stack) == LET p == VectorAt(stack, 0)
                    IN  IF s.relative THEN Plus(p, s.offset) ELSE p

(* Mutant: after the call the IP goes on, past the called cell.            *)
finger_SUBR_call_Moves(s) ==
  LET n    == Top(s.stack)
      rest == Under(s.stack, 3)
      r    == [s EXCEPT !.stack = Under(rest, n) \o s.pos \o s.delta \o TopCells(rest, n)]
  IN  IF n < 0 THEN ip_reverse(Popped(s, 1))
      ELSE Turned(ip_set_position(r, Target(s, Under(s.stack, 1))), East)

finger_SUBR_call(s) ==
  LET n    == Top(s.stack)
      rest == Under(s.stack, 3)
      r    == [s EXCEPT !.stack = Under(rest, n) \o s.pos \o s.delta \o TopCells(rest, n),
                        !.needMove = FALSE]
  IN  IF n < 0 THEN ip_reverse(Popped(s, 1))
      ELSE Turned(ip_set_position(r, Target(s, Under(s.stack, 1))), East)

finger_SUBR_jump(s) == Turned(ip_set_position(Popped(s, 2), Target(s, s.stack)), East)

finger_SUBR_return(s) ==
  LET n    == Top(s.stack)
      rest == Under(s.stack, n + 1)
      args == TopCells(Under(s.stack, 1), n)
      r    == [s EXCEPT !.stack = Under(rest, 4) \o args]
  IN  IF n < 0 THEN ip_reverse(Popped(s, 1))
      ELSE Turned(ip_set_position(r, VectorAt(rest, 2)), VectorAt(rest, 0))

-----------------------------------------------------------------------------
RECURSIVE execute_instruction(_, _), run_iterate(_, _)

execute_instruction(c, s) ==
  CASE s.spins \/ s.done \/ s.beyond -> s
    [] s.quoted               -> handle_string_mode(s, c)
    [] c = Code.blank          -> [SkippedSpaces(s) EXCEPT !.needMove = FALSE]
    [] c = Code.semicolon      -> SkippedComment(s)
    [] c = Code.z              -> s
    [] c = Code.north          -> Turned(s, North)
    [] c = Code.east           -> Turned(s, East)
    [] c = Code.south          -> Turned(s, South)
    [] c = Code.west           -> Turned(s, West)
    [] c = Code.left           -> Left(s)
    [] c = Code.right          -> Right(s)
    [] c = Code.delta          -> Turned(Popped(s, 2), VectorAt(s.stack, 0))
    [] c = Code.jump           -> Jumped(s)
    [] c = Code.random         -> Lost(s)
    [] c = Code.trampoline     -> ip_forward(s)
    [] c = Code.east_west      -> if_east_west(s)
    [] c = Code.north_south    -> if_north_south(s)
    [] c = Code.compare        -> Compared(s)
    [] c \in Digits            -> Pushed(s, Value(c))
    [] c = Code.quote          -> OpensString(s)
    [] c = Code.k              -> run_iterate(s, FALSE)
    [] c = Code.add            -> Result(s, Nth(s.stack, 2) + Nth(s.stack, 1))
    [] c = Code.subtract       -> Result(s, Nth(s.stack, 2) - Nth(s.stack, 1))
    [] c = Code.multiply       -> Result(s, Nth(s.stack, 2) * Nth(s.stack, 1))
    [] c = Code.divide         -> Result(s, funge_division(Nth(s.stack, 2), Nth(s.stack, 1)))
    [] c = Code.modulo         -> Result(s, funge_modulo(Nth(s.stack, 2), Nth(s.stack, 1)))
    [] c = Code.greater        -> Result(s, Flag(Nth(s.stack, 2) > Nth(s.stack, 1)))
    [] c = Code.not            -> Pushed(Popped(s, 1), Flag(Top(s.stack) = 0))
    [] c = Code.get            -> Got(s)
    [] c = Code.put            -> Put(s)
    [] c = Code.fetch          -> Fetched(s)
    [] c = Code.store          -> Stored(s)
    [] c = Code.discard        -> Popped(s, 1)
    [] c = Code.duplicate      -> Duplicated(s)
    [] c = Code.swap           -> Swapped(s)
    [] c = Code.clear          -> [s EXCEPT !.stack = <<>>]
    [] c \in {Code.stop, Code.quit} -> [s EXCEPT !.done = TRUE]
    [] c = Code.A              -> [s EXCEPT !.relative = FALSE]
    [] c = Code.C              -> finger_SUBR_call(s)
    [] c = Code.J              -> finger_SUBR_jump(s)
    [] c = Code.O              -> [s EXCEPT !.relative = TRUE]
    [] c = Code.R              -> finger_SUBR_return(s)
    [] OTHER                   -> ip_reverse(s)

(* k finds the next instruction and executes it where it is itself; under  *)
(* another k it is at the place of the k that was found.                   *)
Found(s) ==
  LET From(r) == IF Here(r) \in {Code.blank, Code.semicolon} THEN find_next_instr(r) ELSE r
  IN  From(ip_forward(s))

run_iterate(s0, isRecursive) ==
  LET s == Popped(s0, 1)
      Home(r, found) == IF r.pos = found.pos THEN [r EXCEPT !.pos = s.pos] ELSE r
      Once(r, found) ==
        IF Here(found) # Code.k THEN execute_instruction(Here(found), r)
        ELSE IF r.spins \/ r.done \/ r.beyond THEN r
        ELSE Home(run_iterate([r EXCEPT !.pos = found.pos], TRUE), found)
      Settled(r, found) ==
        IF std = 109 /\ ~isRecursive /\ r.pos = s.pos /\ r.delta = s.delta
        THEN [r EXCEPT !.pos = found.pos] ELSE r
      Iterated(iters, found) ==
        IF iters < 0 THEN ip_reverse(s)
        ELSE IF iters > MaxCount THEN [s EXCEPT !.beyond = TRUE]
        ELSE IF iters = 0 \/ found.spins THEN found
        ELSE IF Here(found) = Code.z THEN s
        ELSE Settled(FoldLeft(LAMBDA r, i : Once(r, found), s, [i \in 1 .. iters |-> i]), found)
  IN  Iterated(Top(s0.stack), Found(s))

-----------------------------------------------------------------------------
Init ==
  /\ std \in Standards
  /\ \E program \in Programs, stack \in Stacks :
       LET x == Stretch(DOMAIN program \cup {<<0, 0>>}, 1)
           y == Stretch(DOMAIN program \cup {<<0, 0>>}, 2)
       IN  m = [cells |-> program, tl |-> <<x[1], y[1]>>, br |-> <<x[2], y[2]>>,
                pos |-> <<0, 0>>, delta |-> East, offset |-> <<0, 0>>, stack |-> stack,
                quoted |-> FALSE, spaced |-> FALSE, needMove |-> TRUE, relative |-> FALSE,
                random |-> Random, spins |-> FALSE, done |-> FALSE,
                beyond |-> FALSE]
  /\ steps = 0 /\ below = <<>> /\ text = <<>>

(* thread_forward                                                          *)
Advanced(s) == IF s.spins \/ s.done THEN s
               ELSE IF s.needMove THEN ip_forward(s) ELSE [s EXCEPT !.needMove = TRUE]

Turn == /\ steps < MaxSteps /\ ~m.spins /\ ~m.done
        /\ m' = Advanced(execute_instruction(Here(m), m))
        /\ ~m'.beyond
        /\ steps' = steps + 1
        /\ below' = IF ~m'.quoted THEN <<>> ELSE IF m.quoted THEN below ELSE m'.stack
        /\ text'  = IF m.quoted /\ m'.quoted THEN Append(text, Here(m)) ELSE <<>>
        /\ UNCHANGED std

Skipping == ~m.quoted /\ Here(m) \in {Code.blank, Code.semicolon}
Executes(c) == ~m.quoted /\ Here(m) = c

ReadString == m.quoted /\ Turn
Skip       == Skipping /\ Turn
Iterate    == Executes(Code.k) /\ Turn
Execute    == ~m.quoted /\ ~Skipping /\ Here(m) # Code.k /\ Turn

Next == ReadString \/ Skip \/ Iterate \/ Execute

Spec == Init /\ [][Next]_vars

-----------------------------------------------------------------------------
(* The instruction the IP comes to next, if there is one: the one k would  *)
(* find from here.                                                         *)
Goal(s) == LET r == IF s.spins \/ Here(s) \notin {Code.blank, Code.semicolon} THEN s
                    ELSE find_next_instr(s)
           IN  IF r.spins THEN <<>> ELSE r.pos

(* The main loop and k agree on what is executed next, over any spaces and *)
(* comments, those that wrap around the edge included; where neither ever  *)
(* finds an instruction the program spins.                                 *)
SkipsAgree == [][Skip => Goal(m') = Goal(m)]_vars

(* A string puts what lies between the quotes on the stack, each run of    *)
(* spaces as one, whatever was there before and wherever it wraps.         *)
Collapsed(t) ==
  LET Kept(i) == t[i] # Code.blank \/ std = 93 \/ i = 1 \/ t[i - 1] # Code.blank
  IN  FoldLeft(LAMBDA r, i : IF Kept(i) THEN Append(r, t[i]) ELSE r, <<>>,
               [i \in 1 .. Len(t) |-> i])

StringsRead == m.quoted => m.stack = below \o Collapsed(text)

(* A call, by C or by a k that executes it once, goes to the called cell,  *)
(* which is what the IP executes next - in 109 a k that calls its own cell *)
(* goes on to the C -, and a subroutine that returns the cells it was      *)
(* handed brings its caller back: to where it called from, in its          *)
(* direction, with its stack but for the address it called.                *)
Calls == \/ Executes(Code.C)
         \/ /\ Executes(Code.k) /\ Top(m.stack) = 1
            /\ Here(Found(Popped(m, 1))) = Code.C
Caller == IF Executes(Code.k) THEN Popped(m, 1) ELSE m

ReturnUndoesCall ==
  [][LET stack  == Caller.stack
         n      == Top(stack)
         called == ip_set_position(m, Target(m, Under(stack, 1))).pos
         back   == finger_SUBR_return(Pushed(m', n))
         rest   == Under(stack, 3)
     IN  Calls /\ Turn /\ n >= 0 =>
           /\ m'.pos = called \/ (std = 109 /\ called = m.pos)
           /\ back.pos = m.pos /\ back.delta = m.delta
           /\ back.stack = Under(rest, n) \o TopCells(rest, n)]_vars
=============================================================================
