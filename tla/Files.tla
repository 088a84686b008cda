-------------------------------- MODULE Files --------------------------------
(***************************************************************************)
(* How files get into funge-space and out of it                            *)
(* (src/src/funge-space/funge-space.c 745-1080 and the instructions i and  *)
(* o of src/src/instructions/io.c). There is one file, which a program is  *)
(* loaded from and which it may load again, elsewhere, and overwrite.      *)
(* Reading is one step per character: what a carriage return means depends *)
(* on the characters after it.                                             *)
(***************************************************************************)
EXTENDS Characters, Integers, SequencesExt

CONSTANTS
  SP, FF,           \* space and form feed
  Graphic,          \* all other characters
  Wide, LowByte,    \* cells beyond a character, and what is left of them in one
  FirstFiles,       \* the files there can be at first
  Pos,              \* the positions of funge-space that matter
  Offsets, Sizes,   \* arguments of i and o
  Edited,           \* the positions the program itself writes to
  StorageOffset,    \* ip->storageOffset
  MaxCalls          \* bound: the instructions executed

Byte == {SP, LF, CR, FF} \cup Graphic
Cell == Byte \cup Wide

(* What the constants are; a load is told from no load.                    *)
ByteAssumption == /\ SP \notin {LF, CR, FF} \cup Graphic \cup Wide
                  /\ LF \notin {CR, FF} /\ CR # FF
                  /\ Graphic \cap ({LF, CR, FF} \cup Wide) = {}
                  /\ LowByte \in [Wide -> Byte]
FileAssumption == FirstFiles \subseteq Seq(Byte)
CallAssumption == /\ Pos \subseteq Int \X Int /\ Offsets \subseteq Int \X Int
                  /\ Sizes \subseteq Int \X Int /\ Edited \subseteq Pos
                  /\ StorageOffset \in Int \X Int /\ MaxCalls \in Nat
LoadingAssumption == NULL \notin {"initial", "text", "binary"}
ASSUME FilesAssumption ==
  ByteAssumption /\ FileAssumption /\ CallAssumption /\ LoadingAssumption

VARIABLES
  space,        \* funge-space
  file,         \* what the file holds
  sandbox,      \* setting_enable_sandbox
  loading,      \* "initial", "text" or "binary", NULL while nothing is loaded
  i,            \* the index of the next character
  pos,          \* where it goes, counted as the loader does
  last_was_cr,
  offset, size, \* the parameters of fungespace_load_at_offset
  outcome,      \* what the last instruction did to the IP
  calls,        \* how many there were
  before,       \* history: funge-space when the load began
  saved         \* history: the area last saved, with its cells and the mode

fileVars == <<space, file, sandbox, loading, i, pos, last_was_cr, offset, size,
          outcome, calls, before, saved>>
readerVars == <<i, pos, last_was_cr, offset, size, before>>

(* The loaders' local variables when none of them is active.               *)
NoReader == /\ i = 1 /\ pos = <<0, 0>> /\ last_was_cr = FALSE
            /\ offset = <<0, 0>> /\ size = <<0, 0>> /\ before = NULL

Plus(p, q) == <<p[1] + q[1], p[2] + q[2]>>
Minus(p, q) == <<p[1] - q[1], p[2] - q[2]>>
Larger(a, b) == IF a > b THEN a ELSE b
Get(p) == IF p \in Pos THEN space[p] ELSE SP

-----------------------------------------------------------------------------
(* FUNGE_INITIAL_NEWLINE and FUNGE_OFFSET_NEWLINE, at the position p       *)
Newline(p) == <<0, p[2] + 1>>
WiderFor(p) == <<Larger(p[1], size[1]), size[2]>>

(* Mutant: the line a carriage return ends is not ended before a space.    *)
EndsPending_NotSpace(c) ==
  last_was_cr /\ (c \in Graphic \/ (c \in {SP, CR} /\ loading = "text"))

(* A carriage return is waiting for c, and c shows that it ended the line. *)
EndsPending(c) == last_was_cr /\ c \notin {LF, FF}

(* Where c goes, or where the loader stands when c is not for a cell.      *)
Place(c) == IF EndsPending(c) THEN Newline(pos) ELSE pos

Occupies(c) == c \notin {LF, CR, FF}

Stored(c, p) ==
  space' = IF Occupies(c) /\ c # SP /\ p \in Pos THEN [space EXCEPT ![p] = c]
           ELSE space

FlagAfter(c) == IF c = FF THEN last_was_cr ELSE c = CR

PosAfter(c) == IF c = LF THEN Newline(pos)
               ELSE IF Occupies(c) THEN Plus(Place(c), <<1, 0>>)
               ELSE Place(c)

SizeAfter(c) == IF c = LF \/ EndsPending(c) THEN WiderFor(pos) ELSE size

-----------------------------------------------------------------------------
(* fungespace_load, called before the program starts; without a file it    *)
(* does not start.                                                         *)
FileInit ==
  /\ space = [p \in Pos |-> SP]
  /\ file \in FirstFiles
  /\ sandbox \in BOOLEAN
  /\ loading = "initial"
  /\ i = 1 /\ pos = <<0, 0>> /\ last_was_cr = FALSE
  /\ offset = <<0, 0>> /\ size = <<0, 0>> /\ before = space
  /\ outcome = NULL
  /\ calls = 0
  /\ saved = NULL

(* One turn of the loop in fungespace_load_string.                         *)
InitialChar ==
  /\ loading = "initial"
  /\ i <= Len(file)
  /\ Stored(file[i], Place(file[i]))
  /\ pos' = PosAfter(file[i])
  /\ last_was_cr' = FlagAfter(file[i])
  /\ i' = i + 1
  /\ UNCHANGED <<file, sandbox, loading, offset, size, outcome, calls, before, saved>>

(* One turn of the loop for text in fungespace_load_at_offset.             *)
OffsetChar ==
  /\ loading = "text"
  /\ i <= Len(file)
  /\ Stored(file[i], Plus(Place(file[i]), offset))
  /\ pos' = PosAfter(file[i])
  /\ size' = SizeAfter(file[i])
  /\ last_was_cr' = FlagAfter(file[i])
  /\ i' = i + 1
  /\ UNCHANGED <<file, sandbox, loading, offset, outcome, calls, before, saved>>

(* One turn of the loop for binary files, which counts from the offset.    *)
BinaryChar ==
  /\ loading = "binary"
  /\ i <= Len(file)
  /\ space' = IF file[i] # SP /\ pos \in Pos THEN [space EXCEPT ![pos] = file[i]]
              ELSE space
  /\ pos' = Plus(pos, <<1, 0>>)
  /\ i' = i + 1
  /\ UNCHANGED <<file, sandbox, loading, last_was_cr, offset, size, outcome, calls,
                 before, saved>>

(* The end of the loops: a last carriage return is a line.                 *)
FinalSize ==
  LET end == IF loading = "text" /\ last_was_cr THEN Plus(pos, <<0, 1>>) ELSE pos
  IN  IF file = <<>> THEN <<0, 0>>
      ELSE <<Larger(end[1], size[1]), Larger(end[2], size[2])>>

(* i pushes the size, and the offset it popped.                            *)
Loaded ==
  /\ loading # NULL
  /\ i = Len(file) + 1
  /\ loading' = NULL
  /\ outcome' = IF loading = "initial" THEN NULL
              ELSE [did |-> loading, size |-> FinalSize,
                    offset |-> Minus(offset, StorageOffset)]
  /\ i' = 1 /\ pos' = <<0, 0>> /\ last_was_cr' = FALSE
  /\ offset' = <<0, 0>> /\ size' = <<0, 0>> /\ before' = NULL
  /\ UNCHANGED <<space, file, sandbox, calls, saved>>

-----------------------------------------------------------------------------
Calls == loading = NULL /\ calls < MaxCalls /\ calls' = calls + 1

Reflects == /\ Calls
            /\ outcome' = [did |-> "reflect"]
            /\ saved' = NULL
            /\ UNCHANGED <<space, sandbox, loading, readerVars>>

(* i: the sandbox, an empty name or a file that cannot be mapped.          *)
InputFails == Reflects /\ UNCHANGED file

(* i: the position is relative to the storage offset.                      *)
Input(binary, popped) ==
  /\ Calls /\ ~sandbox
  /\ loading' = IF binary THEN "binary" ELSE "text"
  /\ offset' = Plus(popped, StorageOffset)
  /\ size' = <<0, 0>>
  /\ i' = 1
  /\ pos' = IF binary THEN offset' ELSE <<0, 0>>
  /\ last_was_cr' = FALSE
  /\ outcome' = NULL
  /\ before' = space
  /\ saved' = NULL
  /\ UNCHANGED <<space, file, sandbox>>

-----------------------------------------------------------------------------
Area(at, wanted) == (at[1] .. at[1] + wanted[1] - 1)
                      \X (at[2] .. at[2] + wanted[2] - 1)

(* (unsigned char)                                                         *)
ByteOf(c) == IF c \in Wide THEN LowByte[c] ELSE c

RowOf(at, wanted, y) == [n \in 1 .. wanted[1] |-> Get(<<at[1] + n - 1, y>>)]

(* s without the c's at its end                                            *)
Stripped(s, c) ==
  LET kept == {n \in DOMAIN s : s[n] # c}
  IN  SubSeq(s, 1, IF kept = {} THEN 0 ELSE Max(kept))

BytesOf(s) == [n \in DOMAIN s |-> ByteOf(s[n])]

(* Mutant: the search for the last character stops before the first one.   *)
TextLines_LosesSingle(at, wanted) ==
  FlattenSeq([n \in 1 .. wanted[2] |->
                LET line == BytesOf(Stripped(RowOf(at, wanted, at[2] + n - 1), SP))
                IN  IF Len(line) = 1 THEN <<LF>> ELSE line \o <<LF>>])

TextLines(at, wanted) ==
  FlattenSeq([n \in 1 .. wanted[2] |->
                BytesOf(Stripped(RowOf(at, wanted, at[2] + n - 1), SP))
                  \o <<LF>>])

BinaryLines(at, wanted) ==
  FlattenSeq([n \in 1 .. wanted[2] |->
                BytesOf(RowOf(at, wanted, at[2] + n - 1)) \o <<LF>>])

(* What fungespace_save_to_file writes: a text of a single character       *)
(* counts as empty.                                                        *)
Written(at, wanted, textfile) ==
  LET text == Stripped(TextLines(at, wanted), LF)
  IN  IF ~textfile THEN BinaryLines(at, wanted)
      ELSE IF Len(text) > 1 THEN text ELSE <<>>

(* o                                                                       *)
Output(textfile, popped, wanted) ==
  LET at == Plus(popped, StorageOffset)
  IN  /\ Calls /\ ~sandbox
      /\ wanted[1] >= 1 /\ wanted[2] >= 1
      /\ file' = Written(at, wanted, textfile)
      /\ outcome' = [did |-> "saved"]
      /\ saved' = [at |-> at, size |-> wanted, textfile |-> textfile,
                   cells |-> [p \in Area(at, wanted) |-> Get(p)]]
      /\ UNCHANGED <<space, sandbox, loading, readerVars>>

(* o that reflects: before the file is opened, or after, when it is empty  *)
(* or holds a part of the text.                                            *)
OutputFails(textfile, popped, wanted) ==
  LET text == Written(Plus(popped, StorageOffset), wanted, TRUE)
  IN  /\ Reflects
      /\ \/ UNCHANGED file
         \/ /\ ~sandbox
            /\ wanted[1] >= 1 /\ wanted[2] >= 1
            /\ \E n \in 0 .. IF textfile THEN Len(text) ELSE 0 :
                 file' = SubSeq(text, 1, n)

(* p, or whatever else writes a cell                                       *)
Put(p, c) ==
  /\ Calls
  /\ space' = [space EXCEPT ![p] = c]
  /\ outcome' = NULL
  /\ saved' = NULL
  /\ UNCHANGED <<file, sandbox, loading, readerVars>>

FileNext ==
  \/ InitialChar \/ OffsetChar \/ BinaryChar \/ Loaded
  \/ InputFails
  \/ \E binary \in BOOLEAN, popped \in Offsets : Input(binary, popped)
  \/ \E textfile \in BOOLEAN, popped \in Offsets, wanted \in Sizes :
       Output(textfile, popped, wanted) \/ OutputFails(textfile, popped, wanted)
  \/ \E p \in Edited, c \in Cell : Put(p, c)

FileSpec == FileInit /\ [][FileNext]_fileVars

-----------------------------------------------------------------------------
(* The characters of f that end a line: line feeds, and carriage returns   *)
(* unless the next character, form feeds aside, is a line feed.            *)
LineEnds(f) ==
  {j \in DOMAIN f : \/ f[j] = LF
                    \/ /\ f[j] = CR
                       /\ ~\E n \in j + 1 .. Len(f) :
                             f[n] = LF /\ \A m \in j + 1 .. n - 1 : f[m] = FF}

RowAt(f, j) == Cardinality({n \in LineEnds(f) : n < j})
ColumnAt(f, j) == Cardinality({n \in DOMAIN f : /\ Occupies(f[n])
                                                /\ n < j
                                                /\ RowAt(f, n) = RowAt(f, j)})

(* Where the characters of f belong when it is loaded at a position.       *)
Belongs(f, j, at, binary) ==
  IF binary THEN Plus(at, <<j - 1, 0>>)
  ELSE Plus(at, <<ColumnAt(f, j), RowAt(f, j)>>)

Visible(f, binary) == {j \in DOMAIN f : f[j] # SP /\ (binary \/ Occupies(f[j]))}

Placed(f, at, binary) == [j \in Visible(f, binary) |-> Belongs(f, j, at, binary)]

(* However CR, LF, CR LF and form feeds are mixed, a file that was loaded  *)
(* has every character at its line and column, whichever of the two        *)
(* loaders read it, and every other cell is what it was. The size i pushes *)
(* for a text is that of its longest line and the number of its line ends. *)
LoadedAsWritten ==
  /\ loading # NULL /\ i = Len(file) + 1 =>
       LET placed == Placed(file, offset, loading = "binary")
       IN  /\ \A j \in DOMAIN placed : placed[j] \in Pos => space[placed[j]] = file[j]
           /\ \A p \in Pos \ Range(placed) : space[p] = before[p]
  /\ outcome # NULL /\ outcome.did = "text" =>
       /\ outcome.size[2] = Cardinality(LineEnds(file))
       /\ outcome.size[1] =
            Max({0} \cup {ColumnAt(file, j) + 1 :
                            j \in {n \in DOMAIN file : Occupies(file[n])}})

(* What o saves, as a text or as lines of equal length, i finds again: an  *)
(* area of characters that do not end lines comes back cell by cell. Only  *)
(* a text with nothing but its first character is lost.                    *)
SavedComesBack ==
  outcome # NULL /\ outcome.did = "saved" =>
    LET used  == {p \in DOMAIN saved.cells : saved.cells[p] # SP}
        again == Placed(file, saved.at, FALSE)
    IN  (\A p \in used : saved.cells[p] \in Graphic)
          /\ ~(saved.textfile /\ used = {saved.at})
        => /\ Range(again) = used
           /\ \A j \in DOMAIN again : file[j] = saved.cells[again[j]]
=============================================================================
