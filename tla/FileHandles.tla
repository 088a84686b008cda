---------------------------- MODULE FileHandles -----------------------------
(***************************************************************************)
(* The fingerprint FILE: a table of handles shared by all IPs, over the    *)
(* streams of stdio. The C library and the file system are external: a     *)
(* stream is the text of its file and a position, what fopen finds is any  *)
(* of Contents, and every call of theirs may fail. C leaves open what a    *)
(* read after a write does, or a write after a read, with no seek between  *)
(* them; those sequences are not taken.                                    *)
(***************************************************************************)
EXTENDS HandleTable, FiniteSetsExt, SequencesExt

CONSTANTS CR, LF, Byte,   \* bytes, the two line ends among them
          Contents,       \* what a file holds when it is opened
          Buffer,         \* where on their line i/o buffers start
          Cells,          \* the cells of that line before anything is read
          Wide, LowByte,  \* cells beyond a byte, and the byte fwrite takes of each
          Handle,         \* the cells taken for handles
          MaxText, MaxOpen, MaxCount  \* bounds: length of a file, streams, bytes asked for

(* What a file holds are bytes, carriage return and line feed among them, and
   the buffers lie on the cells there are. *)
FileAssumption ==
    /\ CR \in Byte /\ LF \in Byte /\ CR # LF /\ Byte \ {CR, LF} # {}
    /\ Contents \subseteq Seq(Byte)
    /\ MaxText \in Nat /\ MaxOpen \in Nat /\ MaxCount \in Nat
    /\ LowByte \in [Wide -> Byte] /\ Cells \in Seq(Byte \cup Wide)
    /\ Buffer \subseteq Nat /\ \A x \in Buffer : x + MaxCount <= Len(Cells)
    /\ NoEntry \notin [file : 1 .. MaxOpen, buffvect : Buffer]

VARIABLES handles,   \* FungeFileHandle* handles[]
          streams,   \* the open streams, by name
          space,     \* the cells of the line the buffers lie on
          said       \* what the last call pushed, whether it reflected, and
                     \* whether a read of stdio had failed without its noticing

fileVars == <<handles, streams, space, said>>

StreamName == 1 .. MaxOpen
Closed     == [text |-> <<>>, pos |-> 0, mode |-> -1, last |-> "seek"]
Outcome(call, h, pushed, reflects, unnoticed) ==
    said' = [call |-> call, handle |-> h, pushed |-> pushed, reflects |-> reflects,
             unnoticed |-> unnoticed]
Says(call, h, pushed, reflects) == Outcome(call, h, pushed, reflects, FALSE)

FileInit == /\ handles = EmptyTable
            /\ streams = [f \in StreamName |-> Closed]
            /\ space = Cells
            /\ said = [call |-> "load", handle |-> 0, pushed |-> <<>>, reflects |-> FALSE,
                       unnoticed |-> FALSE]

StreamOf(h) == streams[At(handles, h).file]
Turned(h, stream) == streams' = [streams EXCEPT ![At(handles, h).file] = stream]

Rejects(call, h) == /\ ~valid_handle(handles, h)
                    /\ Says(call, h, <<>>, TRUE)
                    /\ UNCHANGED <<handles, streams, space>>
-----------------------------------------------------------------------------
(* mode_table: r, w, a, r+, w+ and a+. *)
Mode     == 0 .. 5
Reads    == {0, 3, 4, 5}
Writes   == Mode \ {0}
Clears   == {1, 4}
Appends  == {2, 5}

(* Appending streams are rewound, to be read from the start. *)
Opened(mode, text) == [text |-> IF mode \in Clears THEN <<>> ELSE text,
                       pos  |-> 0, mode |-> mode, last |-> "seek"]

CanRead(stream)  == stream.mode \in Reads /\ stream.last # "write"
CanWrite(stream) == stream.mode \in Writes /\ stream.last # "read"
Read(stream, n)  == [stream EXCEPT !.pos = @ + n, !.last = "read"]

(* No name, a mode that is none, no memory, or no file: nothing stays open. *)
OpenFails_NotClosed ==
    /\ handles' \in Starved(handles)
    /\ \E f \in StreamName, text \in Contents :
          streams[f] = Closed /\ streams' = [streams EXCEPT ![f] = Opened(0, text)]
    /\ Says("O", -1, <<>>, TRUE)
    /\ UNCHANGED space
OpenFails == /\ handles' \in Starved(handles)
             /\ Says("O", -1, <<>>, TRUE)
             /\ UNCHANGED <<streams, space>>

finger_FILE_fopen ==
    \E mode \in Mode, text \in Contents, x \in Buffer :
        LET closed == {f \in StreamName : streams[f] = Closed}
            f      == CHOOSE g \in closed : \A k \in closed : g <= k
            h      == NextFree(handles)
        IN  /\ closed # {}
            /\ handles' = allocate_handle(handles, [file |-> f, buffvect |-> x])
            /\ streams' = [streams EXCEPT ![f] = Opened(mode, text)]
            /\ Says("O", h, <<h>>, FALSE)
            /\ UNCHANGED space

(* The handle is gone even if the file cannot be closed properly. *)
finger_FILE_fclose == \E h \in Handle :
    \/ Rejects("C", h)
    \/ /\ valid_handle(handles, h)
       /\ Turned(h, Closed)
       /\ handles' = free_handle(handles, h)
       /\ \E failed \in BOOLEAN : Says("C", h, <<>>, failed)
       /\ UNCHANGED space

finger_FILE_delete == /\ \E failed \in BOOLEAN : Says("D", -1, <<>>, failed)
                      /\ UNCHANGED <<handles, streams, space>>
-----------------------------------------------------------------------------
Rest(stream) == SubSeq(stream.text, stream.pos + 1, Len(stream.text))

(* How much of a text fgets takes: up to and including a line feed, or a
   carriage return with the line feed after it; all of it if there is none. *)
LineLength_NotUngot(text) ==
    LET ends == {i \in DOMAIN text : text[i] \in {CR, LF}}
    IN  IF ends = {} THEN Len(text)
        ELSE LET e == CHOOSE i \in ends : \A j \in ends : i <= j
             IN  IF text[e] = CR /\ e < Len(text) THEN e + 1 ELSE e
LineLength(text) ==
    LET ends == {i \in DOMAIN text : text[i] \in {CR, LF}}
    IN  IF ends = {} THEN Len(text)
        ELSE LET e == CHOOSE i \in ends : \A j \in ends : i <= j
             IN  IF text[e] = CR /\ e < Len(text) /\ text[e + 1] = LF THEN e + 1 ELSE e

(* Pushes the line and its length, above the handle. Only the read after a
   carriage return is not looked at: if it fails there is no line feed, and the
   line ends there. *)
finger_FILE_fgets == \E h \in Handle :
    \/ Rejects("G", h)
    \/ /\ valid_handle(handles, h)
       /\ LET s == StreamOf(h)
              n == LineLength(Rest(s))
          IN  \/ /\ CanRead(s)
                 /\ Turned(h, Read(s, n))
                 /\ Says("G", h, SubSeq(s.text, s.pos + 1, s.pos + n), FALSE)
              \/ /\ CanRead(s) /\ n > 1 /\ Rest(s)[n - 1] = CR
                 /\ Turned(h, Read(s, n - 1))
                 /\ Outcome("G", h, SubSeq(s.text, s.pos + 1, s.pos + (n - 1)), FALSE, TRUE)
              \/ \E k \in 0 .. n : /\ CanRead(s)
                                   /\ Turned(h, Read(s, k))
                                   /\ Says("G", h, <<>>, TRUE)
              \/ /\ s.mode \notin Reads
                 /\ UNCHANGED streams
                 /\ Says("G", h, <<>>, TRUE)
       /\ UNCHANGED <<handles, space>>

finger_FILE_ftell == \E h \in Handle :
    \/ Rejects("L", h)
    \/ /\ valid_handle(handles, h)
       /\ \/ Says("L", h, <<StreamOf(h).pos>>, FALSE)
          \/ Says("L", h, <<>>, TRUE)
       /\ UNCHANGED <<handles, streams, space>>

(* Where a seek ends: from the start, from here, from the end, or nowhere. *)
Target(stream, m, n) == CASE m = 0 -> n
                          [] m = 1 -> stream.pos + n
                          [] m = 2 -> Len(stream.text) + n
                          [] OTHER -> -1

finger_FILE_fseek == \E h \in Handle, m \in 0 .. 3, n \in -1 .. 1 :
    \/ Rejects("S", h)
    \/ /\ valid_handle(handles, h)
       /\ LET s == StreamOf(h)
          IN  \/ /\ Target(s, m, n) \in 0 .. MaxText
                 /\ Turned(h, [s EXCEPT !.pos = Target(s, m, n), !.last = "seek"])
                 /\ Says("S", h, <<>>, FALSE)
              \/ /\ Target(s, m, n) < 0
                 /\ Says("S", h, <<>>, TRUE)
                 /\ UNCHANGED streams
       /\ UNCHANGED <<handles, space>>
-----------------------------------------------------------------------------
(* Bytes written at the position, or at the end when appending, over what is
   there; a position beyond the end leaves a hole. *)
Hole == CHOOSE b \in Byte : b \notin {CR, LF}
Overwritten(stream, bytes) ==
    LET from == IF stream.mode \in Appends THEN Len(stream.text) ELSE stream.pos
        end  == from + Len(bytes)
        ByteAt(i) == IF i \in from + 1 .. end THEN bytes[i - from]
                     ELSE IF i \in DOMAIN stream.text THEN stream.text[i] ELSE Hole
    IN  [stream EXCEPT !.text = [i \in 1 .. Max({end, Len(stream.text)}) |-> ByteAt(i)],
                       !.pos  = end,
                       !.last = "write"]

Put(call, h, bytes) ==
    LET s == StreamOf(h)
    IN  \/ /\ CanWrite(s)
           /\ Len(Overwritten(s, bytes).text) <= MaxText
           /\ Turned(h, Overwritten(s, bytes))
           /\ Says(call, h, <<>>, FALSE)
        \/ /\ UNCHANGED streams
           /\ Says(call, h, <<>>, TRUE)

finger_FILE_fputs == \E h \in Handle, str \in Contents :
    \/ Rejects("P", h)
    \/ /\ valid_handle(handles, h)
       /\ Put("P", h, str)
       /\ UNCHANGED <<handles, space>>

ByteOf(cell) == IF cell \in Wide THEN LowByte[cell] ELSE cell

(* A count below one is refused like a bad handle. *)
finger_FILE_fwrite == \E h \in Handle, n \in 0 .. MaxCount :
    \/ Rejects("W", h)
    \/ /\ valid_handle(handles, h)
       /\ IF n = 0 THEN UNCHANGED streams /\ Says("W", h, <<>>, TRUE)
          ELSE LET x == At(handles, h).buffvect
               IN  Put("W", h, [i \in 1 .. n |-> ByteOf(space[x + i])])
       /\ UNCHANGED <<handles, space>>

(* Fewer bytes than asked for reflect, but those read are stored. *)
finger_FILE_fread == \E h \in Handle, n \in 0 .. MaxCount :
    \/ Rejects("R", h)
    \/ /\ valid_handle(handles, h)
       /\ LET s == StreamOf(h)
              x == At(handles, h).buffvect
              got == Min({n, Len(Rest(s))})
          IN  \/ /\ n > 0 /\ CanRead(s)
                 /\ Turned(h, Read(s, got))
                 /\ space' = [c \in DOMAIN Cells |-> IF c \in x + 1 .. x + got
                                                     THEN Rest(s)[c - x] ELSE space[c]]
                 /\ Says("R", h, <<>>, got # n)
              \/ \E k \in 0 .. got : /\ n > 0 /\ CanRead(s)
                                     /\ Turned(h, Read(s, k))
                                     /\ Says("R", h, <<>>, TRUE)
                                     /\ UNCHANGED space
              \/ /\ n = 0 \/ s.mode \notin Reads
                 /\ Says("R", h, <<>>, TRUE)
                 /\ UNCHANGED <<streams, space>>
       /\ UNCHANGED handles

FileNext == \/ finger_FILE_fopen \/ OpenFails \/ finger_FILE_fclose
            \/ finger_FILE_delete
            \/ finger_FILE_fgets \/ finger_FILE_ftell \/ finger_FILE_fseek
            \/ finger_FILE_fputs \/ finger_FILE_fwrite \/ finger_FILE_fread

FileSpec == FileInit /\ [][FileNext]_fileVars
-----------------------------------------------------------------------------
(* Whatever is opened, closed and refused in whatever order, by whichever IP:
   every open stream has exactly one handle, and every handle an open stream. *)
StreamsHeld ==
    /\ \A h \in Valid(handles) : StreamOf(h) # Closed
    /\ \A f \in StreamName : streams[f] # Closed =>
          \E h \in Valid(handles) : {g \in Valid(handles) : At(handles, g).file = f} = {h}

(* G takes one line and no more: what it pushes is the text up to the new
   position, a line end is only at its end, and without one the text has ended.
   A carriage return and its line feed are never parted, but for one case: when
   the read after the carriage return fails, which G does not notice. *)
LinesWhole == [][
    said'.call = "G" /\ ~said'.reflects =>
        LET h    == said'.handle
            old  == StreamOf(h)
            new  == streams'[At(handles, h).file]
            line == said'.pushed
        IN  /\ line = SubSeq(old.text, old.pos + 1, new.pos)
            /\ \A i \in 1 .. Len(line) - 1 :
                  line[i] \in {CR, LF} => i = Len(line) - 1 /\ line[i] = CR /\ line[i + 1] = LF
            /\ line = <<>> \/ Last(line) \notin {CR, LF} => Rest(new) = <<>>
            /\ said'.unnoticed <=>
                  Rest(new) # <<>> /\ Head(Rest(new)) = LF /\ Last(line) = CR
    ]_fileVars
=============================================================================
