------------------------------ MODULE MCReaders ------------------------------
(***************************************************************************)
(* Files and Input for their model checking run: a program either loads    *)
(* and saves, or reads standard input. The two share nothing, so exploring *)
(* them one beside the other would only multiply their states.             *)
(***************************************************************************)
EXTENDS Files, Input

VARIABLE uses

Texts(chars, n) == UNION {[1 .. k -> chars] : k \in 0 .. n}

MCChar    == {"1", "f", "F", "x", LF, CR, NUL}
MCDigit   == [c \in {"1", "f"} |-> IF c = "1" THEN 1 ELSE 15]
MCStreams == Texts(MCChar, 4)

MCFirstFiles == Texts({SP, LF, CR, FF, "a"}, 4)
MCLowByte    == [w \in {"w"} |-> LF]
MCPos        == (0 .. 4) \X (0 .. 3)
MCOffsets    == {<<0, 0>>, <<1, 0>>}
MCSizes      == {<<1, 1>>, <<2, 2>>, <<3, 1>>, <<0, 1>>}
MCEdited     == {<<1, 1>>}
MCStorage    == <<0, 1>>

MCInit == /\ Init /\ FileInit
          /\ uses \in {"files", "input"}
          /\ uses = "files" => stream = <<>>
          /\ uses = "input" => file = <<>> /\ ~sandbox

MCNext == /\ UNCHANGED uses
          /\ \/ uses = "files" /\ FileNext /\ UNCHANGED vars
             \/ uses = "input" /\ Next /\ UNCHANGED fileVars

MCSpec == /\ MCInit
          /\ [][MCNext]_<<vars, fileVars, uses>>
          /\ WF_vars(uses = "input" /\ Answer /\ UNCHANGED <<fileVars, uses>>)
=============================================================================
