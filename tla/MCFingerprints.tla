--------------------------- MODULE MCFingerprints ---------------------------
(***************************************************************************)
(* The fingerprint manager, the handles of FILE, SOCK and SCKE and the     *)
(* references of REFC for their model checking run. They share nothing     *)
(* with each other, so a behaviour exercises one of them: "table" loads    *)
(* each of the fingerprints there are above one that has all letters,      *)
(* "manager" a few of them often, FING first.                              *)
(***************************************************************************)
EXTENDS Manager, FileHandles, Sockets, References

CONSTANTS letter, wide, MaxCalls

VARIABLES uses, calls

MCByte     == {letter, CR, LF}
MCContents == {<<CR, CR, LF>>, <<letter>>}
MCCells    == <<wide, letter>>
MCLowByte  == [c \in {wide} |-> LF]
MCHandle   == -1 .. 2
MCSockets  == -1 .. 4

ASSUME HandlesAssumption == FileAssumption /\ SocketAssumption

MCCode(i) == LET f == ImplementedFingerprints[i].fprint
             IN  <<f \div 16777216, (f \div 65536) % 256, (f \div 256) % 256, f % 256>>
MCAll == {MCCode(i) : i \in DOMAIN ImplementedFingerprints} \cup {<<>>, <<70, 73, 78, 72>>}
MCCalled(names) == {MCCode(i) : i \in {j \in DOMAIN ImplementedFingerprints :
                                          ImplementedFingerprints[j].name \in names}}

Few   == INSTANCE Manager WITH Requests <- MCCalled({"FING", "BOOL"}) \cup {<<>>}
Toys  == INSTANCE Manager WITH Requests <- MCCalled({"TOYS"})
Fing1 == INSTANCE Manager WITH Requests <- MCCalled({"FING"})

MCInit == /\ Init /\ FileInit /\ SocketInit /\ RefInit
          /\ uses \in {"table", "manager", "files", "sockets", "references"}
          /\ uses \notin {"table", "manager"} => ips = {CHOOSE ip \in IP : TRUE}
          /\ calls = 0

Call(bound) == calls < bound /\ calls' = calls + 1 /\ UNCHANGED uses

MCNext ==
    \/ /\ uses = "table" /\ Call(2)
       /\ IF calls = 0 THEN Toys!Next /\ reply' = "loaded" ELSE Next
       /\ UNCHANGED <<fileVars, socketVars, refVars>>
    \/ /\ uses = "manager" /\ Call(MaxCalls - 1)
       /\ IF calls = 0 THEN Fing1!Next /\ reply' = "loaded" ELSE Few!Next
       /\ UNCHANGED <<fileVars, socketVars, refVars>>
    \/ /\ uses = "files" /\ Call(MaxCalls - 1) /\ FileNext
       /\ UNCHANGED <<vars, socketVars, refVars>>
    \/ /\ uses = "sockets" /\ Call(MaxCalls) /\ SocketNext
       /\ UNCHANGED <<vars, fileVars, refVars>>
    \/ /\ uses = "references" /\ RefNext
       /\ UNCHANGED <<vars, fileVars, socketVars, uses, calls>>

MCSpec == MCInit /\ [][MCNext]_<<vars, uses, calls, fileVars, socketVars, refVars>>
=============================================================================
