----------------------------- MODULE MCFungeSpace -----------------------------
(***************************************************************************)
(* Funge-space and y, which reports it, for their model checking runs.     *)
(* y's values are constants, bounds of funge-space among them, so the two  *)
(* share no state and a behaviour exercises one of them.                   *)
(***************************************************************************)
EXTENDS FungeSpace, SystemInfo

CONSTANT Components

VARIABLE uses

(* FungeSpace scaled down. The static array has the columns -1 and 0 and   *)
(* the rows 0 to 2. The program uses the column -1, the first one right of *)
(* the array, the last row above it and two rows through it: a cell of the *)
(* column 1 taken for one of the array would be the one of the column -1   *)
(* in the row below.                                                       *)
MCXs == {-1, 1}
MCYs == {-1, 0, 1}

(* y: with an empty and a long stack, in two standards and sandboxed.      *)
MCVariables == <<[name |-> "HOME", text |-> <<1, 61, 2>>, assigned |-> TRUE],
                 [name |-> "KEY", text |-> <<3, 61>>, assigned |-> TRUE],
                 [name |-> "HOME", text |-> <<1>>, assigned |-> FALSE]>>
MCArguments == <<<<5, 6>>, <<7>>>>
MCHandprint == <<9, 9>>
MCScalars == [time |-> 21, date |-> 20, separator |-> 6, version |-> 4, handprint |-> 3,
              size |-> 2]
MCIPs == {[id |-> 8, pos |-> <<11, 10>>, delta |-> <<13, 12>>, offset |-> <<15, 14>>,
           least |-> <<17, 16>>, greatest |-> <<19, 18>>]}
MCRequests == -1 .. 60

MCInit == /\ uses \in Components /\ Init /\ SysInit
          /\ uses # "y" => ~sandbox /\ standard = 98

MCNext == /\ UNCHANGED uses
          /\ \/ uses = "space" /\ Next /\ UNCHANGED sysVars
             \/ uses = "y" /\ SysNext /\ UNCHANGED vars

MCSpec == MCInit /\ [][MCNext]_<<vars, sysVars, uses>>
=============================================================================
