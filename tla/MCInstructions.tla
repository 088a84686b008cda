---------------------------- MODULE MCInstructions ----------------------------
(***************************************************************************)
(* The instructions one IP executes by itself, for their model checking    *)
(* run: programs of a line (Interpreter), DATE (Calendar), STRN (Strings), *)
(* TOYS (Toys) and TURT (Turtle). They share no state here, so a behaviour *)
(* exercises one of them.                                                  *)
(***************************************************************************)
EXTENDS Interpreter, Calendar, Turtle, Toys

CONSTANTS Components

VARIABLES uses,
          stringMachine, stringCalls

MCCellMin == -16
MCLine(w) == [q \in {<<i - 1, 0>> : i \in {j \in DOMAIN w : w[j] # Code.blank}} |-> w[q[1] + 1]]
Flow      == {Code.blank, Code.semicolon, Code.quote, Code.k, Code.z, 50, Code.jump}
Core      == {Code[c] : c \in DOMAIN Code} \cup {49, 102, 1}
MCPrograms == {MCLine(w) : w \in [1 .. 4 -> Flow]}
              \cup {MCLine(<<c, d, e>>) : c \in {Code.k, Code.C, Code.put},
                                          d \in Core, e \in Flow}
MCStacks == {<<>>, <<3, 0, 1>>, <<0, 1, 2, 0, 1>>, <<-16, -1>>}
MCRandom == <<1, 0, 2, 3>>

(* DATE: around the first Julian day, the missing year 0, and the leap     *)
(* days of 1900 and 2000.                                                  *)
MCDays  == (-1060 .. -1040) \cup (-3 .. 3) \cup (1721424 - 370 .. 1721424 + 64)
           \cup (2451545 + 50 .. 2451545 + 64) \cup (2415020 + 50 .. 2415020 + 64)
MCYDays == {-1, 0, 58, 59, 364, 365, 366}
MCSpans == {-366, 1, 31}
MCYears == {-401, -101, -5, -1, 0, 1, 4, 1900, 2000, 2023}
MCDates == {<<-5, 2, 29>>, <<-1, 12, 31>>, <<-1, 2, 28>>, <<-1, 2, 29>>, <<0, 1, 1>>,
            <<1900, 2, 29>>, <<2000, 2, 30>>, <<2000, 13, 1>>, <<4, 4, 31>>, <<4, 0, 31>>,
            <<4, 1, 0>>}
NoDate  == date = <<0, 1, 1>> /\ day = 0 /\ reflected = FALSE /\ reply = 0

S == INSTANCE Strings WITH
       Texts <- {<<>>, <<97>>, <<97, 98, 97, 98>>, <<32, 97>>, <<32, 45, 49, 50, 98>>},
       Numbers <- {-12, 0, 1, 2, 100}, Places <- {<<-3, 0>>, <<0, 2>>},
       Reach <- 30, MaxStack <- 7, MaxCalls <- 4, t <- stringMachine, calls <- stringCalls

MCFields == {[q \in P |-> 1 + q[1] + 3 * q[2]] :
               P \in {{<<0, 0>>, <<1, 0>>, <<1, 1>>, <<2, 1>>, <<0, 2>>},
                      {<<0, 0>>, <<1, 0>>, <<2, 0>>, <<0, 1>>, <<1, 1>>, <<2, 1>>}, {<<1, 1>>}}}
MCCorners == ((0 .. 1) \X (0 .. 1)) \cup {<<-1, 1>>}
MCSizes   == {<<2, 2>>, <<1, 2>>, <<2, 1>>, <<0, 1>>, <<-1, 1>>}
MCCounts  == {-2, 0, 1, 3}
NoToys    == toys = <<>> /\ toysSteps = -1

MCPlaces  == {<<1, 1>>}
MCTurtMin == -2

Idle == INSTANCE Interpreter WITH
          Programs <- {MCLine(<<Code.z>>)}, Stacks <- {<<>>}, Standards <- {98}

stringVars == <<stringMachine, stringCalls>>

-----------------------------------------------------------------------------
MCInit ==
  /\ uses \in Components
  /\ IF uses = "programs" THEN Init ELSE Idle!Init
  /\ IF uses = "dates" THEN DateInit ELSE NoDate
  /\ S!StringsInit
  /\ IF uses = "areas" THEN ToysInit ELSE NoToys
  /\ TurtInit

MCNext ==
  /\ UNCHANGED uses
  /\ \/ /\ uses = "programs" /\ Next
        /\ UNCHANGED <<dateVars, stringVars, toysVars, turtVars>>
     \/ /\ uses = "dates" /\ DateNext
        /\ UNCHANGED <<vars, stringVars, toysVars, turtVars>>
     \/ /\ uses = "strings" /\ S!StringsNext
        /\ UNCHANGED <<vars, dateVars, toysVars, turtVars>>
     \/ /\ uses = "areas" /\ ToysNext
        /\ UNCHANGED <<vars, dateVars, stringVars, turtVars>>
     \/ /\ uses = "turtle" /\ TurtNext
        /\ UNCHANGED <<vars, dateVars, stringVars, toysVars>>

MCSpec == MCInit /\ [][MCNext]_<<uses, vars, dateVars, stringVars, toysVars, turtVars>>

(* STRN: what P put G gets, and what is taken apart fits together (STRN.c).*)
StringsComeBack == uses = "strings" => S!StringsComeBack
=============================================================================
