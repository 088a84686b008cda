------------------------------ MODULE SystemInfo ------------------------------
(***************************************************************************)
(* y (src/src/instructions/sysinfo.c): everything the program may ask about*)
(* itself and its environment, all of it or one cell. One cell is looked   *)
(* up directly, or, if it is far down, by pushing all on another stack; if *)
(* it is further down than that, y picks a cell of the program's own stack.*)
(***************************************************************************)
EXTENDS Operands, FiniteSets

CONSTANTS
  Variables,   \* environ: records with the name, the text, and whether "=" is there
  SafeNames,   \* the variables a sandboxed program may see
  Arguments,   \* fungeargv
  Handprint,   \* FUNGE_NEW_HANDPRINT
  Scalars,     \* what cells 1 to 7 and 15, 16 (date and time) say
  IPs,         \* the ID, position, delta, storage offset and bounds y may see
  Requests,    \* what the program asks y for
  Cells,       \* what else is on its stacks
  MaxStacks,   \* bound on the stack-stack
  MaxCells,    \* bound on the cells the program pushes on a stack
  MaxAsks,     \* bound on the ys it executes
  Junk,        \* what lies in memory before the cells of a stack
  Aborts       \* the interpreter is gone

(* What the proofs take of the constants: what y tells are cells.          *)
ASSUME SysAssumption ==
  /\ Variables \in Seq([name : STRING, text : Seq(Int), assigned : BOOLEAN])
  /\ Arguments \in Seq(Seq(Int)) /\ Handprint \in Seq(Int)
  /\ Scalars \in [time : Int, date : Int, separator : Int, version : Int,
                  handprint : Int, size : Int]
  /\ IPs \subseteq [id : Int, pos : Int \X Int, delta : Int \X Int, offset : Int \X Int,
                    least : Int \X Int, greatest : Int \X Int]
  /\ Requests \subseteq Int /\ Cells \subseteq Int

VARIABLES
  stacks,      \* the stack-stack of the IP, the TOSS last
  ip,          \* what else y says of it
  sandbox, standard,  \* the settings
  cache,       \* sysinfo_cache_stack
  asks,        \* the ys executed
  asked        \* the index stack_get_index was asked for last

sysVars == <<stacks, ip, sandbox, standard, cache, asks, asked>>

TOSS == Last(stacks)
NoCache == <<>>

-----------------------------------------------------------------------------
(* check_env_is_safe: no "=", no name to be safe.                          *)
check_env_is_safe(v) == v.assigned /\ v.name \in SafeNames
Shown(v) == sandbox => check_env_is_safe(v)

(* stack_push_string, of one text after the other.                         *)
Strings(texts) == FlattenSeq([i \in DOMAIN texts |-> PushedString(<<>>, texts[i])])

(* create_cache_stack: the environment, then the arguments, the last one   *)
(* first. In Funge-109 the handprint and both counts are with them.        *)
In109(s)    == IF standard = 109 THEN s ELSE <<>>
Environment == FlattenSeq([i \in DOMAIN Variables |->
                  IF Shown(Variables[i]) THEN PushedString(<<>>, Variables[i].text) ELSE <<>>])
environ_count == Cardinality({i \in DOMAIN Variables : Shown(Variables[i])})

CacheStack ==
  In109(PushedString(<<>>, Handprint)) \o <<0>> \o Environment
  \o In109(<<environ_count>>) \o <<0, 0>> \o Strings(Reverse(Arguments))
  \o In109(<<Len(Arguments)>>)

(* PUSH_REQ_1 and PUSH_REQ_5                                               *)
Flags    == 1 + (IF sandbox THEN 0 ELSE 14) + (IF standard = 109 THEN 32 ELSE 0)
Paradigm == IF sandbox THEN 0 ELSE 1

(* PUSH_REQ_18: the sizes of the stacks, that of the TOSS (without the     *)
(* request) last.                                                          *)
Sizes(size) == [i \in DOMAIN stacks |-> IF i = Len(stacks) THEN size ELSE Len(stacks[i])]

(* push_all. Bounds are the least point and the distance to the greatest.  *)
push_all(cached, size) ==
  cached \o Sizes(size)
  \o <<Len(stacks), Scalars.time, Scalars.date>>
  \o ip.greatest \o ip.least \o ip.offset \o ip.delta \o ip.pos
  \o <<0, ip.id, 2, Scalars.separator, Paradigm, Scalars.version, Scalars.handprint,
       Scalars.size, Flags>>

(* Mutant: x comes first.                                                  *)
push_yval_XFirst(request, size) ==
  <<Flags, Scalars.size, Scalars.handprint, Scalars.version, Paradigm, Scalars.separator,
    2, ip.id, 0, ip.pos[1], ip.pos[2], ip.delta[2], ip.delta[1], ip.offset[2],
    ip.offset[1], ip.least[2], ip.least[1], ip.greatest[2], ip.greatest[1],
    Scalars.date, Scalars.time, Len(stacks), size>>[request]

push_yval(request, size) ==
  <<Flags, Scalars.size, Scalars.handprint, Scalars.version, Paradigm, Scalars.separator,
    2, ip.id, 0, ip.pos[2], ip.pos[1], ip.delta[2], ip.delta[1], ip.offset[2],
    ip.offset[1], ip.least[2], ip.least[1], ip.greatest[2], ip.greatest[1],
    Scalars.date, Scalars.time, Len(stacks), size>>[request]

-----------------------------------------------------------------------------
SysInit == /\ stacks = <<<<>>>> /\ cache = NoCache /\ asks = 0 /\ asked = 1
           /\ ip \in IPs /\ sandbox \in BOOLEAN /\ standard \in {98, 109}

(* What the program does between two ys.                                   *)
Push == /\ Len(TOSS) < MaxCells
        /\ \E c \in Cells : stacks' = Append(Front(stacks), Append(TOSS, c))
        /\ UNCHANGED <<ip, sandbox, standard, cache, asks, asked>>

NewStack == /\ Len(stacks) < MaxStacks
            /\ stacks' = Append(stacks, <<>>)
            /\ UNCHANGED <<ip, sandbox, standard, cache, asks, asked>>

(* The program pushes a request and executes y, which pops it: the TOSS is *)
(* what is left of it.                                                     *)
Filled == IF cache = NoCache THEN CacheStack ELSE cache
All    == push_all(Filled, Len(TOSS))
Asks   == asks < MaxAsks /\ asks' = asks + 1 /\ UNCHANGED <<ip, sandbox, standard>>
Leaves(stack) == stacks' = Append(Front(stacks), stack)

run_sys_info_all(request) ==
  /\ Asks /\ request <= 0
  /\ Leaves(TOSS \o All)
  /\ cache' = Filled /\ asked' = 1

(* Unsigned, what is below 0 here is a huge number there.                  *)
PickIndex(request) == Len(TOSS) + 1 - (request - Len(All))
Picks(request)     == request > Len(All) /\ request > 23

(* stack_get_index. Index 0 is an assertion that fails or, in a build      *)
(* without assertions, the memory before the cells of the stack.           *)
Got(index) == IF index \in DOMAIN TOSS THEN {TOSS[index]}
              ELSE IF index # 0 THEN {0}
              ELSE {Aborts, IF TOSS = <<>> THEN 0 ELSE Junk}

(* What one cell may come out as.                                          *)
Outcomes(request) == IF request <= 23 THEN {push_yval(request, Len(TOSS))}
                    ELSE IF Picks(request) THEN Got(PickIndex(request))
                    ELSE {Nth(All, request)}

run_sys_info_one(request) ==
  /\ Asks /\ request > 0
  /\ asked' = IF Picks(request) THEN PickIndex(request) ELSE 1
  /\ cache' = IF request <= 23 THEN cache ELSE Filled
  /\ \E c \in Outcomes(request) :
       IF c = Aborts THEN stacks' = <<<<>>>> ELSE Leaves(Append(TOSS, c))

SysNext == \/ Push \/ NewStack
           \/ \E request \in Requests : run_sys_info_all(request) \/ run_sys_info_one(request)

SysSpec == SysInit /\ [][SysNext]_sysVars

-----------------------------------------------------------------------------
(* However it is looked up, one cell is what the program would find at     *)
(* that depth had it asked for everything, and 0 below the bottom of its   *)
(* stack. Left out is the one depth for which the index comes out as 0.    *)
OneOfAll ==
  \A request \in Requests :
    request > 0 /\ ~(Picks(request) /\ PickIndex(request) = 0)
      => Outcomes(request) = {Nth(TOSS \o All, request)}

(* stack_get_index is asked for an index from 1 on: its assertion, and     *)
(* "Index is one-based" (src/src/stack.h).                                 *)
IndexFromOne == asked # 0
=============================================================================
