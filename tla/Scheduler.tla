------------------------------ MODULE Scheduler ------------------------------
(***************************************************************************)
(* Concurrent execution: the main loop of src/src/interpreter.c, the list  *)
(* of instruction pointers of src/src/ip.c (LARGE_IPLIST: an array of      *)
(* pointers) and the control flow of the k instruction in                  *)
(* src/src/instructions/iterate.c.                                         *)
(*                                                                         *)
(* The loop walks the list downwards, one instruction per IP and tick,     *)
(* while t inserts and @ removes IPs in the array it is walking over. The  *)
(* program is arbitrary: any instruction may come next, and k may find any *)
(* count on the stack and any instruction after it.                        *)
(***************************************************************************)
EXTENDS Integers, Sequences, FiniteSets

CONSTANTS
  Instr,       \* the kinds of instructions in the program, out of AllInstr
  AllocChunk,  \* ALLOCCHUNKSIZE, the slots the list grows by
  MaxID,       \* bound: the IPs alive, or dead since the tick began
  MaxCount,    \* bound: the counts k pops from the stack
  MaxNesting,  \* bound: the ks one of which executes the next
  MaxFree,     \* bound: instructions without a tick in a row
  NULL, JUNK   \* a cleared slot, and one never written

AllInstr == {"plain",  \* takes a tick and leaves the list alone
             "free",   \* takes no tick: a space, a ;; pair, a space in a string
             "t", "@", "k"}

ID == 0 .. MaxID

ASSUME InstrAssumption == Instr \subseteq AllInstr
ASSUME BoundAssumption == /\ AllocChunk \in Nat \ {0}
                          /\ MaxID \in Nat /\ MaxCount \in Nat
                          /\ MaxNesting \in Nat /\ MaxFree \in Nat
ASSUME SlotAssumption  == NULL \notin ID /\ JUNK \notin ID

VARIABLES
  slots,      \* IPList->ips, the IPs the slots point to
  size,       \* IPList->size
  top,        \* IPList->top
  needMove,   \* ip->needMove
  i,          \* the main loop's index, which execute_instruction may change
  pc,         \* where the main loop is
  tick,       \* the instruction takes a tick (~retval)
  frames,     \* the activations of run_iterate_implement, innermost last
  free,       \* instructions without a tick since the last one with
  executing,  \* history: the IP whose turn it is
  present,    \* history: the IPs in the list when the tick began
  ran         \* history: the IPs that had their turn in this tick

vars == <<slots, size, top, needMove, i, pc, tick, frames, free,
          executing, present, ran>>

list    == <<slots, size, top>>
history == <<executing, present, ran>>

Live == {slots[j] : j \in 0 .. top}

(* The IP that the next t makes: any that is not in use. The memory of a   *)
(* dead one serves again, once the tick it died in is over, so that the    *)
(* history of a tick does not take the new one for the old one.            *)
Unused == ID \ (Live \cup present)
Child  == CHOOSE id \in Unused : TRUE

-----------------------------------------------------------------------------
(* The slots after the IP at index has been duplicated into an array of n  *)
(* slots: what lies above it moves up and the child comes right after it.  *)
SplitSlots(index, n) ==
  [j \in 0 .. n - 1 |->
     IF j = index + 1 THEN Child
     ELSE IF index + 1 < j /\ j <= top + 1 THEN slots[j - 1]
     ELSE IF j \in DOMAIN slots THEN slots[j]
     ELSE JUNK]

(* Mutant: the array is extended one IP too late.                          *)
Duplicate_GrowsLate(index) ==
  /\ Unused # {}
  /\ size' = IF size <= top THEN size + AllocChunk ELSE size
  /\ slots' = SplitSlots(index, size')
  /\ top' = top + 1
  /\ needMove' = [needMove EXCEPT ![Child] = needMove[slots[index]]]

(* iplist_duplicate_ip. It returns the index of the parent, so i stays; -1 *)
(* when the array cannot be extended, and then nothing has changed but the *)
(* direction of the IP. The child is a copy of the parent, needMove        *)
(* included.                                                               *)
Duplicate(index) ==
  \/ /\ Unused # {}
     /\ size' = IF size <= top + 1 THEN size + AllocChunk ELSE size
     /\ slots' = SplitSlots(index, size')
     /\ top' = top + 1
     /\ needMove' = [needMove EXCEPT ![Child] = needMove[slots[index]]]
  \/ /\ size <= top + 1
     /\ UNCHANGED <<list, needMove>>

(* Mutant: the IPs above stay where they are.                              *)
TerminatedSlots_NoShift(index) == [slots EXCEPT ![index] = NULL]

(* Mutant: the last IP takes the place of the dead one.                    *)
TerminatedSlots_SwapLast(index) ==
  [slots EXCEPT ![index] = slots[top], ![top] = NULL]

(* iplist_terminate_ip                                                     *)
TerminatedSlots(index) ==
  [j \in DOMAIN slots |-> IF index <= j /\ j < top THEN slots[j + 1]
                          ELSE IF j = top THEN NULL
                          ELSE slots[j]]

(* Mutant: one IP further down.                                            *)
Below_TwoDown(index) == IF index > 1 THEN index - 2 ELSE 0

Below(index) == IF index > 0 THEN index - 1 ELSE 0

(* The @ instruction, when it is not the last IP that dies.                *)
Terminate(index) ==
  /\ slots' = TerminatedSlots(index)
  /\ top' = top - 1
  /\ i' = Below(index)
  /\ needMove' = [needMove EXCEPT ![slots'[i']] = FALSE]
  /\ UNCHANGED size

-----------------------------------------------------------------------------
Init == /\ slots = [j \in 0 .. AllocChunk - 1 |-> IF j = 0 THEN 0 ELSE JUNK]
        /\ size = AllocChunk /\ top = 0
        /\ needMove = [id \in ID |-> TRUE]
        /\ i = 0
        /\ pc = "execute"
        /\ tick = TRUE
        /\ frames = <<>>
        /\ free = 0
        /\ executing = 0
        /\ present = {0} /\ ran = {}

(* The IP at index i starts an instruction of the given kind.              *)
Start(kind) ==
  /\ pc = "execute" /\ kind \in Instr
  /\ executing' = slots[i]
  /\ tick' = (kind # "free")
  /\ free' = IF kind = "free" THEN free + 1 ELSE 0
  /\ ran' = IF kind = "free" THEN ran ELSE ran \cup {slots[i]}
  /\ UNCHANGED present

(* An instruction can clear needMove, and none sets it.                    *)
MayClearNeedMove(id) ==
  \/ UNCHANGED needMove
  \/ needMove' = [needMove EXCEPT ![id] = FALSE]

Plain == /\ Start("plain")
         /\ MayClearNeedMove(slots[i])
         /\ pc' = "forward"
         /\ UNCHANGED <<list, i, frames>>

Free == /\ Start("free") /\ free < MaxFree
        /\ MayClearNeedMove(slots[i])
        /\ pc' = "forward"
        /\ UNCHANGED <<list, i, frames>>

(* Mutant: the index of the child is taken for that of the parent.         *)
Split_AtChild == /\ Start("t")
                 /\ Duplicate(i)
                 /\ i' = i + top' - top
                 /\ pc' = "forward"
                 /\ UNCHANGED frames

Split == /\ Start("t")
         /\ Duplicate(i)
         /\ pc' = "forward"
         /\ UNCHANGED <<i, frames>>

Quit == /\ Start("@") /\ top > 0
        /\ Terminate(i)
        /\ pc' = "forward"
        /\ UNCHANGED frames

QuitLast == /\ Start("@") /\ top = 0
            /\ pc' = "exited"
            /\ UNCHANGED <<list, needMove, i, frames>>

-----------------------------------------------------------------------------
(* An activation of run_iterate_implement: how often the instruction op    *)
(* has still to be executed, the IP it works on, and the index of that IP  *)
(* when it began. A count of zero or less executes nothing.                *)
Frame == [op : {"plain", "t", "@", "k"}, left : 0 .. MaxCount,
          ip : ID, oldindex : Nat]

NewFrame(ip) ==
  {f \in [op : {"plain", "t", "@", "k"} \cap Instr, left : 0 .. MaxCount,
          ip : {ip}, oldindex : {i}] :
     f.op = "k" => Len(frames) < MaxNesting}

Iterate == /\ Start("k")
           /\ \E f \in NewFrame(slots[i]) : frames' = <<f>>
           /\ pc' = "iterate"
           /\ UNCHANGED <<list, needMove, i>>

Current == frames[Len(frames)]
Callers == SubSeq(frames, 1, Len(frames) - 1)
OneLess == [frames EXCEPT ![Len(frames)].left = @ - 1]

Iterating(op) ==
  /\ pc = "iterate" /\ Current.op = op /\ Current.left > 0
  /\ UNCHANGED <<tick, free, history>>

IteratePlain == /\ Iterating("plain")
                /\ MayClearNeedMove(Current.ip)
                /\ frames' = OneLess
                /\ UNCHANGED <<list, i, pc>>

IterateSplit == /\ Iterating("t")
                /\ Duplicate(i)
                /\ frames' = OneLess
                /\ UNCHANGED <<i, pc>>

(* iplist_duplicate_ip gives up on the whole program when the array is     *)
(* large enough but there is no memory for the child.                      *)
SplitOutOfMemory == /\ Start("t") \/ Iterating("t")
                    /\ pc' = "exited"
                    /\ UNCHANGED <<list, needMove, i, frames>>

(* Mutant: k executes @ as often as any other instruction.                 *)
IterateQuit_EveryTime == /\ Iterating("@") /\ top > 0
                         /\ Terminate(i)
                         /\ frames' = OneLess
                         /\ UNCHANGED pc

(* k executes @ once, whatever the count.                                  *)
IterateQuit == /\ Iterating("@") /\ top > 0
               /\ Terminate(i)
               /\ frames' = [frames EXCEPT ![Len(frames)].left = 0]
               /\ UNCHANGED pc

IterateQuitLast == /\ Iterating("@") /\ top = 0
                   /\ pc' = "exited"
                   /\ UNCHANGED <<list, needMove, i, frames>>

(* k executes another k: RUNSELF.                                          *)
IterateNested ==
  /\ Iterating("k")
  /\ \E f \in NewFrame(Current.ip) : frames' = Append(OneLess, f)
  /\ UNCHANGED <<list, needMove, i, pc>>

(* An activation ends. The one that called it reads its IP again from the  *)
(* slot it was in, and then the position of that IP, whatever the slot     *)
(* holds by now.                                                           *)
IterateReturn ==
  /\ pc = "iterate" /\ Current.left = 0
  /\ IF Callers = <<>>
       THEN frames' = <<>> /\ pc' = "forward"
       ELSE LET ip == slots[Callers[Len(Callers)].oldindex]
            IN  IF ip \in ID
                  THEN /\ frames' = [Callers EXCEPT ![Len(Callers)].ip = ip]
                       /\ UNCHANGED pc
                  ELSE /\ pc' = "crashed"
                       /\ UNCHANGED frames
  /\ UNCHANGED <<list, needMove, i, tick, free, history>>

-----------------------------------------------------------------------------
(* Mutant: the tick ends before the IP at index 0.                         *)
Forward_SkipsFirst ==
  /\ pc = "forward"
  /\ needMove' = [needMove EXCEPT ![slots[i]] = TRUE]
  /\ pc' = "execute"
  /\ IF tick /\ i <= 1
       THEN i' = top /\ present' = Live /\ ran' = {}
       ELSE /\ i' = IF tick THEN i - 1 ELSE i
            /\ UNCHANGED <<present, ran>>
  /\ UNCHANGED <<list, tick, frames, free, executing>>

(* thread_forward moves the IP at i unless its needMove is clear, and sets *)
(* needMove. Then comes the IP below, or the top of the list again.        *)
Forward ==
  /\ pc = "forward"
  /\ needMove' = [needMove EXCEPT ![slots[i]] = TRUE]
  /\ pc' = "execute"
  /\ IF tick /\ i = 0
       THEN i' = top /\ present' = Live /\ ran' = {}
       ELSE /\ i' = IF tick THEN i - 1 ELSE i
            /\ UNCHANGED <<present, ran>>
  /\ UNCHANGED <<list, tick, frames, free, executing>>

(* The program ended, or the interpreter did.                              *)
Stopped == pc \in {"exited", "crashed"} /\ UNCHANGED vars

Next == \/ Plain \/ Free \/ Split \/ Quit \/ QuitLast
        \/ Iterate \/ IteratePlain \/ IterateSplit \/ SplitOutOfMemory
        \/ IterateQuit \/ IterateQuitLast \/ IterateNested \/ IterateReturn
        \/ Forward \/ Stopped

Spec == Init /\ [][Next]_vars

(* The interpreter is a loop that never waits, so it takes a step whenever *)
(* it can.                                                                 *)
FairSpec == Spec /\ WF_vars(Next)

-----------------------------------------------------------------------------
(* Types of the variables; the index of the main loop is a used slot.      *)
TypeOK ==
  /\ slots \in [0 .. size - 1 -> ID \cup {NULL, JUNK}]
  /\ size \in Nat /\ top \in Nat /\ top < size
  /\ needMove \in [ID -> BOOLEAN]
  /\ i \in 0 .. top
  /\ pc \in {"execute", "iterate", "forward", "exited", "crashed"}
  /\ tick \in BOOLEAN
  /\ frames \in Seq(Frame) /\ (pc = "iterate" => frames # <<>>)
  /\ free \in 0 .. MaxFree
  /\ executing \in ID /\ present \subseteq ID /\ ran \subseteq ID

(* Whatever t, @ and nested ks do to the array while the main loop is in   *)
(* it, the slots up to top hold distinct IPs, none of them freed, cleared  *)
(* or uninitialised.                                                       *)
SlotsDistinct ==
  /\ \A j \in 0 .. top : slots[j] \in ID
  /\ \A j, k \in 0 .. top : slots[j] = slots[k] => j = k

(* When the main loop is about to execute the IP at i, that one and all    *)
(* below it were there when the tick began and have not had their turn: no *)
(* IP gets two turns in a tick, and a child waits for the next tick.       *)
TurnOrder ==
  pc = "execute" => \A j \in 0 .. i : slots[j] \in present \ ran

(* Every death costs at most one other IP its turn in that tick.           *)
TurnsLost ==
  pc = "execute" =>
    LET pending == {slots[j] : j \in 0 .. i}
        lost    == (present \cap Live) \ (ran \cup pending)
    IN  Cardinality(lost) <= Cardinality(present \ Live)

(* IPs keep their order in the list and a child is executed right before   *)
(* its parent: whoever is above another stays above it.                    *)
Above(a, b) == \E j, k \in 0 .. top : j > k /\ slots[j] = a /\ slots[k] = b
OrderKept ==
  [][\A a, b \in Live \cap Live' : Above(a, b) => Above(a, b)']_vars

(* What an IP executes is its own affair. "lets just kill current IP"      *)
(* (src/src/instructions/iterate.c:161): no other IP dies of it; the main  *)
(* loop moves no other IP, whose slot it may have reached by a death; and  *)
(* needMove, "reset to true each time" (src/src/ip.h:62), is clear for no  *)
(* IP when an instruction starts, so none is executed twice.               *)
OthersUnaffected ==
  [][/\ Live \ Live' \subseteq {executing'}
     /\ pc' = "forward" /\ needMove'[slots'[i']] => slots'[i'] = executing'
     /\ pc' = "execute" => \A j \in 0 .. top' : needMove'[slots'[j]]]_vars

(* "Tests that we don't crash or continue after iterating over @."         *)
(* (src/tests/automated/iterate-exit.b98): iterating never crashes.        *)
NoCrash == pc # "crashed"

(* The IP right above it in the list has died in its turn, and the main    *)
(* loop takes the slot that id has come down to for the one that was       *)
(* executed.                                                               *)
Skipped(id) == /\ pc = "forward" /\ executing \notin Live
               /\ slots[i] = id /\ id \in present \ ran

(* An IP gets its turn again and again until it dies, however many others  *)
(* are born and die meanwhile: births never postpone a turn, and only the  *)
(* death of the IP right above it costs it one.                            *)
EveryIPRuns ==
  \A id \in ID :
    id \in Live ~> (pc = "exited" \/ id \notin Live
                    \/ (executing = id /\ id \in ran) \/ Skipped(id))
=============================================================================
