---------------------------- MODULE ExecutionProofs ----------------------------
(***************************************************************************)
(* Proofs about the execution of instructions: Scheduler, for any number   *)
(* of IPs, any growth of the list, any counts and any depth of nested ks;  *)
(* and, at the end, the loops over areas of funge-space in Toys, for any   *)
(* funge-space, corners, sizes and shifts.                                 *)
(***************************************************************************)
EXTENDS Scheduler, Toys, CommonLemmas

(* Nothing but instructions that take a tick is iterated over.             *)
IterateTakesTick == pc = "iterate" => tick

(* The slots the main loop has still to come to in this tick hold IPs that *)
(* were there when it began and had no turn yet: those below i, and i      *)
(* itself unless an instruction that takes a tick has begun there.         *)
Pending ==
  pc \in {"execute", "iterate", "forward"} =>
    \A j \in 0 .. i : j < i \/ pc = "execute" \/ ~tick
                        => slots[j] \in present \ ran

(* What the main loop relies on while the list changes under it.           *)
IInv == TypeOK /\ SlotsDistinct /\ IterateTakesTick /\ Pending

-----------------------------------------------------------------------------
(* What the list is like, whatever the rest of the state is.               *)
ListOK == /\ slots \in [0 .. size - 1 -> ID \cup {NULL, JUNK}]
          /\ size \in Nat /\ top \in Nat /\ top < size
          /\ needMove \in [ID -> BOOLEAN]
          /\ SlotsDistinct

(* The used slots hold IDs.                                                *)
LEMMA LiveIDs ==
  ASSUME ListOK
  PROVE  \A j \in 0 .. top : slots[j] \in ID
BY BoundAssumption DEF ListOK, SlotsDistinct, ID

(* A child is an IP that is not in the list, nor was when the tick began.   *)
LEMMA ChildIsNew ==
  ASSUME Unused # {}
  PROVE  /\ Child \in ID /\ Child \notin present
         /\ \A j \in 0 .. top : slots[j] # Child
BY DEF Unused, Child, Live

(* iplist_duplicate_ip keeps the list in order: nothing at or below the    *)
(* parent moves, the rest moves up by one slot, and the child is new.      *)
LEMMA DuplicateKeepsList ==
  ASSUME ListOK, NEW index \in 0 .. top, Duplicate(index)
  PROVE  /\ ListOK'
         /\ top <= top' /\ size <= size'
         /\ \A j \in 0 .. index : slots'[j] = slots[j]
         /\ \/ UNCHANGED <<slots, top>>
            \/ /\ top' = top + 1 /\ Unused # {}
               /\ \A j \in 0 .. top' :
                    slots'[j] = IF j = index + 1 THEN Child
                                ELSE IF j <= index THEN slots[j]
                                ELSE slots[j - 1]
<1>1. CASE UNCHANGED <<list, needMove>>
  BY <1>1 DEF list, ListOK, SlotsDistinct
<1>2. CASE /\ Unused # {}
           /\ size' = IF size <= top + 1 THEN size + AllocChunk ELSE size
           /\ slots' = SplitSlots(index, size')
           /\ top' = top + 1
           /\ needMove' = [needMove EXCEPT ![Child] =
                                             needMove[slots[index]]]
  <2>1. /\ size' \in Nat /\ top' \in Nat /\ top' < size' /\ size <= size'
    BY <1>2, BoundAssumption DEF ListOK
  <2>2. DOMAIN slots = 0 .. size - 1
    BY DEF ListOK
  <2>3. slots' = [j \in 0 .. size' - 1 |->
                    IF j = index + 1 THEN Child
                    ELSE IF index + 1 < j /\ j <= top + 1 THEN slots[j - 1]
                    ELSE IF j \in 0 .. size - 1 THEN slots[j]
                    ELSE JUNK]
    BY <1>2, <2>2 DEF SplitSlots
  <2>4. slots' \in [0 .. size' - 1 -> ID \cup {NULL, JUNK}]
    BY <1>2, <2>1, <2>3, ChildIsNew DEF ListOK
  <2>5. \A j \in 0 .. top' :
          slots'[j] = IF j = index + 1 THEN Child
                      ELSE IF j <= index THEN slots[j]
                      ELSE slots[j - 1]
    BY <1>2, <2>1, <2>3 DEF ListOK
  <2>6. /\ \A j \in 0 .. top' : slots'[j] \in ID
        /\ \A j, k \in 0 .. top' : slots'[j] = slots'[k] => j = k
    <3>1. top \in Nat /\ top' = top + 1 /\ index \in 0 .. top
      BY <1>2 DEF ListOK
    <3>2. /\ \A j \in 0 .. top : slots[j] \in ID
          /\ \A j, k \in 0 .. top : slots[j] = slots[k] => j = k
      BY DEF ListOK, SlotsDistinct
    <3>3. Child \in ID /\ \A j \in 0 .. top : slots[j] # Child
      BY <1>2, ChildIsNew
    <3>4. ASSUME NEW j \in 0 .. top' PROVE slots'[j] \in ID
      BY ONLY <2>5, <3>1, <3>2, <3>3, j \in 0 .. top'
    <3>5. ASSUME NEW j \in 0 .. top', NEW k \in 0 .. top', slots'[j] = slots'[k]
          PROVE  j = k
      <4>1. \A l \in 0 .. top' : l = index + 1 \/ slots'[l] # Child
        BY ONLY <2>5, <3>1, <3>3
      <4>2. slots'[index + 1] = Child
        BY ONLY <2>5, <3>1
      <4>3. CASE j = index + 1 \/ k = index + 1
        BY ONLY <3>1, <3>5, <4>1, <4>2, <4>3, j \in 0 .. top', k \in 0 .. top'
      <4>4. CASE j # index + 1 /\ k # index + 1
        BY ONLY <2>5, <3>1, <3>2, <3>5, <4>4, j \in 0 .. top', k \in 0 .. top'
      <4> QED
        BY <4>3, <4>4
    <3> QED
      BY <3>4, <3>5
  <2>7. needMove' \in [ID -> BOOLEAN]
    <3>1. needMove[slots[index]] \in BOOLEAN
      BY LiveIDs DEF ListOK
    <3> QED
      BY <1>2, <3>1 DEF ListOK
  <2> QED
    BY <1>2, <2>1, <2>4, <2>5, <2>6, <2>7 DEF ListOK, SlotsDistinct
<1> QED
  BY <1>1, <1>2 DEF Duplicate

(* iplist_terminate_ip keeps the list in order: nothing below the dead IP  *)
(* moves, and the rest moves down by one slot.                             *)
LEMMA TerminateKeepsList ==
  ASSUME ListOK, NEW index \in 0 .. top, top > 0, Terminate(index)
  PROVE  /\ ListOK'
         /\ i' \in 0 .. top' /\ i' = Below(index)
         /\ \A j \in 0 .. index : j < index => slots'[j] = slots[j]
         /\ top' = top - 1
         /\ \A j \in 0 .. top' : slots'[j] = IF j < index THEN slots[j]
                                             ELSE slots[j + 1]
<1>1. /\ slots' = [j \in 0 .. size - 1 |->
                     IF index <= j /\ j < top THEN slots[j + 1]
                     ELSE IF j = top THEN NULL
                     ELSE slots[j]]
      /\ top' = top - 1 /\ i' = Below(index)
      /\ size' = size
      /\ needMove' = [needMove EXCEPT ![slots'[i']] = FALSE]
  BY DEF Terminate, TerminatedSlots, ListOK
<1>2. /\ size' \in Nat /\ top' \in Nat /\ top' < size' /\ i' \in 0 .. top'
  BY <1>1 DEF ListOK, Below
<1>3. slots' \in [0 .. size' - 1 -> ID \cup {NULL, JUNK}]
  BY <1>1 DEF ListOK
<1>4. \A j \in 0 .. top' : slots'[j] = IF j < index THEN slots[j]
                                       ELSE slots[j + 1]
  BY <1>1 DEF ListOK
<1>5. /\ \A j \in 0 .. top' : slots'[j] \in ID
      /\ \A j, k \in 0 .. top' : slots'[j] = slots'[k] => j = k
  BY <1>1, <1>4 DEF ListOK, SlotsDistinct
<1>6. needMove' \in [ID -> BOOLEAN]
  BY <1>1 DEF ListOK
<1>7. \A j \in 0 .. index : j < index => slots'[j] = slots[j]
  BY <1>1 DEF ListOK
<1> QED
  BY <1>1, <1>2, <1>3, <1>4, <1>5, <1>6, <1>7 DEF ListOK, SlotsDistinct

-----------------------------------------------------------------------------
(* Which activations of k there are does not matter to the list.           *)
RestOK == /\ tick \in BOOLEAN /\ frames \in Seq(Frame)
          /\ free \in 0 .. MaxFree
          /\ executing \in ID /\ present \subseteq ID /\ ran \subseteq ID

(* The types are those of the list and those of the rest.                  *)
LEMMA TypeOKParts ==
  TypeOK /\ SlotsDistinct
  <=> /\ ListOK /\ RestOK /\ i \in 0 .. top
      /\ pc \in {"execute", "iterate", "forward", "exited", "crashed"}
      /\ pc = "iterate" => frames # <<>>
BY DEF TypeOK, ListOK, RestOK

(* An instruction that takes a tick starts: its IP had its turn, those     *)
(* below it did not yet.                                                   *)
LEMMA StartTick ==
  ASSUME IInv, NEW kind, kind # "free", Start(kind)
  PROVE  /\ pc = "execute" /\ tick' = TRUE /\ free' \in 0 .. MaxFree
         /\ executing' \in ID /\ present' \subseteq ID /\ ran' \subseteq ID
         /\ \A j \in 0 .. i : j < i => slots[j] \in present' \ ran'
<1>1. /\ pc = "execute" /\ tick' = TRUE /\ free' = 0
      /\ executing' = slots[i] /\ present' = present
      /\ ran' = ran \cup {slots[i]}
  BY DEF Start
<1>2. i \in 0 .. top /\ top \in Nat /\ slots[i] \in ID
  BY TypeOKParts, LiveIDs DEF IInv, ListOK
<1>3. \A j \in 0 .. i : slots[j] \in present \ ran
  BY <1>1 DEF IInv, Pending
<1>4. \A j \in 0 .. i : j < i => slots[j] # slots[i]
  BY <1>2 DEF IInv, SlotsDistinct
<1>5. free' \in 0 .. MaxFree
  BY <1>1, BoundAssumption
<1> QED
  BY <1>1, <1>2, <1>3, <1>4, <1>5 DEF IInv, TypeOK

(* The list is in order as long as only needMove changes.                  *)
LEMMA ListUnchanged ==
  ASSUME ListOK, UNCHANGED <<slots, size, top>>,
         needMove' \in [ID -> BOOLEAN]
  PROVE  ListOK'
BY DEF ListOK, SlotsDistinct

(* Instructions that clear needMove keep its type.                         *)
LEMMA NeedMoveType ==
  ASSUME ListOK, NEW id, MayClearNeedMove(id)
  PROVE  needMove' \in [ID -> BOOLEAN]
BY DEF ListOK, MayClearNeedMove

(* The activations of k stay activations when one of them ends or has one  *)
(* iteration less to go.                                                   *)
LEMMA FrameTypes ==
  ASSUME frames \in Seq(Frame), frames # <<>>
  PROVE  /\ Current \in Frame
         /\ Callers \in Seq(Frame)
         /\ Current.left > 0 => OneLess \in Seq(Frame) /\ OneLess # <<>>
         /\ [frames EXCEPT ![Len(frames)].left = 0] \in Seq(Frame)
         /\ [frames EXCEPT ![Len(frames)].left = 0] # <<>>
<1>1. Len(frames) \in 1 .. Len(frames) /\ frames \in [1 .. Len(frames) -> Frame]
  OBVIOUS
<1>2. Current \in Frame
  BY <1>1 DEF Current
<1>3. Callers \in Seq(Frame)
  BY DEF Callers
<1>4. ASSUME NEW n \in 0 .. MaxCount
      PROVE  /\ [frames EXCEPT ![Len(frames)].left = n] \in Seq(Frame)
             /\ [frames EXCEPT ![Len(frames)].left = n] # <<>>
  <2>1. [Current EXCEPT !.left = n] \in Frame
    BY <1>2, <1>4 DEF Frame
  <2>2. [frames EXCEPT ![Len(frames)].left = n]
          = [frames EXCEPT ![Len(frames)] = [Current EXCEPT !.left = n]]
    BY DEF Current
  <2> QED
    BY <1>1, <2>1, <2>2
<1>5. Current.left > 0 => OneLess \in Seq(Frame) /\ OneLess # <<>>
  <2> SUFFICES ASSUME Current.left > 0
               PROVE  OneLess \in Seq(Frame) /\ OneLess # <<>>
    OBVIOUS
  <2>1. Current.left - 1 \in 0 .. MaxCount
    BY <1>2, BoundAssumption DEF Frame
  <2>2. OneLess = [frames EXCEPT ![Len(frames)].left = Current.left - 1]
    BY DEF OneLess, Current
  <2> QED
    BY <1>4, <2>1, <2>2
<1>6. 0 \in 0 .. MaxCount
  BY BoundAssumption
<1> QED
  BY <1>2, <1>3, <1>4, <1>5, <1>6

-----------------------------------------------------------------------------
(* The list with the first IP (iplist_create).                             *)
LEMMA InitIInv == Init => IInv
<1> SUFFICES ASSUME Init PROVE IInv
  OBVIOUS
<1>1. TypeOK
  <2>1. 0 \in ID /\ 0 \in 0 .. MaxFree
    BY BoundAssumption DEF ID
  <2>2. /\ slots \in [0 .. size - 1 -> ID \cup {NULL, JUNK}]
        /\ size \in Nat /\ top \in Nat /\ top < size /\ i \in 0 .. top
    BY <2>1, BoundAssumption DEF Init
  <2>3. frames \in Seq(Frame)
    BY DEF Init
  <2> QED
    BY <2>1, <2>2, <2>3 DEF Init, TypeOK
<1>2. SlotsDistinct
  BY BoundAssumption DEF Init, SlotsDistinct
<1>3. IterateTakesTick /\ Pending
  BY BoundAssumption DEF Init, IterateTakesTick, Pending
<1> QED
  BY <1>1, <1>2, <1>3 DEF IInv

(* How an instruction that takes a tick keeps the invariant: the list is   *)
(* in order again, the main loop's index is on it, and below that nothing  *)
(* has moved.                                                              *)
LEMMA TickKeepsIInv ==
  ASSUME IInv, ListOK', i' \in 0 .. top', i' <= i, frames' \in Seq(Frame),
         pc' \in {"iterate", "forward", "exited", "crashed"},
         pc' = "iterate" => frames' # <<>>,
         tick' = TRUE, free' \in 0 .. MaxFree,
         executing' \in ID, present' \subseteq ID, ran' \subseteq ID,
         \A j \in 0 .. i : j < i => slots'[j] = slots[j],
         \A j \in 0 .. i : j < i => slots[j] \in present' \ ran'
  PROVE  IInv'
<1>1. i \in Nat
  BY DEF IInv, TypeOK
<1>2. Pending'
  BY <1>1 DEF Pending
<1>3. IterateTakesTick'
  BY DEF IterateTakesTick
<1>4. TypeOK' /\ SlotsDistinct'
  BY DEF ListOK, TypeOK
<1> QED
  BY <1>2, <1>3, <1>4 DEF IInv

(* An instruction that takes a tick and is not iterated over.              *)
LEMMA InstructionKeepsIInv ==
  ASSUME IInv, Plain \/ Split \/ Quit \/ QuitLast \/ Iterate
               \/ (Start("t") /\ SplitOutOfMemory)
  PROVE  IInv'
<1>0. /\ ListOK /\ i \in 0 .. top /\ i \in Nat /\ top \in Nat
      /\ frames \in Seq(Frame) /\ slots[i] \in ID
  BY TypeOKParts, LiveIDs DEF IInv, TypeOK
<1>1. CASE Plain
  <2>1. /\ Start("plain") /\ UNCHANGED <<slots, size, top, i, frames>>
        /\ pc' = "forward" /\ needMove' \in [ID -> BOOLEAN]
    BY <1>0, <1>1, NeedMoveType DEF Plain, list
  <2>2. /\ tick' = TRUE /\ free' \in 0 .. MaxFree
        /\ executing' \in ID /\ present' \subseteq ID /\ ran' \subseteq ID
        /\ \A j \in 0 .. i : j < i => slots[j] \in present' \ ran'
    BY <2>1, StartTick
  <2>3. ListOK' /\ i' \in 0 .. top'
    BY <1>0, <2>1, ListUnchanged DEF ListOK
  <2> QED
    BY <1>0, <2>1, <2>2, <2>3, TickKeepsIInv
<1>2. CASE Split
  <2>1. /\ Start("t") /\ Duplicate(i) /\ pc' = "forward"
        /\ UNCHANGED <<i, frames>>
    BY <1>2 DEF Split
  <2>2. /\ ListOK' /\ top <= top'
        /\ \A j \in 0 .. i : slots'[j] = slots[j]
    BY <1>0, <2>1, DuplicateKeepsList
  <2>3. i' \in 0 .. top'
    BY <1>0, <2>1, <2>2 DEF ListOK
  <2>4. /\ tick' = TRUE /\ free' \in 0 .. MaxFree
        /\ executing' \in ID /\ present' \subseteq ID /\ ran' \subseteq ID
        /\ \A j \in 0 .. i : j < i => slots[j] \in present' \ ran'
    BY <2>1, StartTick
  <2> QED
    BY <1>0, <2>1, <2>2, <2>3, <2>4, TickKeepsIInv
<1>3. CASE Quit
  <2>1. /\ Start("@") /\ top > 0 /\ Terminate(i) /\ pc' = "forward"
        /\ frames' = frames
    BY <1>3 DEF Quit
  <2>2. /\ ListOK' /\ i' \in 0 .. top' /\ i' = Below(i)
        /\ \A j \in 0 .. i : j < i => slots'[j] = slots[j]
    BY <1>0, <2>1, TerminateKeepsList
  <2>3. i' <= i
    BY <1>0, <2>2 DEF Below
  <2>4. /\ tick' = TRUE /\ free' \in 0 .. MaxFree
        /\ executing' \in ID /\ present' \subseteq ID /\ ran' \subseteq ID
        /\ \A j \in 0 .. i : j < i => slots[j] \in present' \ ran'
    BY <2>1, StartTick
  <2> QED
    BY <1>0, <2>1, <2>2, <2>3, <2>4, TickKeepsIInv
<1>4. CASE QuitLast \/ (Start("t") /\ SplitOutOfMemory)
  <2>1. /\ Start("@") \/ Start("t")
        /\ UNCHANGED <<slots, size, top, needMove, i, frames>>
        /\ pc' = "exited"
    BY <1>4 DEF QuitLast, SplitOutOfMemory, list
  <2>2. ListOK' /\ i' \in 0 .. top'
    BY <1>0, <2>1, ListUnchanged DEF ListOK
  <2>3. /\ tick' = TRUE /\ free' \in 0 .. MaxFree
        /\ executing' \in ID /\ present' \subseteq ID /\ ran' \subseteq ID
        /\ \A j \in 0 .. i : j < i => slots[j] \in present' \ ran'
    BY <2>1, StartTick
  <2> QED
    BY <1>0, <2>1, <2>2, <2>3, TickKeepsIInv
<1>5. CASE Iterate
  <2>1. /\ Start("k")
        /\ UNCHANGED <<slots, size, top, needMove, i>>
        /\ pc' = "iterate"
    BY <1>5 DEF Iterate, list
  <2>2. PICK f \in NewFrame(slots[i]) : frames' = <<f>>
    BY <1>5 DEF Iterate
  <2>3. f \in Frame
    BY <1>0 DEF NewFrame, Frame
  <2>4. frames' \in Seq(Frame) /\ frames' # <<>>
    BY <2>2, <2>3
  <2>5. ListOK' /\ i' \in 0 .. top'
    BY <1>0, <2>1, ListUnchanged DEF ListOK
  <2>6. /\ tick' = TRUE /\ free' \in 0 .. MaxFree
        /\ executing' \in ID /\ present' \subseteq ID /\ ran' \subseteq ID
        /\ \A j \in 0 .. i : j < i => slots[j] \in present' \ ran'
    BY <2>1, StartTick
  <2> QED
    BY <1>0, <2>1, <2>4, <2>5, <2>6, TickKeepsIInv
<1> QED
  BY <1>1, <1>2, <1>3, <1>4, <1>5

(* What k does between its beginning and its end.                          *)
LEMMA IterationKeepsIInv ==
  ASSUME IInv, IteratePlain \/ IterateSplit \/ IterateQuit \/ IterateQuitLast
               \/ IterateNested \/ IterateReturn
               \/ (Iterating("t") /\ SplitOutOfMemory)
  PROVE  IInv'
<1>0. /\ ListOK /\ i \in 0 .. top /\ i \in Nat /\ top \in Nat
      /\ pc = "iterate" /\ frames \in Seq(Frame) /\ frames # <<>>
  BY TypeOKParts DEF IInv, TypeOK, IteratePlain, IterateSplit, IterateQuit,
     IterateQuitLast, IterateNested, IterateReturn, Iterating
<1>1. /\ tick = TRUE /\ free \in 0 .. MaxFree /\ executing \in ID
      /\ present \subseteq ID /\ ran \subseteq ID
      /\ \A j \in 0 .. i : j < i => slots[j] \in present \ ran
  BY <1>0 DEF IInv, TypeOK, Pending, IterateTakesTick
<1>2. UNCHANGED <<tick, free, executing, present, ran>>
  BY <1>0 DEF IteratePlain, IterateSplit, IterateQuit, IterateQuitLast,
     IterateNested, IterateReturn, Iterating, history
<1>3. /\ tick' = TRUE /\ free' \in 0 .. MaxFree /\ executing' \in ID
      /\ present' \subseteq ID /\ ran' \subseteq ID
      /\ \A j \in 0 .. i : j < i => slots[j] \in present' \ ran'
  BY <1>1, <1>2
<1>4. CASE IteratePlain
  <2>1. /\ UNCHANGED <<slots, size, top, i, pc>>
        /\ needMove' \in [ID -> BOOLEAN] /\ frames' = OneLess
        /\ Current.left > 0
    BY <1>0, <1>4, NeedMoveType DEF IteratePlain, Iterating, list
  <2>2. frames' \in Seq(Frame) /\ frames' # <<>>
    BY <1>0, <2>1, FrameTypes
  <2> QED
    BY <1>0, <1>3, <2>1, <2>2, ListUnchanged, TickKeepsIInv
<1>5. CASE IterateSplit
  <2>1. /\ Duplicate(i) /\ UNCHANGED <<i, pc>> /\ frames' = OneLess
        /\ Current.left > 0
    BY <1>5 DEF IterateSplit, Iterating
  <2>2. frames' \in Seq(Frame) /\ frames' # <<>>
    BY <1>0, <2>1, FrameTypes
  <2>3. /\ ListOK' /\ top <= top'
        /\ \A j \in 0 .. i : slots'[j] = slots[j]
    BY <1>0, <2>1, DuplicateKeepsList
  <2>4. i' \in 0 .. top'
    BY <1>0, <2>1, <2>3 DEF ListOK
  <2> QED
    BY <1>0, <1>3, <2>1, <2>2, <2>3, <2>4, TickKeepsIInv
<1>6. CASE IterateQuit
  <2>1. /\ top > 0 /\ Terminate(i) /\ pc' = pc
        /\ frames' = [frames EXCEPT ![Len(frames)].left = 0]
    BY <1>6 DEF IterateQuit
  <2>2. frames' \in Seq(Frame) /\ frames' # <<>>
    BY <1>0, <2>1, FrameTypes
  <2>3. /\ ListOK' /\ i' \in 0 .. top' /\ i' = Below(i)
        /\ \A j \in 0 .. i : j < i => slots'[j] = slots[j]
    BY <1>0, <2>1, TerminateKeepsList
  <2>4. i' <= i
    BY <1>0, <2>3 DEF Below
  <2> QED
    BY <1>0, <1>3, <2>1, <2>2, <2>3, <2>4, TickKeepsIInv
<1>7. CASE IterateQuitLast \/ (Iterating("t") /\ SplitOutOfMemory)
  <2>1. /\ UNCHANGED <<slots, size, top, needMove, i, frames>>
        /\ pc' = "exited"
    BY <1>7 DEF IterateQuitLast, SplitOutOfMemory, list
  <2>2. ListOK' /\ i' \in 0 .. top'
    BY <1>0, <2>1, ListUnchanged DEF ListOK
  <2> QED
    BY <1>0, <1>3, <2>1, <2>2, TickKeepsIInv
<1>8. CASE IterateNested
  <2>1. /\ UNCHANGED <<slots, size, top, needMove, i, pc>>
        /\ Current.left > 0
    BY <1>8 DEF IterateNested, Iterating, list
  <2>2. PICK f \in NewFrame(Current.ip) : frames' = Append(OneLess, f)
    BY <1>8 DEF IterateNested
  <2>3. f \in Frame
    BY <1>0, FrameTypes DEF NewFrame, Frame
  <2>4. frames' \in Seq(Frame) /\ frames' # <<>>
    BY <1>0, <2>1, <2>2, <2>3, FrameTypes
  <2>5. ListOK' /\ i' \in 0 .. top'
    BY <1>0, <2>1, ListUnchanged DEF ListOK
  <2> QED
    BY <1>0, <1>3, <2>1, <2>4, <2>5, TickKeepsIInv
<1>9. CASE IterateReturn
  <2>1. UNCHANGED <<slots, size, top, needMove, i>>
    BY <1>9 DEF IterateReturn, list
  <2>2. ListOK' /\ i' \in 0 .. top'
    BY <1>0, <2>1, ListUnchanged DEF ListOK
  <2>3. /\ frames' \in Seq(Frame)
        /\ pc' \in {"iterate", "forward", "exited", "crashed"}
        /\ pc' = "iterate" => frames' # <<>>
    <3> DEFINE ip == slots[Callers[Len(Callers)].oldindex]
    <3>1. CASE Callers = <<>>
      BY <1>9, <3>1 DEF IterateReturn
    <3>2. CASE Callers # <<>> /\ ip \in ID
      <4>1. /\ frames' = [Callers EXCEPT ![Len(Callers)].ip = ip]
            /\ pc' = "iterate"
        BY <1>0, <1>9, <3>2 DEF IterateReturn
      <4>2. Callers \in Seq(Frame) /\ Len(Callers) \in 1 .. Len(Callers)
        BY <1>0, <3>2, FrameTypes
      <4> DEFINE outer == Callers[Len(Callers)]
      <4>3. [outer EXCEPT !.ip = ip] \in Frame
        <5>1. outer \in Frame
          BY <4>2
        <5> HIDE DEF outer, ip
        <5> QED
          BY <3>2, <5>1 DEF Frame
      <4>4. frames' = [Callers EXCEPT ![Len(Callers)] = [outer EXCEPT !.ip = ip]]
        BY <4>1
      <4> HIDE DEF outer, ip
      <4> QED
        BY <4>1, <4>2, <4>3, <4>4
    <3>3. CASE Callers # <<>> /\ ip \notin ID
      BY <1>0, <1>9, <3>3 DEF IterateReturn
    <3> QED
      BY <3>1, <3>2, <3>3
  <2> QED
    BY <1>0, <1>3, <2>1, <2>2, <2>3, TickKeepsIInv
<1> QED
  BY <1>4, <1>5, <1>6, <1>7, <1>8, <1>9

(* The main loop goes on to the IP below or begins the next tick.          *)
LEMMA ForwardKeepsIInv ==
  ASSUME IInv, Forward
  PROVE  IInv'
<1>1. /\ ListOK /\ RestOK /\ i \in 0 .. top /\ i \in Nat /\ top \in Nat
      /\ pc = "forward"
  BY TypeOKParts DEF IInv, TypeOK, Forward
<1>2. /\ UNCHANGED <<slots, size, top, tick, frames, free, executing>>
      /\ needMove' \in [ID -> BOOLEAN] /\ pc' = "execute"
  BY <1>1 DEF Forward, list, ListOK
<1>3. ListOK'
  BY <1>1, <1>2, ListUnchanged
<1>4. CASE tick /\ i = 0
  <2>1. i' = top /\ present' = Live /\ ran' = {}
    BY <1>4 DEF Forward
  <2>2. Live \subseteq ID
    BY <1>1, LiveIDs DEF Live
  <2>3. Pending'
    BY <1>2, <2>1 DEF Pending, Live
  <2>4. TypeOK' /\ SlotsDistinct'
    BY <1>1, <1>2, <1>3, <2>1, <2>2 DEF TypeOK, ListOK, RestOK
  <2> QED
    BY <1>2, <2>3, <2>4 DEF IInv, IterateTakesTick
<1>5. CASE ~(tick /\ i = 0)
  <2>1. /\ i' = IF tick THEN i - 1 ELSE i
        /\ UNCHANGED <<present, ran>>
    BY <1>5 DEF Forward
  <2>2. i' \in 0 .. top
    BY <1>1, <1>5, <2>1
  <2>3. \A j \in 0 .. i : j < i \/ ~tick => slots[j] \in present \ ran
    BY <1>1 DEF IInv, Pending
  <2>4. Pending'
    BY <1>1, <1>2, <2>1, <2>2, <2>3 DEF Pending, RestOK
  <2>5. TypeOK' /\ SlotsDistinct'
    BY <1>1, <1>2, <1>3, <2>1, <2>2 DEF TypeOK, ListOK, RestOK
  <2> QED
    BY <1>2, <2>4, <2>5 DEF IInv, IterateTakesTick
<1> QED
  BY <1>4, <1>5

(* Free: the IP stays on turn.                                             *)
LEMMA FreeKeepsIInv ==
  ASSUME IInv, Free
  PROVE  IInv'
<1>1. /\ ListOK /\ RestOK /\ i \in 0 .. top /\ slots[i] \in ID
      /\ pc = "execute"
  BY TypeOKParts, LiveIDs DEF IInv, Free, Start
<1>2. /\ UNCHANGED <<slots, size, top, i, frames, present, ran>>
      /\ needMove' \in [ID -> BOOLEAN] /\ pc' = "forward"
      /\ tick' = FALSE /\ executing' = slots[i]
      /\ free' = free + 1 /\ free < MaxFree
  BY <1>1, NeedMoveType DEF Free, Start, list
<1>3. ListOK'
  BY <1>1, <1>2, ListUnchanged
<1>4. \A j \in 0 .. i : slots[j] \in present \ ran
  BY <1>1 DEF IInv, Pending
<1>5. Pending'
  BY <1>2, <1>4 DEF Pending
<1>6. free' \in 0 .. MaxFree
  BY <1>1, <1>2, BoundAssumption DEF RestOK
<1>7. TypeOK' /\ SlotsDistinct'
  BY <1>1, <1>2, <1>3, <1>6 DEF TypeOK, ListOK, RestOK
<1> QED
  BY <1>2, <1>5, <1>7 DEF IInv, IterateTakesTick

(* Every step of the specification.                                        *)
LEMMA NextIInv == IInv /\ [Next]_vars => IInv'
<1> SUFFICES ASSUME IInv, [Next]_vars PROVE IInv'
  OBVIOUS
<1>1. CASE Plain \/ Split \/ Quit \/ QuitLast \/ Iterate
  BY <1>1, InstructionKeepsIInv
<1>2. CASE \/ IteratePlain \/ IterateSplit \/ IterateQuit \/ IterateQuitLast
           \/ IterateNested \/ IterateReturn
  BY <1>2, IterationKeepsIInv
<1>3. CASE SplitOutOfMemory
  <2>1. Start("t") \/ Iterating("t")
    BY <1>3 DEF SplitOutOfMemory
  <2> QED
    BY <1>3, <2>1, InstructionKeepsIInv, IterationKeepsIInv
<1>4. CASE Free
  BY <1>4, FreeKeepsIInv
<1>5. CASE Forward
  BY <1>5, ForwardKeepsIInv
<1>6. CASE Stopped \/ UNCHANGED vars
  <2>1. UNCHANGED <<slots, size, top, needMove, i, pc, tick, frames,
                    free, executing, present, ran>>
    BY <1>6 DEF Stopped, vars
  <2> QED
    BY <2>1 DEF IInv, TypeOK, SlotsDistinct, IterateTakesTick, Pending
<1> QED
  BY <1>1, <1>2, <1>3, <1>4, <1>5, <1>6 DEF Next

-----------------------------------------------------------------------------
(* The list, its types and the turns still to come are right in every      *)
(* reachable state.                                                        *)
THEOREM Invariance == Spec => []IInv
<1> QED
  BY InitIInv, NextIInv, PTL DEF Spec

(* The variables keep their types: the main loop's index never leaves the  *)
(* used part of the list, nor the used part the array.                     *)
THEOREM TypeCorrect == Spec => []TypeOK
<1>1. IInv => TypeOK
  BY DEF IInv
<1> QED
  BY <1>1, Invariance, PTL

(* The used slots hold distinct IPs, however t, @ and k rearrange them.    *)
THEOREM SlotsSound == Spec => []SlotsDistinct
<1>1. IInv => SlotsDistinct
  BY DEF IInv
<1> QED
  BY <1>1, Invariance, PTL

(* No IP has two turns in a tick, and a child waits for the next one.      *)
THEOREM TurnsInOrder == Spec => []TurnOrder
<1>1. IInv => TurnOrder
  BY DEF IInv, Pending, TurnOrder
<1> QED
  BY <1>1, Invariance, PTL

-----------------------------------------------------------------------------
(* The list before and after a step hold their common IPs in the same      *)
(* order.                                                                  *)
SameOrder == \A a, b \in Live \cap Live' : Above(a, b) => Above(a, b)'

(* A child comes between its parent and the IP above it.                   *)
LEMMA DuplicateKeepsOrder ==
  ASSUME ListOK, NEW index \in 0 .. top, Duplicate(index)
  PROVE  SameOrder
<1>1. CASE UNCHANGED <<slots, top>>
  BY <1>1 DEF SameOrder, Above
<1>2. CASE /\ top' = top + 1
           /\ \A j \in 0 .. top' :
                slots'[j] = IF j = index + 1 THEN Child
                            ELSE IF j <= index THEN slots[j]
                            ELSE slots[j - 1]
  <2> DEFINE After(j) == IF j <= index THEN j ELSE j + 1
  <2>1. SUFFICES ASSUME NEW a, NEW b, NEW j \in 0 .. top, NEW k \in 0 .. top,
                        j > k, slots[j] = a, slots[k] = b
                 PROVE  Above(a, b)'
    BY DEF SameOrder, Above
  <2>2. top \in Nat
    BY DEF ListOK
  <2>3. /\ After(j) \in 0 .. top' /\ After(k) \in 0 .. top'
        /\ After(j) > After(k)
    BY <1>2, <2>1, <2>2
  <2>4. slots'[After(j)] = a /\ slots'[After(k)] = b
    BY <1>2, <2>1, <2>2, <2>3
  <2> QED
    BY <2>3, <2>4 DEF Above
<1> QED
  BY <1>1, <1>2, DuplicateKeepsList

(* Where an IP died the others close ranks.                                *)
LEMMA TerminateKeepsOrder ==
  ASSUME ListOK, NEW index \in 0 .. top, top > 0, Terminate(index)
  PROVE  SameOrder
<1>1. /\ top \in Nat /\ top' = top - 1
      /\ \A j \in 0 .. top' : slots'[j] = IF j < index THEN slots[j]
                                          ELSE slots[j + 1]
  BY TerminateKeepsList DEF ListOK
<1>2. slots[index] \notin Live'
  <2> SUFFICES ASSUME NEW m \in 0 .. top', slots'[m] = slots[index]
               PROVE  FALSE
    BY DEF Live
  <2>1. CASE m < index
    BY <2>1, <1>1 DEF ListOK, SlotsDistinct
  <2>2. CASE m >= index
    <3>1. m + 1 \in 0 .. top /\ m + 1 # index /\ slots[m + 1] = slots[index]
      BY <2>2, <1>1
    <3> QED
      BY <3>1 DEF ListOK, SlotsDistinct
  <2> QED
    BY <2>1, <2>2, <1>1
<1> DEFINE After(j) == IF j < index THEN j ELSE j - 1
<1>3. SUFFICES ASSUME NEW a \in Live', NEW b \in Live',
                      NEW j \in 0 .. top, NEW k \in 0 .. top,
                      j > k, slots[j] = a, slots[k] = b
               PROVE  Above(a, b)'
  BY DEF SameOrder, Above
<1>4. j # index /\ k # index
  BY <1>2, <1>3
<1>5. /\ After(j) \in 0 .. top' /\ After(k) \in 0 .. top'
      /\ After(j) > After(k)
  BY <1>1, <1>3, <1>4
<1>6. slots'[After(j)] = a /\ slots'[After(k)] = b
  BY <1>1, <1>3, <1>4, <1>5
<1> QED
  BY <1>5, <1>6 DEF Above

(* Whoever is above another IP stays above it as long as both live, so     *)
(* that IPs always execute in the same order.                              *)
THEOREM OrderPreserved == Spec => OrderKept
<1>1. IInv /\ [Next]_vars => [SameOrder]_vars
  <2> SUFFICES ASSUME IInv, Next PROVE SameOrder \/ UNCHANGED vars
    OBVIOUS
  <2>1. ListOK /\ i \in 0 .. top
    BY TypeOKParts DEF IInv
  <2>2. CASE Split \/ IterateSplit
    BY <2>1, <2>2, DuplicateKeepsOrder DEF Split, IterateSplit
  <2>3. CASE Quit \/ IterateQuit
    BY <2>1, <2>3, TerminateKeepsOrder DEF Quit, IterateQuit
  <2>4. CASE UNCHANGED <<slots, top>>
    BY <2>4 DEF SameOrder, Above
  <2>5. CASE \/ Plain \/ Free \/ QuitLast \/ Iterate \/ IteratePlain
             \/ SplitOutOfMemory \/ IterateQuitLast \/ IterateNested
             \/ IterateReturn \/ Forward
    BY <2>4, <2>5 DEF list, Plain, Free, QuitLast, Iterate, IteratePlain,
       SplitOutOfMemory, IterateQuitLast, IterateNested, IterateReturn, Forward
  <2> QED
    BY <2>2, <2>3, <2>5 DEF Next, Stopped
<1> QED
  BY <1>1, Invariance, PTL DEF Spec, OrderKept, SameOrder
-----------------------------------------------------------------------------
(* The IPs whose turn in this tick is still to come, and those that are in *)
(* the list, were there when the tick began, and will have none.           *)
Awaiting == {slots[j] : j \in {k \in 0 .. i : k < i \/ pc = "execute" \/ ~tick}}
Lost     == (present \cap Live) \ (ran \cup Awaiting)

(* Between any two steps the dead make up for the turns lost. Where k is   *)
(* about to execute another @, the IP that dies of it, unless it is the    *)
(* bottom one, has been there since the tick began.                        *)
LossInv ==
  pc \in {"execute", "iterate", "forward"} =>
    /\ Cardinality(Lost) <= Cardinality(present \ Live)
    /\ pc = "iterate" /\ i > 0 => slots[i] \in present

(* One more turn lost, for one more death.                                 *)
LEMMA LossBalance ==
  ASSUME NEW L \in SUBSET ID, NEW D \in SUBSET ID,
         NEW M \in SUBSET ID, NEW E \in SUBSET ID,
         Cardinality(L) <= Cardinality(D), D \subseteq E,
         M \subseteq L \/ \E w, v \in ID : M \subseteq L \cup {w} /\ v \in E \ D
  PROVE  Cardinality(M) <= Cardinality(E)
<1>1. IsFiniteSet(ID)
  BY BoundAssumption, FS_Interval DEF ID
<1>2. /\ IsFiniteSet(L) /\ IsFiniteSet(D) /\ IsFiniteSet(M) /\ IsFiniteSet(E)
      /\ Cardinality(L) \in Nat /\ Cardinality(D) \in Nat
      /\ Cardinality(M) \in Nat /\ Cardinality(E) \in Nat
  BY <1>1, FS_Subset, FS_CardinalityType
<1>3. Cardinality(D) <= Cardinality(E)
  BY <1>2, FS_Subset
<1>4. CASE M \subseteq L
  <2>1. Cardinality(M) <= Cardinality(L)
    BY <1>2, <1>4, FS_Subset
  <2> QED
    BY <1>2, <1>3, <2>1
<1>5. CASE \E w, v \in ID : M \subseteq L \cup {w} /\ v \in E \ D
  <2>1. PICK w \in ID, v \in ID : M \subseteq L \cup {w} /\ v \in E \ D
    BY <1>5
  <2>2. /\ IsFiniteSet(L \cup {w}) /\ Cardinality(L \cup {w}) \in Nat
        /\ Cardinality(L \cup {w}) <= Cardinality(L) + 1
    <3>1. /\ IsFiniteSet(L \cup {w})
          /\ \/ Cardinality(L \cup {w}) = Cardinality(L)
             \/ Cardinality(L \cup {w}) = Cardinality(L) + 1
      BY <1>2, FS_AddElement
    <3> QED
      BY <1>2, <3>1
  <2>3. Cardinality(M) <= Cardinality(L \cup {w})
    BY <2>1, <2>2, FS_Subset
  <2>4. IsFiniteSet(D \cup {v}) /\ Cardinality(D \cup {v}) = Cardinality(D) + 1
    BY <1>2, <2>1, FS_AddElement
  <2>5. Cardinality(D \cup {v}) <= Cardinality(E)
    BY <1>2, <2>1, <2>4, FS_Subset
  <2> QED
    BY <1>2, <2>2, <2>3, <2>4, <2>5
<1> QED
  BY <1>4, <1>5

(* The sets LossInv is about hold IDs.                                     *)
LossSetsOK == Live \subseteq ID /\ Lost \subseteq ID /\ present \ Live \subseteq ID

(* While IInv holds they do, before a step as after it.                    *)
LEMMA LossTypes == IInv => LossSetsOK
<1> SUFFICES ASSUME IInv PROVE LossSetsOK
  OBVIOUS
<1>1. ListOK /\ present \subseteq ID
  BY TypeOKParts DEF IInv, RestOK
<1> QED
  BY <1>1, LiveIDs DEF Live, Lost, LossSetsOK

(* The same of the next state.                                             *)
LEMMA LossTypesNext == IInv' => LossSetsOK'
BY LossTypes, PTL

(* An instruction that leaves the list alone, or inserts a child that was  *)
(* not there when the tick began, loses nothing.                           *)
LEMMA NoLoss ==
  ASSUME IInv, IInv', LossInv, pc \in {"execute", "iterate", "forward"},
         present' = present, ran \subseteq ran',
         Live' \cap present = Live \cap present,
         Awaiting \subseteq Awaiting' \cup ran',
         pc' = "iterate" /\ i' > 0 => slots'[i'] \in present
  PROVE  LossInv'
<1>1. Lost' \subseteq Lost /\ present \ Live \subseteq (present \ Live)'
  BY DEF Lost
<1>2. Cardinality(Lost') <= Cardinality((present \ Live)')
  <2>1. /\ Lost \subseteq ID /\ present \ Live \subseteq ID
        /\ Lost' \subseteq ID /\ (present \ Live)' \subseteq ID
    BY LossTypes, LossTypesNext DEF LossSetsOK
  <2>2. Cardinality(Lost) <= Cardinality(present \ Live)
    BY DEF LossInv
  <2> QED
    BY <1>1, <2>1, <2>2, LossBalance
<1> QED
  BY <1>2 DEF LossInv

(* The IP at i dies: the one below it, which is at i now, may lose its     *)
(* turn, and at the bottom of the list nobody does.                        *)
LEMMA OneLoss ==
  ASSUME IInv, IInv', LossInv, pc \in {"execute", "iterate"}, top > 0,
         Terminate(i), present' = present,
         ran \subseteq ran' /\ (pc = "execute" => slots[i] \in ran'),
         tick', pc' \in {"iterate", "forward"}
  PROVE  LossInv'
<1> DEFINE v == slots[i]
           w == slots[i - 1]
<1>0. ListOK /\ i \in 0 .. top /\ i \in Nat /\ top \in Nat
  BY TypeOKParts DEF IInv, ListOK
<1>1. /\ i' = Below(i) /\ top' = top - 1
      /\ \A j \in 0 .. top' : slots'[j] = IF j < i THEN slots[j] ELSE slots[j + 1]
  BY <1>0, TerminateKeepsList DEF Terminate
<1>3. Live' = Live \ {v}
  <2>1. ASSUME NEW j \in 0 .. top' PROVE slots'[j] \in Live /\ slots'[j] # v
    <3>1. PICK k \in 0 .. top : k # i /\ slots'[j] = slots[k]
      <4>1. CASE j < i
        BY <1>0, <1>1, <4>1
      <4>2. CASE j >= i
        <5>1. j + 1 \in 0 .. top /\ j + 1 # i /\ slots'[j] = slots[j + 1]
          BY <1>0, <1>1, <4>2
        <5> QED
          BY <5>1
      <4> QED
        BY <1>0, <1>1, <4>1, <4>2
    <3> QED
      BY <1>0, <3>1 DEF Live, IInv, SlotsDistinct
  <2>2. ASSUME NEW k \in 0 .. top, k # i PROVE slots[k] \in Live'
    <3>1. PICK j \in 0 .. top' : slots'[j] = slots[k]
      <4>1. CASE k < i
        BY <1>0, <1>1, <4>1
      <4>2. CASE k > i
        <5>1. k - 1 \in 0 .. top' /\ slots'[k - 1] = slots[k]
          BY <1>0, <1>1, <4>2
        <5> QED
          BY <5>1
      <4> QED
        BY <1>0, <2>2, <4>1, <4>2
    <3> QED
      BY <3>1 DEF Live
  <2> QED
    BY <2>1, <2>2 DEF Live
<1>4. /\ Lost \subseteq ID /\ present \ Live \subseteq ID
      /\ Lost' \subseteq ID /\ (present \ Live)' \subseteq ID
  BY LossTypes, LossTypesNext DEF LossSetsOK
<1>5. Cardinality(Lost) <= Cardinality(present \ Live)
  BY DEF LossInv
<1>6. Awaiting \subseteq {slots[j] : j \in {k \in 0 .. i : k < i}} \cup {v}
  BY <1>0 DEF Awaiting
<1>7. pc' = "iterate" /\ i' > 0 => slots'[i'] \in present'
  <2> SUFFICES ASSUME i' > 0 PROVE slots'[i'] \in present
    OBVIOUS
  <2>1. i' = i - 1 /\ i - 1 \in 0 .. i /\ slots'[i'] = slots[i - 1]
    BY <1>0, <1>1 DEF Below
  <2>2. pc = "iterate" => tick
    BY DEF IInv, IterateTakesTick
  <2> QED
    BY <1>0, <2>1, <2>2 DEF IInv, Pending
<1>8. CASE i = 0
  <2>1. Lost' \subseteq Lost
    BY <1>0, <1>3, <1>6, <1>8 DEF Lost
  <2>2. present \ Live \subseteq (present \ Live)'
    BY <1>3
  <2> QED
    BY <1>4, <1>5, <1>7, <2>1, <2>2, LossBalance DEF LossInv
<1>9. CASE i > 0
  <2>1. i' = i - 1 /\ i - 1 \in 0 .. top /\ w \in ID /\ v \in ID
    BY <1>0, <1>1, <1>9, LiveIDs DEF Below
  <2>2. {slots[j] : j \in {k \in 0 .. i : k < i}} \subseteq Awaiting' \cup {w}
    <3> SUFFICES ASSUME NEW j \in 0 .. i, j < i, slots[j] # w
                 PROVE  slots[j] \in Awaiting'
      OBVIOUS
    <3>1. j < i' /\ j \in 0 .. i' /\ slots'[j] = slots[j]
      BY <1>0, <1>1, <2>1
    <3> QED
      BY <3>1 DEF Awaiting
  <2>3. v \in present
    BY <1>0, <1>9 DEF LossInv, IInv, Pending
  <2>4. v \in (present \ Live)' \ (present \ Live)
    BY <1>0, <1>3, <2>3 DEF Live
  <2>5. Lost' \subseteq Lost \cup {w}
    BY <1>3, <1>6, <2>2 DEF Lost
  <2>6. present \ Live \subseteq (present \ Live)'
    BY <1>3
  <2>7. Cardinality(Lost') <= Cardinality((present \ Live)')
    BY <1>4, <1>5, <2>1, <2>4, <2>5, <2>6, LossBalance
  <2> QED
    BY <1>7, <2>7 DEF LossInv
<1> QED
  BY <1>0, <1>8, <1>9

(* The IPs in the list and those still to come depend on nothing but the   *)
(* slots in use and where the main loop is.                                *)
LEMMA SameTurns ==
  ASSUME ListOK, i \in 0 .. top, UNCHANGED <<slots, top, i>>,
         pc = "execute" /\ tick' => slots[i] \in ran',
         pc' = "execute" \/ ~tick' \/ (pc # "execute" /\ tick)
           \/ (pc = "execute" /\ tick')
  PROVE  Live' = Live /\ Awaiting \subseteq Awaiting' \cup ran'
<1>1. Live' = Live
  BY DEF Live
<1>2. ASSUME NEW j \in 0 .. i, j < i \/ pc = "execute" \/ ~tick
      PROVE  slots[j] \in Awaiting' \cup ran'
  <2>1. CASE j < i \/ pc' = "execute" \/ ~tick'
    BY <2>1 DEF Awaiting
  <2>2. CASE ~(j < i \/ pc' = "execute" \/ ~tick')
    <3>1. j = i
      BY <2>2 DEF ListOK
    <3> QED
      BY <1>2, <2>2, <3>1
  <2> QED
    BY <2>1, <2>2
<1> QED
  BY <1>1, <1>2 DEF Awaiting

(* Before the first instruction every IP there is has its turn to come.    *)
LEMMA InitLoss == Init => LossInv
<1> SUFFICES ASSUME Init PROVE LossInv
  OBVIOUS
<1>1. /\ slots[0] = 0 /\ i = 0 /\ top = 0 /\ pc = "execute"
      /\ present = {0}
  BY BoundAssumption DEF Init
<1>2. Live = {0} /\ Awaiting = {0}
  BY <1>1 DEF Live, Awaiting
<1>3. Lost = {} /\ present \ Live = {}
  BY <1>1, <1>2 DEF Lost
<1> QED
  BY <1>1, <1>3, FS_EmptySet DEF LossInv

(* An instruction that leaves the list alone costs nobody a turn.          *)
LEMMA UnchangedKeepsLoss ==
  ASSUME IInv, IInv', LossInv,
         Plain \/ Free \/ Iterate \/ IteratePlain \/ IterateNested
         \/ IterateReturn
  PROVE  LossInv'
<1>1. /\ ListOK /\ i \in 0 .. top
      /\ UNCHANGED <<slots, size, top, i, present>>
  BY TypeOKParts DEF IInv, Plain, Free, Iterate, IteratePlain, IterateNested,
     IterateReturn, Start, Iterating, list, history
<1>2. CASE Plain \/ Iterate
  <2>1. /\ pc = "execute" /\ tick' /\ ran' = ran \cup {slots[i]}
    BY <1>2 DEF Plain, Iterate, Start
  <2>2. slots[i] \in present
    BY <1>1, <2>1 DEF IInv, Pending, ListOK
  <2>3. Live' = Live /\ Awaiting \subseteq Awaiting' \cup ran'
    BY <1>1, <2>1, SameTurns
  <2> QED
    BY <1>1, <2>1, <2>2, <2>3, NoLoss DEF ListOK
<1>3. CASE Free
  <2>1. /\ pc = "execute" /\ ~tick' /\ ran' = ran /\ pc' = "forward"
    BY <1>3 DEF Free, Start
  <2>2. Live' = Live /\ Awaiting \subseteq Awaiting' \cup ran'
    BY <1>1, <2>1, SameTurns
  <2> QED
    BY <1>1, <2>1, <2>2, NoLoss DEF ListOK
<1>4. CASE IteratePlain \/ IterateNested \/ IterateReturn
  <2>1. pc = "iterate" /\ tick' = tick /\ ran' = ran
    BY <1>4 DEF IteratePlain, IterateNested, IterateReturn, Iterating, history
  <2>2. tick
    BY <2>1 DEF IInv, IterateTakesTick
  <2>3. Live' = Live /\ Awaiting \subseteq Awaiting' \cup ran'
    BY <1>1, <2>1, <2>2, SameTurns
  <2>4. i > 0 => slots[i] \in present
    BY <2>1 DEF LossInv
  <2> QED
    BY <1>1, <2>1, <2>3, <2>4, NoLoss DEF ListOK
<1> QED
  BY <1>2, <1>3, <1>4

(* A child costs nobody a turn: it comes above its parent, and it was not  *)
(* there when the tick began.                                              *)
LEMMA DuplicateKeepsLoss ==
  ASSUME IInv, IInv', LossInv, Split \/ IterateSplit
  PROVE  LossInv'
<1>1. /\ ListOK /\ i \in 0 .. top /\ i \in Nat /\ top \in Nat
      /\ i' = i /\ present' = present /\ tick'
      /\ pc \in {"execute", "iterate"} /\ Duplicate(i)
      /\ pc' = "iterate" => pc = "iterate"
      /\ ran \subseteq ran' /\ (pc = "execute" => slots[i] \in ran')
  <2>1. /\ ListOK /\ i \in 0 .. top /\ i \in Nat /\ top \in Nat
    BY TypeOKParts DEF IInv, ListOK
  <2>2. CASE Split
    BY <2>1, <2>2 DEF Split, Start
  <2>3. CASE IterateSplit
    BY <2>1, <2>3 DEF IterateSplit, Iterating, history, IInv, IterateTakesTick
  <2> QED
    BY <2>2, <2>3
<1>2. /\ top <= top' /\ \A j \in 0 .. i : slots'[j] = slots[j]
      /\ \/ UNCHANGED <<slots, top>>
         \/ /\ top' = top + 1 /\ Unused # {}
            /\ \A j \in 0 .. top' :
                 slots'[j] = IF j = i + 1 THEN Child
                             ELSE IF j <= i THEN slots[j]
                             ELSE slots[j - 1]
  BY <1>1, DuplicateKeepsList
<1>4. Live' \cap present = Live \cap present
  <2>1. CASE UNCHANGED <<slots, top>>
    BY <2>1 DEF Live
  <2>2. CASE /\ top' = top + 1 /\ Unused # {}
             /\ \A j \in 0 .. top' :
                  slots'[j] = IF j = i + 1 THEN Child
                              ELSE IF j <= i THEN slots[j]
                              ELSE slots[j - 1]
    <3>1. Child \notin present
      BY <2>2, ChildIsNew
    <3>2. ASSUME NEW j \in 0 .. top', slots'[j] # Child
          PROVE  slots'[j] \in Live
      <4>1. CASE j <= i
        BY <1>1, <2>2, <4>1 DEF Live
      <4>2. CASE j > i
        <5>1. j # i + 1
          BY <1>1, <2>2, <3>2
        <5>2. j - 1 \in 0 .. top /\ slots'[j] = slots[j - 1]
          BY <1>1, <2>2, <4>2, <5>1
        <5> QED
          BY <5>2 DEF Live
      <4> QED
        BY <1>1, <2>2, <4>1, <4>2
    <3>3. ASSUME NEW j \in 0 .. top
          PROVE  slots[j] \in Live'
      <4>1. CASE j <= i
        <5>1. j \in 0 .. top' /\ slots'[j] = slots[j]
          BY <1>1, <2>2, <4>1
        <5> QED
          BY <5>1 DEF Live
      <4>2. CASE j > i
        <5>1. j + 1 \in 0 .. top' /\ slots'[j + 1] = slots[j]
          BY <1>1, <2>2, <4>2
        <5> QED
          BY <5>1 DEF Live
      <4> QED
        BY <1>1, <4>1, <4>2
    <3> QED
      BY <3>1, <3>2, <3>3 DEF Live
  <2> QED
    BY <1>2, <2>1, <2>2
<1>5. Awaiting \subseteq Awaiting' \cup ran'
  <2> SUFFICES ASSUME NEW j \in 0 .. i, j < i \/ pc = "execute" \/ ~tick
               PROVE  slots[j] \in Awaiting' \cup ran'
    BY DEF Awaiting
  <2>1. pc = "iterate" => tick
    BY DEF IInv, IterateTakesTick
  <2>2. CASE j < i
    BY <1>1, <1>2, <2>2 DEF Awaiting
  <2>3. CASE j = i
    BY <1>1, <2>1, <2>3
  <2> QED
    BY <1>1, <2>2, <2>3
<1>6. pc' = "iterate" /\ i' > 0 => slots'[i'] \in present
  BY <1>1, <1>2 DEF LossInv
<1> QED
  BY <1>1, <1>4, <1>5, <1>6, NoLoss

(* An @ costs at most one other IP its turn.                               *)
LEMMA QuitKeepsLoss ==
  ASSUME IInv, IInv', LossInv, Quit \/ IterateQuit
  PROVE  LossInv'
<1>1. /\ pc \in {"execute", "iterate"} /\ top > 0 /\ Terminate(i)
      /\ present' = present /\ pc' \in {"iterate", "forward"}
      /\ ran \subseteq ran' /\ (pc = "execute" => slots[i] \in ran')
  BY DEF Quit, IterateQuit, Start, Iterating, history
<1>2. tick'
  BY DEF Quit, IterateQuit, Start, Iterating, IInv, IterateTakesTick
<1> QED
  BY <1>1, <1>2, OneLoss

(* The main loop goes on: in the same tick to the IP below, in a new tick  *)
(* to the top of the list, where every IP has its turn to come.            *)
LEMMA ForwardKeepsLoss ==
  ASSUME IInv, IInv', LossInv, Forward
  PROVE  LossInv'
<1>1. /\ ListOK /\ i \in 0 .. top /\ i \in Nat /\ top \in Nat
      /\ pc = "forward" /\ pc' = "execute" /\ tick' = tick
      /\ UNCHANGED <<slots, size, top>>
  BY TypeOKParts DEF IInv, ListOK, Forward, list
<1>2. Live' = Live
  BY <1>1 DEF Live
<1>3. CASE tick /\ i = 0
  <2>1. i' = top /\ present' = Live
    BY <1>3 DEF Forward
  <2>2. Awaiting' = Live
    BY <1>1, <2>1 DEF Awaiting, Live
  <2>3. Lost' = {} /\ (present \ Live)' = {}
    BY <1>2, <2>1, <2>2 DEF Lost
  <2>4. Cardinality(Lost') <= Cardinality((present \ Live)')
    BY <2>3, FS_EmptySet
  <2> QED
    BY <1>1, <2>4 DEF LossInv
<1>4. CASE ~(tick /\ i = 0)
  <2>1. i' = (IF tick THEN i - 1 ELSE i) /\ UNCHANGED <<present, ran>>
    BY <1>4 DEF Forward
  <2>2. ASSUME NEW j \in 0 .. i, j < i \/ ~tick
        PROVE  slots[j] \in Awaiting'
    <3>1. j \in 0 .. i' /\ slots'[j] = slots[j]
      BY <1>1, <1>4, <2>1, <2>2
    <3> QED
      BY <1>1, <3>1 DEF Awaiting
  <2>3. Awaiting \subseteq Awaiting' \cup ran'
    BY <1>1, <2>2 DEF Awaiting
  <2> QED
    BY <1>1, <1>2, <2>1, <2>3, NoLoss DEF ListOK
<1> QED
  BY <1>3, <1>4

(* Every step keeps the balance of the dead and the turns lost.            *)
LEMMA NextLoss == IInv /\ IInv' /\ LossInv /\ [Next]_vars => LossInv'
<1> SUFFICES ASSUME IInv, IInv', LossInv, [Next]_vars PROVE LossInv'
  OBVIOUS
<1>1. CASE \/ Plain \/ Free \/ Iterate \/ IteratePlain \/ IterateNested
           \/ IterateReturn
  BY <1>1, UnchangedKeepsLoss
<1>2. CASE Split \/ IterateSplit
  BY <1>2, DuplicateKeepsLoss
<1>3. CASE Quit \/ IterateQuit
  BY <1>3, QuitKeepsLoss
<1>4. CASE Forward
  BY <1>4, ForwardKeepsLoss
<1>5. CASE QuitLast \/ SplitOutOfMemory \/ IterateQuitLast
  BY <1>5 DEF QuitLast, SplitOutOfMemory, IterateQuitLast, LossInv
<1>6. CASE Stopped \/ UNCHANGED vars
  <2>1. UNCHANGED <<slots, top, i, pc, tick, present, ran>>
    BY <1>6 DEF Stopped, vars
  <2>2. Live' = Live /\ Awaiting' = Awaiting
    BY <2>1 DEF Live, Awaiting
  <2>3. Lost' = Lost /\ (present \ Live)' = present \ Live
    BY <2>1, <2>2 DEF Lost
  <2> HIDE DEF Lost
  <2> QED
    BY <2>1, <2>3 DEF LossInv
<1> QED
  BY <1>1, <1>2, <1>3, <1>4, <1>5, <1>6 DEF Next

(* Every death costs at most one other IP its turn in that tick, however   *)
(* many IPs die in it, by @ or by k and @, and whatever is born meanwhile. *)
THEOREM TurnsLostBounded == Spec => []TurnsLost
<1>1. IInv /\ LossInv => TurnsLost
  <2> SUFFICES ASSUME IInv, LossInv, pc = "execute" PROVE TurnsLost
    BY DEF TurnsLost
  <2>1. Awaiting = {slots[j] : j \in 0 .. i}
    BY DEF Awaiting
  <2>2. Cardinality(Lost) <= Cardinality(present \ Live)
    BY DEF LossInv
  <2> QED
    BY <2>1, <2>2 DEF Lost, TurnsLost
<1> QED
  BY <1>1, InitLoss, NextLoss, Invariance, PTL DEF Spec

-----------------------------------------------------------------------------
(* No k but one that the main loop began, and it works on the IP at i      *)
(* until an @ is executed: what it finds there after is not to be moved.   *)
OneK == \E f \in Frame :
  /\ frames = <<f>> /\ f.op # "k"
  /\ f.left > 0 => f.ip = slots[i] /\ slots[i] = executing
  /\ f.left > 0 /\ f.op # "plain" => needMove[slots[i]]
  /\ needMove[slots[i]] => slots[i] = executing

(* needMove is clear for the IP at i at most, and for none when an         *)
(* instruction starts.                                                     *)
MoveInv ==
  /\ pc = "execute" => \A j \in 0 .. top : needMove[slots[j]]
  /\ pc \in {"iterate", "forward"} => \A j \in 0 .. top : j # i => needMove[slots[j]]
  /\ pc = "iterate" => OneK

(* What OthersUnaffected says of a step.                                   *)
OwnAffair ==
  /\ Live \ Live' \subseteq {executing'}
  /\ pc' = "forward" /\ needMove'[slots'[i']] => slots'[i'] = executing'
  /\ pc' = "execute" => \A j \in 0 .. top' : needMove'[slots'[j]]

(* A child moves when its parent does, and no IP dies of its birth.        *)
LEMMA DuplicateMoves ==
  ASSUME ListOK, NEW index \in 0 .. top, Duplicate(index),
         \A j \in 0 .. top : needMove[slots[j]]
  PROVE  /\ \A j \in 0 .. top' : needMove'[slots'[j]]
         /\ Live \ Live' = {}
         /\ slots'[index] = slots[index] /\ index \in 0 .. top'
<1>0. top \in Nat /\ index \in Nat
  BY DEF ListOK
<1>1. CASE UNCHANGED <<list, needMove>>
  <2>1. slots' = slots /\ top' = top /\ needMove' = needMove
    BY <1>1 DEF list
  <2>2. Live' = Live
    BY <2>1 DEF Live
  <2> QED
    BY <2>1, <2>2
<1>2. CASE /\ Unused # {}
           /\ top' = top + 1
           /\ needMove' = [needMove EXCEPT ![Child] = needMove[slots[index]]]
           /\ slots' = SplitSlots(index, size')
  <2>1. \A j \in 0 .. top' :
          slots'[j] = IF j = index + 1 THEN Child
                      ELSE IF j <= index THEN slots[j]
                      ELSE slots[j - 1]
    <3>1. UNCHANGED <<slots, top>> => FALSE
      BY <1>0, <1>2
    <3> QED
      BY <3>1, DuplicateKeepsList
  <2>2. \A j \in 0 .. top : /\ slots[j] \in ID /\ slots[j] # Child
                            /\ needMove'[slots[j]] = needMove[slots[j]]
    BY <1>0, <1>2, LiveIDs, ChildIsNew DEF ListOK
  <2>3. needMove'[Child] = needMove[slots[index]]
    BY <1>0, <1>2, ChildIsNew DEF ListOK
  <2>4. ASSUME NEW j \in 0 .. top' PROVE needMove'[slots'[j]]
    <3>1. CASE j = index + 1
      BY <2>1, <2>3, <3>1
    <3>2. CASE j <= index
      BY <1>0, <2>1, <2>2, <3>2
    <3>3. CASE j > index + 1
      <4>1. j - 1 \in 0 .. top /\ slots'[j] = slots[j - 1]
        BY <1>0, <1>2, <2>1, <3>3
      <4> QED
        BY <2>2, <4>1
    <3> QED
      BY <1>0, <3>1, <3>2, <3>3
  <2>5. ASSUME NEW j \in 0 .. top PROVE slots[j] \in Live'
    <3>1. CASE j <= index
      BY <1>0, <1>2, <2>1, <3>1 DEF Live
    <3>2. CASE j > index
      <4>1. j + 1 \in 0 .. top' /\ slots'[j + 1] = slots[j]
        BY <1>0, <1>2, <2>1, <3>2
      <4> QED
        BY <4>1 DEF Live
    <3> QED
      BY <1>0, <3>1, <3>2
  <2> QED
    BY <1>0, <1>2, <2>1, <2>4, <2>5 DEF Live
<1> QED
  BY <1>1, <1>2 DEF Duplicate

(* Only the IP at the index dies, and the one the main loop is led to does *)
(* not move.                                                               *)
LEMMA TerminateMoves ==
  ASSUME ListOK, NEW index \in 0 .. top, top > 0, Terminate(index),
         \A j \in 0 .. top : j # index => needMove[slots[j]]
  PROVE  /\ \A j \in 0 .. top' : j # i' => needMove'[slots'[j]]
         /\ ~needMove'[slots'[i']]
         /\ Live \ Live' \subseteq {slots[index]}
<1>0. top \in Nat /\ index \in Nat /\ top' = top - 1
  BY DEF ListOK, Terminate
<1>1. /\ ListOK' /\ i' \in 0 .. top'
      /\ \A j \in 0 .. top' : slots'[j] = IF j < index THEN slots[j] ELSE slots[j + 1]
  BY TerminateKeepsList
<1>2. /\ \A j \in 0 .. top' : slots'[j] \in ID
      /\ \A j, k \in 0 .. top' : slots'[j] = slots'[k] => j = k
  BY <1>1 DEF ListOK, SlotsDistinct
<1>3. needMove' = [needMove EXCEPT ![slots'[i']] = FALSE] /\ needMove \in [ID -> BOOLEAN]
  BY DEF Terminate, ListOK
<1>4. ASSUME NEW j \in 0 .. top', j # i' PROVE needMove'[slots'[j]]
  <2>1. needMove'[slots'[j]] = needMove[slots'[j]]
    BY <1>1, <1>2, <1>3, <1>4
  <2>2. CASE j < index
    BY <1>0, <1>1, <2>1, <2>2
  <2>3. CASE j >= index
    <3>1. j + 1 \in 0 .. top /\ j + 1 # index /\ slots'[j] = slots[j + 1]
      BY <1>0, <1>1, <2>3
    <3> QED
      BY <2>1, <3>1
  <2> QED
    BY <1>0, <2>2, <2>3
<1>5. ~needMove'[slots'[i']]
  BY <1>1, <1>2, <1>3
<1>6. ASSUME NEW j \in 0 .. top, j # index PROVE slots[j] \in Live'
  <2>1. CASE j < index
    BY <1>0, <1>1, <2>1 DEF Live
  <2>2. CASE j > index
    <3>1. j - 1 \in 0 .. top' /\ slots'[j - 1] = slots[j]
      BY <1>0, <1>1, <2>2
    <3> QED
      BY <3>1 DEF Live
  <2> QED
    BY <1>0, <1>6, <2>1, <2>2
<1> QED
  BY <1>4, <1>5, <1>6 DEF Live

(* An instruction of the main loop.                                        *)
LEMMA InstructionIsOwnAffair ==
  ASSUME MaxNesting = 0, IInv, MoveInv, Plain \/ Free \/ Split \/ Quit \/ Iterate
  PROVE  MoveInv' /\ OwnAffair
<1>0. /\ ListOK /\ i \in 0 .. top /\ top \in Nat /\ slots[i] \in ID
      /\ frames \in Seq(Frame) /\ needMove \in [ID -> BOOLEAN]
      /\ \A j \in 0 .. top : slots[j] \in ID /\ (j # i => slots[j] # slots[i])
  BY TypeOKParts, LiveIDs DEF IInv, TypeOK, SlotsDistinct
<1>1. /\ pc = "execute" /\ executing' = slots[i]
      /\ \A j \in 0 .. top : needMove[slots[j]]
  BY DEF Plain, Free, Split, Quit, Iterate, Start, MoveInv
<1>2. CASE Plain \/ Free
  <2>1. /\ UNCHANGED <<slots, top, i>> /\ pc' = "forward"
        /\ \/ needMove' = needMove
           \/ needMove' = [needMove EXCEPT ![slots[i]] = FALSE]
    BY <1>2 DEF Plain, Free, list, MayClearNeedMove
  <2>2. \A j \in 0 .. top : j # i => needMove'[slots[j]]
    BY <1>0, <1>1, <2>1
  <2>3. Live' = Live
    BY <2>1 DEF Live
  <2> QED
    BY <1>1, <2>1, <2>2, <2>3 DEF MoveInv, OwnAffair
<1>3. CASE Split
  <2>1. Duplicate(i) /\ i' = i /\ pc' = "forward"
    BY <1>3 DEF Split
  <2>2. /\ \A j \in 0 .. top' : needMove'[slots'[j]]
        /\ Live \ Live' = {} /\ slots'[i] = slots[i]
    BY <1>0, <1>1, <2>1, DuplicateMoves
  <2> QED
    BY <1>1, <2>1, <2>2 DEF MoveInv, OwnAffair
<1>4. CASE Quit
  <2>1. Terminate(i) /\ top > 0 /\ pc' = "forward"
    BY <1>4 DEF Quit
  <2>2. /\ \A j \in 0 .. top' : j # i' => needMove'[slots'[j]]
        /\ ~needMove'[slots'[i']]
        /\ Live \ Live' \subseteq {slots[i]}
    BY <1>0, <1>1, <2>1, TerminateMoves
  <2> QED
    BY <1>1, <2>1, <2>2 DEF MoveInv, OwnAffair
<1>5. CASE Iterate
  <2>1. UNCHANGED <<slots, top, i, needMove>> /\ pc' = "iterate"
    BY <1>5 DEF Iterate, list
  <2>2. PICK f \in NewFrame(slots[i]) : frames' = <<f>>
    BY <1>5 DEF Iterate
  <2>3. f \in Frame /\ f.ip = slots[i] /\ (f.op = "k" => Len(frames) < MaxNesting)
    BY <1>0 DEF NewFrame, Frame
  <2>4. f.op # "k"
    BY <1>0, <2>3
  <2>5. OneK'
    BY <1>0, <1>1, <2>1, <2>2, <2>3, <2>4 DEF OneK
  <2>6. Live' = Live
    BY <2>1 DEF Live
  <2> QED
    BY <1>1, <2>1, <2>5, <2>6 DEF MoveInv, OwnAffair
<1> QED
  BY <1>2, <1>3, <1>4, <1>5

(* What a k does that was not begun by another k.                          *)
LEMMA IterationIsOwnAffair ==
  ASSUME MaxNesting = 0, IInv, MoveInv,
         IteratePlain \/ IterateSplit \/ IterateQuit \/ IterateNested \/ IterateReturn
  PROVE  MoveInv' /\ OwnAffair
<1>0. /\ ListOK /\ i \in 0 .. top /\ top \in Nat /\ slots[i] \in ID
      /\ frames \in Seq(Frame) /\ needMove \in [ID -> BOOLEAN]
      /\ \A j \in 0 .. top : slots[j] \in ID /\ (j # i => slots[j] # slots[i])
  BY TypeOKParts, LiveIDs DEF IInv, TypeOK, SlotsDistinct
<1>1. /\ pc = "iterate" /\ executing' = executing
      /\ \A j \in 0 .. top : j # i => needMove[slots[j]]
  BY DEF IteratePlain, IterateSplit, IterateQuit, IterateNested, IterateReturn,
     Iterating, history, MoveInv
<1>2. PICK f \in Frame :
        /\ frames = <<f>> /\ f.op # "k"
        /\ f.left > 0 => f.ip = slots[i] /\ slots[i] = executing
        /\ f.left > 0 /\ f.op # "plain" => needMove[slots[i]]
        /\ needMove[slots[i]] => slots[i] = executing
  BY <1>1 DEF MoveInv, OneK
<1>3. Current = f /\ Callers = <<>> /\ f.left \in Nat
  BY <1>2 DEF Current, Callers, Frame
<1> DEFINE Less(n) == [f EXCEPT !.left = n]
<1>4. OneLess = <<Less(f.left - 1)>> /\ [frames EXCEPT ![Len(frames)].left = 0] = <<Less(0)>>
  BY <1>2 DEF OneLess
<1>5. ASSUME NEW n \in 0 .. f.left
      PROVE  Less(n) \in Frame /\ Less(n).left = n /\ Less(n).op = f.op /\ Less(n).ip = f.ip
  <2>1. f \in Frame /\ n \in 0 .. MaxCount
    BY <1>2, <1>3, <1>5, BoundAssumption DEF Frame
  <2> QED
    BY <2>1 DEF Frame
<1> HIDE DEF Less
<1>6. CASE IteratePlain
  <2>1. /\ UNCHANGED <<slots, top, i, pc>> /\ f.left > 0 /\ f.op = "plain"
        /\ frames' = <<Less(f.left - 1)>>
        /\ \/ needMove' = needMove
           \/ needMove' = [needMove EXCEPT ![slots[i]] = FALSE]
    BY <1>2, <1>3, <1>4, <1>6 DEF IteratePlain, Iterating, list, MayClearNeedMove
  <2>2. f.left - 1 \in 0 .. f.left
    BY <1>3, <2>1
  <2>3. \A j \in 0 .. top : j # i => needMove'[slots[j]]
    BY <1>0, <1>1, <2>1
  <2>4. OneK'
    BY <1>1, <1>2, <1>5, <2>1, <2>2 DEF OneK
  <2>5. Live' = Live
    BY <2>1 DEF Live
  <2> QED
    BY <1>1, <2>1, <2>3, <2>4, <2>5 DEF MoveInv, OwnAffair
<1>7. CASE IterateSplit
  <2>1. /\ Duplicate(i) /\ UNCHANGED <<i, pc>> /\ f.left > 0 /\ f.op = "t"
        /\ frames' = <<Less(f.left - 1)>>
    BY <1>3, <1>4, <1>7 DEF IterateSplit, Iterating
  <2>2. f.left - 1 \in 0 .. f.left
    BY <1>3, <2>1
  <2>3. \A j \in 0 .. top : needMove[slots[j]]
    BY <1>0, <1>1, <1>2, <2>1
  <2>4. /\ \A j \in 0 .. top' : needMove'[slots'[j]]
        /\ Live \ Live' = {} /\ slots'[i] = slots[i] /\ i \in 0 .. top'
    BY <1>0, <2>1, <2>3, DuplicateMoves
  <2>5. OneK'
    BY <1>1, <1>2, <1>5, <2>1, <2>2, <2>4 DEF OneK
  <2> QED
    BY <1>1, <2>1, <2>4, <2>5 DEF MoveInv, OwnAffair
<1>8. CASE IterateQuit
  <2>1. /\ Terminate(i) /\ top > 0 /\ pc' = pc /\ f.left > 0 /\ f.op = "@"
        /\ frames' = <<Less(0)>>
    BY <1>3, <1>4, <1>8 DEF IterateQuit, Iterating
  <2>2. slots[i] = executing /\ 0 \in 0 .. f.left
    BY <1>2, <1>3, <2>1
  <2>3. /\ \A j \in 0 .. top' : j # i' => needMove'[slots'[j]]
        /\ ~needMove'[slots'[i']]
        /\ Live \ Live' \subseteq {slots[i]}
    BY <1>0, <1>1, <2>1, TerminateMoves
  <2>4. OneK'
    BY <1>2, <1>5, <2>1, <2>2, <2>3 DEF OneK
  <2> QED
    BY <1>1, <2>1, <2>2, <2>3, <2>4 DEF MoveInv, OwnAffair
<1>9. CASE IterateNested
  BY <1>2, <1>3, <1>9 DEF IterateNested, Iterating
<1>10. CASE IterateReturn
  <2>1. UNCHANGED <<slots, top, i, needMove>> /\ pc' = "forward"
    BY <1>3, <1>10 DEF IterateReturn, list
  <2>2. Live' = Live
    BY <2>1 DEF Live
  <2> QED
    BY <1>1, <1>2, <2>1, <2>2 DEF MoveInv, OwnAffair
<1> QED
  BY <1>6, <1>7, <1>8, <1>9, <1>10

(* needMove is reset for the IP that comes to be left, moved or not.       *)
LEMMA ForwardIsOwnAffair ==
  ASSUME IInv, MoveInv, Forward
  PROVE  MoveInv' /\ OwnAffair
<1>1. /\ slots[i] \in ID /\ needMove \in [ID -> BOOLEAN]
      /\ \A j \in 0 .. top : slots[j] \in ID
  BY TypeOKParts, LiveIDs DEF IInv, TypeOK
<1>2. /\ pc = "forward" /\ pc' = "execute" /\ slots' = slots /\ top' = top
      /\ needMove' = [needMove EXCEPT ![slots[i]] = TRUE]
  BY DEF Forward, list
<1>3. \A j \in 0 .. top : needMove'[slots[j]]
  BY <1>1, <1>2 DEF MoveInv
<1>4. Live' = Live
  BY <1>2 DEF Live
<1> QED
  BY <1>2, <1>3, <1>4 DEF MoveInv, OwnAffair

(* Every step, when no k is executed by another.                           *)
LEMMA NextOwnAffair ==
  ASSUME MaxNesting = 0, IInv, MoveInv, [Next]_vars
  PROVE  MoveInv' /\ [OwnAffair]_vars
<1>1. CASE Plain \/ Free \/ Split \/ Quit \/ Iterate
  BY <1>1, InstructionIsOwnAffair
<1>2. CASE IteratePlain \/ IterateSplit \/ IterateQuit \/ IterateNested \/ IterateReturn
  BY <1>2, IterationIsOwnAffair
<1>3. CASE Forward
  BY <1>3, ForwardIsOwnAffair
<1>4. CASE QuitLast \/ SplitOutOfMemory \/ IterateQuitLast
  <2>1. slots' = slots /\ top' = top /\ pc' = "exited"
    BY <1>4 DEF QuitLast, SplitOutOfMemory, IterateQuitLast, list
  <2>2. Live' = Live
    BY <2>1 DEF Live
  <2> QED
    BY <2>1, <2>2 DEF MoveInv, OwnAffair
<1>5. CASE Stopped \/ UNCHANGED vars
  <2>1. UNCHANGED vars
    BY <1>5 DEF Stopped
  <2>2. UNCHANGED <<slots, top, i, pc, needMove, frames, executing>>
    BY <2>1 DEF vars
  <2>3. MoveInv'
    BY <2>2 DEF MoveInv, OneK
  <2> QED
    BY <2>1, <2>3
<1> QED
  BY <1>1, <1>2, <1>3, <1>4, <1>5 DEF Next

(* What an IP executes is its own affair, for any number of IPs and any    *)
(* counts of k, unless a k executes another: then it is not (section 6 of  *)
(* the README).                                                            *)
THEOREM OthersLeftAlone == MaxNesting = 0 /\ Spec => OthersUnaffected
<1> SUFFICES ASSUME MaxNesting = 0 PROVE Spec => OthersUnaffected
  OBVIOUS
<1>1. Init => MoveInv
  BY BoundAssumption DEF Init, MoveInv, ID
<1>2. IInv /\ MoveInv /\ [Next]_vars => MoveInv'
  BY NextOwnAffair
<1>3. IInv /\ MoveInv /\ [Next]_vars =>
        [/\ Live \ Live' \subseteq {executing'}
         /\ pc' = "forward" /\ needMove'[slots'[i']] => slots'[i'] = executing'
         /\ pc' = "execute" => \A j \in 0 .. top' : needMove'[slots'[j]]]_vars
  BY NextOwnAffair DEF OwnAffair
<1> QED
  BY <1>1, <1>2, <1>3, Invariance, PTL DEF Spec, OthersUnaffected

-----------------------------------------------------------------------------
(* TOYS: machines, and loops over them.                                    *)

Vectors == Int \X Int

(* Machines whose cells, on the stack and in funge-space, are in V.        *)
Places(V) == UNION {[P -> V] : P \in {Q \in SUBSET Vectors : IsFiniteSet(Q)}}
Machines(V) == [cells : Places(V), tl : Vectors, br : Vectors, pos : Vectors, delta : Vectors,
                offset : Vectors, stack : Seq(V)]

(* What holds at 0 and is handed on holds up to n.                         *)
LEMMA UpTo ==
  ASSUME NEW n \in Nat, NEW G, 0 \in G, \A at \in 1 .. n : at - 1 \in G => at \in G
  PROVE  \A at \in 0 .. n : at \in G
<1> DEFINE Bad == {at \in 0 .. n : at \notin G}
<1>1. ASSUME Bad # {} PROVE FALSE
  <2>1. Bad \in SUBSET Nat
    OBVIOUS
  <2> HIDE DEF Bad
  <2>2. PICK j \in Bad : \A k \in Bad : j <= k
    BY <1>1, <2>1, Least
  <2> USE DEF Bad
  <2>3. j \in 0 .. n /\ j \notin G
    BY <2>2
  <2>4. j \in 1 .. n /\ j - 1 \in 0 .. n
    BY <2>3
  <2>5. j - 1 \notin Bad
    BY <2>1, <2>2, <2>4
  <2> QED
    BY <2>3, <2>4, <2>5
<1> QED
  BY <1>1

(* A loop from s over n steps, each of which F describes.                  *)
Rounds(h, s, n, F) == h = [at \in 0 .. n |-> IF at = 0 THEN s ELSE F[<<h[at - 1], at>>]]

(* Steps that stay in M make a loop.                                       *)
LEMMA LoopRuns ==
  ASSUME NEW M, NEW s \in M, NEW n \in Nat, NEW F,
         \A x \in M, at \in 1 .. n : F[<<x, at>>] \in M
  PROVE  \E h : Rounds(h, s, n, F) /\ \A at \in 0 .. n : h[at] \in M
<1> DEFINE G == {k \in 0 .. n : \E h : Rounds(h, s, k, F) /\ \A at \in 0 .. k : h[at] \in M}
<1>1. 0 \in G
  <2> DEFINE h == [at \in 0 .. 0 |-> s]
  <2>1. Rounds(h, s, 0, F) /\ \A at \in 0 .. 0 : h[at] \in M
    BY DEF Rounds
  <2> HIDE DEF h
  <2> QED
    BY <2>1
<1>2. ASSUME NEW k \in 1 .. n, k - 1 \in G PROVE k \in G
  <2>1. PICK h : Rounds(h, s, k - 1, F) /\ \A at \in 0 .. k - 1 : h[at] \in M
    BY <1>2
  <2> DEFINE g == [at \in 0 .. k |-> IF at < k THEN h[at] ELSE F[<<h[k - 1], k>>]]
  <2>2. k - 1 \in 0 .. k - 1 /\ h[k - 1] \in M /\ F[<<h[k - 1], k>>] \in M
    BY <2>1
  <2>3. \A at \in 0 .. k : g[at] \in M
    BY <2>1, <2>2
  <2>4. \A at \in 0 .. k : g[at] = IF at = 0 THEN s ELSE F[<<g[at - 1], at>>]
    <3> SUFFICES ASSUME NEW at \in 0 .. k PROVE g[at] = IF at = 0 THEN s ELSE F[<<g[at - 1], at>>]
      OBVIOUS
    <3>1. CASE at < k
      <4>1. at \in 0 .. k - 1 /\ (at # 0 => at - 1 \in 0 .. k /\ at - 1 < k)
        BY <3>1
      <4>2. h[at] = IF at = 0 THEN s ELSE F[<<h[at - 1], at>>]
        BY <2>1, <4>1 DEF Rounds
      <4>3. g[at] = h[at] /\ (at # 0 => g[at - 1] = h[at - 1])
        BY <3>1, <4>1
      <4> QED
        BY <4>2, <4>3
    <3>2. CASE at = k
      <4>1. at # 0 /\ at - 1 \in 0 .. k /\ at - 1 < k
        BY <3>2
      <4>2. g[at - 1] = h[k - 1] /\ g[at] = F[<<h[k - 1], k>>]
        BY <3>2, <4>1
      <4> QED
        BY <3>2, <4>1, <4>2
    <3> QED
      BY <3>1, <3>2
  <2>5. g = [at \in 0 .. k |-> g[at]]
    OBVIOUS
  <2> HIDE DEF g
  <2>6. Rounds(g, s, k, F)
    BY <2>4, <2>5 DEF Rounds
  <2> QED
    BY <2>3, <2>6
<1> HIDE DEF G
<1>3. n \in G
  <2>1. \A at \in 1 .. n : at - 1 \in G => at \in G
    BY <1>2
  <2>2. \A at \in 0 .. n : at \in G
    BY ONLY <1>1, <2>1, UpTo, n \in Nat
  <2> QED
    BY <2>2
<1> QED
  BY <1>3 DEF G

(* What they lead to stays there.                                          *)
LEMMA LoopStays ==
  ASSUME NEW M, NEW n \in Nat, NEW h, h[0] \in M,
         \A at \in 1 .. n : h[at - 1] \in M => h[at] \in M
  PROVE  \A at \in 0 .. n : h[at] \in M
<1> DEFINE G == {at \in 0 .. n : h[at] \in M}
<1>1. 0 \in G /\ \A at \in 1 .. n : at - 1 \in G => at \in G
  OBVIOUS
<1> HIDE DEF G
<1>2. \A at \in 0 .. n : at \in G
  BY <1>1, UpTo
<1> QED
  BY <1>2 DEF G

(* Funge-space is a function from finitely many positions.                 *)
LEMMA PlacesAre ==
  ASSUME NEW V, NEW f
  PROVE  f \in Places(V) <=> /\ f = [q \in DOMAIN f |-> f[q]] /\ DOMAIN f \subseteq Vectors
                             /\ IsFiniteSet(DOMAIN f) /\ \A q \in DOMAIN f : f[q] \in V
<1>1. ASSUME f \in Places(V)
      PROVE  /\ f = [q \in DOMAIN f |-> f[q]] /\ DOMAIN f \subseteq Vectors
             /\ IsFiniteSet(DOMAIN f) /\ \A q \in DOMAIN f : f[q] \in V
  <2>1. PICK P \in {Q \in SUBSET Vectors : IsFiniteSet(Q)} : f \in [P -> V]
    BY <1>1 DEF Places
  <2> QED
    BY <2>1
<1>2. ASSUME f = [q \in DOMAIN f |-> f[q]], DOMAIN f \subseteq Vectors,
             IsFiniteSet(DOMAIN f), \A q \in DOMAIN f : f[q] \in V
      PROVE  f \in Places(V)
  <2>1. f \in [DOMAIN f -> V] /\ DOMAIN f \in {Q \in SUBSET Vectors : IsFiniteSet(Q)}
    BY <1>2
  <2> QED
    BY <2>1 DEF Places
<1> QED
  BY <1>1, <1>2

(* Vectors are added, taken away and compared part by part.                *)
LEMMA LesserIsVector ==
  ASSUME NEW p \in Vectors, NEW q \in Vectors
  PROVE  /\ Plus(p, q) \in Vectors /\ Minus(p, q) \in Vectors
         /\ Lesser(p, q) \in Vectors /\ Greater(p, q) \in Vectors
BY DEF Vectors, Plus, Minus, Lesser, Greater

(* Writing a cell changes this cell.                                       *)
LEMMA SetIs ==
  ASSUME NEW V, NEW s \in Machines(V), NEW p \in Vectors, NEW c \in V
  PROVE  /\ fungespace_set(s, p, c) \in Machines(V)
         /\ fungespace_set(s, p, c).stack = s.stack /\ fungespace_set(s, p, c).pos = s.pos
         /\ fungespace_set(s, p, c).delta = s.delta
         /\ \A q : At(fungespace_set(s, p, c), q) = IF q = p THEN c ELSE At(s, q)
<1> DEFINE u == fungespace_set(s, p, c)
<1>1. /\ s.cells = [q \in DOMAIN s.cells |-> s.cells[q]] /\ DOMAIN s.cells \subseteq Vectors
      /\ IsFiniteSet(DOMAIN s.cells) /\ \A q \in DOMAIN s.cells : s.cells[q] \in V
      /\ s.tl \in Vectors /\ s.br \in Vectors
  BY PlacesAre DEF Machines
<1>2. s = [cells |-> s.cells, tl |-> s.tl, br |-> s.br, pos |-> s.pos, delta |-> s.delta,
           offset |-> s.offset, stack |-> s.stack]
  BY DEF Machines
<1>3. CASE c = Code.blank
  <2> DEFINE f == [q \in DOMAIN s.cells \ {p} |-> s.cells[q]]
  <2>1. u = [s EXCEPT !.cells = f]
    BY <1>3 DEF fungespace_set
  <2>2. IsFiniteSet(DOMAIN s.cells \ {p})
    BY <1>1, FS_Subset
  <2>3. f \in Places(V)
    BY <1>1, <2>2, PlacesAre
  <2>4. \A q : q \in DOMAIN f <=> q \in DOMAIN s.cells /\ q # p
    OBVIOUS
  <2>5. \A q \in DOMAIN f : f[q] = s.cells[q]
    OBVIOUS
  <2> HIDE DEF f, u
  <2>6. u.cells = f /\ u \in Machines(V) /\ u.stack = s.stack /\ u.pos = s.pos /\ u.delta = s.delta
    BY <1>2, <2>1, <2>3 DEF Machines
  <2>7. \A q : At(u, q) = IF q = p THEN c ELSE At(s, q)
    BY <1>3, <2>4, <2>5, <2>6 DEF At
  <2> QED
    BY <2>6, <2>7 DEF u
<1>4. CASE c # Code.blank
  <2> DEFINE f == [q \in DOMAIN s.cells \cup {p} |-> IF q = p THEN c ELSE s.cells[q]]
  <2>1. u = [s EXCEPT !.cells = f, !.tl = Lesser(s.tl, p), !.br = Greater(s.br, p)]
    BY <1>4 DEF fungespace_set
  <2>2. IsFiniteSet(DOMAIN s.cells \cup {p})
    BY <1>1, FS_AddElement
  <2>3. f \in Places(V)
    BY <1>1, <2>2, PlacesAre
  <2>4. \A q : q \in DOMAIN f <=> q \in DOMAIN s.cells \/ q = p
    OBVIOUS
  <2>5. \A q \in DOMAIN f : f[q] = IF q = p THEN c ELSE s.cells[q]
    OBVIOUS
  <2>6. Lesser(s.tl, p) \in Vectors /\ Greater(s.br, p) \in Vectors
    BY <1>1, LesserIsVector
  <2> HIDE DEF f, u
  <2>7. u.cells = f /\ u \in Machines(V) /\ u.stack = s.stack /\ u.pos = s.pos /\ u.delta = s.delta
    BY <1>2, <2>1, <2>3, <2>6 DEF Machines
  <2>8. \A q : At(u, q) = IF q = p THEN c ELSE At(s, q)
    BY <1>4, <2>4, <2>5, <2>7 DEF At
  <2> QED
    BY <2>7, <2>8 DEF u
<1> QED
  BY <1>3, <1>4

(* What is in a cell is a cell.                                            *)
LEMMA AtIsCell ==
  ASSUME NEW V, Int \subseteq V, NEW s \in Machines(V), NEW q
  PROVE  At(s, q) \in V
<1>1. \A p \in DOMAIN s.cells : s.cells[p] \in V
  BY PlacesAre DEF Machines
<1> QED
  BY <1>1 DEF At, Code

(* A copy changes the cell it goes to.                                     *)
LEMMA CopyIs ==
  ASSUME NEW V, Int \subseteq V, NEW s \in Machines(V), NEW p \in Vectors, NEW q \in Vectors
  PROVE  /\ Copy(s, p, q) \in Machines(V)
         /\ Copy(s, p, q).stack = s.stack /\ Copy(s, p, q).pos = s.pos
         /\ \A x : At(Copy(s, p, q), x) = IF x = q THEN At(s, p) ELSE At(s, x)
BY AtIsCell, SetIs DEF Copy

(* A move changes the cell it goes to and blanks the one it comes from.    *)
LEMMA MoveIs ==
  ASSUME NEW V, Int \subseteq V, NEW s \in Machines(V), NEW p \in Vectors, NEW q \in Vectors
  PROVE  /\ Move(s, p, q) \in Machines(V)
         /\ Move(s, p, q).stack = s.stack /\ Move(s, p, q).pos = s.pos
         /\ \A x : At(Move(s, p, q), x) = IF x = p THEN Code.blank
                                          ELSE IF x = q THEN At(s, p) ELSE At(s, x)
<1> DEFINE u == Copy(s, p, q)
<1>1. /\ u \in Machines(V) /\ u.stack = s.stack /\ u.pos = s.pos
      /\ \A x : At(u, x) = IF x = q THEN At(s, p) ELSE At(s, x)
  BY CopyIs
<1>2. Code.blank \in V
  BY DEF Code
<1>3. Move(s, p, q) = fungespace_set(u, p, Code.blank)
  BY DEF Move
<1> HIDE DEF u
<1>4. /\ fungespace_set(u, p, Code.blank) \in Machines(V)
      /\ fungespace_set(u, p, Code.blank).stack = u.stack
      /\ fungespace_set(u, p, Code.blank).pos = u.pos
      /\ \A x : At(fungespace_set(u, p, Code.blank), x) = IF x = p THEN Code.blank ELSE At(u, x)
  BY ONLY <1>1, <1>2, SetIs, p \in Vectors
<1> QED
  BY <1>1, <1>3, <1>4

(* r copies or moves the cells at p to q, one after the other.             *)
Copies(r, s, n, p, q) == r[0] = s /\ \A at \in 1 .. n : r[at] = Copy(r[at - 1], p[at], q[at])
Moves(r, s, n, p, q)  == r[0] = s /\ \A at \in 1 .. n : r[at] = Move(r[at - 1], p[at], q[at])

(* Cells that are read before they are written over arrive.                *)
LEMMA CopiesArrive ==
  ASSUME NEW V, Int \subseteq V, NEW n \in Nat, NEW r, NEW s, NEW p, NEW q,
         \A at \in 0 .. n : r[at] \in Machines(V),
         \A at \in 1 .. n : p[at] \in Vectors /\ q[at] \in Vectors,
         \A at \in 1 .. n, j \in 1 .. n : j < at => p[at] # q[j] /\ q[at] # q[j],
         Copies(r, s, n, p, q)
  PROVE  /\ \A at \in 1 .. n : At(r[n], q[at]) = At(s, p[at])
         /\ \A x : (\A at \in 1 .. n : x # q[at]) => At(r[n], x) = At(s, x)
<1> DEFINE Sound(k) == /\ \A at \in 1 .. k : At(r[k], q[at]) = At(s, p[at])
                       /\ \A x : (\A at \in 1 .. k : x # q[at]) => At(r[k], x) = At(s, x)
           G == {k \in 0 .. n : Sound(k)}
<1>1. 0 \in G
  BY DEF Copies
<1>2. ASSUME NEW k \in 1 .. n, k - 1 \in G PROVE k \in G
  <2>1. /\ k - 1 \in 0 .. n /\ r[k - 1] \in Machines(V) /\ r[k] = Copy(r[k - 1], p[k], q[k])
        /\ p[k] \in Vectors /\ q[k] \in Vectors
    BY <1>2 DEF Copies
  <2>2. \A x : At(r[k], x) = IF x = q[k] THEN At(r[k - 1], p[k]) ELSE At(r[k - 1], x)
    BY ONLY <2>1, CopyIs, Int \subseteq V
  <2>3. Sound(k - 1)
    BY <1>2
  <2>4. \A at \in 1 .. k - 1 : at \in 1 .. n /\ at < k
    BY <1>2
  <2>5. \A at \in 1 .. k : at \in 1 .. k - 1 \/ at = k
    OBVIOUS
  <2>6. k \in 1 .. k /\ \A at \in 1 .. k - 1 : at \in 1 .. k
    OBVIOUS
  <2>7. At(r[k - 1], p[k]) = At(s, p[k])
    BY <2>3, <2>4
  <2>8. ASSUME NEW at \in 1 .. k PROVE At(r[k], q[at]) = At(s, p[at])
    <3>1. CASE at = k
      BY <2>2, <2>7, <3>1
    <3>2. CASE at \in 1 .. k - 1
      <4>1. q[k] # q[at]
        BY <2>4, <3>2
      <4> QED
        BY <2>2, <2>3, <3>2, <4>1
    <3> QED
      BY <2>5, <3>1, <3>2
  <2>9. ASSUME NEW x, \A at \in 1 .. k : x # q[at] PROVE At(r[k], x) = At(s, x)
    <3>1. x # q[k] /\ \A at \in 1 .. k - 1 : x # q[at]
      BY <2>6, <2>9
    <3> QED
      BY <2>2, <2>3, <3>1
  <2> QED
    BY <1>2, <2>8, <2>9
<1> HIDE DEF G, Sound
<1>3. n \in G
  <2>1. \A at \in 1 .. n : at - 1 \in G => at \in G
    BY <1>2
  <2>2. \A at \in 0 .. n : at \in G
    BY ONLY <1>1, <2>1, UpTo, n \in Nat
  <2> QED
    BY <2>2
<1> QED
  BY <1>3 DEF G, Sound

(* So do cells that are moved, where none is written on a place of which   *)
(* it is still to be read, and nothing is erased after it was written.     *)
LEMMA MovesArrive ==
  ASSUME NEW V, Int \subseteq V, NEW n \in Nat, NEW r, NEW s, NEW p, NEW q,
         \A at \in 0 .. n : r[at] \in Machines(V),
         \A at \in 1 .. n : p[at] \in Vectors /\ q[at] \in Vectors /\ p[at] # q[at],
         \A at \in 1 .. n, j \in 1 .. n :
           j < at => p[at] # q[j] /\ q[at] # q[j] /\ p[at] # p[j],
         Moves(r, s, n, p, q)
  PROVE  /\ \A at \in 1 .. n : At(r[n], q[at]) = At(s, p[at])
         /\ \A x : (\A at \in 1 .. n : x # q[at])
                     => At(r[n], x) = IF \E at \in 1 .. n : x = p[at] THEN Code.blank ELSE At(s, x)
<1> DEFINE Sound(k) ==
             /\ \A at \in 1 .. k : At(r[k], q[at]) = At(s, p[at])
             /\ \A x : (\A at \in 1 .. k : x # q[at])
                         => At(r[k], x) = IF \E at \in 1 .. k : x = p[at] THEN Code.blank ELSE At(s, x)
           G == {k \in 0 .. n : Sound(k)}
<1>1. 0 \in G
  BY DEF Moves
<1>2. ASSUME NEW k \in 1 .. n, k - 1 \in G PROVE k \in G
  <2>1. /\ k - 1 \in 0 .. n /\ r[k - 1] \in Machines(V) /\ r[k] = Move(r[k - 1], p[k], q[k])
        /\ p[k] \in Vectors /\ q[k] \in Vectors /\ p[k] # q[k]
    BY <1>2 DEF Moves
  <2>2. \A x : At(r[k], x) = IF x = p[k] THEN Code.blank
                             ELSE IF x = q[k] THEN At(r[k - 1], p[k]) ELSE At(r[k - 1], x)
    BY <2>1, MoveIs
  <2>3. Sound(k - 1)
    BY <1>2
  <2>4. \A at \in 1 .. k - 1 : at \in 1 .. n /\ at < k
    BY <1>2
  <2>5. \A at \in 1 .. k : at \in 1 .. k - 1 \/ at = k
    OBVIOUS
  <2>6. k \in 1 .. k /\ \A at \in 1 .. k - 1 : at \in 1 .. k
    OBVIOUS
  <2>7. At(r[k - 1], p[k]) = At(s, p[k])
    BY <2>3, <2>4
  <2>8. ASSUME NEW at \in 1 .. k PROVE At(r[k], q[at]) = At(s, p[at])
    <3>1. CASE at = k
      BY <2>1, <2>2, <2>7, <3>1
    <3>2. CASE at \in 1 .. k - 1
      <4>1. q[k] # q[at] /\ p[k] # q[at]
        BY <2>4, <3>2
      <4> QED
        BY <2>2, <2>3, <3>2, <4>1
    <3> QED
      BY <2>5, <3>1, <3>2
  <2>9. ASSUME NEW x, \A at \in 1 .. k : x # q[at]
        PROVE  At(r[k], x) = IF \E at \in 1 .. k : x = p[at] THEN Code.blank ELSE At(s, x)
    <3>1. x # q[k] /\ \A at \in 1 .. k - 1 : x # q[at]
      BY <2>6, <2>9
    <3>2. (\E at \in 1 .. k : x = p[at]) <=> (x = p[k] \/ \E at \in 1 .. k - 1 : x = p[at])
      BY <2>5, <2>6
    <3> QED
      BY <2>2, <2>3, <3>1, <3>2
  <2> QED
    BY <1>2, <2>8, <2>9
<1> HIDE DEF G, Sound
<1>3. n \in G
  <2>1. \A at \in 1 .. n : at - 1 \in G => at \in G
    BY <1>2
  <2>2. \A at \in 0 .. n : at \in G
    BY ONLY <1>1, <2>1, UpTo, n \in Nat
  <2> QED
    BY <2>2
<1> QED
  BY <1>3 DEF G, Sound
-----------------------------------------------------------------------------
(* TOYS: what it takes from the stack.                                     *)
LEMMA VectorIsText ==
  ASSUME NEW o \in Vectors
  PROVE  o \in Seq(Int) /\ Len(o) = 2 /\ o[1] \in Int /\ o[2] \in Int /\ o = <<o[1], o[2]>>
<1>1. o[1] \in Int /\ o[2] \in Int /\ o = <<o[1], o[2]>>
  BY DEF Vectors
<1>2. <<o[1], o[2]>> \in Seq(Int) /\ Len(<<o[1], o[2]>>) = 2
  BY <1>1
<1> QED
  BY <1>1, <1>2

(* A vector on top of one or two others.                                   *)
LEMMA VectorOnTop ==
  ASSUME NEW m \in {2, 4}, NEW u \in Seq(Int), Len(u) = m, NEW g \in Vectors
  PROVE  /\ u \o g \in Seq(Int) /\ Len(u \o g) = m + 2
         /\ (u \o g)[1] = u[1] /\ (u \o g)[2] = u[2]
         /\ (u \o g)[m + 1] = g[1] /\ (u \o g)[m + 2] = g[2]
         /\ m = 4 => (u \o g)[3] = u[3] /\ (u \o g)[4] = u[4]
<1> DEFINE w == u \o g
<1>1. g \in Seq(Int) /\ Len(g) = 2
  BY VectorIsText
<1>2. /\ w \in Seq(Int) /\ Len(w) = Len(u) + Len(g)
      /\ \A at \in 1 .. Len(u) + Len(g) : w[at] = IF at <= Len(u) THEN u[at] ELSE g[at - Len(u)]
  BY <1>1, ConcatProperties, Zenon
<1> HIDE DEF w
<1>3. \A at \in 1 .. m + 2 : w[at] = IF at <= m THEN u[at] ELSE g[at - m]
  BY <1>1, <1>2
<1>4. \A at \in 1 .. m : at \in 1 .. m + 2 /\ at <= m
  OBVIOUS
<1>5. /\ m + 1 \in 1 .. m + 2 /\ ~(m + 1 <= m) /\ (m + 1) - m = 1
      /\ m + 2 \in 1 .. m + 2 /\ ~(m + 2 <= m) /\ (m + 2) - m = 2
  OBVIOUS
<1>6. w[m + 1] = g[1] /\ w[m + 2] = g[2]
  BY ONLY <1>3, <1>5
<1>7. \A at \in 1 .. m : w[at] = u[at]
  BY ONLY <1>3, <1>4
<1>8. 1 \in 1 .. m /\ 2 \in 1 .. m /\ (m = 4 => 3 \in 1 .. m /\ 4 \in 1 .. m)
  OBVIOUS
<1>9. w[1] = u[1] /\ w[2] = u[2] /\ (m = 4 => w[3] = u[3] /\ w[4] = u[4])
  BY ONLY <1>7, <1>8
<1>10. Len(w) = m + 2
  BY <1>1, <1>2
<1> QED
  BY <1>2, <1>6, <1>9, <1>10 DEF w

(* Two vectors pushed are four cells.                                      *)
LEMMA VectorsJoined ==
  ASSUME NEW o \in Vectors, NEW d \in Vectors
  PROVE  /\ o \o d \in Seq(Int) /\ Len(o \o d) = 4
         /\ (o \o d)[1] = o[1] /\ (o \o d)[2] = o[2] /\ (o \o d)[3] = d[1] /\ (o \o d)[4] = d[2]
<1>1. o \in Seq(Int) /\ Len(o) = 2 /\ 2 \in {2, 4} /\ 2 + 2 = 4 /\ 2 + 1 = 3
  BY VectorIsText
<1> QED
  BY <1>1, VectorOnTop

Joins3(z, o, d, g) ==
  /\ z \in Seq(Int) /\ Len(z) = 6
  /\ z[1] = o[1] /\ z[2] = o[2] /\ z[3] = d[1] /\ z[4] = d[2] /\ z[5] = g[1] /\ z[6] = g[2]

(* Three vectors pushed are six cells, in this order.                      *)
LEMMA ThreeJoined ==
  ASSUME NEW o \in Vectors, NEW d \in Vectors, NEW g \in Vectors
  PROVE  Joins3(o \o d \o g, o, d, g)
<1> DEFINE u == o \o d
<1>1. /\ u \in Seq(Int) /\ Len(u) = 4
      /\ u[1] = o[1] /\ u[2] = o[2] /\ u[3] = d[1] /\ u[4] = d[2]
  BY VectorsJoined
<1> HIDE DEF u
<1>2. PICK m \in {2, 4} : m = 4
  OBVIOUS
<1>3. /\ u \o g \in Seq(Int) /\ Len(u \o g) = m + 2
      /\ (u \o g)[1] = u[1] /\ (u \o g)[2] = u[2]
      /\ (u \o g)[m + 1] = g[1] /\ (u \o g)[m + 2] = g[2]
      /\ m = 4 => (u \o g)[3] = u[3] /\ (u \o g)[4] = u[4]
  BY <1>1, <1>2, VectorOnTop, Zenon
<1>4. m + 1 = 5 /\ m + 2 = 6
  BY <1>2
<1>5. /\ (u \o g)[5] = g[1] /\ (u \o g)[6] = g[2] /\ Len(u \o g) = 6
      /\ (u \o g)[3] = u[3] /\ (u \o g)[4] = u[4]
  BY <1>2, <1>3, <1>4, Zenon
<1> QED
  BY <1>1, <1>3, <1>5, Zenon DEF u, Joins3

(* The top of a stack, and what is left below.                             *)
LEMMA OnTop ==
  ASSUME NEW V, NEW s \in Seq(V), NEW z \in Seq(V)
  PROVE  /\ Under(s \o z, Len(z)) = s /\ s \o z \in Seq(V)
         /\ \A at \in 1 .. Len(z) : Nth(s \o z, at) = z[Len(z) - at + 1]
<1> DEFINE u == s \o z
<1>1. /\ u \in Seq(V) /\ Len(u) = Len(s) + Len(z)
      /\ \A at \in 1 .. Len(s) : u[at] = s[at]
      /\ \A at \in 1 .. Len(z) : u[Len(s) + at] = z[at]
  OBVIOUS
<1>2. SubSeq(u, 1, Len(s)) = s
  <2> HIDE DEF u
  <2>1. Len(s) \in Nat /\ Len(z) \in Nat
    OBVIOUS
  <2>2. \A at \in 1 .. Len(s) : at \in 1 .. Len(u)
    BY <1>1, <2>1
  <2>3. SubSeq(u, 1, Len(s)) \in Seq(V) /\ Len(SubSeq(u, 1, Len(s))) = Len(s)
    BY <1>1, <2>1, <2>2
  <2>4. \A at \in 1 .. Len(s) : SubSeq(u, 1, Len(s))[at] = s[at]
    BY <1>1, <2>1, <2>2
  <2> QED
    BY <2>3, <2>4
<1> HIDE DEF u
<1>3. Len(u) - Len(z) = Len(s)
  BY <1>1
<1>4. Under(u, Len(z)) = s
  BY <1>2, <1>3 DEF Under
<1>5. ASSUME NEW at \in 1 .. Len(z) PROVE Nth(u, at) = z[Len(z) - at + 1]
  <2>1. Len(s) \in Nat /\ Len(z) \in Nat
    OBVIOUS
  <2>2. 0 < at /\ at <= Len(u) /\ Len(z) - at + 1 \in 1 .. Len(z)
        /\ Len(u) - at + 1 = Len(s) + (Len(z) - at + 1)
    BY <1>1, <2>1
  <2>3. Nth(u, at) = u[Len(u) - at + 1]
    BY <2>2 DEF Nth
  <2> QED
    BY <1>1, <2>2, <2>3
<1> QED
  BY <1>1, <1>4, <1>5 DEF u

(* A cell of the stack, and of the zeros below.                            *)
LEMMA NthIsCell ==
  ASSUME NEW V, Int \subseteq V, NEW s \in Seq(V), NEW n \in Int
  PROVE  Nth(s, n) \in V
<1>1. CASE 0 < n /\ n <= Len(s)
  <2>1. Len(s) - n + 1 \in 1 .. Len(s)
    BY <1>1
  <2>2. s[Len(s) - n + 1] \in V
    BY <2>1, ElementOfSeq
  <2> QED
    BY <1>1, <2>2 DEF Nth
<1>2. CASE ~(0 < n /\ n <= Len(s))
  BY <1>2 DEF Nth
<1> QED
  BY <1>1, <1>2

(* What lies under the topmost n is a stack.                               *)
LEMMA UnderIsStack ==
  ASSUME NEW V, NEW s \in Seq(V), NEW n \in Nat
  PROVE  Under(s, n) \in Seq(V)
<1>1. \A at \in 1 .. Len(s) - n : at \in 1 .. Len(s)
  OBVIOUS
<1>2. \A at \in 1 .. Len(s) - n : s[at] \in V
  BY <1>1, ElementOfSeq
<1>3. SubSeq(s, 1, Len(s) - n) = [at \in 1 .. Len(s) - n |-> s[at]]
  BY <1>1 DEF SubSeq
<1> QED
  BY <1>2 DEF Under

(* Machines with another stack, position or delta.                         *)
LEMMA MachineParts ==
  ASSUME NEW V, NEW s \in Machines(V)
  PROVE  /\ s.cells \in Places(V) /\ s.tl \in Vectors /\ s.br \in Vectors /\ s.pos \in Vectors
         /\ s.delta \in Vectors /\ s.offset \in Vectors /\ s.stack \in Seq(V)
         /\ s = [cells |-> s.cells, tl |-> s.tl, br |-> s.br, pos |-> s.pos, delta |-> s.delta,
                 offset |-> s.offset, stack |-> s.stack]
BY DEF Machines

(* A machine with another stack is a machine.                              *)
LEMMA StackInstead ==
  ASSUME NEW V, NEW s \in Machines(V), NEW z \in Seq(V)
  PROVE  [s EXCEPT !.stack = z] \in Machines(V)
BY DEF Machines

(* A machine with another position or delta is a machine.                  *)
LEMMA VectorInstead ==
  ASSUME NEW V, NEW s \in Machines(V), NEW p \in Vectors
  PROVE  /\ [s EXCEPT !.pos = p] \in Machines(V)
         /\ [s EXCEPT !.delta = p] \in Machines(V)
BY DEF Machines

(* u is s with z on top of its stack.                                      *)
Given(u, s, z) == u = [s EXCEPT !.stack = @ \o z]

(* A machine that is given numbers and has taken them is what it was.      *)
LEMMA GivenAndTaken ==
  ASSUME NEW V, Int \subseteq V, NEW s \in Machines(V), NEW z \in Seq(Int), NEW u,
         Given(u, s, z)
  PROVE  /\ u \in Machines(V) /\ Popped(u, Len(z)) = s
         /\ \A at \in 1 .. Len(z) : Nth(u.stack, at) = z[Len(z) - at + 1]
<1>1. /\ s.stack \in Seq(V)
      /\ s = [cells |-> s.cells, tl |-> s.tl, br |-> s.br, pos |-> s.pos, delta |-> s.delta,
              offset |-> s.offset, stack |-> s.stack]
  BY MachineParts
<1>2. z \in Seq(V)
  OBVIOUS
<1>3. /\ Under(s.stack \o z, Len(z)) = s.stack /\ s.stack \o z \in Seq(V)
      /\ \A at \in 1 .. Len(z) : Nth(s.stack \o z, at) = z[Len(z) - at + 1]
  BY <1>1, <1>2, OnTop
<1>4. u = [s EXCEPT !.stack = s.stack \o z]
  BY <1>1 DEF Given
<1>5. u.stack = s.stack \o z
  BY <1>1, <1>4
<1>6. u \in Machines(V)
  BY ONLY <1>3, <1>4, StackInstead, s \in Machines(V)
<1>7. Popped(u, Len(z)) = [u EXCEPT !.stack = s.stack]
  BY <1>3, <1>5 DEF Popped
<1>8. [u EXCEPT !.stack = s.stack] = s
  BY <1>1, <1>4
<1> QED
  BY <1>3, <1>5, <1>6, <1>7, <1>8
-----------------------------------------------------------------------------
(* TOYS: the cells of an area, and the order they are come to.             *)
LEMMA Division ==
  ASSUME NEW a \in Nat, NEW b \in Nat, b > 0
  PROVE  /\ a % b \in 0 .. b - 1 /\ a \div b \in Nat
         /\ a = b * (a \div b) + (a % b)
OBVIOUS

(* Quotient and remainder are the only ones.                               *)
LEMMA DivisionOf ==
  ASSUME NEW b \in Nat, b > 0, NEW x \in 0 .. b - 1, NEW y \in Nat
  PROVE  (b * y + x) % b = x /\ (b * y + x) \div b = y
<1> DEFINE a == b * y + x
           q == a \div b
           r == a % b
<1>1. a \in Nat
  OBVIOUS
<1>2. r \in 0 .. b - 1 /\ q \in Nat /\ a = b * q + r
  BY <1>1, Division
<1> HIDE DEF q, r
<1>3. b * (q - y) = x - r
  BY <1>2
<1>4. ~(q > y)
  <2>1. q > y => b * (q - y) >= b * 1
    BY <1>2
  <2> QED
    BY <1>2, <1>3, <2>1
<1>5. ~(q < y)
  <2>1. q < y => b * (y - q) >= b * 1 /\ b * (q - y) = -(b * (y - q))
    BY <1>2
  <2> QED
    BY <1>2, <1>3, <2>1
<1>6. q = y
  BY <1>2, <1>4, <1>5
<1>7. r = x
  BY <1>2, <1>3, <1>6
<1> QED
  BY <1>6, <1>7 DEF q, r

(* An order of the cells of an area of size d.                             *)
Whole(c, n, d) ==
  /\ n \in Nat
  /\ \A at \in 1 .. n : c[at] \in Vectors /\ 0 <= c[at][1] /\ c[at][1] < d[1]
                       /\ 0 <= c[at][2] /\ c[at][2] < d[2]
  /\ \A x \in 0 .. d[1] - 1, y \in 0 .. d[2] - 1 : \E at \in 1 .. n : c[at] = <<x, y>>

(* The order from the least corner on: each cell once, the lesser before   *)
(* the greater.                                                            *)
LEMMA LowOrderIs ==
  ASSUME NEW d \in Vectors, d[1] > 0, d[2] > 0, NEW n, n = d[1] * d[2]
  PROVE  /\ Whole(LowOrder(d), n, d) /\ LowOrder(d) \in Seq(Vectors) /\ Len(LowOrder(d)) = n
         /\ \A at \in 1 .. n, j \in 1 .. n :
              j < at => Before(LowOrder(d)[j], LowOrder(d)[at])
<1> DEFINE w == d[1]
           h == d[2]
           c == LowOrder(d)
<1>1. w \in Nat /\ h \in Nat /\ w > 0 /\ h > 0
  BY VectorIsText
<1>2. n \in Nat
  BY <1>1
<1>3. \A at \in 1 .. n : c[at] = <<(at - 1) % w, (at - 1) \div w>>
  BY DEF LowOrder
<1>4. c = [at \in 1 .. n |-> c[at]]
  BY DEF LowOrder
<1> HIDE DEF c, w, h
<1>5. \A at \in 1 .. n : /\ at - 1 \in Nat /\ (at - 1) % w \in 0 .. w - 1 /\ (at - 1) \div w \in Nat
                         /\ at - 1 = w * ((at - 1) \div w) + ((at - 1) % w)
  BY <1>1, <1>2, Division
<1>6. ASSUME NEW at \in 1 .. n PROVE (at - 1) \div w < h
  <2> DEFINE q == (at - 1) \div w
  <2>1. q \in Nat /\ at - 1 < w * h /\ at - 1 >= w * q
    <3>1. at - 1 < n
      BY <1>2
    <3>2. n = w * h
      BY DEF w, h
    <3> QED
      BY <1>1, <1>5, <3>1, <3>2
  <2> HIDE DEF q
  <2>2. q >= h => w * q >= w * h
    BY <1>1, <2>1
  <2>3. w * q < w * h
    BY <1>1, <2>1
  <2> QED
    BY <1>1, <2>1, <2>2, <2>3 DEF q
<1>7. \A at \in 1 .. n : /\ c[at] \in Vectors /\ 0 <= c[at][1] /\ c[at][1] < w
                         /\ 0 <= c[at][2] /\ c[at][2] < h
  BY <1>1, <1>3, <1>5, <1>6 DEF Vectors
<1>8. ASSUME NEW x \in 0 .. w - 1, NEW y \in 0 .. h - 1
      PROVE  \E at \in 1 .. n : c[at] = <<x, y>>
  <2> DEFINE at == w * y + x + 1
  <2>1. w * y \in Nat /\ w * y + w = w * (y + 1) /\ y + 1 <= h
    BY <1>1
  <2>2. w * (y + 1) <= w * h
    BY <1>1, <2>1
  <2>3. at \in 1 .. n /\ at - 1 = w * y + x
    <3>1. w * y + w <= n
      BY <2>1, <2>2 DEF w, h
    <3> QED
      BY <1>1, <1>2, <2>1, <3>1
  <2>4. (at - 1) % w = x /\ (at - 1) \div w = y
    <3>1. (w * y + x) % w = x /\ (w * y + x) \div w = y
      BY <1>1, DivisionOf
    <3> QED
      BY ONLY <2>3, <3>1
  <2> HIDE DEF at
  <2> QED
    BY <1>3, <2>3, <2>4
<1>9. ASSUME NEW at \in 1 .. n, NEW j \in 1 .. n, j < at
      PROVE  Before(c[j], c[at])
  <2> DEFINE p == (at - 1) \div w
             q == (j - 1) \div w
             a == (at - 1) % w
             b == (j - 1) % w
  <2>1. /\ p \in Nat /\ q \in Nat /\ a \in 0 .. w - 1 /\ b \in 0 .. w - 1
        /\ at - 1 = w * p + a /\ j - 1 = w * q + b
    BY <1>5
  <2>2. c[at] = <<a, p>> /\ c[j] = <<b, q>>
    BY <1>3
  <2> HIDE DEF p, q, a, b
  <2>3. w * q + b < w * p + a
    BY <1>2, <1>9, <2>1
  <2>4. CASE p < q
    <3>1. w * (p + 1) <= w * q /\ w * (p + 1) = w * p + w
      BY <1>1, <2>1, <2>4
    <3> QED
      BY <1>1, <2>1, <2>3, <3>1
  <2>5. CASE p = q
    <3>1. b < a
      BY <1>1, <2>1, <2>3, <2>5
    <3> QED
      BY <2>2, <2>5, <3>1 DEF Before
  <2>6. CASE p > q
    BY <2>2, <2>6 DEF Before
  <2> QED
    BY <2>1, <2>4, <2>5, <2>6
<1>10. c \in Seq(Vectors) /\ Len(c) = n
  BY <1>2, <1>4, <1>7
<1> QED
  BY <1>2, <1>7, <1>8, <1>9, <1>10 DEF Whole, c, w, h

(* The other way round.                                                    *)
LEMMA HighOrderIs ==
  ASSUME NEW d \in Vectors, d[1] > 0, d[2] > 0, NEW n, n = d[1] * d[2]
  PROVE  /\ Whole(HighOrder(d), n, d) /\ HighOrder(d) \in Seq(Vectors) /\ Len(HighOrder(d)) = n
         /\ \A at \in 1 .. n : HighOrder(d)[at] = LowOrder(d)[n - at + 1]
         /\ \A at \in 1 .. n, j \in 1 .. n :
              j < at => Before(HighOrder(d)[at], HighOrder(d)[j])
<1> DEFINE c == LowOrder(d)
           r == HighOrder(d)
<1>1. /\ Whole(c, n, d) /\ c \in Seq(Vectors) /\ Len(c) = n /\ n \in Nat
      /\ \A at \in 1 .. n, j \in 1 .. n : j < at => Before(c[j], c[at])
  BY LowOrderIs DEF Whole
<1>2. r = [at \in 1 .. Len(c) |-> c[(Len(c) - at) + 1]]
  BY DEF HighOrder, Reverse
<1> HIDE DEF c, r
<1>3. \A at \in 1 .. n : n - at + 1 \in 1 .. n /\ r[at] = c[n - at + 1]
  BY <1>1, <1>2
<1>4. \A at \in 1 .. n : r[at] \in Vectors
  BY <1>1, <1>3, ElementOfSeq
<1>5. r \in Seq(Vectors) /\ Len(r) = n
  <2>1. r = [at \in 1 .. n |-> r[at]]
    BY <1>1, <1>2
  <2> QED
    BY ONLY <1>1, <1>4, <2>1
<1>6. ASSUME NEW x \in 0 .. d[1] - 1, NEW y \in 0 .. d[2] - 1
      PROVE  \E at \in 1 .. n : r[at] = <<x, y>>
  <2>1. PICK at \in 1 .. n : c[at] = <<x, y>>
    BY <1>1 DEF Whole
  <2>2. PICK j \in 1 .. n : n - j + 1 = at
    <3>1. n - at + 1 \in 1 .. n /\ n - (n - at + 1) + 1 = at
      BY <1>1
    <3> QED
      BY <3>1
  <2>3. r[j] = <<x, y>>
    BY <1>3, <2>1, <2>2
  <2> QED
    BY <2>3
<1>7. Whole(r, n, d)
  BY <1>1, <1>3, <1>6 DEF Whole
<1>8. ASSUME NEW at \in 1 .. n, NEW j \in 1 .. n, j < at
      PROVE  Before(r[at], r[j])
  <2>1. n - at + 1 < n - j + 1
    BY <1>1, <1>8
  <2> QED
    BY <1>1, <1>3, <2>1
<1> QED
  BY <1>3, <1>5, <1>7, <1>8 DEF c, r
-----------------------------------------------------------------------------
(* TOYS: areas that are copied and moved.                                  *)

(* u is s with its cells at c from o copied, or moved, to c from g, one    *)
(* after the other.                                                        *)
Offset(c, o) == [at \in 1 .. Len(c) |-> Plus(c[at], o)]
CopiesTo(u, s, V, c, o, g) ==
  \E r : /\ Copies(r, s, Len(c), Offset(c, o), Offset(c, g)) /\ u = r[Len(c)]
         /\ \A at \in 0 .. Len(c) : r[at] \in Machines(V)
MovesTo(u, s, V, c, o, g) ==
  \E r : /\ Moves(r, s, Len(c), Offset(c, o), Offset(c, g)) /\ u = r[Len(c)]
         /\ \A at \in 0 .. Len(c) : r[at] \in Machines(V)

(* C and K copy the cells in the order given.                              *)
LEMMA CopiedIs ==
  ASSUME NEW V, Int \subseteq V, NEW s, Popped(s, 6) \in Machines(V), NEW c \in Seq(Vectors),
         From(s) \in Vectors, To(s) \in Vectors, ~Empty(SizeOf(s)), ~Negative(SizeOf(s))
  PROVE  CopiesTo(Copied(s, c), Popped(s, 6), V, c, From(s), To(s))
<1> DEFINE M == Machines(V)
           n == Len(c)
           t == Popped(s, 6)
           p == Offset(c, From(s))
           q == Offset(c, To(s))
           F == [z \in M \X (1 .. n) |-> Copy(z[1], p[z[2]], q[z[2]])]
           r == CHOOSE h : h = [at \in 0 .. n |->
                  IF at = 0 THEN t ELSE Copy(h[at - 1], Plus(c[at], From(s)), Plus(c[at], To(s)))]
<1>1. n \in Nat /\ \A at \in 1 .. n : c[at] \in Vectors
  BY ElementOfSeq
<1>2. \A at \in 1 .. n : /\ p[at] = Plus(c[at], From(s)) /\ q[at] = Plus(c[at], To(s))
                         /\ p[at] \in Vectors /\ q[at] \in Vectors
  BY <1>1, LesserIsVector DEF Offset
<1>3. \A x \in M, at \in 1 .. n : F[<<x, at>>] = Copy(x, p[at], q[at]) /\ F[<<x, at>>] \in M
  BY <1>2, CopyIs
<1> HIDE DEF F, p, q
<1>4. PICK h : Rounds(h, t, n, F) /\ \A at \in 0 .. n : h[at] \in M
  BY <1>1, <1>3, LoopRuns
<1>5. \A at \in 1 .. n : at - 1 \in 0 .. n /\ at # 0 /\ at \in 0 .. n
  BY <1>1
<1>6. h = [at \in 0 .. n |->
             IF at = 0 THEN t ELSE Copy(h[at - 1], Plus(c[at], From(s)), Plus(c[at], To(s)))]
  <2>1. \A at \in 0 .. n :
          (IF at = 0 THEN t ELSE F[<<h[at - 1], at>>])
            = IF at = 0 THEN t ELSE Copy(h[at - 1], Plus(c[at], From(s)), Plus(c[at], To(s)))
    BY <1>1, <1>2, <1>3, <1>4
  <2> QED
    BY <1>4, <2>1 DEF Rounds
<1>7. r = [at \in 0 .. n |->
             IF at = 0 THEN t ELSE Copy(r[at - 1], Plus(c[at], From(s)), Plus(c[at], To(s)))]
  BY <1>6
<1>8. Copied(s, c) = r[n]
  BY DEF Copied, Over, Loop
<1> HIDE DEF r
<1>9. r[0] = t /\ \A at \in 1 .. n : r[at] = Copy(r[at - 1], p[at], q[at])
  <2>1. 0 \in 0 .. n
    BY <1>1
  <2> QED
    BY <1>2, <1>5, <1>7, <2>1
<1>10. ASSUME NEW at \in 1 .. n, r[at - 1] \in M PROVE r[at] \in M
  <2>1. r[at] = Copy(r[at - 1], p[at], q[at]) /\ p[at] \in Vectors /\ q[at] \in Vectors
    BY <1>2, <1>9
  <2>2. \A x \in M : Copy(x, p[at], q[at]) \in M
    BY <2>1, CopyIs
  <2> QED
    BY <1>10, <2>1, <2>2
<1>11. \A at \in 0 .. n : r[at] \in M
  BY <1>1, <1>9, <1>10, LoopStays
<1> QED
  BY <1>8, <1>9, <1>11 DEF CopiesTo, Copies, p, q

(* M and V move the cells in the order given.                              *)
LEMMA MovedIs ==
  ASSUME NEW V, Int \subseteq V, NEW s, Popped(s, 6) \in Machines(V), NEW c \in Seq(Vectors),
         From(s) \in Vectors, To(s) \in Vectors, ~Empty(SizeOf(s)), ~Negative(SizeOf(s))
  PROVE  MovesTo(Moved(s, c), Popped(s, 6), V, c, From(s), To(s))
<1> DEFINE M == Machines(V)
           n == Len(c)
           t == Popped(s, 6)
           p == Offset(c, From(s))
           q == Offset(c, To(s))
           F == [z \in M \X (1 .. n) |-> Move(z[1], p[z[2]], q[z[2]])]
           r == CHOOSE h : h = [at \in 0 .. n |->
                  IF at = 0 THEN t ELSE Move(h[at - 1], Plus(c[at], From(s)), Plus(c[at], To(s)))]
<1>1. n \in Nat /\ \A at \in 1 .. n : c[at] \in Vectors
  BY ElementOfSeq
<1>2. \A at \in 1 .. n : /\ p[at] = Plus(c[at], From(s)) /\ q[at] = Plus(c[at], To(s))
                         /\ p[at] \in Vectors /\ q[at] \in Vectors
  BY <1>1, LesserIsVector DEF Offset
<1>3. \A x \in M, at \in 1 .. n : F[<<x, at>>] = Move(x, p[at], q[at]) /\ F[<<x, at>>] \in M
  BY <1>2, MoveIs
<1> HIDE DEF F, p, q
<1>4. PICK h : Rounds(h, t, n, F) /\ \A at \in 0 .. n : h[at] \in M
  BY <1>1, <1>3, LoopRuns
<1>5. \A at \in 1 .. n : at - 1 \in 0 .. n /\ at # 0 /\ at \in 0 .. n
  BY <1>1
<1>6. h = [at \in 0 .. n |->
             IF at = 0 THEN t ELSE Move(h[at - 1], Plus(c[at], From(s)), Plus(c[at], To(s)))]
  <2>1. \A at \in 0 .. n :
          (IF at = 0 THEN t ELSE F[<<h[at - 1], at>>])
            = IF at = 0 THEN t ELSE Move(h[at - 1], Plus(c[at], From(s)), Plus(c[at], To(s)))
    BY <1>1, <1>2, <1>3, <1>4
  <2> QED
    BY <1>4, <2>1 DEF Rounds
<1>7. r = [at \in 0 .. n |->
             IF at = 0 THEN t ELSE Move(r[at - 1], Plus(c[at], From(s)), Plus(c[at], To(s)))]
  BY <1>6
<1>8. Moved(s, c) = r[n]
  BY DEF Moved, Over, Loop
<1> HIDE DEF r
<1>9. r[0] = t /\ \A at \in 1 .. n : r[at] = Move(r[at - 1], p[at], q[at])
  <2>1. 0 \in 0 .. n
    BY <1>1
  <2> QED
    BY <1>2, <1>5, <1>7, <2>1
<1>10. ASSUME NEW at \in 1 .. n, r[at - 1] \in M PROVE r[at] \in M
  <2>1. r[at] = Move(r[at - 1], p[at], q[at]) /\ p[at] \in Vectors /\ q[at] \in Vectors
    BY <1>2, <1>9
  <2>2. \A x \in M : Move(x, p[at], q[at]) \in M
    BY <2>1, MoveIs
  <2> QED
    BY <1>10, <2>1, <2>2
<1>11. \A at \in 0 .. n : r[at] \in M
  BY <1>1, <1>9, <1>10, LoopStays
<1> QED
  BY <1>8, <1>9, <1>11 DEF MovesTo, Moves, p, q

(* What is added can be taken away, and vectors are ordered.               *)
LEMMA AddAndTake ==
  ASSUME NEW p \in Vectors, NEW q \in Vectors, NEW o \in Vectors
  PROVE  /\ Plus(p, o) = Plus(q, o) => p = q
         /\ Minus(Plus(p, o), o) = p /\ Plus(p, q) = Plus(q, p)
         /\ ~Before(p, p) /\ (Before(p, q) => ~Before(q, p))
         /\ p # q => Before(p, q) \/ Before(q, p)
BY DEF Vectors, Plus, Minus, Before

(* The cells of an area are those of the order it is gone through.         *)
LEMMA CellsAre ==
  ASSUME NEW d \in Vectors, NEW n, NEW c, Whole(c, n, d), NEW o \in Vectors, NEW p
  PROVE  p \in Cells(o, d) <=> \E at \in 1 .. n : p = Plus(c[at], o)
<1>1. ASSUME p \in Cells(o, d) PROVE \E at \in 1 .. n : p = Plus(c[at], o)
  <2>1. PICK x \in 0 .. d[1] - 1, y \in 0 .. d[2] - 1 : p = Plus(o, <<x, y>>)
    BY <1>1 DEF Cells
  <2>2. PICK at \in 1 .. n : c[at] = <<x, y>>
    BY DEF Whole
  <2>3. c[at] \in Vectors
    BY DEF Whole
  <2> QED
    BY <2>1, <2>2, <2>3, AddAndTake
<1>2. ASSUME NEW at \in 1 .. n, p = Plus(c[at], o) PROVE p \in Cells(o, d)
  <2>1. /\ c[at] \in Vectors /\ 0 <= c[at][1] /\ c[at][1] < d[1] /\ 0 <= c[at][2] /\ c[at][2] < d[2]
    BY DEF Whole
  <2>2. /\ c[at][1] \in Int /\ c[at][2] \in Int /\ d[1] \in Int /\ d[2] \in Int
        /\ c[at] = <<c[at][1], c[at][2]>>
    BY <2>1, VectorIsText
  <2>3. c[at][1] \in 0 .. d[1] - 1 /\ c[at][2] \in 0 .. d[2] - 1
    BY <2>1, <2>2
  <2>4. p = Plus(o, c[at])
    BY <1>2, <2>1, AddAndTake
  <2> QED
    BY <2>2, <2>3, <2>4 DEF Cells
<1> QED
  BY <1>1, <1>2

(* A cell and the one that comes to it, or leaves it, are not the same     *)
(* where the way of the area is with the order of its cells.               *)
LEMMA Apart ==
  ASSUME NEW a \in Vectors, NEW b \in Vectors, NEW o \in Vectors, NEW g \in Vectors,
         Before(a, b), Plus(b, o) = Plus(a, g)
  PROVE  Before(o, g)
BY DEF Vectors, Plus, Before

(* Cells of areas that are disjoint never meet.                            *)
LEMMA Meeting ==
  ASSUME NEW d \in Vectors, NEW n, NEW c, Whole(c, n, d), NEW o \in Vectors, NEW g \in Vectors,
         Disjoint(o, g, d), NEW at \in 1 .. n, NEW j \in 1 .. n
  PROVE  Plus(c[at], o) # Plus(c[j], g)
<1>1. Plus(c[at], o) \in Cells(o, d) /\ Plus(c[j], g) \in Cells(g, d)
  BY CellsAre
<1> QED
  BY <1>1 DEF Disjoint

(* No cell that is still to be read has been written on, none is written   *)
(* twice.                                                                  *)
Safe(c, n, o, g) ==
  \A at \in 1 .. n, j \in 1 .. n : j < at => c[at] # c[j] /\ Plus(c[at], o) # Plus(c[j], g)

(* From the least corner on, no cell is overwritten before it is read,     *)
(* unless the areas overlap and the target lies ahead.                     *)
LEMMA LowIsSafe ==
  ASSUME NEW d \in Vectors, d[1] > 0, d[2] > 0, NEW o \in Vectors, NEW g \in Vectors,
         Disjoint(o, g, d) \/ ~Before(o, g), NEW n, n = d[1] * d[2]
  PROVE  Safe(LowOrder(d), n, o, g)
<1> DEFINE c == LowOrder(d)
<1>1. /\ Whole(c, n, d) /\ \A at \in 1 .. n : c[at] \in Vectors
      /\ \A at \in 1 .. n, j \in 1 .. n : j < at => Before(c[j], c[at])
  BY LowOrderIs DEF Whole
<1> HIDE DEF c
<1>2. ASSUME NEW at \in 1 .. n, NEW j \in 1 .. n, j < at
      PROVE  c[at] # c[j] /\ Plus(c[at], o) # Plus(c[j], g)
  <2>1. Before(c[j], c[at]) /\ c[at] \in Vectors /\ c[j] \in Vectors
    BY <1>1, <1>2
  <2>2. c[at] # c[j]
    BY <2>1, AddAndTake
  <2>3. CASE Disjoint(o, g, d)
    BY <1>1, <2>2, <2>3, Meeting
  <2>4. CASE ~Before(o, g)
    BY <2>1, <2>2, <2>4, Apart
  <2> QED
    BY <2>3, <2>4
<1> QED
  BY <1>2 DEF Safe, c

(* From the greatest corner back, no cell is overwritten before it is      *)
(* read, unless the areas overlap and the target lies behind.              *)
LEMMA HighIsSafe ==
  ASSUME NEW d \in Vectors, d[1] > 0, d[2] > 0, NEW o \in Vectors, NEW g \in Vectors,
         Disjoint(o, g, d) \/ ~Before(g, o), NEW n, n = d[1] * d[2]
  PROVE  Safe(HighOrder(d), n, o, g)
<1> DEFINE c == HighOrder(d)
<1>1. /\ Whole(c, n, d) /\ \A at \in 1 .. n : c[at] \in Vectors
      /\ \A at \in 1 .. n, j \in 1 .. n : j < at => Before(c[at], c[j])
  BY HighOrderIs DEF Whole
<1> HIDE DEF c
<1>2. ASSUME NEW at \in 1 .. n, NEW j \in 1 .. n, j < at
      PROVE  c[at] # c[j] /\ Plus(c[at], o) # Plus(c[j], g)
  <2>1. Before(c[at], c[j]) /\ c[at] \in Vectors /\ c[j] \in Vectors
    BY <1>1, <1>2
  <2>2. c[at] # c[j]
    BY <2>1, AddAndTake
  <2>3. CASE Disjoint(o, g, d)
    BY <1>1, <2>2, <2>3, Meeting
  <2>4. CASE ~Before(g, o)
    BY <2>1, <2>2, <2>4, Apart
  <2> QED
    BY <2>3, <2>4
<1> QED
  BY <1>2 DEF Safe, c

(* Nothing is in common but where the area has cells.                      *)
LEMMA DisjointMoves ==
  ASSUME NEW d \in Vectors, d[1] > 0, d[2] > 0, NEW o \in Vectors, NEW g \in Vectors,
         Disjoint(o, g, d)
  PROVE  o # g
<1>1. d[1] \in Int /\ d[2] \in Int
  BY VectorIsText
<1>2. 0 \in 0 .. d[1] - 1 /\ 0 \in 0 .. d[2] - 1
  BY <1>1
<1>3. Plus(o, <<0, 0>>) \in Cells(o, d)
  BY <1>2 DEF Cells
<1> QED
  BY <1>3 DEF Disjoint

(* Copied in a safe order, the area arrives and nothing else changes.      *)
LEMMA CopiesToArrives ==
  ASSUME NEW V, Int \subseteq V, NEW d \in Vectors, NEW o \in Vectors, NEW g \in Vectors,
         NEW c, NEW n, n = Len(c), Whole(c, n, d), Safe(c, n, o, g), NEW u,
         CopiesTo(u, toys, V, c, o, g)
  PROVE  Arrives(u, o, g, d, {})
<1> DEFINE p == Offset(c, o)
           q == Offset(c, g)
<1>1. n \in Nat /\ \A at \in 1 .. n : c[at] \in Vectors
  BY DEF Whole
<1>2. \A at \in 1 .. n : /\ p[at] = Plus(c[at], o) /\ q[at] = Plus(c[at], g)
                         /\ p[at] \in Vectors /\ q[at] \in Vectors
  BY <1>1, LesserIsVector DEF Offset
<1>3. \A at \in 1 .. n, j \in 1 .. n : j < at => p[at] # q[j] /\ q[at] # q[j]
  BY <1>1, <1>2, AddAndTake DEF Safe
<1> HIDE DEF p, q
<1>4. PICK r : Copies(r, toys, n, p, q) /\ u = r[n] /\ \A at \in 0 .. n : r[at] \in Machines(V)
  BY DEF CopiesTo, p, q
<1>5. /\ \A at \in 1 .. n : At(u, q[at]) = At(toys, p[at])
      /\ \A x : (\A at \in 1 .. n : x # q[at]) => At(u, x) = At(toys, x)
  BY <1>1, <1>2, <1>3, <1>4, CopiesArrive
<1>6. ASSUME NEW x \in Cells(g, d) PROVE At(u, x) = At(toys, Plus(o, Minus(x, g)))
  <2>1. PICK at \in 1 .. n : x = Plus(c[at], g)
    BY CellsAre
  <2>2. Plus(o, Minus(x, g)) = Plus(c[at], o)
    BY <1>1, <2>1, AddAndTake
  <2> QED
    BY <1>2, <1>5, <2>1, <2>2
<1>7. ASSUME NEW x, x \notin Cells(g, d) PROVE At(u, x) = At(toys, x)
  <2>1. \A at \in 1 .. n : x # Plus(c[at], g)
    BY <1>7, CellsAre
  <2> QED
    BY <1>2, <1>5, <2>1
<1> QED
  BY <1>6, <1>7 DEF Arrives

(* Moved in a safe order, the area arrives, blanks are left behind, and    *)
(* nothing else changes.                                                   *)
LEMMA MovesToArrives ==
  ASSUME NEW V, Int \subseteq V, NEW d \in Vectors, NEW o \in Vectors, NEW g \in Vectors,
         o # g, NEW c, NEW n, n = Len(c), Whole(c, n, d), Safe(c, n, o, g), NEW u,
         MovesTo(u, toys, V, c, o, g)
  PROVE  Arrives(u, o, g, d, Cells(o, d))
<1> DEFINE p == Offset(c, o)
           q == Offset(c, g)
<1>1. n \in Nat /\ \A at \in 1 .. n : c[at] \in Vectors
  BY DEF Whole
<1>2. \A at \in 1 .. n : /\ p[at] = Plus(c[at], o) /\ q[at] = Plus(c[at], g)
                         /\ p[at] \in Vectors /\ q[at] \in Vectors
  BY <1>1, LesserIsVector DEF Offset
<1>3. /\ \A at \in 1 .. n, j \in 1 .. n : j < at => p[at] # q[j] /\ q[at] # q[j] /\ p[at] # p[j]
      /\ \A at \in 1 .. n : p[at] # q[at]
  <2>1. \A at \in 1 .. n, j \in 1 .. n : j < at => p[at] # q[j] /\ q[at] # q[j] /\ p[at] # p[j]
    BY <1>1, <1>2, AddAndTake DEF Safe
  <2>2. ASSUME NEW at \in 1 .. n PROVE p[at] # q[at]
    BY <1>1, <1>2, AddAndTake
  <2> QED
    BY <2>1, <2>2
<1> HIDE DEF p, q
<1>4. PICK r : Moves(r, toys, n, p, q) /\ u = r[n] /\ \A at \in 0 .. n : r[at] \in Machines(V)
  BY DEF MovesTo, p, q
<1>5. /\ \A at \in 1 .. n : At(u, q[at]) = At(toys, p[at])
      /\ \A x : (\A at \in 1 .. n : x # q[at])
                  => At(u, x) = IF \E at \in 1 .. n : x = p[at] THEN Code.blank ELSE At(toys, x)
  BY <1>1, <1>2, <1>3, <1>4, MovesArrive
<1>6. ASSUME NEW x \in Cells(g, d) PROVE At(u, x) = At(toys, Plus(o, Minus(x, g)))
  <2>1. PICK at \in 1 .. n : x = Plus(c[at], g)
    BY CellsAre
  <2>2. Plus(o, Minus(x, g)) = Plus(c[at], o)
    BY <1>1, <2>1, AddAndTake
  <2> QED
    BY <1>2, <1>5, <2>1, <2>2
<1>7. ASSUME NEW x, x \notin Cells(g, d)
      PROVE  At(u, x) = IF x \in Cells(o, d) THEN Code.blank ELSE At(toys, x)
  <2>1. \A at \in 1 .. n : x # Plus(c[at], g)
    BY <1>7, CellsAre
  <2>2. x \in Cells(o, d) <=> \E at \in 1 .. n : x = p[at]
    BY <1>2, CellsAre
  <2> QED
    BY <1>2, <1>5, <2>1, <2>2
<1> QED
  BY <1>6, <1>7 DEF Arrives
(* What is taken for an area is what was given.                            *)
LEMMA AreaTaken ==
  ASSUME NEW V, Int \subseteq V, toys \in Machines(V),
         NEW o \in Vectors, NEW d \in Vectors, NEW g \in Vectors
  PROVE  /\ With(o \o d \o g) \in Machines(V) /\ Popped(With(o \o d \o g), 6) = toys
         /\ From(With(o \o d \o g)) = o /\ SizeOf(With(o \o d \o g)) = d
         /\ To(With(o \o d \o g)) = g
<1> DEFINE z == o \o d \o g
           u == With(z)
<1>1. /\ z \in Seq(Int) /\ Len(z) = 6
      /\ z[1] = o[1] /\ z[2] = o[2] /\ z[3] = d[1] /\ z[4] = d[2] /\ z[5] = g[1] /\ z[6] = g[2]
  BY ThreeJoined DEF Joins3
<1> HIDE DEF z
<1>2. Given(u, toys, z)
  BY DEF With, Given
<1> HIDE DEF u
<1>3. /\ u \in Machines(V) /\ Popped(u, Len(z)) = toys
      /\ \A at \in 1 .. Len(z) : Nth(u.stack, at) = z[Len(z) - at + 1]
  BY <1>1, <1>2, GivenAndTaken
<1>4. \A at \in 1 .. 6 : Nth(u.stack, at) = z[7 - at]
  <2>1. \A at \in 1 .. 6 : 6 - at + 1 = 7 - at
    OBVIOUS
  <2> QED
    BY <1>1, <1>3, <2>1
<1>5. /\ Nth(u.stack, 6) = z[1] /\ Nth(u.stack, 5) = z[2] /\ Nth(u.stack, 4) = z[3]
      /\ Nth(u.stack, 3) = z[4] /\ Nth(u.stack, 2) = z[5] /\ Nth(u.stack, 1) = z[6]
  BY <1>4
<1>6. From(u) = o /\ SizeOf(u) = d /\ To(u) = g
  <2>1. o = <<o[1], o[2]>> /\ d = <<d[1], d[2]>> /\ g = <<g[1], g[2]>>
    BY VectorIsText
  <2> QED
    BY <1>1, <1>5, <2>1 DEF From, SizeOf, To, VectorAt
<1> QED
  BY <1>1, <1>3, <1>6 DEF u, z

(* C, K, M and V deliver the area they are given.                          *)
LEMMA AreasCopied ==
  ASSUME NEW V, Int \subseteq V, toys \in Machines(V), NEW o \in Vectors, NEW g \in Vectors,
         NEW d \in Vectors, ~Empty(d), ~Negative(d)
  PROVE  LET s == With(o \o d \o g)
             none == Disjoint(o, g, d)
         IN  /\ none \/ ~Before(o, g) => Arrives(finger_TOYS_bracelet(s), o, g, d, {})
             /\ none \/ ~Before(g, o) => Arrives(finger_TOYS_scissors(s), o, g, d, {})
             /\ none \/ Before(g, o)  => Arrives(finger_TOYS_kittycat(s), o, g, d, Cells(o, d))
             /\ none \/ Before(o, g)  => Arrives(finger_TOYS_dixiecup(s), o, g, d, Cells(o, d))
<1> DEFINE s == With(o \o d \o g)
           none == Disjoint(o, g, d)
           low == LowOrder(d)
           high == HighOrder(d)
           n == d[1] * d[2]
<1>1. /\ Popped(s, 6) = toys /\ From(s) = o /\ SizeOf(s) = d /\ To(s) = g
  BY AreaTaken
<1>2. d[1] > 0 /\ d[2] > 0
  BY VectorIsText DEF Empty, Negative
<1>3. /\ Whole(low, n, d) /\ low \in Seq(Vectors) /\ Len(low) = n
      /\ Whole(high, n, d) /\ high \in Seq(Vectors) /\ Len(high) = n
  BY <1>2, LowOrderIs, HighOrderIs
<1>4. /\ finger_TOYS_bracelet(s) = Copied(s, low) /\ finger_TOYS_scissors(s) = Copied(s, high)
      /\ finger_TOYS_kittycat(s) = Moved(s, low) /\ finger_TOYS_dixiecup(s) = Moved(s, high)
  BY <1>1 DEF finger_TOYS_bracelet, finger_TOYS_scissors, finger_TOYS_kittycat,
              finger_TOYS_dixiecup, Order
<1>5. /\ none \/ ~Before(o, g) => Safe(low, n, o, g)
      /\ none \/ ~Before(g, o) => Safe(high, n, o, g)
  BY <1>2, LowIsSafe, HighIsSafe
<1>6. none \/ Before(g, o) \/ Before(o, g) => o # g
  BY <1>2, DisjointMoves, AddAndTake
<1> HIDE DEF s, low, high, n, none
<1>7. ASSUME NEW c \in Seq(Vectors)
      PROVE  CopiesTo(Copied(s, c), toys, V, c, o, g) /\ MovesTo(Moved(s, c), toys, V, c, o, g)
  BY <1>1, <1>7, CopiedIs, MovedIs
<1>8. none \/ ~Before(o, g) => Arrives(finger_TOYS_bracelet(s), o, g, d, {})
  BY <1>3, <1>4, <1>5, <1>7, CopiesToArrives
<1>9. none \/ ~Before(g, o) => Arrives(finger_TOYS_scissors(s), o, g, d, {})
  BY <1>3, <1>4, <1>5, <1>7, CopiesToArrives
<1>10. none \/ Before(g, o) => Arrives(finger_TOYS_kittycat(s), o, g, d, Cells(o, d))
  <2>1. Before(g, o) => ~Before(o, g)
    BY AddAndTake
  <2> QED
    BY <1>3, <1>4, <1>5, <1>6, <1>7, <2>1, MovesToArrives
<1>11. none \/ Before(o, g) => Arrives(finger_TOYS_dixiecup(s), o, g, d, Cells(o, d))
  <2>1. Before(o, g) => ~Before(g, o)
    BY AddAndTake
  <2> QED
    BY <1>3, <1>4, <1>5, <1>6, <1>7, <2>1, MovesToArrives
<1> QED
  BY <1>8, <1>9, <1>10, <1>11 DEF s, none
-----------------------------------------------------------------------------
(* TOYS: G and F, which carry an area over the stack.                      *)
LEMMA UnderMore ==
  ASSUME NEW V, NEW s \in Seq(V), NEW k \in Nat, k < Len(s)
  PROVE  Top(Under(s, k)) = Nth(s, k + 1) /\ Under(Under(s, k), 1) = Under(s, k + 1)
<1> DEFINE n == Len(s)
           u == Under(s, k)
<1>1. n \in Nat /\ \A at \in 1 .. n - k : at \in 1 .. n
  OBVIOUS
<1>2. u = [at \in 1 .. n - k |-> s[at]] /\ n - k \in Nat
  <2>1. SubSeq(s, 1, n - k) = [at \in 1 .. n - k |-> s[at]]
    BY <1>1 DEF SubSeq
  <2> QED
    BY <1>1, <2>1 DEF Under
<1> HIDE DEF u
<1>3. \A at \in 1 .. n - k : s[at] \in V
  BY <1>1, ElementOfSeq
<1>4. u \in Seq(V) /\ Len(u) = n - k
  BY <1>2, <1>3
<1>5. Top(u) = Nth(s, k + 1)
  <2>1. 0 < 1 /\ 1 <= Len(u) /\ Len(u) - 1 + 1 = n - k /\ n - k \in 1 .. n - k
    BY <1>1, <1>4
  <2>2. Top(u) = s[n - k]
    BY <1>2, <2>1 DEF Top, Nth
  <2>3. 0 < k + 1 /\ k + 1 <= n /\ n - (k + 1) + 1 = n - k
    BY <1>1
  <2> QED
    BY <2>2, <2>3 DEF Nth
<1>6. Under(u, 1) = Under(s, k + 1)
  <2>1. Len(u) - 1 = n - (k + 1)
    BY <1>1, <1>4
  <2>2. SubSeq(u, 1, Len(u) - 1) = [at \in 1 .. n - (k + 1) |-> u[at]]
    BY <1>4, <2>1 DEF SubSeq
  <2>3. SubSeq(s, 1, n - (k + 1)) = [at \in 1 .. n - (k + 1) |-> s[at]]
    BY <1>1 DEF SubSeq
  <2>4. \A at \in 1 .. n - (k + 1) : u[at] = s[at]
    BY <1>1, <1>2
  <2> QED
    BY <2>2, <2>3, <2>4 DEF Under
<1> QED
  BY <1>5, <1>6 DEF u

(* Nothing lies on top of the whole stack.                                 *)
LEMMA UnderNone ==
  ASSUME NEW V, NEW s \in Seq(V)
  PROVE  Under(s, 0) = s
<1>1. Len(s) - 0 = Len(s)
  OBVIOUS
<1>2. SubSeq(s, 1, Len(s)) = s
  OBVIOUS
<1> QED
  BY <1>1, <1>2 DEF Under

(* A cell more on a stack.                                                 *)
FirstOf(v, k) == [at \in 1 .. k |-> v[at]]

(* A cell pushed after k - 1 makes k.                                      *)
LEMMA OneMore ==
  ASSUME NEW V, NEW s \in Seq(V), NEW v, NEW k \in Nat, k > 0, \A at \in 1 .. k : v[at] \in V
  PROVE  Append(s \o FirstOf(v, k - 1), v[k]) = s \o FirstOf(v, k)
<1> DEFINE y == [at \in 1 .. k - 1 |-> v[at]]
           z == [at \in 1 .. k |-> v[at]]
<1>1. y \in Seq(V) /\ Len(y) = k - 1 /\ z \in Seq(V) /\ Len(z) = k /\ v[k] \in V
  OBVIOUS
<1>2. Append(y, v[k]) = z
  OBVIOUS
<1> HIDE DEF y, z
<1>3. Append(s \o y, v[k]) = s \o Append(y, v[k])
  BY <1>1
<1> QED
  BY <1>2, <1>3 DEF y, z, FirstOf

(* r pushes the cells at p, one after the other.                           *)
Reads(r, s, n, p)  ==
  r[0] = s /\ \A at \in 1 .. n : r[at] = Pushed(r[at - 1], At(r[at - 1], p[at]))

Seen(s, p, k) == [at \in 1 .. k |-> At(s, p[at])]

(* After k steps of a loop that pushes, k cells are on the stack.          *)
LEMMA ReadsPush ==
  ASSUME NEW V, Int \subseteq V, NEW n \in Nat, NEW r, NEW s \in Machines(V), NEW p,
         Reads(r, s, n, p)
  PROVE  \A k \in 0 .. n : Given(r[k], s, Seen(s, p, k))
<1> DEFINE v == [at \in 1 .. n |-> At(s, p[at])]
           Pile(k) == s.stack \o FirstOf(v, k)
           G == {k \in 0 .. n : r[k] = [s EXCEPT !.stack = Pile(k)]}
<1>1. \A at \in 1 .. n : v[at] \in V /\ v[at] = At(s, p[at])
  BY AtIsCell
<1>2. /\ s.stack \in Seq(V)
      /\ s = [cells |-> s.cells, tl |-> s.tl, br |-> s.br, pos |-> s.pos, delta |-> s.delta,
              offset |-> s.offset, stack |-> s.stack]
  BY MachineParts
<1> HIDE DEF v
<1>3. 0 \in G
  <2>1. FirstOf(v, 0) = <<>>
    BY DEF FirstOf
  <2>2. Pile(0) = s.stack
    BY <1>2, <2>1
  <2> HIDE DEF Pile
  <2>3. [s EXCEPT !.stack = Pile(0)] = s
    BY <1>2, <2>2
  <2> QED
    BY <2>3 DEF Reads
<1>4. ASSUME NEW k \in 1 .. n, k - 1 \in G PROVE k \in G
  <2>1. k \in Nat /\ k > 0 /\ \A at \in 1 .. k : v[at] \in V
    BY <1>1
  <2>2. Append(Pile(k - 1), v[k]) = Pile(k)
    BY ONLY <1>2, <2>1, OneMore
  <2> HIDE DEF Pile
  <2>3. r[k - 1] = [s EXCEPT !.stack = Pile(k - 1)] /\ r[k] = Pushed(r[k - 1], At(r[k - 1], p[k]))
    BY <1>4 DEF Reads
  <2>4. r[k - 1].stack = Pile(k - 1) /\ At(r[k - 1], p[k]) = v[k]
    BY <1>1, <1>2, <2>3 DEF At
  <2>5. r[k] = [r[k - 1] EXCEPT !.stack = Pile(k)]
    BY <2>2, <2>3, <2>4 DEF Pushed
  <2>6. r[k] = [s EXCEPT !.stack = Pile(k)]
    BY <1>2, <2>3, <2>5
  <2> QED
    BY <2>6
<1>5. \A k \in 1 .. n : k - 1 \in G => k \in G
  BY <1>4
<1>6. ASSUME NEW k \in 0 .. n PROVE FirstOf(v, k) = Seen(s, p, k)
  BY <1>1 DEF FirstOf, Seen
<1> HIDE DEF G
<1>7. \A k \in 0 .. n : k \in G
  BY ONLY <1>3, <1>5, UpTo, n \in Nat
<1>8. ASSUME NEW k \in 0 .. n PROVE Given(r[k], s, Seen(s, p, k))
  BY <1>2, <1>6, <1>7 DEF G, Given
<1> QED
  BY <1>8

(* r writes what is popped to the cells at q, one after the other.         *)
Writes(r, s, n, q) ==
  r[0] = s /\ \A at \in 1 .. n : r[at] = fungespace_set(Popped(r[at - 1], 1), q[at], Top(r[at - 1].stack))

(* A loop that pops and writes leaves what it popped in the cells it wrote *)
(* to.                                                                     *)
LEMMA WritesPop ==
  ASSUME NEW V, Int \subseteq V, NEW n \in Nat, NEW r, NEW s \in Machines(V), NEW q,
         n <= Len(s.stack), \A at \in 1 .. n : q[at] \in Vectors,
         \A at \in 1 .. n, j \in 1 .. n : j < at => q[at] # q[j],
         Writes(r, s, n, q)
  PROVE  /\ r[n].stack = Under(s.stack, n)
         /\ \A at \in 1 .. n : At(r[n], q[at]) = Nth(s.stack, at)
         /\ \A x : (\A at \in 1 .. n : x # q[at]) => At(r[n], x) = At(s, x)
<1> DEFINE Sound(k) == /\ r[k] \in Machines(V) /\ r[k].stack = Under(s.stack, k)
                       /\ \A at \in 1 .. k : At(r[k], q[at]) = Nth(s.stack, at)
                       /\ \A x : (\A at \in 1 .. k : x # q[at]) => At(r[k], x) = At(s, x)
           G == {k \in 0 .. n : Sound(k)}
<1>1. s.stack \in Seq(V) /\ Len(s.stack) \in Nat
  BY MachineParts
<1>2. 0 \in G
  <2>1. Under(s.stack, 0) = s.stack
    BY <1>1, UnderNone
  <2> QED
    BY <2>1 DEF Writes
<1>3. ASSUME NEW k \in 1 .. n, k - 1 \in G PROVE k \in G
  <2>1. /\ k - 1 \in Nat /\ k - 1 < Len(s.stack) /\ (k - 1) + 1 = k /\ q[k] \in Vectors
        /\ r[k] = fungespace_set(Popped(r[k - 1], 1), q[k], Top(r[k - 1].stack))
    BY <1>1 DEF Writes
  <2>2. Sound(k - 1)
    BY <1>3
  <2>3. /\ Top(r[k - 1].stack) = Nth(s.stack, k)
        /\ Under(r[k - 1].stack, 1) = Under(s.stack, k)
    BY <1>1, <2>1, <2>2, UnderMore
  <2>4. Nth(s.stack, k) \in V /\ Under(s.stack, k) \in Seq(V)
    <3>1. k \in Int /\ k \in Nat
      OBVIOUS
    <3> QED
      BY <1>1, <3>1, NthIsCell, UnderIsStack
  <2> DEFINE t == Popped(r[k - 1], 1)
  <2>5. t \in Machines(V) /\ t.stack = Under(s.stack, k) /\ t.cells = r[k - 1].cells
    <3>1. t = [r[k - 1] EXCEPT !.stack = Under(s.stack, k)]
      BY <2>2, <2>3, MachineParts DEF Popped
    <3> QED
      BY <2>2, <2>4, <3>1, StackInstead, MachineParts
  <2>6. \A x : At(t, x) = At(r[k - 1], x)
    BY <2>5 DEF At
  <2> HIDE DEF t
  <2>7. r[k] = fungespace_set(t, q[k], Nth(s.stack, k))
    BY <2>1, <2>3 DEF t
  <2>8. /\ r[k] \in Machines(V) /\ r[k].stack = Under(s.stack, k)
        /\ \A x : At(r[k], x) = IF x = q[k] THEN Nth(s.stack, k) ELSE At(r[k - 1], x)
    <3> DEFINE c == Nth(s.stack, k)
               w == fungespace_set(t, q[k], c)
    <3>1. c \in V /\ t \in Machines(V) /\ q[k] \in Vectors
      BY <2>1, <2>4, <2>5
    <3> HIDE DEF c
    <3>2. /\ w \in Machines(V) /\ w.stack = t.stack
          /\ \A x : At(w, x) = IF x = q[k] THEN c ELSE At(t, x)
      BY ONLY <3>1, SetIs
    <3> QED
      BY ONLY <2>5, <2>6, <2>7, <3>2 DEF c
  <2>9. \A at \in 1 .. k - 1 : at \in 1 .. n /\ at < k
    BY <1>3
  <2>10. (\A at \in 1 .. k : at \in 1 .. k - 1 \/ at = k) /\ k \in 1 .. k
         /\ \A at \in 1 .. k - 1 : at \in 1 .. k
    OBVIOUS
  <2>11. ASSUME NEW at \in 1 .. k PROVE At(r[k], q[at]) = Nth(s.stack, at)
    <3>1. CASE at = k
      BY <2>8, <3>1
    <3>2. CASE at \in 1 .. k - 1
      <4>1. q[k] # q[at]
        BY <2>9, <3>2
      <4> QED
        BY <2>2, <2>8, <3>2, <4>1
    <3> QED
      BY <2>10, <3>1, <3>2
  <2>12. ASSUME NEW x, \A at \in 1 .. k : x # q[at] PROVE At(r[k], x) = At(s, x)
    <3>1. x # q[k] /\ \A at \in 1 .. k - 1 : x # q[at]
      BY <2>10, <2>12
    <3> QED
      BY <2>2, <2>8, <3>1
  <2> QED
    BY <1>3, <2>8, <2>11, <2>12
<1> HIDE DEF G, Sound
<1>4. n \in G
  <2>1. \A at \in 1 .. n : at - 1 \in G => at \in G
    BY <1>3
  <2>2. \A at \in 0 .. n : at \in G
    BY ONLY <1>2, <2>1, UpTo, n \in Nat
  <2> QED
    BY <2>2
<1> QED
  BY <1>4 DEF G, Sound

(* What is popped is an integer or a cell, and a machine is left.          *)
LEMMA PoppedIs ==
  ASSUME NEW V, Int \subseteq V, NEW s \in Machines(V), NEW n \in Nat
  PROVE  Popped(s, n) \in Machines(V) /\ Top(s.stack) \in V /\ Nth(s.stack, n) \in V
<1>1. s.stack \in Seq(V) /\ n \in Int /\ 1 \in Int
  BY MachineParts
<1>2. Under(s.stack, n) \in Seq(V)
  BY <1>1, UnderIsStack
<1>3. Popped(s, n) = [s EXCEPT !.stack = Under(s.stack, n)]
  BY MachineParts DEF Popped
<1>4. Top(s.stack) \in V /\ Nth(s.stack, n) \in V
  BY <1>1, NthIsCell DEF Top
<1> QED
  BY <1>2, <1>3, <1>4, StackInstead

(* Pushing onto a machine makes a machine.                                 *)
LEMMA PushedIs ==
  ASSUME NEW V, NEW s \in Machines(V), NEW c \in V
  PROVE  Pushed(s, c) \in Machines(V)
<1>1. Append(s.stack, c) \in Seq(V)
  BY MachineParts
<1>2. Pushed(s, c) = [s EXCEPT !.stack = Append(s.stack, c)]
  BY MachineParts DEF Pushed
<1> QED
  BY <1>1, <1>2, StackInstead

ReadsTo(u, s, V, c, o) ==
  \E r : /\ Reads(r, s, Len(c), Offset(c, o)) /\ u = r[Len(c)]
         /\ \A at \in 0 .. Len(c) : r[at] \in Machines(V)
WritesTo(u, s, V, c, g) ==
  \E r : /\ Writes(r, s, Len(c), Offset(c, g)) /\ u = r[Len(c)]
         /\ \A at \in 0 .. Len(c) : r[at] \in Machines(V)

(* G pushes the cells of its matrix, the last one first.                   *)
LEMMA CounterclockwiseReads ==
  ASSUME NEW V, Int \subseteq V, NEW s, Popped(s, 4) \in Machines(V), NEW c \in Seq(Vectors),
         c = Reverse(Matrix(s)), To(s) \in Vectors
  PROVE  ReadsTo(finger_TOYS_counterclockwise(s), Popped(s, 4), V, c, To(s))
<1> DEFINE M == Machines(V)
           n == Len(c)
           t == Popped(s, 4)
           p == Offset(c, To(s))
           F == [z \in M \X (1 .. n) |-> Pushed(z[1], At(z[1], p[z[2]]))]
           r == CHOOSE h : h = [at \in 0 .. n |->
                  IF at = 0 THEN t ELSE Pushed(h[at - 1], At(h[at - 1], Plus(c[at], To(s))))]
<1>1. n \in Nat /\ \A at \in 1 .. n : c[at] \in Vectors
  BY ElementOfSeq
<1>2. \A at \in 1 .. n : p[at] = Plus(c[at], To(s)) /\ p[at] \in Vectors
  BY <1>1, LesserIsVector DEF Offset
<1>3. \A x \in M, at \in 1 .. n : Pushed(x, At(x, p[at])) \in M
  BY AtIsCell, PushedIs
<1>4. \A x \in M, at \in 1 .. n : F[<<x, at>>] = Pushed(x, At(x, p[at])) /\ F[<<x, at>>] \in M
  BY <1>3
<1> HIDE DEF F, p
<1>5. PICK h : Rounds(h, t, n, F) /\ \A at \in 0 .. n : h[at] \in M
  BY <1>1, <1>4, LoopRuns
<1>6. \A at \in 1 .. n : at - 1 \in 0 .. n /\ at # 0 /\ at \in 0 .. n
  BY <1>1
<1>7. h = [at \in 0 .. n |->
             IF at = 0 THEN t ELSE Pushed(h[at - 1], At(h[at - 1], Plus(c[at], To(s))))]
  <2>1. \A at \in 0 .. n :
          (IF at = 0 THEN t ELSE F[<<h[at - 1], at>>])
            = IF at = 0 THEN t ELSE Pushed(h[at - 1], At(h[at - 1], Plus(c[at], To(s))))
    BY <1>1, <1>2, <1>4, <1>5
  <2> QED
    BY <1>5, <2>1 DEF Rounds
<1>8. r = [at \in 0 .. n |->
             IF at = 0 THEN t ELSE Pushed(r[at - 1], At(r[at - 1], Plus(c[at], To(s))))]
  BY <1>7
<1>9. finger_TOYS_counterclockwise(s) = r[n]
  BY DEF finger_TOYS_counterclockwise, Loop
<1> HIDE DEF r
<1>10. r[0] = t /\ \A at \in 1 .. n : r[at] = Pushed(r[at - 1], At(r[at - 1], p[at]))
  <2>1. 0 \in 0 .. n
    BY <1>1
  <2> QED
    BY <1>2, <1>6, <1>8, <2>1
<1>11. \A at \in 1 .. n : r[at - 1] \in M => r[at] \in M
  BY <1>3, <1>10
<1>12. \A at \in 0 .. n : r[at] \in M
  BY <1>1, <1>10, <1>11, LoopStays
<1> QED
  BY <1>9, <1>10, <1>12 DEF ReadsTo, Reads, p

(* F writes what it pops to the cells of its matrix.                       *)
LEMMA CalipersWrites ==
  ASSUME NEW V, Int \subseteq V, NEW s, Popped(s, 4) \in Machines(V), NEW c \in Seq(Vectors),
         c = Matrix(s), To(s) \in Vectors
  PROVE  WritesTo(finger_TOYS_calipers(s), Popped(s, 4), V, c, To(s))
<1> DEFINE M == Machines(V)
           n == Len(c)
           t == Popped(s, 4)
           p == Offset(c, To(s))
           F == [z \in M \X (1 .. n) |->
                  fungespace_set(Popped(z[1], 1), p[z[2]], Top(z[1].stack))]
           r == CHOOSE h : h = [at \in 0 .. n |->
                  IF at = 0 THEN t ELSE fungespace_set(Popped(h[at - 1], 1), Plus(c[at], To(s)),
                                                      Top(h[at - 1].stack))]
<1>1. n \in Nat /\ \A at \in 1 .. n : c[at] \in Vectors
  BY ElementOfSeq
<1>2. \A at \in 1 .. n : p[at] = Plus(c[at], To(s)) /\ p[at] \in Vectors
  BY <1>1, LesserIsVector DEF Offset
<1> HIDE DEF p
<1>3. ASSUME NEW x \in M, NEW at \in 1 .. n
      PROVE  fungespace_set(Popped(x, 1), p[at], Top(x.stack)) \in M
  <2>1. Popped(x, 1) \in M /\ Top(x.stack) \in V
    BY PoppedIs
  <2> QED
    BY <1>2, <2>1, SetIs
<1>4. \A x \in M, at \in 1 .. n :
        /\ F[<<x, at>>] = fungespace_set(Popped(x, 1), p[at], Top(x.stack))
        /\ F[<<x, at>>] \in M
  BY <1>3
<1> HIDE DEF F
<1>5. PICK h : Rounds(h, t, n, F) /\ \A at \in 0 .. n : h[at] \in M
  BY <1>1, <1>4, LoopRuns
<1>6. \A at \in 1 .. n : at - 1 \in 0 .. n /\ at # 0 /\ at \in 0 .. n
  BY <1>1
<1>7. h = [at \in 0 .. n |->
             IF at = 0 THEN t ELSE fungespace_set(Popped(h[at - 1], 1), Plus(c[at], To(s)),
                                                 Top(h[at - 1].stack))]
  <2>1. \A at \in 0 .. n :
          (IF at = 0 THEN t ELSE F[<<h[at - 1], at>>])
            = IF at = 0 THEN t ELSE fungespace_set(Popped(h[at - 1], 1), Plus(c[at], To(s)),
                                                  Top(h[at - 1].stack))
    BY <1>1, <1>2, <1>4, <1>5
  <2> QED
    BY <1>5, <2>1 DEF Rounds
<1>8. r = [at \in 0 .. n |->
             IF at = 0 THEN t ELSE fungespace_set(Popped(r[at - 1], 1), Plus(c[at], To(s)),
                                                 Top(r[at - 1].stack))]
  BY <1>7
<1>9. finger_TOYS_calipers(s) = r[n]
  BY DEF finger_TOYS_calipers, Loop
<1> HIDE DEF r
<1>10. r[0] = t /\ \A at \in 1 .. n :
         r[at] = fungespace_set(Popped(r[at - 1], 1), p[at], Top(r[at - 1].stack))
  <2>1. 0 \in 0 .. n
    BY <1>1
  <2> QED
    BY <1>2, <1>6, <1>8, <2>1
<1>11. \A at \in 1 .. n : r[at - 1] \in M => r[at] \in M
  BY <1>3, <1>10
<1>12. \A at \in 0 .. n : r[at] \in M
  BY <1>1, <1>10, <1>11, LoopStays
<1> QED
  BY <1>9, <1>10, <1>12 DEF WritesTo, Writes, p

(* Reversed, the last is the first.                                        *)
LEMMA ReverseIs ==
  ASSUME NEW S, NEW c \in Seq(S), NEW n, n = Len(c)
  PROVE  /\ Reverse(c) \in Seq(S) /\ Len(Reverse(c)) = n
         /\ \A at \in 1 .. n : n - at + 1 \in 1 .. n /\ Reverse(c)[at] = c[n - at + 1]
<1> DEFINE r == Reverse(c)
<1>1. n \in Nat /\ r = [at \in 1 .. n |-> c[(n - at) + 1]]
  BY DEF Reverse
<1> HIDE DEF r
<1>2. \A at \in 1 .. n : n - at + 1 \in 1 .. n /\ r[at] = c[n - at + 1]
  BY <1>1
<1>3. \A at \in 1 .. n : r[at] \in S
  BY <1>2, ElementOfSeq
<1>4. r \in Seq(S) /\ Len(r) = n
  <2>1. r = [at \in 1 .. n |-> r[at]]
    BY <1>1
  <2> QED
    BY ONLY <1>1, <1>3, <2>1
<1> QED
  BY <1>2, <1>4 DEF r

(* The order in which the matrix is gone through.                          *)
LEMMA MatrixIs ==
  ASSUME NEW s, NEW at \in Int, NEW j \in Int, at = Nth(s.stack, 4), j = Nth(s.stack, 3)
  PROVE  /\ Matrix(s) \in Seq(Vectors) /\ Reverse(Matrix(s)) \in Seq(Vectors)
         /\ at > 0 /\ j > 0 => Matrix(s) = LowOrder(<<at, j>>)
<1>1. CASE at > 0 /\ j > 0
  <2>1. <<at, j>> \in Vectors /\ <<at, j>>[1] = at /\ <<at, j>>[2] = j
    BY DEF Vectors
  <2>2. LowOrder(<<at, j>>) \in Seq(Vectors)
    BY <1>1, <2>1, LowOrderIs
  <2>3. Matrix(s) = LowOrder(<<at, j>>)
    BY <1>1 DEF Matrix
  <2> QED
    BY <2>2, <2>3, ReverseIs
<1>2. CASE ~(at > 0 /\ j > 0)
  <2>1. Matrix(s) = <<>>
    BY <1>2 DEF Matrix
  <2>2. <<>> \in Seq(Vectors)
    OBVIOUS
  <2> QED
    BY <1>2, <2>1, <2>2, ReverseIs
<1> QED
  BY <1>1, <1>2
(* The numbers of G and F: a size and a corner.                            *)
LEMMA CornerTaken ==
  ASSUME NEW V, Int \subseteq V, NEW s \in Machines(V), NEW d \in Vectors, NEW o \in Vectors,
         NEW u, Given(u, s, d \o o)
  PROVE  /\ u \in Machines(V) /\ Popped(u, 4) = s /\ To(u) = o
         /\ Nth(u.stack, 4) = d[1] /\ Nth(u.stack, 3) = d[2]
<1> DEFINE z == d \o o
<1>1. /\ z \in Seq(Int) /\ Len(z) = 4
      /\ z[1] = d[1] /\ z[2] = d[2] /\ z[3] = o[1] /\ z[4] = o[2]
  BY VectorsJoined
<1> HIDE DEF z
<1>2. /\ u \in Machines(V) /\ Popped(u, Len(z)) = s
      /\ \A at \in 1 .. Len(z) : Nth(u.stack, at) = z[Len(z) - at + 1]
  <2>1. Given(u, s, z)
    BY DEF z
  <2> QED
    BY <1>1, <2>1, GivenAndTaken
<1>3. \A at \in 1 .. 4 : Nth(u.stack, at) = z[5 - at]
  <2>1. \A at \in 1 .. 4 : 4 - at + 1 = 5 - at
    OBVIOUS
  <2> QED
    BY <1>1, <1>2, <2>1
<1>4. /\ Nth(u.stack, 4) = z[1] /\ Nth(u.stack, 3) = z[2]
      /\ Nth(u.stack, 2) = z[3] /\ Nth(u.stack, 1) = z[4]
  BY <1>3
<1>5. To(u) = o
  <2>1. o = <<o[1], o[2]>>
    BY VectorIsText
  <2> QED
    BY <1>1, <1>4, <2>1 DEF To, VectorAt
<1> QED
  BY <1>1, <1>2, <1>4, <1>5

(* G and F carry an area anywhere, and leave the stack as it was.          *)
LEMMA AreaCarried ==
  ASSUME NEW V, Int \subseteq V, toys \in Machines(V), NEW o \in Vectors, NEW g \in Vectors,
         NEW d \in Vectors, ~Empty(d), ~Negative(d)
  PROVE  LET carried == finger_TOYS_calipers([finger_TOYS_counterclockwise(With(d \o o))
                                                EXCEPT !.stack = @ \o d \o g])
         IN  Arrives(carried, o, g, d, {}) /\ carried.stack = toys.stack
<1> DEFINE n == d[1] * d[2]
           low == LowOrder(d)
           high == Reverse(low)
           a == With(d \o o)
           w == finger_TOYS_counterclockwise(a)
           b == [w EXCEPT !.stack = @ \o d \o g]
           u == finger_TOYS_calipers(b)
           p == Offset(high, o)
           q == Offset(low, g)
           z == Seen(toys, p, n)
<1>1. d[1] > 0 /\ d[2] > 0 /\ <<d[1], d[2]>> = d /\ d[1] \in Int /\ d[2] \in Int
  BY VectorIsText DEF Empty, Negative
<1>2. /\ Whole(low, n, d) /\ low \in Seq(Vectors) /\ Len(low) = n /\ n \in Nat
      /\ \A at \in 1 .. n, j \in 1 .. n : j < at => Before(low[j], low[at])
  <2>1. /\ Whole(low, n, d) /\ low \in Seq(Vectors) /\ Len(low) = n
        /\ \A at \in 1 .. n, j \in 1 .. n : j < at => Before(low[j], low[at])
    BY <1>1, LowOrderIs
  <2> QED
    BY <2>1 DEF Whole
<1>3. /\ a \in Machines(V) /\ Popped(a, 4) = toys /\ To(a) = o
      /\ Nth(a.stack, 4) = d[1] /\ Nth(a.stack, 3) = d[2]
  <2>1. Given(a, toys, d \o o)
    BY DEF With, Given
  <2> HIDE DEF a
  <2> QED
    BY <2>1, CornerTaken
<1> HIDE DEF low, a, n
<1>4. Matrix(a) = low
  BY <1>1, <1>3, MatrixIs DEF low
<1>5. /\ high \in Seq(Vectors) /\ Len(high) = n
      /\ \A at \in 1 .. n : n - at + 1 \in 1 .. n /\ high[at] = low[n - at + 1]
  BY <1>2, ReverseIs
<1>6. high = Reverse(Matrix(a))
  BY <1>4
<1> HIDE DEF high, p, z
<1>7. PICK r : /\ Reads(r, toys, n, p) /\ w = r[n]
               /\ \A at \in 0 .. n : r[at] \in Machines(V)
  <2>1. ReadsTo(w, toys, V, high, o)
    BY <1>3, <1>5, <1>6, CounterclockwiseReads
  <2> QED
    BY <1>5, <2>1 DEF ReadsTo, p
<1>8. Given(w, toys, z) /\ w \in Machines(V)
  <2>1. n \in 0 .. n
    BY <1>2
  <2>2. Given(w, toys, Seen(toys, p, n))
    BY <1>2, <1>7, <2>1, ReadsPush
  <2> QED
    BY <1>7, <2>1, <2>2 DEF z
<1> HIDE DEF w
<1>9. Given(b, w, d \o g)
  <2>1. w.stack \in Seq(V)
    BY <1>8, MachineParts
  <2>2. d \in Seq(V) /\ g \in Seq(V)
    BY VectorIsText
  <2>3. (w.stack \o d) \o g = w.stack \o (d \o g)
    <3> DEFINE a1 == w.stack
    <3>1. a1 \in Seq(V) /\ d \in Seq(V) /\ g \in Seq(V)
      BY <2>1, <2>2
    <3> HIDE DEF a1
    <3>2. (a1 \o d) \o g = a1 \o (d \o g)
      BY ONLY <3>1, ConcatAssociative
    <3> QED
      BY <3>2 DEF a1
  <2> QED
    BY <2>3 DEF Given
<1> HIDE DEF b
<1>10. /\ b \in Machines(V) /\ Popped(b, 4) = w /\ To(b) = g
       /\ Nth(b.stack, 4) = d[1] /\ Nth(b.stack, 3) = d[2]
  BY <1>8, <1>9, CornerTaken
<1>11. Matrix(b) = low
  BY <1>1, <1>10, MatrixIs DEF low
<1> HIDE DEF q
<1>12. PICK h : Writes(h, w, n, q) /\ u = h[n]
  <2>1. WritesTo(u, w, V, low, g)
    BY <1>2, <1>8, <1>10, <1>11, CalipersWrites
  <2> QED
    BY <1>2, <2>1 DEF WritesTo, q
<1> HIDE DEF u
<1>13. \A at \in 1 .. n : /\ low[at] \in Vectors /\ p[n - at + 1] = Plus(low[at], o)
                          /\ q[at] = Plus(low[at], g) /\ q[at] \in Vectors
  <2>1. \A at \in 1 .. n : low[at] \in Vectors /\ q[at] = Plus(low[at], g)
    BY <1>2 DEF Whole, q, Offset
  <2>2. ASSUME NEW at \in 1 .. n PROVE p[n - at + 1] = Plus(low[at], o)
    <3>1. n - at + 1 \in 1 .. n /\ n - (n - at + 1) + 1 = at
      BY <1>2
    <3>2. p[n - at + 1] = Plus(high[n - at + 1], o)
      BY <1>5, <3>1 DEF p, Offset
    <3> QED
      BY <1>5, <3>1, <3>2
  <2> QED
    BY <2>1, <2>2, LesserIsVector
<1>14. \A at \in 1 .. n, j \in 1 .. n : j < at => q[at] # q[j]
  <2>1. ASSUME NEW at \in 1 .. n, NEW j \in 1 .. n, j < at PROVE q[at] # q[j]
    <3>1. Before(low[j], low[at])
      BY <1>2, <2>1
    <3> QED
      BY <1>13, <3>1, AddAndTake
  <2> QED
    BY <2>1
<1>15. /\ z \in Seq(V) /\ Len(z) = n /\ toys.stack \in Seq(V)
       /\ \A at \in 1 .. n : z[at] = At(toys, p[at])
  <2>1. \A at \in 1 .. n : At(toys, p[at]) \in V
    BY AtIsCell
  <2> QED
    BY <1>2, <2>1, MachineParts DEF z, Seen
<1>16. /\ w.stack = toys.stack \o z /\ w.cells = toys.cells
       /\ Under(w.stack, n) = toys.stack /\ n <= Len(w.stack)
       /\ \A at \in 1 .. n : Nth(w.stack, at) = z[n - at + 1]
  <2>1. w.stack = toys.stack \o z /\ w.cells = toys.cells
    BY <1>8, MachineParts DEF Given
  <2>2. n <= Len(toys.stack \o z)
    BY <1>2, <1>15
  <2> QED
    BY <1>15, <2>1, <2>2, OnTop
<1>17. /\ u.stack = toys.stack
       /\ \A at \in 1 .. n : At(u, q[at]) = Nth(w.stack, at)
       /\ \A x : (\A at \in 1 .. n : x # q[at]) => At(u, x) = At(w, x)
  <2>1. \A at \in 1 .. n : q[at] \in Vectors
    BY <1>13
  <2>2. n <= Len(w.stack) /\ n \in Nat /\ w \in Machines(V) /\ Writes(h, w, n, q)
    BY <1>2, <1>8, <1>12, <1>16
  <2>3. /\ h[n].stack = Under(w.stack, n)
        /\ \A at \in 1 .. n : At(h[n], q[at]) = Nth(w.stack, at)
        /\ \A x : (\A at \in 1 .. n : x # q[at]) => At(h[n], x) = At(w, x)
    BY ONLY <1>14, <2>1, <2>2, WritesPop, Int \subseteq V
  <2> QED
    BY <1>12, <1>16, <2>3
<1>18. \A x : At(w, x) = At(toys, x)
  BY <1>16 DEF At
<1>19. ASSUME NEW x \in Cells(g, d) PROVE At(u, x) = At(toys, Plus(o, Minus(x, g)))
  <2>1. PICK at \in 1 .. n : x = Plus(low[at], g)
    BY <1>2, CellsAre
  <2>2. Plus(o, Minus(x, g)) = Plus(low[at], o)
    BY <1>13, <2>1, AddAndTake
  <2>3. n - at + 1 \in 1 .. n
    BY <1>2
  <2>4. At(u, x) = z[n - at + 1]
    BY <1>13, <1>16, <1>17, <2>1
  <2> QED
    BY <1>13, <1>15, <2>2, <2>3, <2>4
<1>20. ASSUME NEW x, x \notin Cells(g, d) PROVE At(u, x) = At(toys, x)
  <2>1. \A at \in 1 .. n : x # Plus(low[at], g)
    BY <1>2, <1>20, CellsAre
  <2> QED
    BY <1>13, <1>17, <1>18, <2>1
<1>21. Arrives(u, o, g, d, {})
  BY <1>19, <1>20 DEF Arrives
<1> QED
  BY <1>17, <1>21 DEF u, b, w, a
-----------------------------------------------------------------------------
(* TOYS: J and O, which shift a column or a row.                           *)
LEMMA UpwardsIs ==
  ASSUME NEW lo \in Int, NEW hi \in Int
  PROVE  \E n \in Nat :
           /\ Upwards(lo, hi) \in Seq(Int) /\ Len(Upwards(lo, hi)) = n
           /\ \A at \in 1 .. n : /\ Upwards(lo, hi)[at] = lo + at - 1
                                 /\ Upwards(lo, hi)[at] \in lo .. hi
           /\ \A x \in lo .. hi : x - lo + 1 \in 1 .. n
<1> DEFINE u == Upwards(lo, hi)
           n == IF hi < lo THEN 0 ELSE hi - lo + 1
<1>1. n \in Nat /\ 1 .. n = 1 .. hi - lo + 1
  OBVIOUS
<1>2. u = [at \in 1 .. n |-> lo + at - 1]
  BY <1>1 DEF Upwards
<1>3. /\ \A x \in lo .. hi : x - lo + 1 \in 1 .. n
      /\ \A at \in 1 .. n : lo + at - 1 \in lo .. hi
  OBVIOUS
<1> HIDE DEF u, n
<1>4. u \in Seq(Int) /\ Len(u) = n /\ \A at \in 1 .. n : u[at] = lo + at - 1
  BY <1>1, <1>2
<1>5. \A at \in 1 .. n : u[at] \in lo .. hi
  BY <1>3, <1>4
<1> QED
  BY <1>1, <1>3, <1>4, <1>5 DEF u

(* The far end goes first: what is still to be copied has not been         *)
(* written on. The line is copied from its one end to its other, and no    *)
(* further.                                                                *)
Ends(c, n, lo, hi) ==
  /\ c \in Seq(Int)
  /\ \A at \in 1 .. Len(c), j \in 1 .. Len(c) : j < at => c[at] # c[j] /\ c[at] # c[j] + n
  /\ \A x \in lo .. hi : \E at \in 1 .. Len(c) : c[at] = x
  /\ \A at \in 1 .. Len(c) : c[at] \in lo .. hi

(* The order of a shift: each line once, the one that the shift leads to   *)
(* first.                                                                  *)
LEMMA FarFirstIs ==
  ASSUME NEW lo \in Int, NEW hi \in Int, NEW n \in Int, n # 0
  PROVE  Ends(FarFirst(lo, hi, n), n, lo, hi)
<1> DEFINE u == Upwards(lo, hi)
           c == FarFirst(lo, hi, n)
<1>1. PICK k \in Nat : /\ u \in Seq(Int) /\ Len(u) = k
                       /\ \A at \in 1 .. k : u[at] = lo + at - 1 /\ u[at] \in lo .. hi
                       /\ \A x \in lo .. hi : x - lo + 1 \in 1 .. k
  BY UpwardsIs
<1>2. c = IF n < 0 THEN u ELSE Reverse(u)
  BY DEF FarFirst
<1> HIDE DEF u, c
<1>3. ASSUME n < 0 PROVE Ends(c, n, lo, hi)
  <2>1. \A at \in 1 .. k, j \in 1 .. k : j < at => u[at] # u[j] /\ u[at] # u[j] + n
    BY <1>1, <1>3
  <2>2. ASSUME NEW x \in lo .. hi PROVE \E at \in 1 .. k : u[at] = x
    <3>1. PICK at \in 1 .. k : at = x - lo + 1
      BY <1>1
    <3>2. lo + at - 1 = x
      BY <3>1
    <3> QED
      BY <1>1, <3>2
  <2>3. c = u
    BY <1>2, <1>3
  <2> QED
    BY <1>1, <2>1, <2>2, <2>3 DEF Ends
<1>4. ASSUME n > 0 PROVE Ends(c, n, lo, hi)
  <2>1. /\ c \in Seq(Int) /\ Len(c) = k
        /\ \A at \in 1 .. k : k - at + 1 \in 1 .. k /\ c[at] = u[k - at + 1]
    <3>1. c = Reverse(u)
      BY <1>2, <1>4
    <3>2. /\ Reverse(u) \in Seq(Int) /\ Len(Reverse(u)) = Len(u)
          /\ \A at \in 1 .. Len(u) :
               Len(u) - at + 1 \in 1 .. Len(u) /\ Reverse(u)[at] = u[Len(u) - at + 1]
      BY <1>1, ReverseIs
    <3> QED
      BY <1>1, <3>1, <3>2
  <2>2. \A at \in 1 .. k : c[at] = lo + k - at
    <3>1. ASSUME NEW at \in 1 .. k PROVE c[at] = lo + k - at
      <4>1. c[at] = lo + (k - at + 1) - 1
        BY <1>1, <2>1
      <4> QED
        BY <1>1, <4>1
    <3> QED
      BY <3>1
  <2>3. \A at \in 1 .. k, j \in 1 .. k : j < at => c[at] # c[j] /\ c[at] # c[j] + n
    BY <1>1, <1>4, <2>2
  <2>4. ASSUME NEW x \in lo .. hi PROVE \E at \in 1 .. k : c[at] = x
    <3>1. PICK at \in 1 .. k : at = x - lo + 1
      BY <1>1
    <3>2. PICK j \in 1 .. k : j = k - at + 1
      BY <1>1
    <3>3. lo + k - j = x
      BY <1>1, <3>1, <3>2
    <3> QED
      BY <2>2, <3>3
  <2>5. \A at \in 1 .. k : c[at] \in lo .. hi
    BY <1>1, <2>1
  <2> QED
    BY <2>1, <2>3, <2>4, <2>5 DEF Ends
<1>5. Ends(c, n, lo, hi)
  BY <1>3, <1>4
<1> QED
  BY <1>5 DEF c

(* A machine is given one number.                                          *)
LEMMA OneTaken ==
  ASSUME NEW V, Int \subseteq V, NEW s \in Machines(V), NEW n \in Int, NEW u,
         Given(u, s, <<n>>)
  PROVE  u \in Machines(V) /\ Popped(u, 1) = s /\ Top(u.stack) = n
<1> DEFINE z == <<n>>
<1>1. z \in Seq(Int) /\ Len(z) = 1 /\ z[1] = n
  OBVIOUS
<1> HIDE DEF z
<1>2. /\ u \in Machines(V) /\ Popped(u, Len(z)) = s
      /\ \A at \in 1 .. Len(z) : Nth(u.stack, at) = z[Len(z) - at + 1]
  <2>1. Given(u, s, z)
    BY DEF z
  <2> QED
    BY <1>1, <2>1, GivenAndTaken
<1>3. 1 \in 1 .. 1 /\ 1 - 1 + 1 = 1
  OBVIOUS
<1>4. Nth(u.stack, 1) = n
  BY <1>1, <1>2, <1>3
<1> QED
  BY <1>1, <1>2, <1>4 DEF Top

(* The cells of the row and the column, and where they come to.            *)
Row(c, y)    == [at \in 1 .. Len(c) |-> <<c[at], y>>]
Column(c, x) == [at \in 1 .. Len(c) |-> <<x, c[at]>>]
On(c, n)     == [at \in 1 .. Len(c) |-> c[at] + n]

CopiesAlong(u, s, V, k, p, q) ==
  \E r : /\ Copies(r, s, k, p, q) /\ u = r[k] /\ \A at \in 0 .. k : r[at] \in Machines(V)

(* O copies the row, the farthest cell first.                              *)
LEMMA BoulderCopies ==
  ASSUME NEW V, Int \subseteq V, NEW s, NEW t \in Machines(V), t = Popped(s, 1),
         NEW n \in Int, n = Top(s.stack), n # 0,
         NEW c \in Seq(Int), c = FarFirst(t.tl[1], t.br[1], n)
  PROVE  CopiesAlong(finger_TOYS_boulder(s), t, V, Len(c), Row(c, t.pos[2]),
                     Row(On(c, n), t.pos[2]))
<1> DEFINE M == Machines(V)
           k == Len(c)
           y == t.pos[2]
           p == Row(c, y)
           q == Row(On(c, n), y)
           F == [z \in M \X (1 .. k) |-> Copy(z[1], p[z[2]], q[z[2]])]
           r == CHOOSE h : h = [at \in 0 .. k |->
                  IF at = 0 THEN t ELSE Copy(h[at - 1], <<c[at], y>>, <<c[at] + n, y>>)]
<1>1. k \in Nat /\ y \in Int /\ \A at \in 1 .. k : c[at] \in Int
  <2>1. t.pos \in Vectors
    BY MachineParts
  <2> QED
    BY <2>1, ElementOfSeq, VectorIsText
<1>2. \A at \in 1 .. k : /\ p[at] = <<c[at], y>> /\ q[at] = <<c[at] + n, y>>
                         /\ p[at] \in Vectors /\ q[at] \in Vectors
  <2>1. Len(On(c, n)) = k /\ \A at \in 1 .. k : On(c, n)[at] = c[at] + n
    BY <1>1 DEF On
  <2> QED
    BY <1>1, <2>1 DEF Row, Vectors
<1> HIDE DEF p, q
<1>3. \A x \in M, at \in 1 .. k : Copy(x, p[at], q[at]) \in M
  BY <1>2, CopyIs
<1>4. \A x \in M, at \in 1 .. k : F[<<x, at>>] = Copy(x, p[at], q[at]) /\ F[<<x, at>>] \in M
  BY <1>3
<1> HIDE DEF F
<1>5. PICK h : Rounds(h, t, k, F) /\ \A at \in 0 .. k : h[at] \in M
  BY <1>1, <1>4, LoopRuns
<1>6. \A at \in 1 .. k : at - 1 \in 0 .. k /\ at # 0 /\ at \in 0 .. k
  BY <1>1
<1>7. h = [at \in 0 .. k |-> IF at = 0 THEN t ELSE Copy(h[at - 1], <<c[at], y>>, <<c[at] + n, y>>)]
  <2>1. \A at \in 0 .. k :
          (IF at = 0 THEN t ELSE F[<<h[at - 1], at>>])
            = IF at = 0 THEN t ELSE Copy(h[at - 1], <<c[at], y>>, <<c[at] + n, y>>)
    <3>1. ASSUME NEW at \in 1 .. k
          PROVE  F[<<h[at - 1], at>>] = Copy(h[at - 1], <<c[at], y>>, <<c[at] + n, y>>)
      <4>1. h[at - 1] \in M /\ p[at] = <<c[at], y>> /\ q[at] = <<c[at] + n, y>>
        BY <1>2, <1>5, <1>6
      <4>2. F[<<h[at - 1], at>>] = Copy(h[at - 1], p[at], q[at])
        BY <1>4, <4>1
      <4> QED
        BY <4>1, <4>2
    <3>2. \A at \in 0 .. k : at # 0 => at \in 1 .. k
      BY <1>1
    <3> QED
      BY <3>1, <3>2, Zenon
  <2>2. Rounds(h, t, k, F)
    BY <1>5
  <2> QED
    BY ONLY <2>1, <2>2, Zenon DEF Rounds
<1>8. r = [at \in 0 .. k |-> IF at = 0 THEN t ELSE Copy(r[at - 1], <<c[at], y>>, <<c[at] + n, y>>)]
  BY <1>7
<1>9. finger_TOYS_boulder(s) = r[k]
  BY DEF finger_TOYS_boulder, Loop
<1> HIDE DEF r
<1>10. r[0] = t /\ \A at \in 1 .. k : r[at] = Copy(r[at - 1], p[at], q[at])
  <2>1. 0 \in 0 .. k
    BY <1>1
  <2>2. r[0] = t
    BY <1>8, <2>1
  <2>3. ASSUME NEW at \in 1 .. k PROVE r[at] = Copy(r[at - 1], p[at], q[at])
    <3>1. at \in 0 .. k /\ at # 0
      BY <1>6
    <3>2. r[at] = Copy(r[at - 1], <<c[at], y>>, <<c[at] + n, y>>)
      BY <1>8, <3>1
    <3>3. p[at] = <<c[at], y>> /\ q[at] = <<c[at] + n, y>>
      BY <1>2
    <3> QED
      BY <3>2, <3>3
  <2> QED
    BY <2>2, <2>3
<1>11. \A at \in 1 .. k : r[at - 1] \in M => r[at] \in M
  BY <1>3, <1>10
<1>12. \A at \in 0 .. k : r[at] \in M
  BY <1>1, <1>10, <1>11, LoopStays
<1> QED
  BY <1>9, <1>10, <1>12 DEF CopiesAlong, Copies, p, q

(* J copies the column, the farthest cell first.                           *)
LEMMA FishhookCopies ==
  ASSUME NEW V, Int \subseteq V, NEW s, NEW t \in Machines(V), t = Popped(s, 1),
         NEW n \in Int, n = Top(s.stack), n # 0,
         NEW c \in Seq(Int), c = FarFirst(t.tl[2], t.br[2], n)
  PROVE  CopiesAlong(finger_TOYS_fishhook(s), t, V, Len(c), Column(c, t.pos[1]),
                     Column(On(c, n), t.pos[1]))
<1> DEFINE M == Machines(V)
           k == Len(c)
           y == t.pos[1]
           p == Column(c, y)
           q == Column(On(c, n), y)
           F == [z \in M \X (1 .. k) |-> Copy(z[1], p[z[2]], q[z[2]])]
           r == CHOOSE h : h = [at \in 0 .. k |->
                  IF at = 0 THEN t ELSE Copy(h[at - 1], <<y, c[at]>>, <<y, c[at] + n>>)]
<1>1. k \in Nat /\ y \in Int /\ \A at \in 1 .. k : c[at] \in Int
  <2>1. t.pos \in Vectors
    BY MachineParts
  <2> QED
    BY <2>1, ElementOfSeq, VectorIsText
<1>2. \A at \in 1 .. k : /\ p[at] = <<y, c[at]>> /\ q[at] = <<y, c[at] + n>>
                         /\ p[at] \in Vectors /\ q[at] \in Vectors
  <2>1. Len(On(c, n)) = k /\ \A at \in 1 .. k : On(c, n)[at] = c[at] + n
    BY <1>1 DEF On
  <2> QED
    BY <1>1, <2>1 DEF Column, Vectors
<1> HIDE DEF p, q
<1>3. \A x \in M, at \in 1 .. k : Copy(x, p[at], q[at]) \in M
  BY <1>2, CopyIs
<1>4. \A x \in M, at \in 1 .. k : F[<<x, at>>] = Copy(x, p[at], q[at]) /\ F[<<x, at>>] \in M
  BY <1>3
<1> HIDE DEF F
<1>5. PICK h : Rounds(h, t, k, F) /\ \A at \in 0 .. k : h[at] \in M
  BY <1>1, <1>4, LoopRuns
<1>6. \A at \in 1 .. k : at - 1 \in 0 .. k /\ at # 0 /\ at \in 0 .. k
  BY <1>1
<1>7. h = [at \in 0 .. k |-> IF at = 0 THEN t ELSE Copy(h[at - 1], <<y, c[at]>>, <<y, c[at] + n>>)]
  <2>1. \A at \in 0 .. k :
          (IF at = 0 THEN t ELSE F[<<h[at - 1], at>>])
            = IF at = 0 THEN t ELSE Copy(h[at - 1], <<y, c[at]>>, <<y, c[at] + n>>)
    <3>1. ASSUME NEW at \in 1 .. k
          PROVE  F[<<h[at - 1], at>>] = Copy(h[at - 1], <<y, c[at]>>, <<y, c[at] + n>>)
      <4>1. h[at - 1] \in M /\ p[at] = <<y, c[at]>> /\ q[at] = <<y, c[at] + n>>
        BY <1>2, <1>5, <1>6
      <4>2. F[<<h[at - 1], at>>] = Copy(h[at - 1], p[at], q[at])
        BY <1>4, <4>1
      <4> QED
        BY <4>1, <4>2
    <3>2. \A at \in 0 .. k : at # 0 => at \in 1 .. k
      BY <1>1
    <3> QED
      BY <3>1, <3>2, Zenon
  <2>2. Rounds(h, t, k, F)
    BY <1>5
  <2> QED
    BY ONLY <2>1, <2>2, Zenon DEF Rounds
<1>8. r = [at \in 0 .. k |-> IF at = 0 THEN t ELSE Copy(r[at - 1], <<y, c[at]>>, <<y, c[at] + n>>)]
  BY <1>7
<1>9. finger_TOYS_fishhook(s) = r[k]
  BY DEF finger_TOYS_fishhook, Loop
<1> HIDE DEF r
<1>10. r[0] = t /\ \A at \in 1 .. k : r[at] = Copy(r[at - 1], p[at], q[at])
  <2>1. 0 \in 0 .. k
    BY <1>1
  <2>2. r[0] = t
    BY <1>8, <2>1
  <2>3. ASSUME NEW at \in 1 .. k PROVE r[at] = Copy(r[at - 1], p[at], q[at])
    <3>1. at \in 0 .. k /\ at # 0
      BY <1>6
    <3>2. r[at] = Copy(r[at - 1], <<y, c[at]>>, <<y, c[at] + n>>)
      BY <1>8, <3>1
    <3>3. p[at] = <<y, c[at]>> /\ q[at] = <<y, c[at] + n>>
      BY <1>2
    <3> QED
      BY <3>2, <3>3
  <2> QED
    BY <2>2, <2>3
<1>11. \A at \in 1 .. k : r[at - 1] \in M => r[at] \in M
  BY <1>3, <1>10
<1>12. \A at \in 0 .. k : r[at] \in M
  BY <1>1, <1>10, <1>11, LoopStays
<1> QED
  BY <1>9, <1>10, <1>12 DEF CopiesAlong, Copies, p, q
-----------------------------------------------------------------------------
(* Where nothing is shifted nothing has changed.                           *)
LEMMA NothingShifted ==
  ASSUME NEW V, toys \in Machines(V), NEW line \in SUBSET Vectors
  PROVE  Shifted(toys, line, <<0, 0>>)
<1>1. DOMAIN toys.cells \subseteq Vectors
  BY MachineParts DEF Places
<1>2. \A p \in Vectors : Minus(p, <<0, 0>>) = p /\ Plus(p, <<0, 0>>) = p
  BY DEF Vectors, Minus, Plus
<1>3. \A p \in Everywhere(toys) \cup {Plus(q, <<0, 0>>) : q \in line} : p \in Vectors
  BY <1>1, <1>2 DEF Everywhere
<1> QED
  BY <1>2, <1>3 DEF Shifted

(* Cells of a line, all of them, that are copied as far each, none of them *)
(* written on before it is read.                                           *)
GoAlong(k, p, q, line, far) ==
  /\ \A at \in 1 .. k : p[at] \in line /\ q[at] = Plus(p[at], far)
  /\ \A at \in 1 .. k, j \in 1 .. k : j < at => p[at] # q[j] /\ p[at] # p[j]
  /\ \A x \in line : \E at \in 1 .. k : p[at] = x

(* So copied, a line is shifted as a whole.                                *)
LEMMA LineShifted ==
  ASSUME NEW V, Int \subseteq V, toys \in Machines(V), NEW line \in SUBSET Vectors,
         NEW far \in Vectors, NEW u, NEW k \in Nat, NEW p, NEW q,
         CopiesAlong(u, toys, V, k, p, q), GoAlong(k, p, q, line, far)
  PROVE  Shifted(u, line, far)
<1>0. /\ \A at \in 1 .. k : p[at] \in line /\ q[at] = Plus(p[at], far)
      /\ \A at \in 1 .. k, j \in 1 .. k : j < at => p[at] # q[j] /\ p[at] # p[j]
      /\ \A x \in line : \E at \in 1 .. k : p[at] = x
  BY DEF GoAlong
<1>1. PICK r : Copies(r, toys, k, p, q) /\ u = r[k] /\ \A at \in 0 .. k : r[at] \in Machines(V)
  BY DEF CopiesAlong
<1>2. \A at \in 1 .. k : p[at] \in Vectors /\ q[at] \in Vectors
  BY <1>0, LesserIsVector
<1>3. \A at \in 1 .. k, j \in 1 .. k : j < at => p[at] # q[j] /\ q[at] # q[j]
  <2>1. ASSUME NEW at \in 1 .. k, NEW j \in 1 .. k, j < at PROVE q[at] # q[j]
    BY <1>0, <1>2, <2>1, AddAndTake
  <2> QED
    BY <1>0, <2>1
<1>4. /\ \A at \in 1 .. k : At(u, q[at]) = At(toys, p[at])
      /\ \A x : (\A at \in 1 .. k : x # q[at]) => At(u, x) = At(toys, x)
  BY <1>1, <1>2, <1>3, CopiesArrive
<1>5. u \in Machines(V)
  BY <1>1
<1>6. DOMAIN toys.cells \subseteq Vectors /\ DOMAIN u.cells \subseteq Vectors
  BY <1>5, MachineParts DEF Places
<1>7. \A x \in Everywhere(u) \cup {Plus(z, far) : z \in line} : x \in Vectors
  BY <1>6, LesserIsVector DEF Everywhere
<1>8. ASSUME NEW x \in Vectors
      PROVE  At(u, x) = IF Minus(x, far) \in line THEN At(toys, Minus(x, far)) ELSE At(toys, x)
  <2>1. CASE Minus(x, far) \in line
    <3>1. PICK at \in 1 .. k : p[at] = Minus(x, far)
      BY <1>0, <2>1
    <3>2. Plus(Minus(x, far), far) = x
      BY DEF Vectors, Plus, Minus
    <3> QED
      BY <1>0, <1>4, <2>1, <3>1, <3>2
  <2>2. CASE Minus(x, far) \notin line
    <3>1. ASSUME NEW at \in 1 .. k PROVE x # q[at]
      <4>1. Minus(q[at], far) = p[at]
        BY <1>0, <1>2, AddAndTake
      <4> QED
        BY <1>0, <2>2, <4>1
    <3> QED
      BY <1>4, <2>2, <3>1
  <2> QED
    BY <2>1, <2>2
<1> QED
  BY <1>7, <1>8 DEF Shifted

(* O: every cell of the row comes to lie n to the right, and no other cell *)
(* changes.                                                                *)
LEMMA RowShifted ==
  ASSUME NEW V, Int \subseteq V, toys \in Machines(V), NEW n \in Int
  PROVE  Shifted(finger_TOYS_boulder(With(<<n>>)), RowOfIP, <<n, 0>>)
<1> DEFINE s == With(<<n>>)
           u == finger_TOYS_boulder(s)
           y == toys.pos[2]
           far == <<n, 0>>
           line == RowOfIP
<1>1. Popped(s, 1) = toys /\ Top(s.stack) = n
  <2>1. Given(s, toys, <<n>>)
    BY DEF With, Given
  <2> HIDE DEF s
  <2> QED
    BY <2>1, OneTaken
<1> HIDE DEF s
<1>2. toys.tl[1] \in Int /\ toys.br[1] \in Int /\ y \in Int
  <2>1. toys.tl \in Vectors /\ toys.br \in Vectors /\ toys.pos \in Vectors
    BY MachineParts
  <2> QED
    BY <2>1, VectorIsText
<1>3. /\ line = {<<x, y>> : x \in toys.tl[1] .. toys.br[1]}
      /\ line \in SUBSET Vectors
  <2>1. line = {<<x, y>> : x \in toys.tl[1] .. toys.br[1]}
    BY DEF RowOfIP
  <2> QED
    BY <1>2, <2>1 DEF Vectors
<1> HIDE DEF line
<1>4. CASE n = 0
  <2>1. u = toys
    BY <1>1, <1>4 DEF finger_TOYS_boulder
  <2>2. far = <<0, 0>>
    BY <1>4
  <2> QED
    BY <1>3, <2>1, <2>2, NothingShifted DEF line, s
<1>5. CASE n # 0
  <2> DEFINE c == FarFirst(toys.tl[1], toys.br[1], n)
             k == Len(c)
             p == Row(c, y)
             q == Row(On(c, n), y)
  <2>1. /\ c \in Seq(Int)
        /\ \A at \in 1 .. k, j \in 1 .. k : j < at => c[at] # c[j] /\ c[at] # c[j] + n
        /\ \A z \in toys.tl[1] .. toys.br[1] : \E at \in 1 .. k : c[at] = z
        /\ \A at \in 1 .. k : c[at] \in toys.tl[1] .. toys.br[1]
    <3>1. Ends(c, n, toys.tl[1], toys.br[1])
      BY <1>2, <1>5, FarFirstIs
    <3> QED
      BY <3>1 DEF Ends
  <2>2. CopiesAlong(u, toys, V, k, p, q)
    BY <1>1, <1>5, <2>1, BoulderCopies
  <2> HIDE DEF c, u
  <2>3. k \in Nat /\ \A at \in 1 .. k : c[at] \in Int
    BY <2>1, ElementOfSeq
  <2>4. \A at \in 1 .. k : /\ p[at] = <<c[at], y>> /\ q[at] = <<c[at] + n, y>>
                           /\ p[at] \in line
    <3>1. Len(On(c, n)) = k /\ \A at \in 1 .. k : On(c, n)[at] = c[at] + n
      BY <2>3 DEF On
    <3>2. \A at \in 1 .. k : p[at] = <<c[at], y>> /\ q[at] = <<c[at] + n, y>>
      BY <2>3, <3>1 DEF Row
    <3> QED
      BY <1>3, <2>1, <3>2
  <2>5. \A at \in 1 .. k : q[at] = Plus(p[at], far)
    BY <1>2, <2>3, <2>4 DEF Plus
  <2>6. \A at \in 1 .. k, j \in 1 .. k : j < at => p[at] # q[j] /\ p[at] # p[j]
    BY <2>1, <2>3, <2>4
  <2>7. ASSUME NEW z \in line PROVE \E at \in 1 .. k : p[at] = z
    <3>1. PICK x \in toys.tl[1] .. toys.br[1] : z = <<x, y>>
      BY <1>3
    <3>2. PICK at \in 1 .. k : c[at] = x
      BY <2>1
    <3> QED
      BY <2>4, <3>1, <3>2
  <2>8. far \in Vectors
    BY DEF Vectors
  <2> HIDE DEF k, p, q, far
  <2>9. Shifted(u, line, far)
    <3>1. GoAlong(k, p, q, line, far)
      BY <2>4, <2>5, <2>6, <2>7 DEF GoAlong
    <3> QED
      BY ONLY Int \subseteq V, toys \in Machines(V), <1>3, <2>2, <2>3, <2>8, <3>1, LineShifted
  <2> QED
    BY <2>9 DEF u, s, line, far
<1> QED
  BY <1>4, <1>5

(* J: every cell of the column comes to lie n further down, and no other   *)
(* cell changes.                                                           *)
LEMMA ColumnShifted ==
  ASSUME NEW V, Int \subseteq V, toys \in Machines(V), NEW n \in Int
  PROVE  Shifted(finger_TOYS_fishhook(With(<<n>>)), ColumnOfIP, <<0, n>>)
<1> DEFINE s == With(<<n>>)
           u == finger_TOYS_fishhook(s)
           y == toys.pos[1]
           far == <<0, n>>
           line == ColumnOfIP
<1>1. Popped(s, 1) = toys /\ Top(s.stack) = n
  <2>1. Given(s, toys, <<n>>)
    BY DEF With, Given
  <2> HIDE DEF s
  <2> QED
    BY <2>1, OneTaken
<1> HIDE DEF s
<1>2. toys.tl[2] \in Int /\ toys.br[2] \in Int /\ y \in Int
  <2>1. toys.tl \in Vectors /\ toys.br \in Vectors /\ toys.pos \in Vectors
    BY MachineParts
  <2> QED
    BY <2>1, VectorIsText
<1>3. /\ line = {<<y, x>> : x \in toys.tl[2] .. toys.br[2]}
      /\ line \in SUBSET Vectors
  <2>1. line = {<<y, x>> : x \in toys.tl[2] .. toys.br[2]}
    BY DEF ColumnOfIP
  <2> QED
    BY <1>2, <2>1 DEF Vectors
<1> HIDE DEF line
<1>4. CASE n = 0
  <2>1. u = toys
    BY <1>1, <1>4 DEF finger_TOYS_fishhook
  <2>2. far = <<0, 0>>
    BY <1>4
  <2> QED
    BY <1>3, <2>1, <2>2, NothingShifted DEF line, s
<1>5. CASE n # 0
  <2> DEFINE c == FarFirst(toys.tl[2], toys.br[2], n)
             k == Len(c)
             p == Column(c, y)
             q == Column(On(c, n), y)
  <2>1. /\ c \in Seq(Int)
        /\ \A at \in 1 .. k, j \in 1 .. k : j < at => c[at] # c[j] /\ c[at] # c[j] + n
        /\ \A z \in toys.tl[2] .. toys.br[2] : \E at \in 1 .. k : c[at] = z
        /\ \A at \in 1 .. k : c[at] \in toys.tl[2] .. toys.br[2]
    <3>1. Ends(c, n, toys.tl[2], toys.br[2])
      BY <1>2, <1>5, FarFirstIs
    <3> QED
      BY <3>1 DEF Ends
  <2>2. CopiesAlong(u, toys, V, k, p, q)
    BY <1>1, <1>5, <2>1, FishhookCopies
  <2> HIDE DEF c, u
  <2>3. k \in Nat /\ \A at \in 1 .. k : c[at] \in Int
    BY <2>1, ElementOfSeq
  <2>4. \A at \in 1 .. k : /\ p[at] = <<y, c[at]>> /\ q[at] = <<y, c[at] + n>>
                           /\ p[at] \in line
    <3>1. Len(On(c, n)) = k /\ \A at \in 1 .. k : On(c, n)[at] = c[at] + n
      BY <2>3 DEF On
    <3>2. \A at \in 1 .. k : p[at] = <<y, c[at]>> /\ q[at] = <<y, c[at] + n>>
      BY <2>3, <3>1 DEF Column
    <3> QED
      BY <1>3, <2>1, <3>2
  <2>5. \A at \in 1 .. k : q[at] = Plus(p[at], far)
    BY <1>2, <2>3, <2>4 DEF Plus
  <2>6. \A at \in 1 .. k, j \in 1 .. k : j < at => p[at] # q[j] /\ p[at] # p[j]
    BY <2>1, <2>3, <2>4
  <2>7. ASSUME NEW z \in line PROVE \E at \in 1 .. k : p[at] = z
    <3>1. PICK x \in toys.tl[2] .. toys.br[2] : z = <<y, x>>
      BY <1>3
    <3>2. PICK at \in 1 .. k : c[at] = x
      BY <2>1
    <3> QED
      BY <2>4, <3>1, <3>2
  <2>8. far \in Vectors
    BY DEF Vectors
  <2> HIDE DEF k, p, q, far
  <2>9. Shifted(u, line, far)
    <3>1. GoAlong(k, p, q, line, far)
      BY <2>4, <2>5, <2>6, <2>7 DEF GoAlong
    <3> QED
      BY ONLY Int \subseteq V, toys \in Machines(V), <1>3, <2>2, <2>3, <2>8, <3>1, LineShifted
  <2> QED
    BY <2>9 DEF u, s, line, far
<1> QED
  BY <1>4, <1>5

-----------------------------------------------------------------------------
(* TOYS: an area arrives, in every machine that is one.                    *)
SomeMachine(s) == \E V : Int \subseteq V /\ s \in Machines(V)

(* Whatever the machine holds, what is moved or copied arrives.            *)
LEMMA MachineDelivers ==
  ASSUME SomeMachine(toys)
  PROVE  AreasArrive
<1>1. PICK V : Int \subseteq V /\ toys \in Machines(V)
  BY DEF SomeMachine
<1>2. Corners \subseteq Vectors /\ Sizes \subseteq Vectors /\ Counts \subseteq Int
  BY ToysAssumption DEF Vectors
<1>3. ASSUME NEW o \in Corners, NEW g \in Corners,
             NEW d \in {e \in Sizes : ~Empty(e) /\ ~Negative(e)}
      PROVE  LET s == With(o \o d \o g)
                 carried == finger_TOYS_calipers([finger_TOYS_counterclockwise(With(d \o o))
                                                    EXCEPT !.stack = @ \o d \o g])
                 none == Disjoint(o, g, d)
             IN  /\ none \/ ~Before(o, g) => Arrives(finger_TOYS_bracelet(s), o, g, d, {})
                 /\ none \/ ~Before(g, o) => Arrives(finger_TOYS_scissors(s), o, g, d, {})
                 /\ none \/ Before(g, o)  => Arrives(finger_TOYS_kittycat(s), o, g, d, Cells(o, d))
                 /\ none \/ Before(o, g)  => Arrives(finger_TOYS_dixiecup(s), o, g, d, Cells(o, d))
                 /\ Arrives(carried, o, g, d, {}) /\ carried.stack = toys.stack
  <2>1. o \in Vectors /\ g \in Vectors /\ d \in Vectors /\ ~Empty(d) /\ ~Negative(d)
    BY <1>2
  <2>2. LET s == With(o \o d \o g)
            none == Disjoint(o, g, d)
        IN  /\ none \/ ~Before(o, g) => Arrives(finger_TOYS_bracelet(s), o, g, d, {})
            /\ none \/ ~Before(g, o) => Arrives(finger_TOYS_scissors(s), o, g, d, {})
            /\ none \/ Before(g, o)  => Arrives(finger_TOYS_kittycat(s), o, g, d, Cells(o, d))
            /\ none \/ Before(o, g)  => Arrives(finger_TOYS_dixiecup(s), o, g, d, Cells(o, d))
    BY <1>1, <2>1, AreasCopied
  <2>3. LET carried == finger_TOYS_calipers([finger_TOYS_counterclockwise(With(d \o o))
                                               EXCEPT !.stack = @ \o d \o g])
        IN  Arrives(carried, o, g, d, {}) /\ carried.stack = toys.stack
    BY <1>1, <2>1, AreaCarried
  <2> QED
    BY <2>2, <2>3
<1>4. ASSUME NEW n \in Counts
      PROVE  /\ Shifted(finger_TOYS_boulder(With(<<n>>)), RowOfIP, <<n, 0>>)
             /\ Shifted(finger_TOYS_fishhook(With(<<n>>)), ColumnOfIP, <<0, n>>)
  BY <1>1, <1>2, RowShifted, ColumnShifted
<1> QED
  BY <1>3, <1>4 DEF AreasArrive
-----------------------------------------------------------------------------
(* TOYS: every instruction leads from a machine to a machine.              *)

(* A finite set of numbers has a least and a greatest.                     *)
Ranged(S) == /\ \E a \in S : \A b \in S : a <= b
             /\ \E a \in S : \A b \in S : b <= a

(* A finite set of integers has a least and a greatest member.             *)
LEMMA FiniteRanged ==
  ASSUME NEW S \in SUBSET Int, IsFiniteSet(S), S # {}
  PROVE  Ranged(S)
<1> DEFINE Bad == {X \in SUBSET S : X # {} /\ ~Ranged(X)}
<1>1. ASSUME Bad # {} PROVE FALSE
  <2>1. IsWellFoundedOn(StrictSubsetOrdering(S), SUBSET S)
    <3>1. FiniteSubsetsOf(S) = SUBSET S
      BY FS_FiniteSubsetsOfFinite
    <3>2. IsWellFoundedOn(StrictSubsetOrdering(S), FiniteSubsetsOf(S))
      BY FS_StrictSubsetOrderingWellFounded
    <3> QED
      BY <3>1, <3>2
  <2>2. Bad \in SUBSET (SUBSET S)
    OBVIOUS
  <2> HIDE DEF Bad
  <2>3. PICK X \in Bad : \A Y \in Bad : <<Y, X>> \notin StrictSubsetOrdering(S)
    BY <1>1, <2>1, <2>2, WFMin, Zenon
  <2>4. X \in SUBSET S /\ X # {} /\ ~Ranged(X)
    BY <2>3 DEF Bad
  <2>5. PICK x \in X : TRUE
    BY <2>4
  <2> DEFINE Y == X \ {x}
  <2>6. Y \in SUBSET S /\ Y \subseteq X /\ Y # X
    BY <2>4, <2>5
  <2>7. <<Y, X>> \in StrictSubsetOrdering(S)
    BY <2>4, <2>6 DEF StrictSubsetOrdering
  <2>8. Y = {} \/ Ranged(Y)
    BY <2>3, <2>6, <2>7 DEF Bad
  <2>9. CASE Y = {}
    <3>1. X = {x} /\ x \in Int
      BY <2>4, <2>5, <2>9
    <3> QED
      BY <2>4, <3>1 DEF Ranged
  <2>10. CASE Ranged(Y)
    <3>1. PICK a \in Y : \A b \in Y : a <= b
      BY <2>10 DEF Ranged
    <3>2. PICK c \in Y : \A b \in Y : b <= c
      BY <2>10 DEF Ranged
    <3>3. a \in X /\ c \in X /\ a \in Int /\ c \in Int /\ x \in Int
      BY <2>4, <2>5, <2>6
    <3>4. \A b \in X : b \in Int /\ (b = x \/ b \in Y)
      BY <2>4
    <3>5. \E z \in X : \A b \in X : z <= b
      BY <3>1, <3>3, <3>4
    <3>6. \E z \in X : \A b \in X : b <= z
      BY <3>2, <3>3, <3>4
    <3> QED
      BY <2>4, <3>5, <3>6 DEF Ranged
  <2> QED
    BY <2>8, <2>9, <2>10
<1> QED
  BY <1>1

(* The cells of funge-space stretch from an integer to an integer.         *)
LEMMA StretchIs ==
  ASSUME NEW P \in SUBSET Vectors, IsFiniteSet(P), P # {}
  PROVE  /\ Stretch(P, 1)[1] \in Int /\ Stretch(P, 1)[2] \in Int
         /\ Stretch(P, 2)[1] \in Int /\ Stretch(P, 2)[2] \in Int
<1>1. ASSUME NEW at \in 1 .. 2 PROVE Stretch(P, at)[1] \in Int /\ Stretch(P, at)[2] \in Int
  <2> DEFINE S == {p[at] : p \in P}
  <2>1. S \in SUBSET Int /\ S # {}
    BY DEF Vectors
  <2>2. IsFiniteSet(S)
    <3> DEFINE f == [p \in P |-> p[at]]
    <3>1. f \in Surjection(P, S)
      BY DEF Surjection
    <3> QED
      BY <3>1, FS_Surjection
  <2>3. Stretch(P, at) = <<CHOOSE a \in S : \A b \in S : a <= b,
                          CHOOSE a \in S : \A b \in S : b <= a>>
    BY DEF Stretch
  <2> HIDE DEF S
  <2>4. Ranged(S)
    BY <2>1, <2>2, FiniteRanged
  <2>5. (CHOOSE a \in S : \A b \in S : a <= b) \in S
    BY <2>4 DEF Ranged
  <2>6. (CHOOSE a \in S : \A b \in S : b <= a) \in S
    BY <2>4 DEF Ranged
  <2> DEFINE lo == CHOOSE a \in S : \A b \in S : a <= b
             hi == CHOOSE a \in S : \A b \in S : b <= a
  <2>7. Stretch(P, at) = <<lo, hi>> /\ lo \in Int /\ hi \in Int
    BY <2>1, <2>3, <2>5, <2>6
  <2> HIDE DEF lo, hi
  <2> QED
    BY <2>7
<1>2. 1 \in 1 .. 2 /\ 2 \in 1 .. 2
  OBVIOUS
<1> QED
  BY <1>1, <1>2

(* Funge-space with its bounds made tight, or left as they are, makes a    *)
(* machine.                                                                *)
LEMMA BoundedIs ==
  ASSUME NEW V, NEW s \in Machines(V), NEW t \in Bounded(s)
  PROVE  t \in Machines(V)
<1>1. CASE t = s
  BY <1>1
<1>2. CASE DOMAIN s.cells # {} /\ t = Shrunk(s)
  <2> DEFINE x == Stretch(DOMAIN s.cells, 1)
             y == Stretch(DOMAIN s.cells, 2)
  <2>1. DOMAIN s.cells \in SUBSET Vectors /\ IsFiniteSet(DOMAIN s.cells)
    BY MachineParts, PlacesAre
  <2>2. x[1] \in Int /\ x[2] \in Int /\ y[1] \in Int /\ y[2] \in Int
    BY <1>2, <2>1, StretchIs
  <2>3. t = [s EXCEPT !.tl = <<x[1], y[1]>>, !.br = <<x[2], y[2]>>]
    BY <1>2 DEF Shrunk
  <2> HIDE DEF x, y
  <2>4. <<x[1], y[1]>> \in Vectors /\ <<x[2], y[2]>> \in Vectors
    BY <2>2 DEF Vectors
  <2> QED
    BY <2>3, <2>4 DEF Machines
<1> QED
  BY <1>1, <1>2 DEF Bounded

(* The first state is a machine.                                           *)
LEMMA InitIsMachine == ToysInit => SomeMachine(toys)
<1> SUFFICES ASSUME ToysInit PROVE SomeMachine(toys)
  OBVIOUS
<1>1. PICK f \in Fields :
        LET x == Stretch(DOMAIN f, 1)
            y == Stretch(DOMAIN f, 2)
        IN  toys = [cells |-> f, tl |-> <<x[1], y[1]>>, br |-> <<x[2], y[2]>>,
                    pos |-> <<x[1], y[2]>>, delta |-> East, offset |-> <<1, 1>>, stack |-> <<>>]
  BY DEF ToysInit
<1>2. /\ DOMAIN f \in SUBSET Vectors /\ DOMAIN f # {} /\ IsFiniteSet(DOMAIN f)
      /\ f \in [DOMAIN f -> Int]
  BY ToysAssumption DEF Vectors
<1> DEFINE x == Stretch(DOMAIN f, 1)
           y == Stretch(DOMAIN f, 2)
<1>3. x[1] \in Int /\ x[2] \in Int /\ y[1] \in Int /\ y[2] \in Int
  BY <1>2, StretchIs
<1>4. toys = [cells |-> f, tl |-> <<x[1], y[1]>>, br |-> <<x[2], y[2]>>,
              pos |-> <<x[1], y[2]>>, delta |-> East, offset |-> <<1, 1>>, stack |-> <<>>]
  BY <1>1
<1> HIDE DEF x, y
<1>5. f \in Places(Int)
  BY <1>2 DEF Places
<1>6. /\ <<x[1], y[1]>> \in Vectors /\ <<x[2], y[2]>> \in Vectors /\ <<x[1], y[2]>> \in Vectors
      /\ East \in Vectors /\ <<1, 1>> \in Vectors /\ <<>> \in Seq(Int)
  BY <1>3 DEF Vectors, East
<1>7. toys \in Machines(Int)
  BY <1>4, <1>5, <1>6 DEF Machines
<1> QED
  BY <1>7 DEF SomeMachine

(* Wherever an IP goes, it is at a position.                               *)
LEMMA QuotientIsNumber ==
  ASSUME NEW n \in Int, NEW d \in Int, d # 0, NEW tl, NEW br
  PROVE  Line(tl, br)!wrap_frac(n, d) \in Int
<1>1. ASSUME NEW m \in Int PROVE Line(tl, br)!Quotient(m, d) \in Int
  <2> DEFINE a == Line(tl, br)!Magnitude(m)
             b == Line(tl, br)!Magnitude(d)
  <2>1. a \in Nat /\ b \in Nat /\ b > 0
    BY DEF Line!Magnitude
  <2> HIDE DEF a, b
  <2>2. a \div b \in Nat
    BY <2>1, Division
  <2>3. Line(tl, br)!Quotient(m, d) = IF (m < 0) = (d < 0) THEN a \div b ELSE -(a \div b)
    BY DEF Line!Quotient, a, b
  <2> QED
    BY <2>2, <2>3
<1>2. n + d \in Int
  OBVIOUS
<1> QED
  BY <1>1, <1>2 DEF Line!wrap_frac

(* Wrapping leads to a position.                                           *)
LEMMA WrapIsVector ==
  ASSUME NEW tl \in Vectors, NEW br \in Vectors, NEW p \in Vectors, NEW d \in Vectors
  PROVE  Line(tl, br)!fungespace_wrap(p, d) \in Vectors
<1>1. /\ p[1] \in Int /\ p[2] \in Int /\ d[1] \in Int /\ d[2] \in Int /\ tl[1] \in Int
      /\ tl[2] \in Int /\ br[1] \in Int /\ br[2] \in Int /\ d = <<d[1], d[2]>>
  BY VectorIsText
<1>2. Line(tl, br)!Opposite(p) \in Vectors
  BY <1>1 DEF Line!Opposite, Vectors
<1>3. CASE d = <<0, 0>>
  BY <1>2, <1>3 DEF Line!fungespace_wrap, Line!wrap
<1>4. CASE d # <<0, 0>>
  <2> DEFINE f(k) == Line(tl, br)!wrap_frac_dir(p[k], tl[k], br[k], d[k])
             m == IF d[1] = 0 THEN f(2)
                  ELSE IF d[2] = 0 THEN f(1)
                  ELSE IF f(1) < f(2) THEN f(1) ELSE f(2)
  <2>1. d[1] # 0 => f(1) \in Int
    BY <1>1, QuotientIsNumber DEF Line!wrap_frac_dir
  <2>2. d[2] # 0 => f(2) \in Int
    BY <1>1, QuotientIsNumber DEF Line!wrap_frac_dir
  <2>3. d[1] # 0 \/ d[2] # 0
    BY <1>1, <1>4
  <2>4. m \in Int
    BY <2>1, <2>2, <2>3
  <2>5. Line(tl, br)!wrap(p, d) = Minus(p, Times(d, m))
    BY <1>4 DEF Line!wrap, Line!Minus, Line!Times, Minus, Times
  <2> HIDE DEF m
  <2>6. Minus(p, Times(d, m)) \in Vectors
    BY <1>1, <2>4 DEF Minus, Times, Vectors
  <2> QED
    BY <1>2, <2>5, <2>6 DEF Line!fungespace_wrap
<1> QED
  BY <1>3, <1>4

(* An IP turned back is on a machine.                                      *)
LEMMA ReversedIs ==
  ASSUME NEW V, NEW s \in Machines(V)
  PROVE  ip_reverse(s) \in Machines(V)
<1>1. s.delta \in Vectors
  BY MachineParts
<1>2. Line(s.tl, s.br)!Back(s.delta) \in Vectors
  BY <1>1, VectorIsText DEF Line!Back, Vectors
<1>3. ip_reverse(s) = [s EXCEPT !.delta = Line(s.tl, s.br)!Back(s.delta)]
  BY DEF ip_reverse
<1> DEFINE b == Line(s.tl, s.br)!Back(s.delta)
<1> HIDE DEF b
<1>4. b \in Vectors /\ ip_reverse(s) = [s EXCEPT !.delta = b]
  BY <1>2, <1>3 DEF b
<1> QED
  BY <1>4, VectorInstead

(* A step, ahead or back, leads to a position.                             *)
LEMMA SteppedIs ==
  ASSUME NEW V, NEW s \in Machines(V)
  PROVE  ip_forward(s) \in Machines(V) /\ ip_backward(s) \in Machines(V)
<1>1. s.pos \in Vectors /\ s.delta \in Vectors /\ s.tl \in Vectors /\ s.br \in Vectors
  BY MachineParts
<1> DEFINE b == Line(s.tl, s.br)!Back(s.delta)
           f == fungespace_wrap(s, Plus(s.pos, s.delta), s.delta)
           g == fungespace_wrap(s, Minus(s.pos, s.delta), b)
<1>2. b \in Vectors
  BY <1>1, VectorIsText DEF Line!Back, Vectors
<1>3. Plus(s.pos, s.delta) \in Vectors /\ Minus(s.pos, s.delta) \in Vectors
  BY <1>1, LesserIsVector
<1>4. f \in Vectors
  BY <1>1, <1>3, WrapIsVector DEF fungespace_wrap
<1>5. g \in Vectors
  <2> HIDE DEF b
  <2> QED
    BY <1>1, <1>2, <1>3, WrapIsVector DEF fungespace_wrap
<1>6. ip_forward(s) = [s EXCEPT !.pos = f] /\ ip_backward(s) = [s EXCEPT !.pos = g]
  BY DEF ip_forward, ip_backward
<1> HIDE DEF f, g
<1> QED
  BY <1>4, <1>5, <1>6, VectorInstead

(* More values in the cells are no harm.                                   *)
LEMMA MoreCells ==
  ASSUME NEW V, NEW W, V \subseteq W, NEW s \in Machines(V)
  PROVE  s \in Machines(W)
<1>1. s.cells \in Places(W)
  BY MachineParts, PlacesAre
<1>2. s.stack \in Seq(W)
  BY MachineParts
<1> QED
  BY <1>1, <1>2 DEF Machines

(* A machine with another stack, of whatever cells.                        *)
LEMMA AnyStack ==
  ASSUME NEW V, Int \subseteq V, NEW s \in Machines(V), NEW W, NEW z \in Seq(W)
  PROVE  SomeMachine([s EXCEPT !.stack = z])
<1>1. s \in Machines(V \cup W)
  BY MoreCells
<1>2. z \in Seq(V \cup W)
  OBVIOUS
<1>3. [s EXCEPT !.stack = z] \in Machines(V \cup W)
  BY ONLY <1>1, <1>2, StackInstead
<1> QED
  BY <1>3 DEF SomeMachine

(* The cells of an area, in either order, are positions; of none, there    *)
(* are none.                                                               *)
LEMMA OrderIs ==
  ASSUME NEW d \in Vectors
  PROVE  Order(d, LowOrder) \in Seq(Vectors) /\ Order(d, HighOrder) \in Seq(Vectors)
<1>1. CASE Empty(d) \/ Negative(d)
  BY <1>1 DEF Order
<1>2. CASE ~(Empty(d) \/ Negative(d))
  <2>1. d[1] > 0 /\ d[2] > 0
    BY <1>2, VectorIsText DEF Empty, Negative
  <2>2. LowOrder(d) \in Seq(Vectors) /\ HighOrder(d) \in Seq(Vectors)
    BY <2>1, LowOrderIs, HighOrderIs
  <2> QED
    BY <1>2, <2>2 DEF Order
<1> QED
  BY <1>1, <1>2

(* Copying and moving cells, or refusing to, leaves a machine.             *)
LEMMA CopiedIsMachine ==
  ASSUME NEW V, Int \subseteq V, NEW s, Popped(s, 6) \in Machines(V), NEW c \in Seq(Vectors),
         From(s) \in Vectors, To(s) \in Vectors
  PROVE  Copied(s, c) \in Machines(V) /\ Moved(s, c) \in Machines(V)
<1>1. CASE Empty(SizeOf(s))
  BY <1>1 DEF Copied, Moved, Over
<1>2. CASE ~Empty(SizeOf(s)) /\ Negative(SizeOf(s))
  BY <1>2, ReversedIs DEF Copied, Moved, Over
<1>3. CASE ~Empty(SizeOf(s)) /\ ~Negative(SizeOf(s))
  <2>1. Len(c) \in 0 .. Len(c)
    OBVIOUS
  <2>2. CopiesTo(Copied(s, c), Popped(s, 6), V, c, From(s), To(s))
    BY <1>3, CopiedIs
  <2>3. MovesTo(Moved(s, c), Popped(s, 6), V, c, From(s), To(s))
    BY <1>3, MovedIs
  <2>4. Copied(s, c) \in Machines(V)
    BY <2>1, <2>2 DEF CopiesTo
  <2> QED
    BY <2>1, <2>3, <2>4 DEF MovesTo
<1> QED
  BY <1>1, <1>2, <1>3

(* C, K, M and V leave a machine.                                          *)
LEMMA AreaIsMachine ==
  ASSUME NEW V, Int \subseteq V, toys \in Machines(V),
         NEW o \in Vectors, NEW d \in Vectors, NEW g \in Vectors, NEW s, s = With(o \o d \o g)
  PROVE  /\ finger_TOYS_bracelet(s) \in Machines(V) /\ finger_TOYS_scissors(s) \in Machines(V)
         /\ finger_TOYS_kittycat(s) \in Machines(V) /\ finger_TOYS_dixiecup(s) \in Machines(V)
<1>1. Popped(s, 6) \in Machines(V) /\ From(s) \in Vectors /\ To(s) \in Vectors /\ SizeOf(s) = d
  BY AreaTaken
<1>2. \A c \in Seq(Vectors) : Copied(s, c) \in Machines(V) /\ Moved(s, c) \in Machines(V)
  BY <1>1, CopiedIsMachine
<1> QED
  BY <1>1, <1>2, OrderIs DEF finger_TOYS_bracelet, finger_TOYS_scissors,
                             finger_TOYS_kittycat, finger_TOYS_dixiecup
(* What has been given are numbers.                                        *)
LEMMA NumbersGiven ==
  ASSUME NEW V, Int \subseteq V, NEW s \in Machines(V), NEW z \in Seq(Int), NEW n, n = Len(z),
         NEW u, Given(u, s, z)
  PROVE  /\ u \in Machines(V) /\ Popped(u, n) = s
         /\ \A at \in 1 .. n : Nth(u.stack, at) \in Int
<1>1. /\ u \in Machines(V) /\ Popped(u, Len(z)) = s
      /\ \A at \in 1 .. Len(z) : Nth(u.stack, at) = z[Len(z) - at + 1]
  BY GivenAndTaken
<1>2. \A at \in 1 .. Len(z) : Len(z) - at + 1 \in 1 .. Len(z)
  OBVIOUS
<1> QED
  BY <1>1, <1>2, ElementOfSeq

(* Filling an area leaves a machine.                                       *)
LEMMA ChicaneIsMachine ==
  ASSUME NEW V, Int \subseteq V, toys \in Machines(V),
         NEW o \in Vectors, NEW d \in Vectors, NEW c \in Int
  PROVE  finger_TOYS_chicane(With(<<c>> \o d \o o)) \in Machines(V)
<1> DEFINE z == <<c>> \o d \o o
           s == With(z)
           t == Popped(s, 5)
           a == VectorAt(s.stack, 0)
           b == VectorAt(s.stack, 2)
           e == Nth(s.stack, 5)
           l == Order(b, LowOrder)
<1>1. z \in Seq(Int) /\ Len(z) = 5
  <2> DEFINE x == <<c>>
  <2>1. x \in Seq(Int) /\ Len(x) = 1
    OBVIOUS
  <2>2. d \in Seq(Int) /\ Len(d) = 2 /\ o \in Seq(Int) /\ Len(o) = 2
    BY VectorIsText
  <2> HIDE DEF x
  <2> DEFINE y == x \o d
  <2>3. y \in Seq(Int) /\ Len(y) = 3
    <3>1. y \in Seq(Int) /\ Len(y) = Len(x) + Len(d)
      BY <2>1, <2>2, ConcatProperties, Zenon
    <3> QED
      BY ONLY <2>1, <2>2, <3>1
  <2> HIDE DEF y
  <2>4. y \o o \in Seq(Int) /\ Len(y \o o) = 5
    <3>1. y \o o \in Seq(Int) /\ Len(y \o o) = Len(y) + Len(o)
      BY <2>2, <2>3, ConcatProperties, Zenon
    <3> QED
      BY ONLY <2>2, <2>3, <3>1
  <2> QED
    BY <2>4 DEF x, y
<1> HIDE DEF z
<1>2. Given(s, toys, z)
  BY DEF With, Given
<1> HIDE DEF s
<1>3. /\ t = toys /\ \A at \in 1 .. 5 : Nth(s.stack, at) \in Int
  BY <1>1, <1>2, NumbersGiven
<1>4. a \in Vectors /\ b \in Vectors /\ e \in Int
  <2>1. /\ Nth(s.stack, 1) \in Int /\ Nth(s.stack, 2) \in Int /\ Nth(s.stack, 3) \in Int
        /\ Nth(s.stack, 4) \in Int /\ Nth(s.stack, 5) \in Int
    BY <1>3
  <2> QED
    BY <2>1 DEF VectorAt, Vectors
<1> HIDE DEF a, b, e, t
<1>5. l \in Seq(Vectors)
  BY <1>4, OrderIs
<1> HIDE DEF l
<1> DEFINE M == Machines(V)
           n == Len(l)
           F == [y \in M \X (1 .. n) |-> fungespace_set(y[1], Plus(l[y[2]], a), e)]
           r == CHOOSE h : h = [at \in 0 .. n |->
                  IF at = 0 THEN t ELSE fungespace_set(h[at - 1], Plus(l[at], a), e)]
<1>6. n \in Nat /\ \A at \in 1 .. n : l[at] \in Vectors
  BY <1>5, ElementOfSeq
<1>7. \A x \in M, at \in 1 .. n : fungespace_set(x, Plus(l[at], a), e) \in M
  BY <1>4, <1>6, LesserIsVector, SetIs
<1>8. \A x \in M, at \in 1 .. n : /\ F[<<x, at>>] = fungespace_set(x, Plus(l[at], a), e)
                                /\ F[<<x, at>>] \in M
  BY <1>7
<1> HIDE DEF F
<1>9. PICK h : Rounds(h, t, n, F) /\ \A at \in 0 .. n : h[at] \in M
  BY <1>3, <1>6, <1>8, LoopRuns
<1>10. \A at \in 1 .. n : at - 1 \in 0 .. n /\ at # 0 /\ at \in 0 .. n
  BY <1>6
<1>11. h = [at \in 0 .. n |-> IF at = 0 THEN t ELSE fungespace_set(h[at - 1], Plus(l[at], a), e)]
  <2>1. \A at \in 0 .. n :
          (IF at = 0 THEN t ELSE F[<<h[at - 1], at>>])
            = IF at = 0 THEN t ELSE fungespace_set(h[at - 1], Plus(l[at], a), e)
    BY <1>6, <1>8, <1>9
  <2> QED
    BY <1>9, <2>1 DEF Rounds
<1>12. r = [at \in 0 .. n |-> IF at = 0 THEN t ELSE fungespace_set(r[at - 1], Plus(l[at], a), e)]
  BY <1>11
<1>13. r[n] \in M
  <2> HIDE DEF r
  <2>1. 0 \in 0 .. n /\ n \in 0 .. n
    BY <1>6
  <2>2. r[0] = t /\ \A at \in 1 .. n : r[at] = fungespace_set(r[at - 1], Plus(l[at], a), e)
    BY <1>10, <1>12, <2>1
  <2>3. \A at \in 1 .. n : r[at - 1] \in M => r[at] \in M
    BY <1>7, <2>2
  <2>4. \A at \in 0 .. n : r[at] \in M
    BY <1>3, <1>6, <2>2, <2>3, LoopStays
  <2> QED
    BY <2>1, <2>4
<1>14. finger_TOYS_chicane(s)
         = IF Empty(b) THEN t ELSE IF Negative(b) THEN ip_reverse(t) ELSE r[n]
  BY DEF finger_TOYS_chicane, Over, Loop, t, a, b, e, l
<1> HIDE DEF r
<1> QED
  BY <1>3, <1>13, <1>14, ReversedIs DEF s, z

(* F and G leave a machine.                                                *)
LEMMA MatrixIsMachine ==
  ASSUME NEW V, Int \subseteq V, toys \in Machines(V),
         NEW o \in Vectors, NEW d \in Vectors, NEW s, s = With(d \o o)
  PROVE  finger_TOYS_calipers(s) \in Machines(V) /\ finger_TOYS_counterclockwise(s) \in Machines(V)
<1>1. Given(s, toys, d \o o)
  BY DEF With, Given
<1>2. /\ Popped(s, 4) = toys /\ To(s) = o
      /\ Nth(s.stack, 4) = d[1] /\ Nth(s.stack, 3) = d[2]
  BY <1>1, CornerTaken
<1> DEFINE c == Matrix(s)
           h == Reverse(c)
<1>3. c \in Seq(Vectors) /\ h \in Seq(Vectors)
  BY <1>2, VectorIsText, MatrixIs
<1>4. Len(c) \in 0 .. Len(c) /\ Len(h) \in 0 .. Len(h)
  <2> HIDE DEF c, h
  <2> QED
    BY <1>3
<1>5. WritesTo(finger_TOYS_calipers(s), toys, V, c, o)
  BY <1>2, <1>3, CalipersWrites
<1>6. ReadsTo(finger_TOYS_counterclockwise(s), toys, V, h, o)
  BY <1>2, <1>3, CounterclockwiseReads
<1> HIDE DEF c, h
<1>7. finger_TOYS_calipers(s) \in Machines(V)
  BY <1>4, <1>5 DEF WritesTo
<1>8. finger_TOYS_counterclockwise(s) \in Machines(V)
  BY <1>4, <1>6 DEF ReadsTo
<1> QED
  BY <1>7, <1>8

(* J and O leave a machine.                                                *)
LEMMA ShiftIsMachine ==
  ASSUME NEW V, Int \subseteq V, toys \in Machines(V), NEW n \in Int, NEW s \in Bounded(With(<<n>>))
  PROVE  finger_TOYS_fishhook(s) \in Machines(V) /\ finger_TOYS_boulder(s) \in Machines(V)
<1> DEFINE w == With(<<n>>)
           t == Popped(s, 1)
<1>1. w \in Machines(V) /\ Top(w.stack) = n
  <2>1. Given(w, toys, <<n>>)
    BY DEF With, Given
  <2> HIDE DEF w
  <2> QED
    BY <2>1, OneTaken
<1> HIDE DEF w
<1>2. s \in Machines(V) /\ s.stack = w.stack
  <2>1. s \in Bounded(w)
    BY DEF w
  <2>2. s = w \/ s = Shrunk(w)
    BY <2>1 DEF Bounded
  <2>3. Shrunk(w).stack = w.stack
    BY <1>1, MachineParts DEF Shrunk
  <2> QED
    BY <1>1, <2>1, <2>2, <2>3, BoundedIs
<1>3. t \in Machines(V) /\ n = Top(s.stack)
  BY <1>1, <1>2, PoppedIs
<1> HIDE DEF t
<1>4. t.tl[1] \in Int /\ t.tl[2] \in Int /\ t.br[1] \in Int /\ t.br[2] \in Int
  <2>1. t.tl \in Vectors /\ t.br \in Vectors
    BY <1>3, MachineParts
  <2> QED
    BY <2>1, VectorIsText
<1>5. CASE n = 0
  BY <1>3, <1>5 DEF finger_TOYS_fishhook, finger_TOYS_boulder, t
<1>6. CASE n # 0
  <2> DEFINE x == FarFirst(t.tl[1], t.br[1], n)
             y == FarFirst(t.tl[2], t.br[2], n)
  <2>1. x \in Seq(Int) /\ y \in Seq(Int)
    <3>1. Ends(x, n, t.tl[1], t.br[1]) /\ Ends(y, n, t.tl[2], t.br[2])
      BY <1>4, <1>6, FarFirstIs
    <3> QED
      BY <3>1 DEF Ends
  <2>2. CopiesAlong(finger_TOYS_boulder(s), t, V, Len(x), Row(x, t.pos[2]),
                    Row(On(x, n), t.pos[2]))
    BY <1>3, <1>6, <2>1, BoulderCopies DEF t
  <2>3. CopiesAlong(finger_TOYS_fishhook(s), t, V, Len(y), Column(y, t.pos[1]),
                    Column(On(y, n), t.pos[1]))
    BY <1>3, <1>6, <2>1, FishhookCopies DEF t
  <2> HIDE DEF x, y
  <2>4. Len(x) \in 0 .. Len(x) /\ Len(y) \in 0 .. Len(y)
    BY <2>1
  <2>5. finger_TOYS_boulder(s) \in Machines(V)
    BY <2>2, <2>4 DEF CopiesAlong
  <2>6. finger_TOYS_fishhook(s) \in Machines(V)
    BY <2>3, <2>4 DEF CopiesAlong
  <2> QED
    BY <2>5, <2>6
<1> QED
  BY <1>5, <1>6
(* Machines of any cells.                                                  *)
LEMMA SomePopped ==
  ASSUME NEW s, SomeMachine(s), NEW n \in Nat
  PROVE  SomeMachine(Popped(s, n))
BY PoppedIs DEF SomeMachine

(* A machine is left when a value, whatever it is, is pushed,              *)
LEMMA SomePushed ==
  ASSUME NEW s, SomeMachine(s), NEW v
  PROVE  SomeMachine(Pushed(s, v))
<1>1. PICK V : Int \subseteq V /\ s \in Machines(V)
  BY DEF SomeMachine
<1>2. s \in Machines(V \cup {v}) /\ Int \subseteq V \cup {v} /\ v \in V \cup {v}
  BY <1>1, MoreCells
<1>3. Pushed(s, v) \in Machines(V \cup {v})
  BY <1>2, PushedIs
<1> QED
  BY <1>2, <1>3 DEF SomeMachine

(* or the IP is turned or set down elsewhere,                              *)
LEMMA SomeTurned ==
  ASSUME NEW s, SomeMachine(s), NEW d \in Vectors
  PROVE  SomeMachine(Turned(s, d)) /\ SomeMachine([s EXCEPT !.pos = d])
<1>1. PICK V : Int \subseteq V /\ s \in Machines(V)
  BY DEF SomeMachine
<1>2. [s EXCEPT !.delta = d] \in Machines(V) /\ [s EXCEPT !.pos = d] \in Machines(V)
  BY <1>1, VectorInstead
<1> QED
  BY <1>1, <1>2 DEF SomeMachine, Turned

(* or the IP makes a step or turns back,                                   *)
LEMMA SomeStepped ==
  ASSUME NEW s, SomeMachine(s)
  PROVE  /\ SomeMachine(ip_forward(s)) /\ SomeMachine(ip_backward(s))
         /\ SomeMachine(ip_reverse(s))
BY SteppedIs, ReversedIs DEF SomeMachine

(* or a value, whatever it is, is written to funge-space,                  *)
LEMMA SomeSet ==
  ASSUME NEW s, SomeMachine(s), NEW c, NEW t, SomeMachine(t)
  PROVE  SomeMachine(fungespace_set(s, t.pos, c))
<1>1. PICK V : Int \subseteq V /\ s \in Machines(V)
  BY DEF SomeMachine
<1>2. s \in Machines(V \cup {c}) /\ Int \subseteq V \cup {c} /\ c \in V \cup {c}
  BY <1>1, MoreCells
<1>3. t.pos \in Vectors
  BY MachineParts DEF SomeMachine
<1>4. fungespace_set(s, t.pos, c) \in Machines(V \cup {c})
  BY <1>2, <1>3, SetIs
<1> QED
  BY <1>2, <1>4 DEF SomeMachine

(* or there is another stack.                                              *)
LEMMA SomeStack ==
  ASSUME NEW s, SomeMachine(s), NEW W, NEW z \in Seq(W)
  PROVE  SomeMachine([s EXCEPT !.stack = z])
BY AnyStack DEF SomeMachine

(* A number pushed is on top, and popped it leaves the machine it was.     *)
LEMMA SomeGiven ==
  ASSUME SomeMachine(toys), NEW n \in Int
  PROVE  /\ SomeMachine(With(<<n>>)) /\ Top(With(<<n>>).stack) = n
         /\ Popped(With(<<n>>), 1) = toys
<1>1. PICK V : Int \subseteq V /\ toys \in Machines(V)
  BY DEF SomeMachine
<1> DEFINE w == With(<<n>>)
<1>2. Given(w, toys, <<n>>)
  BY DEF With, Given
<1> HIDE DEF w
<1>3. w \in Machines(V) /\ Popped(w, 1) = toys /\ Top(w.stack) = n
  BY <1>1, <1>2, OneTaken
<1> QED
  BY <1>1, <1>3 DEF SomeMachine, w

(* k: the number of copies is n.                                           *)
LEMMA GableIsMachine ==
  ASSUME SomeMachine(toys), NEW n \in Int
  PROVE  SomeMachine(finger_TOYS_gable(With(<<n>>)))
<1> DEFINE s == With(<<n>>)
           c == Nth(s.stack, 2)
           t == Popped(s, 2)
           z == [at \in 1 .. n |-> c]
<1>1. SomeMachine(s) /\ Top(s.stack) = n
  BY SomeGiven
<1> HIDE DEF s
<1>2. SomeMachine(t)
  BY <1>1, SomePopped
<1>3. finger_TOYS_gable(s) = IF n < 0 THEN ip_reverse(t) ELSE [t EXCEPT !.stack = @ \o z]
  BY <1>1 DEF finger_TOYS_gable
<1> HIDE DEF t, c
<1>4. CASE n < 0
  BY <1>2, <1>3, <1>4, SomeStepped DEF s
<1>5. CASE ~(n < 0)
  <2>1. z \in Seq({c}) /\ n \in Nat
    BY <1>5
  <2>2. PICK V : Int \subseteq V /\ t \in Machines(V)
    BY <1>2 DEF SomeMachine
  <2> HIDE DEF z
  <2>3. t.stack \in Seq(V \cup {c}) /\ z \in Seq(V \cup {c})
    BY <2>1, <2>2, MachineParts
  <2>4. t.stack \o z \in Seq(V \cup {c})
    BY <2>3
  <2>5. SomeMachine([t EXCEPT !.stack = t.stack \o z])
    BY <1>2, <2>4, SomeStack
  <2> QED
    BY <1>3, <1>5, <2>5 DEF s
<1> QED
  BY <1>4, <1>5

(* An instruction that works on the stack alone leaves a machine.          *)
LEMMA OnStackIsMachine ==
  ASSUME SomeMachine(toys), OnStack
  PROVE  SomeMachine(toys')
<1>1. ASSUME NEW n \in Counts
      PROVE  /\ SomeMachine(finger_TOYS_gable(With(<<n>>)))
             /\ SomeMachine(finger_TOYS_pair_of_shoes(With(<<n>>)))
             /\ SomeMachine(finger_TOYS_toilet_seat(With(<<n>>)))
             /\ SomeMachine(finger_TOYS_doric_column(With(<<n>>)))
             /\ SomeMachine(finger_TOYS_lightning_bolt(With(<<n>>)))
             /\ SomeMachine(finger_TOYS_pair_of_stilts(With(<<n>>)))
  <2>1. n \in Int
    BY ToysAssumption
  <2> DEFINE s == With(<<n>>)
  <2>2. SomeMachine(s)
    BY <2>1, SomeGiven
  <2>3. SomeMachine(finger_TOYS_gable(s))
    BY <2>1, GableIsMachine
  <2> HIDE DEF s
  <2>4. \A v : SomeMachine(Result(s, v)) /\ SomeMachine(Replaced(s, v))
    <3>1. SomeMachine(Popped(s, 1)) /\ SomeMachine(Popped(s, 2))
      BY <2>2, SomePopped
    <3> QED
      BY <3>1, SomePushed DEF Result, Replaced
  <2>5. \A v, w : SomeMachine(Pushed(Result(s, v), w))
    BY <2>4, SomePushed
  <2>6. /\ SomeMachine(finger_TOYS_toilet_seat(s)) /\ SomeMachine(finger_TOYS_doric_column(s))
        /\ SomeMachine(finger_TOYS_lightning_bolt(s))
    BY <2>4 DEF finger_TOYS_toilet_seat, finger_TOYS_doric_column, finger_TOYS_lightning_bolt
  <2>7. SomeMachine(finger_TOYS_pair_of_shoes(s)) /\ SomeMachine(finger_TOYS_pair_of_stilts(s))
    BY <2>4, <2>5 DEF finger_TOYS_pair_of_shoes, finger_TOYS_pair_of_stilts
  <2> QED
    BY <2>3, <2>6, <2>7 DEF s
<1>2. SomeMachine(finger_TOYS_pitchfork_head(toys)) /\ SomeMachine(finger_TOYS_mailbox(toys))
  <2>1. \A v : SomeMachine([toys EXCEPT !.stack = <<v>>])
    <3> SUFFICES ASSUME NEW v PROVE SomeMachine([toys EXCEPT !.stack = <<v>>])
      OBVIOUS
    <3>1. <<v>> \in Seq({v})
      OBVIOUS
    <3> QED
      BY <3>1, SomeStack
  <2> QED
    BY <2>1 DEF finger_TOYS_pitchfork_head, finger_TOYS_mailbox
<1> QED
  BY <1>1, <1>2 DEF OnStack, Ones, Leads

(* W, whichever way it sends the IP, leaves a machine.                     *)
LEMMA TelevisionIsMachine ==
  ASSUME NEW V, Int \subseteq V, toys \in Machines(V), NEW p \in Vectors, NEW v \in Int
  PROVE  SomeMachine(finger_TOYS_television_antenna(With(<<v>> \o p)))
<1> DEFINE x == <<v>>
           z == <<v>> \o p
           s == With(z)
           q == To(s)
           c == Nth(s.stack, 3)
           r == Popped(s, 3)
           y == (r.stack \o <<c>>) \o Minus(q, r.offset)
<1>1. z \in Seq(Int) /\ Len(z) = 3
  <2>1. x \in Seq(Int) /\ Len(x) = 1 /\ p \in Seq(Int) /\ Len(p) = 2
    BY VectorIsText
  <2>2. z = x \o p
    OBVIOUS
  <2> HIDE DEF x, z
  <2>3. x \o p \in Seq(Int) /\ Len(x \o p) = Len(x) + Len(p)
    BY <2>1, ConcatProperties, Zenon
  <2> QED
    BY ONLY <2>1, <2>2, <2>3
<1> HIDE DEF z
<1>2. Given(s, toys, z)
  BY DEF With, Given
<1> HIDE DEF s
<1>3. /\ r = toys /\ \A at \in 1 .. 3 : Nth(s.stack, at) \in Int
  BY <1>1, <1>2, NumbersGiven
<1>4. q \in Vectors /\ c \in Int
  BY <1>3 DEF To, VectorAt, Vectors
<1> HIDE DEF q, c
<1>5. y \in Seq(V) /\ r.offset = s.offset
  <2>1. r.stack \in Seq(V) /\ <<c>> \in Seq(V) /\ r.offset \in Vectors
    BY <1>3, <1>4, MachineParts
  <2>2. Minus(q, r.offset) \in Seq(V)
    <3>1. Minus(q, r.offset) \in Vectors
      BY <1>4, <2>1, LesserIsVector
    <3>2. Minus(q, r.offset) \in Seq(Int)
      BY ONLY <3>1, VectorIsText
    <3> QED
      BY <3>2
  <2>3. r.stack \o <<c>> \in Seq(V)
    BY <2>1
  <2>4. s.offset = toys.offset
    BY <1>2, MachineParts DEF Given
  <2> QED
    BY <1>3, <2>2, <2>3, <2>4
<1>6. SomeMachine(r) /\ SomeMachine([r EXCEPT !.stack = y])
  <2>1. SomeMachine(r)
    BY <1>3 DEF SomeMachine
  <2> HIDE DEF r, y
  <2> QED
    BY <1>5, <2>1, SomeStack
<1>7. finger_TOYS_television_antenna(s)
        = IF At(s, q) < c THEN ip_backward([r EXCEPT !.stack = y])
          ELSE IF At(s, q) > c THEN ip_reverse(r) ELSE r
  <2>1. [r EXCEPT !.stack = y]
          = [r EXCEPT !.stack = @ \o <<c>> \o Minus(q, s.offset)]
    BY <1>5
  <2> HIDE DEF y
  <2> QED
    BY <2>1 DEF finger_TOYS_television_antenna, q, c
<1> HIDE DEF r, y
<1> QED
  BY <1>6, <1>7, SomeStepped DEF s, z

(* An instruction that works on the IP leaves a machine.                   *)
LEMMA OnIPIsMachine ==
  ASSUME SomeMachine(toys), OnIP
  PROVE  SomeMachine(toys')
<1>1. /\ North \in Vectors /\ East \in Vectors /\ South \in Vectors /\ West \in Vectors
  BY DEF North, East, South, West, Vectors
<1>2. ASSUME NEW n \in Counts
      PROVE  /\ SomeMachine(finger_TOYS_necklace(With(<<n>>)))
             /\ SomeMachine(finger_TOYS_barstool(With(<<n>>)))
  <2>1. n \in Int
    BY ToysAssumption
  <2> DEFINE s == With(<<n>>)
             b == ip_backward(Popped(s, 1))
  <2>2. SomeMachine(s)
    BY <2>1, SomeGiven
  <2> HIDE DEF s
  <2>3. SomeMachine(Popped(s, 1))
    BY <2>2, SomePopped
  <2>4. SomeMachine(b)
    BY <2>3, SomeStepped
  <2>5. SomeMachine(fungespace_set(b, b.pos, Top(s.stack)))
    BY <2>4, SomeSet
  <2>6. SomeMachine(finger_TOYS_necklace(s))
    BY <2>5, SomeStepped DEF finger_TOYS_necklace
  <2>7. SomeMachine(Popped(Popped(s, 1), 1))
    BY <2>3, SomePopped
  <2>8. /\ SomeMachine(if_east_west(Popped(s, 1))) /\ SomeMachine(if_north_south(Popped(s, 1)))
        /\ SomeMachine(ip_reverse(Popped(s, 1)))
    BY <1>1, <2>3, <2>7, SomeTurned, SomeStepped DEF if_east_west, if_north_south
  <2>9. SomeMachine(finger_TOYS_barstool(s))
    BY <2>8 DEF finger_TOYS_barstool
  <2> QED
    BY <2>6, <2>9 DEF s
<1>3. ASSUME NEW at \in 0 .. 3 PROVE SomeMachine(finger_TOYS_tumbler(toys, at))
  <2> DEFINE c == <<Code.north, Code.east, Code.south, Code.west>>
             d == <<North, East, South, West>>
  <2>1. d[at + 1] \in Vectors
    BY <1>1
  <2>2. SomeMachine(fungespace_set(toys, toys.pos, c[at + 1]))
    BY SomeSet
  <2>3. finger_TOYS_tumbler(toys, at)
          = Turned(fungespace_set(toys, toys.pos, c[at + 1]), d[at + 1])
    BY DEF finger_TOYS_tumbler
  <2> HIDE DEF c, d
  <2> QED
    BY <2>1, <2>2, <2>3, SomeTurned
<1>4. ASSUME NEW p \in Corners, NEW v \in Counts
      PROVE  SomeMachine(finger_TOYS_television_antenna(With(<<v>> \o p)))
  <2>1. p \in Vectors /\ v \in Int
    BY ToysAssumption DEF Vectors
  <2>2. PICK V : Int \subseteq V /\ toys \in Machines(V)
    BY DEF SomeMachine
  <2> QED
    BY <2>1, <2>2, TelevisionIsMachine
<1>5. /\ SomeMachine(finger_TOYS_buried_treasure(toys)) /\ SomeMachine(finger_TOYS_slingshot(toys))
      /\ SomeMachine(finger_TOYS_barn_door(toys))
  <2>1. toys.pos \in Vectors
    BY MachineParts DEF SomeMachine
  <2>2. Plus(toys.pos, East) \in Vectors /\ Plus(toys.pos, South) \in Vectors
    BY <1>1, <2>1, LesserIsVector
  <2>3. /\ finger_TOYS_buried_treasure(toys) = [toys EXCEPT !.pos = Plus(toys.pos, East)]
        /\ finger_TOYS_slingshot(toys) = [toys EXCEPT !.pos = Plus(toys.pos, South)]
    BY DEF finger_TOYS_buried_treasure, finger_TOYS_slingshot
  <2> QED
    BY <2>2, <2>3, SomeTurned, SomeStepped DEF finger_TOYS_barn_door
<1> QED
  BY <1>2, <1>3, <1>4, <1>5 DEF OnIP, Ones, Leads

(* Every instruction leaves a machine.                                     *)
LEMMA ToysNextIsMachine ==
  SomeMachine(toys) /\ [ToysNext]_toysVars => SomeMachine(toys')
<1> SUFFICES ASSUME SomeMachine(toys), [ToysNext]_toysVars PROVE SomeMachine(toys')
  OBVIOUS
<1>1. PICK V : Int \subseteq V /\ toys \in Machines(V)
  BY DEF SomeMachine
<1>2. Corners \subseteq Vectors /\ Sizes \subseteq Vectors /\ Counts \subseteq Int
  BY ToysAssumption DEF Vectors
<1>3. \A m : m \in Machines(V) => SomeMachine(m)
  BY <1>1 DEF SomeMachine
<1>4. ASSUME Bracelet \/ Scissors \/ Kittycat \/ Dixiecup PROVE SomeMachine(toys')
  <2>1. ASSUME NEW o \in Corners, NEW g \in Corners, NEW d \in Sizes
        PROVE  /\ finger_TOYS_bracelet(With(o \o d \o g)) \in Machines(V)
               /\ finger_TOYS_scissors(With(o \o d \o g)) \in Machines(V)
               /\ finger_TOYS_kittycat(With(o \o d \o g)) \in Machines(V)
               /\ finger_TOYS_dixiecup(With(o \o d \o g)) \in Machines(V)
    BY <1>1, <1>2, AreaIsMachine
  <2>2. toys' \in Machines(V)
    BY <1>4, <2>1 DEF Bracelet, Scissors, Kittycat, Dixiecup, Area, Leads
  <2> QED
    BY <1>3, <2>2
<1>5. ASSUME Chicane PROVE SomeMachine(toys')
  <2>1. PICK o \in Corners, d \in Sizes, c \in {Code.blank, 7} :
          toys' = finger_TOYS_chicane(With(<<c>> \o d \o o))
    BY <1>5 DEF Chicane, Leads
  <2>2. c \in Int
    BY DEF Code
  <2> QED
    BY <1>1, <1>2, <1>3, <2>1, <2>2, ChicaneIsMachine
<1>6. ASSUME Calipers \/ Counterclockwise PROVE SomeMachine(toys')
  <2>1. ASSUME NEW o \in Corners, NEW d \in Sizes
        PROVE  /\ finger_TOYS_calipers(With(d \o o)) \in Machines(V)
               /\ finger_TOYS_counterclockwise(With(d \o o)) \in Machines(V)
    BY <1>1, <1>2, MatrixIsMachine
  <2>2. toys' \in Machines(V)
    BY <1>6, <2>1 DEF Calipers, Counterclockwise, Leads
  <2> QED
    BY <1>3, <2>2
<1>7. ASSUME Fishhook \/ Boulder PROVE SomeMachine(toys')
  <2>1. ASSUME NEW n \in Counts, NEW s \in Bounded(With(<<n>>))
        PROVE  finger_TOYS_fishhook(s) \in Machines(V) /\ finger_TOYS_boulder(s) \in Machines(V)
    BY <1>1, <1>2, ShiftIsMachine
  <2>2. toys' \in Machines(V)
    BY <1>7, <2>1 DEF Fishhook, Boulder, Shifts, Leads
  <2> QED
    BY <1>3, <2>2
<1>8. ASSUME UNCHANGED toysVars PROVE SomeMachine(toys')
  BY <1>8 DEF toysVars
<1> QED
  BY <1>4, <1>5, <1>6, <1>7, <1>8, OnStackIsMachine, OnIPIsMachine DEF ToysNext

(* The instructions of TOYS that copy and move areas of funge-space        *)
(* (finger_TOYS_bracelet, scissors, kittycat and dixiecup), carry them     *)
(* over the stack (counterclockwise and calipers) and shift a row or a     *)
(* column (boulder and fishhook) bring every cell to where it belongs,     *)
(* though they read and write one cell after the other and source and      *)
(* target may overlap: for every field, every corner, every size and every *)
(* shift, after any of the instructions.                                   *)
THEOREM AreasAlwaysArrive == ToysSpec => []AreasArrive
<1>1. ToysInit => SomeMachine(toys)
  BY InitIsMachine
<1>2. SomeMachine(toys) /\ [ToysNext]_toysVars => SomeMachine(toys)'
  BY ToysNextIsMachine DEF SomeMachine
<1>3. SomeMachine(toys) => AreasArrive
  BY MachineDelivers
<1> QED
  BY <1>1, <1>2, <1>3, PTL DEF ToysSpec

=============================================================================
