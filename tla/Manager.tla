------------------------------ MODULE Manager -------------------------------
(***************************************************************************)
(* The fingerprint manager, the instructions ( and ) that call it, A to Z  *)
(* that call what it loaded, and FING, which is loaded by it and changes   *)
(* what A to Z do, FING's own letters included. The stacks of semantics    *)
(* are arrays that grow and never shrink: what was popped stays in them.   *)
(***************************************************************************)
EXTENDS Fingerprints

CONSTANTS IP,
          Requests,   \* the cells popped by ( and ), first popped first
          Specs,      \* the cells FING takes for letters
          Sandbox, FingerprintsDisabled,
          Unwritten,  \* what realloc leaves in the slots it adds
          MaxTop      \* bound: semantics a letter has

VARIABLES ips, fingerOpcodes, reply
vars == <<ips, fingerOpcodes, reply>>

ALLOCCHUNKSIZE == 2
Letter  == {Alphabet[i] : i \in 1 .. 26}
Reflect == <<"FING", "do_reflect">>
None    == <<"none", "NULL">>
Empty   == [top |-> 0, entries |-> <<>>]

Live(stack) == SubSeq(stack.entries, 1, stack.top)

(* The stack of a letter after a push, if there is memory to grow it. *)
Grown(stack) ==
    IF stack.top = Len(stack.entries)
    THEN stack.entries \o [i \in 1 .. ALLOCCHUNKSIZE |-> Unwritten]
    ELSE stack.entries
Pushed(stack, func) ==
    [top |-> stack.top + 1, entries |-> [Grown(stack) EXCEPT ![stack.top + 1] = func]]
MayFail(stack) == stack.top = Len(stack.entries)

Popped(stack) == IF stack.top = 0 THEN None ELSE stack.entries[stack.top]

opcode_stack_drop(stack) == [stack EXCEPT !.top = IF @ = 0 THEN 0 ELSE @ - 1]

(* t gives the child arrays of its own, with room for one more. *)
opcode_stack_duplicate_Short(stack) ==
    IF stack.top = 0 THEN Empty
    ELSE [top |-> stack.top, entries |-> Append(SubSeq(stack.entries, 1, stack.top - 1), Unwritten)]
opcode_stack_duplicate(stack) ==
    IF stack.top = 0 THEN Empty
    ELSE [top |-> stack.top, entries |-> Append(Live(stack), Unwritten)]

find_fingerprint(fprint) ==
    LET n        == Len(ImplementedFingerprints)
        notBelow == {i \in 1 .. n : fprint <= ImplementedFingerprints[i].fprint}
        found    == {i \in notBelow : \A j \in notBelow : i <= j}
    IN  {i \in found : /\ ImplementedFingerprints[i].fprint = fprint
                       /\ Sandbox => ImplementedFingerprints[i].safe}

FprintOf(cells) == FoldLeft(LAMBDA fprint, cell : fprint * 256 + cell, 0, cells)
Found == [cells \in Requests |-> find_fingerprint(FprintOf(cells))]

(* The letters, no two of them the same, as a loader pushes them and as
   manager_unload drops them. *)
LoadedOn(stack, f, l, letters) == IF l \in letters THEN Pushed(stack, <<f.name, l>>) ELSE stack
UnloadedOn(stack, f, l) == IF l \in f.opcodes THEN opcode_stack_drop(stack) ELSE stack

(* A loader gives up at the first letter whose stack cannot grow. *)
FailsAt(own, f) == {n \in 1 .. Len(f.loads) : MayFail(own[f.loads[n]])}
-----------------------------------------------------------------------------
Init == /\ \E ip \in IP : ips = {ip}
        /\ fingerOpcodes = [ip \in IP |-> [l \in Letter |-> Empty]]
        /\ reply = "ok"

Becomes(ip, own, answer) ==
    /\ \A l \in Letter : own[l].top <= MaxTop
    /\ fingerOpcodes' = [fingerOpcodes EXCEPT ![ip] = own]
    /\ reply' = answer
    /\ UNCHANGED ips

Reflects(ip) == Becomes(ip, fingerOpcodes[ip], "reflected")

(* A request of no cells stands for a count below one. *)
Refuses(cells) == \/ cells = <<>>
                  \/ FingerprintsDisabled
                  \/ Found[cells] = {}

Rejected(ip) == /\ {cells \in Requests : Refuses(cells)} # {}
                /\ Reflects(ip)

Load(ip, cells) ==
    /\ ~Refuses(cells)
    /\ \E i \in Found[cells] :
          LET f           == ImplementedFingerprints[i]
              own         == fingerOpcodes[ip]
              After(some) == [l \in Letter |-> LoadedOn(own[l], f, l, some)]
          IN  \/ Becomes(ip, After(Range(f.loads)), "loaded")
              \/ \E n \in FailsAt(own, f) :
                    Becomes(ip, After(Range(SubSeq(f.loads, 1, n - 1))), "reflected")

Unload(ip, cells) ==
    /\ ~Refuses(cells)
    /\ \E i \in Found[cells] :
          Becomes(ip, [l \in Letter |->
                          UnloadedOn(fingerOpcodes[ip][l], ImplementedFingerprints[i], l)], "ok")
-----------------------------------------------------------------------------
(* The letter a cell names: 0 to 25 or A to Z, else none. *)
pop_stack_spec(n) == CASE n \in 0 .. 25  -> {Alphabet[n + 1]}
                       [] n \in 65 .. 90 -> {Alphabet[n - 64]}
                       [] OTHER          -> {}

FingLetters == UNION {pop_stack_spec(n) : n \in Specs}

Named(func) == IF func = None THEN Reflect ELSE func

finger_FING_swap(ip) == \E first, second \in FingLetters :
    LET own  == fingerOpcodes[ip]
        one  == [own EXCEPT ![first] = opcode_stack_drop(@)]
        both == [one EXCEPT ![second] = opcode_stack_drop(@)]
        half == [both EXCEPT ![second] = Pushed(@, Named(Popped(own[first])))]
    IN  \/ Becomes(ip, [half EXCEPT ![first] = Pushed(@, Named(Popped(one[second])))], "ok")
        \/ MayFail(both[second]) /\ Becomes(ip, both, "reflected")
        \/ MayFail(half[first]) /\ Becomes(ip, half, "reflected")

finger_FING_drop(ip) == \E l \in FingLetters :
    Becomes(ip, [fingerOpcodes[ip] EXCEPT ![l] = opcode_stack_drop(@)], "ok")

(* The source is popped and pushed again before the destination is pushed. *)
finger_FING_push(ip) == \E dst, src \in FingLetters :
    LET own  == fingerOpcodes[ip]
        op   == Popped(own[src])
        kept == IF op = None THEN own
                ELSE [own EXCEPT ![src] = Pushed(opcode_stack_drop(@), op)]
    IN  \/ Becomes(ip, [kept EXCEPT ![dst] = Pushed(@, Named(op))], "ok")
        \/ MayFail(kept[dst]) /\ Becomes(ip, kept, "reflected")

(* What a letter does: nothing the manager sees unless its semantic is FING's,
   NULL's or the reflection FING puts in an empty place. *)
Semantic(ip, l) == IF FingerprintsDisabled THEN None ELSE Popped(fingerOpcodes[ip][l])
Reverses(func)  == func \in {None, Reflect} \/ func[1] = "NULL"

handle_fprint(ip) ==
    LET funcs == {Semantic(ip, l) : l \in Letter}
    IN  \/ {f \in funcs : Reverses(f)} # {} /\ Reflects(ip)
        \/ /\ {f \in funcs : ~Reverses(f) /\ f[1] # "FING"} # {}
           /\ Becomes(ip, fingerOpcodes[ip], "ok")
        \/ <<"FING", "X">> \in funcs /\ finger_FING_swap(ip)
        \/ <<"FING", "Y">> \in funcs /\ finger_FING_drop(ip)
        \/ <<"FING", "Z">> \in funcs /\ finger_FING_push(ip)
        \/ /\ {n \in Specs : pop_stack_spec(n) = {}} # {}
           /\ funcs \cap {<<"FING", l>> : l \in {"X", "Y", "Z"}} # {}
           /\ Reflects(ip)
-----------------------------------------------------------------------------
manager_duplicate(ip) == \E child \in IP \ ips :
    /\ ips' = ips \cup {child}
    /\ fingerOpcodes' = [fingerOpcodes EXCEPT ![child] =
          [l \in Letter |-> opcode_stack_duplicate(fingerOpcodes[ip][l])]]
    /\ reply' = "ok"

manager_free(ip) == /\ ips' = ips \ {ip}
                    /\ fingerOpcodes' = [fingerOpcodes EXCEPT ![ip] = [l \in Letter |-> Empty]]
                    /\ reply' = "ok"

Next == \E ip \in ips :
    \/ Rejected(ip)
    \/ \E cells \in Requests : Load(ip, cells) \/ Unload(ip, cells)
    \/ handle_fprint(ip)
    \/ manager_duplicate(ip)
    \/ manager_free(ip)

Spec == Init /\ [][Next]_vars
-----------------------------------------------------------------------------
SemOf(own) == [l \in Letter |-> Live(own[l])]

(* The arrays, their growth, what lies in them beyond the top and the order in
   which FING pops and pushes implement a stack of semantics per IP and letter;
   no IP sees what another one loads. *)
S == INSTANCE Semantics WITH
        Fingerprints <- {ImplementedFingerprints[i] : i \in UNION Range(Found)},
        sem <- [ip \in IP |-> SemOf(fingerOpcodes[ip])]
ImplementsSemantics == S!Spec

(* Unloading a fingerprint right after it was loaded gives back what every
   letter did before, whatever was loaded below it: the letters its loader
   pushes are the letters the table says it has. For every fingerprint but NULL. *)
ComesOff(names) ==
    reply' = "loaded" =>
        \A ip \in ips, cells \in Requests : Load(ip, cells) =>
            \A i \in Found[cells] :
                LET f == ImplementedFingerprints[i]
                IN  f.name \in names =>
                        \A l \in Letter : Live(UnloadedOn(fingerOpcodes'[ip][l], f, l))
                                          = Live(fingerOpcodes[ip][l])

Names == {f.name : f \in Range(ImplementedFingerprints)}

UnloadUndoesLoad == [][ComesOff(Names \ {"NULL"})]_vars

(* NULL.spec lists all of A to Z, so unloading NULL drops a semantic from each
   of them; that should be the one loading it has pushed. *)
NullComesOff == [][ComesOff({"NULL"})]_vars
=============================================================================
