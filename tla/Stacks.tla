-------------------------------- MODULE Stacks --------------------------------
(***************************************************************************)
(* What the stacks promise the program (src/src/stack.h), independently of *)
(* how they are stored: every IP has a stack of stacks of its own, a stack *)
(* is a sequence of cells, the top last, over an unlimited supply of       *)
(* zeros, and a stack remembers the storage offset it replaced.            *)
(***************************************************************************)
EXTENDS Integers, SequencesExt

CONSTANTS
  IP,       \* the instruction pointers
  Cell,     \* the values the program pushes
  String,   \* the strings it pushes
  Corner    \* the positions { makes the storage offset

VARIABLES
  stacks,   \* the stack of stacks of every IP, <<>> before t and after @
  offset    \* the storage offset of every IP

vars == <<stacks, offset>>

Alive == {ip \in IP : stacks[ip] # <<>>}

(* The top n cells of s, in order, and what is left without them; no cells *)
(* when n is negative.                                                     *)
TopMost(s, n) == [k \in 1 .. n |-> IF Len(s) - n + k > 0 THEN s[Len(s) - n + k]
                                   ELSE 0]
Drop(s, n)    == IF n > 0 THEN SubSeq(s, 1, Len(s) - n) ELSE s
Zeros(n)      == [k \in 1 .. n |-> 0]
Top(s)        == TopMost(s, 1)[1]

-----------------------------------------------------------------------------
(* Instructions that look at one stack only: what s may become.            *)
Swapped(s)    == Drop(s, 2) \o Reverse(TopMost(s, 2))
Pushed(s, z)  == s \o Reverse(z)                        \* 0"gnirts"
Popped(s)     == LET Ends(n) == \/ n = Len(s) + 1
                                \/ n > 0 /\ TopMost(s, n)[1] = 0
                 IN  Drop(s, CHOOSE n \in 1 .. Len(s) + 1 :
                               Ends(n) /\ \A k \in 1 .. n - 1 : ~Ends(k))
Pick(s, n)    == Append(s, TopMost(s, n + 1)[1])
Roll(s, n)    == IF n < Len(s)
                   THEN Drop(s, n + 1) \o TopMost(s, n) \o TopMost(Drop(s, n), 1)
                   ELSE Append(s, 0)

Changed(s) ==
  {Append(s, v) : v \in Cell}
  \cup {Append(s, Len(s)), Drop(s, 1), <<>>, Swapped(s), Popped(s)}
  \cup {Drop(s, 1) \o <<Top(s), Top(s)>>}
  \cup {Pushed(s, z) : z \in String}
  \cup (IF Top(s) < 0 THEN {}
        ELSE {Pick(Drop(s, 1), Top(s)), Roll(Drop(s, 1), Top(s))})

Instruction(ip) ==
  /\ \E s \in Changed(Last(stacks[ip])) :
       stacks' = [stacks EXCEPT ![ip] = Append(Front(@), s)]
  /\ UNCHANGED offset

-----------------------------------------------------------------------------
(* { with count n: n cells move to a new stack, or -n zeros are pushed     *)
(* below it, and the storage offset is kept there.                         *)
Begin(ip, corner) ==
  LET n == Top(Last(stacks[ip]))
      s == Drop(Last(stacks[ip]), 1)
  IN  /\ stacks' = [stacks EXCEPT ![ip] =
                      Front(@) \o <<Drop(s, n) \o Zeros(-n) \o offset[ip],
                                    TopMost(s, n)>>]
      /\ offset' = [offset EXCEPT ![ip] = corner]

(* } with count n: the stack is closed and the storage offset restored; n  *)
(* of its cells move to the one below it, or -n of those are dropped.      *)
End(ip) ==
  LET n    == Top(Last(stacks[ip]))
      TOSS == Drop(Last(stacks[ip]), 1)
      SOSS == Last(Front(stacks[ip]))
      s    == Drop(SOSS, 2)
  IN  /\ stacks' = [stacks EXCEPT ![ip] =
                      Append(Front(Front(@)), Drop(s, -n) \o TopMost(TOSS, n))]
      /\ offset' = [offset EXCEPT ![ip] = TopMost(SOSS, 2)]

(* u with count n: n cells move over from below, or -n the other way, and  *)
(* are reversed by it.                                                     *)
Transfer(ip) ==
  LET n    == Top(Last(stacks[ip]))
      TOSS == Drop(Last(stacks[ip]), 1)
      SOSS == Last(Front(stacks[ip]))
  IN  /\ stacks' = [stacks EXCEPT ![ip] =
                      Front(Front(@)) \o
                      <<Drop(SOSS, n) \o Reverse(TopMost(TOSS, -n)),
                        Drop(TOSS, -n) \o Reverse(TopMost(SOSS, n))>>]
      /\ UNCHANGED offset

(* t: a child starts with a copy of everything its parent has.             *)
Split(ip, child) ==
  /\ child \notin Alive
  /\ stacks' = [stacks EXCEPT ![child] = stacks[ip]]
  /\ offset' = [offset EXCEPT ![child] = offset[ip]]

Quit(ip) == /\ stacks' = [stacks EXCEPT ![ip] = <<>>]
            /\ UNCHANGED offset

-----------------------------------------------------------------------------
Init == \E first \in IP :
          /\ stacks = [ip \in IP |-> IF ip = first THEN <<<<>>>> ELSE <<>>]
          /\ offset = [ip \in IP |-> <<0, 0>>]

Next ==
  \E ip \in Alive :
    \/ Instruction(ip)
    \/ \E corner \in Corner : Begin(ip, corner)
    \/ Len(stacks[ip]) > 1 /\ (End(ip) \/ Transfer(ip))
    \/ \E child \in IP : Split(ip, child)
    \/ Quit(ip)

Spec == Init /\ [][Next]_vars
=============================================================================
