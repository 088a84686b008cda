----------------------------- MODULE Semantics ------------------------------
(***************************************************************************)
(* What the fingerprint manager promises. Every IP has, for each letter, a *)
(* stack of semantics of its own: loading a fingerprint pushes one on each *)
(* of its letters, unloading drops one from each, and FING moves them. The *)
(* semantic on top is what the letter does, and a letter without one       *)
(* reflects. Memory may run out wherever a stack has to grow.              *)
(***************************************************************************)
EXTENDS Integers, Sequences, SequencesExt

CONSTANTS IP, Letter, Fingerprints, Reflect,
          FingLetters   \* the letters FING is told to work on

VARIABLES ips,    \* the IPs that live
          sem,    \* their stacks of semantics, top last
          reply   \* did the last call reflect the IP?

vars == <<ips, sem, reply>>

Dropped(s) == IF s = <<>> THEN s ELSE Front(s)
TopOf(s)   == IF s = <<>> THEN Reflect ELSE Last(s)

(* One semantic pushed on each of the letters, one dropped from each. *)
PushedOn(own, f, letters) ==
    [l \in Letter |-> IF l \in letters THEN Append(own[l], <<f.name, l>>) ELSE own[l]]
DroppedFrom(own, letters) ==
    [l \in Letter |-> IF l \in letters THEN Dropped(own[l]) ELSE own[l]]

Init == /\ \E ip \in IP : ips = {ip}
        /\ sem = [ip \in IP |-> [l \in Letter |-> <<>>]]
        /\ reply = "ok"

Becomes(ip, own, answer) == /\ reply' = answer
                            /\ sem' = [sem EXCEPT ![ip] = own]
                            /\ UNCHANGED ips

(* What was pushed before memory ran out stays. *)
Load(ip, f) == \E n \in 0 .. Len(f.loads) :
    Becomes(ip, PushedOn(sem[ip], f, Range(SubSeq(f.loads, 1, n))),
            IF n = Len(f.loads) THEN "loaded" ELSE "reflected")

Unload(ip, f) == Becomes(ip, DroppedFrom(sem[ip], f.opcodes), "ok")

Refused(ip) == Becomes(ip, sem[ip], "reflected")
Other(ip)   == Becomes(ip, sem[ip], "ok")

(* FING exchanges the tops of two letters: the first one's comes to lie on
   the second letter before the second one's comes on the first. *)
Swap(ip, first, second) ==
    LET a     == [sem[ip] EXCEPT ![first] = Dropped(@)]
        b     == [a EXCEPT ![second] = Dropped(@)]
        half  == [b EXCEPT ![second] = Append(@, TopOf(sem[ip][first]))]
        whole == [half EXCEPT ![first] = Append(@, TopOf(a[second]))]
    IN  \/ Becomes(ip, whole, "ok")
        \/ Becomes(ip, half, "reflected")
        \/ Becomes(ip, b, "reflected")

Drop(ip, l) == Becomes(ip, [sem[ip] EXCEPT ![l] = Dropped(@)], "ok")

Push(ip, dst, src) ==
    \/ Becomes(ip, [sem[ip] EXCEPT ![dst] = Append(@, TopOf(sem[ip][src]))], "ok")
    \/ Refused(ip)

Split(ip) == \E child \in IP \ ips :
    /\ ips' = ips \cup {child}
    /\ sem' = [sem EXCEPT ![child] = sem[ip]]
    /\ reply' = "ok"

Die(ip) == /\ ips' = ips \ {ip}
           /\ sem' = [sem EXCEPT ![ip] = [l \in Letter |-> <<>>]]
           /\ reply' = "ok"

Next == \E ip \in ips :
    \/ Refused(ip) \/ Other(ip)
    \/ \E first, second \in FingLetters : Swap(ip, first, second) \/ Push(ip, first, second)
    \/ \E l \in FingLetters : Drop(ip, l)
    \/ Split(ip) \/ Die(ip)
    \/ \E f \in Fingerprints : Load(ip, f) \/ Unload(ip, f)

Spec == Init /\ [][Next]_vars
=============================================================================
