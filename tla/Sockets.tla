------------------------------ MODULE Sockets -------------------------------
(***************************************************************************)
(* The fingerprints SOCK and SCKE: the table of sockets, shared by all IPs,*)
(* over the descriptors of the kernel. The kernel is external: it gives    *)
(* out the lowest descriptor that is not open, and each of its calls may   *)
(* succeed or fail. What is sent and received is not looked at, only how   *)
(* much of it goes to funge-space.                                         *)
(***************************************************************************)
EXTENDS HandleTable

CONSTANTS SocketHandle,    \* the cells taken for handles
          MaxBytes,        \* bound: bytes asked for
          MaxDescriptor    \* bound: descriptors

SocketAssumption ==
    /\ MaxDescriptor \in Nat
    /\ NoEntry \notin [fd : -1 .. MaxDescriptor,
                       family : {"AF_UNIX", "AF_INET", "unset"}]

VARIABLES sockets,     \* FungeSocketHandle* sockets[]
          descriptors, \* the open ones
          answered

socketVars == <<sockets, descriptors, answered>>

Family == {"AF_UNIX", "AF_INET"}
Invalid == -1

SocketInit == /\ sockets = EmptyTable
              /\ descriptors = {}
              /\ answered = [pushed |-> <<>>, stored |-> 0, reflects |-> FALSE]

Answers(pushed, stored, reflects) ==
    answered' = [pushed |-> pushed, stored |-> stored, reflects |-> reflects]

Keeps == UNCHANGED <<sockets, descriptors>>
Fails == Answers(<<>>, 0, TRUE)
Unclosed == 0 .. MaxDescriptor \ descriptors
Lowest   == CHOOSE d \in Unclosed : \A e \in Unclosed : d <= e

DescriptorOf(h) == At(sockets, h).fd
IsOpen(h)       == DescriptorOf(h) \in descriptors

(* A call of the kernel on a handle's descriptor, which fails at least when
   that is not open. *)
Works(h) == valid_handle(sockets, h) /\ IsOpen(h)
-----------------------------------------------------------------------------
(* Arguments that are none, no memory, or no socket: the handle that was
   allocated stays, with the descriptor the failed call left in it. *)
finger_SOCK_create == \E fam \in Family :
    LET h         == NextFree(sockets)
        Now(fd)   == allocate_handle(sockets, [fd |-> fd, family |-> fam])
        Unset(fd) == allocate_handle(sockets, [fd |-> fd, family |-> "unset"])
    IN  \/ /\ sockets' \in Starved(sockets)
           /\ UNCHANGED descriptors
           /\ Fails
        \/ sockets' = Unset(Invalid) /\ UNCHANGED descriptors /\ Fails
        \/ /\ Unclosed # {}
           /\ sockets' = Unset(Lowest) /\ UNCHANGED descriptors /\ Fails
        \/ /\ Unclosed # {}
           /\ sockets' = Now(Lowest)
           /\ descriptors' = descriptors \cup {Lowest}
           /\ Answers(<<h>>, 0, FALSE)

finger_SOCK_accept_NotClosed == \E s \in SocketHandle :
    \/ /\ Works(s) /\ Unclosed # {}
       /\ sockets' \in Starved(sockets)
       /\ descriptors' = descriptors \cup {Lowest}
       /\ Fails
    \/ /\ Works(s) /\ Unclosed # {}
       /\ sockets' = allocate_handle(sockets, [fd |-> Lowest, family |-> At(sockets, s).family])
       /\ descriptors' = descriptors \cup {Lowest}
       /\ Answers(<<"port", "address", NextFree(sockets)>>, 0, FALSE)

finger_SOCK_accept == \E s \in SocketHandle :
    \/ /\ ~Works(s) \/ Unclosed # {}
       /\ sockets' \in {sockets} \cup IF Works(s) THEN Starved(sockets) ELSE {}
       /\ UNCHANGED descriptors
       /\ Fails
    \/ /\ Works(s) /\ Unclosed # {}
       /\ sockets' = allocate_handle(sockets, [fd |-> Lowest, family |-> At(sockets, s).family])
       /\ descriptors' = descriptors \cup {Lowest}
       /\ Answers(<<"port", "address", NextFree(sockets)>>, 0, FALSE)

(* A call that changes nothing here, if its arguments are in order. *)
Tries(h, inOrder) == /\ \/ inOrder /\ Works(h) /\ Answers(<<>>, 0, FALSE)
                        \/ Fails
                     /\ Keeps

finger_SOCK_bind   == \E s \in SocketHandle, fam \in Family : Tries(s, fam = "AF_INET")
finger_SOCK_open   == \E s \in SocketHandle, fam \in Family : Tries(s, fam = "AF_INET")
finger_SOCK_listen == \E s \in SocketHandle : Tries(s, TRUE)
finger_SOCK_setopt == \E s \in SocketHandle, t \in 0 .. 7 : Tries(s, t \in 1 .. 6)

finger_SOCK_fromascii == (Answers(<<"address">>, 0, FALSE) \/ Fails) /\ Keeps

(* shutdown and close; the handle is gone even if close fails, as it does when
   the descriptor is not open. *)
finger_SOCK_kill == \E s \in SocketHandle :
    \/ ~valid_handle(sockets, s) /\ Fails /\ Keeps
    \/ /\ valid_handle(sockets, s)
       /\ sockets' = free_handle(sockets, s)
       /\ descriptors' = descriptors \ {DescriptorOf(s)}
       /\ \/ IsOpen(s) /\ Answers(<<>>, 0, FALSE)
          \/ Fails

(* Pushes how many bytes went, -1 for an error, which reflects as well; bad
   arguments and no memory push nothing. *)
finger_SOCK_receive == \E s \in SocketHandle, len \in -1 .. MaxBytes :
    /\ \/ Fails
       \/ len >= 0 /\ valid_handle(sockets, s) /\ Answers(<<-1>>, 0, TRUE)
       \/ Works(s) /\ \E got \in 0 .. len : Answers(<<got>>, got, FALSE)
    /\ Keeps

finger_SOCK_write == \E s \in SocketHandle, len \in -1 .. MaxBytes :
    /\ \/ Fails
       \/ len >= 0 /\ valid_handle(sockets, s) /\ Answers(<<-1>>, 0, TRUE)
       \/ Works(s) /\ \E sent \in 0 .. len : Answers(<<sent>>, 0, FALSE)
    /\ Keeps

finger_SCKE_gethostbyname == (Answers(<<"address">>, 0, FALSE) \/ Fails) /\ Keeps

(* poll passes over an invalid descriptor, and says of one that is not open that
   there is something, but no data. *)
finger_SCKE_peek == \E s \in SocketHandle :
    /\ \/ Fails
       \/ /\ valid_handle(sockets, s)
          /\ IsOpen(s) \/ DescriptorOf(s) = Invalid
          /\ Answers(<<0>>, 0, FALSE)
       \/ Works(s) /\ Answers(<<1>>, 0, FALSE)
    /\ Keeps

SocketNext == \/ finger_SOCK_create \/ finger_SOCK_accept \/ finger_SOCK_kill
              \/ finger_SOCK_bind \/ finger_SOCK_open \/ finger_SOCK_listen
              \/ finger_SOCK_setopt \/ finger_SOCK_fromascii
              \/ finger_SOCK_receive \/ finger_SOCK_write
              \/ finger_SCKE_gethostbyname \/ finger_SCKE_peek

SocketSpec == SocketInit /\ [][SocketNext]_socketVars
-----------------------------------------------------------------------------
(* Every open descriptor can still be closed through a handle, even though a
   failed S leaves handles behind whose descriptor is none, or one that another
   socket has by now. *)
SocketsHeld == \A d \in descriptors : \E h \in Valid(sockets) : DescriptorOf(h) = d
=============================================================================
