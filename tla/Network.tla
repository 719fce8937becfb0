------------------------------- MODULE Network -------------------------------
(***************************************************************************)
(* The datagram sockets between one client and the server process forked   *)
(* for it, with the packets of srej.h.  Both programs send through         *)
(* sendtoErr, which may drop a packet or flip the bits of one of its       *)
(* bytes; a flipped packet fails the checksum of retrieveHeader, so it     *)
(* arrives as CRC_ERROR.  UDP itself may also delay or duplicate.          *)
(***************************************************************************)
EXTENDS Integers, Sequences, FiniteSets

CONSTANTS
    Fates,      \* what may befall a packet, among Misfortunes
    MaxFaults   \* bound: packets that suffer one of Fates

Misfortunes == {"dropped", "flipped", "late", "twice"}

ASSUME NetworkAssumption == Fates \subseteq Misfortunes /\ MaxFaults \in Nat

VARIABLES
    toServer,   \* the socket of the server process
    toClient,   \* the socket of the client
    faults      \* packets hit so far

networkVars == <<toServer, toClient, faults>>

Flags == {"SETUP_RES", "DATA", "RR", "SREJ", "FNAME", "FNAME_RES", "EoF",
          "TERMINATE", "FOPEN_ERR", "CRC_ERROR"}

\* seq is the sequence number of a DATA packet and the number an RR or an SREJ
\* carries in its data; no receiver reads it in the others.  from is the name
\* of the socket that sent it.
Messages == [flag : Flags, seq : Nat, data : Seq(Nat), from : Nat]

Packet(flag, seq, data) ==
    [flag |-> flag, seq |-> seq, data |-> data, from |-> 0]
Signal(flag)            == Packet(flag, 0, <<>>)
Garbled                 == Signal("CRC_ERROR")

\* A socket: the datagrams that select sees and recvfrom returns in order, the
\* copies still on their way, whether it is open, which of the sockets that its
\* process opened it is, and the socket that its Connection's remote names.
Sockets == [inbox : Seq(Messages), late : SUBSET Messages, open : BOOLEAN,
            name : Nat, remote : Nat]

EmptySocket(n, open) ==
    [inbox |-> <<>>, late |-> {}, open |-> open, name |-> n, remote |-> 0]

NewSocket(n) == EmptySocket(n, TRUE)

FreshSocket == NewSocket(0)

ClosedSocket == EmptySocket(0, FALSE)

\* Every message that a socket holds or may still receive.
OnTheWay(socket) ==
    {socket.inbox[i] : i \in DOMAIN socket.inbox} \cup socket.late

\* select returns 1.
Readable(socket) == socket.inbox # <<>>

\* recvfrom takes the first datagram and stores its sender in remote, whoever
\* that is and whether the checksum will hold or not.
Received(socket) ==
    [socket EXCEPT !.inbox = Tail(@), !.remote = Head(socket.inbox).from]

\* What arrives of a packet that met a fate.
Arrives(m, fate) ==
    IF fate = "flipped" THEN [Garbled EXCEPT !.from = m.from] ELSE m

Hit(fate)      == {k \in DOMAIN fate : fate[k] # "sent"}
Arriving(fate) == {k \in DOMAIN fate : fate[k] \notin {"dropped", "late"}}
Delayed(fate)  == {k \in DOMAIN fate : fate[k] \in {"late", "twice"}}

\* The ways to list S in increasing order: there is one.
Increasing(S) ==
    {order \in [1 .. Cardinality(S) -> S] :
        \A i, j \in DOMAIN order : i < j => order[i] < order[j]}

\* The socket once the packets ms have met their fates.
Fed(socket, ms, fate, order) ==
    [socket EXCEPT
        !.inbox = @ \o
            [i \in DOMAIN order |-> Arrives(ms[order[i]], fate[order[i]])],
        !.late  = @ \cup {ms[k] : k \in Delayed(fate)}]

(***************************************************************************)
(* sendtoErr for the packets ms, a function from sequence numbers (or 1),  *)
(* sent in the order of its domain.  safeSend discards its return value:   *)
(* the sender never learns what happened.                                  *)
(***************************************************************************)
Transmit(socket, ms, socketAfter) ==
    \/ /\ ~socket.open
       /\ socketAfter = socket
       /\ UNCHANGED faults
    \/ /\ socket.open
       /\ \E fate \in [DOMAIN ms -> Fates \cup {"sent"}] :
            /\ faults' = faults + Cardinality(Hit(fate))
            /\ faults' <= MaxFaults
            /\ \E order \in Increasing(Arriving(fate)) :
                 socketAfter = Fed(socket, ms, fate, order)

\* The client sends through its socket me; the server process reads only the
\* socket it opened last.
SendToServer(me, m) ==
    \/ me.remote = toServer.name /\ Transmit(toServer, <<m>>, toServer')
    \/ me.remote # toServer.name /\ UNCHANGED <<toServer, faults>>

\* A packet that leaves the server's socket as it is after the step.
FromServer(m) == [m EXCEPT !.from = toServer'.name]

SendToClient(m) == Transmit(toClient, <<FromServer(m)>>, toClient')

\* A delayed copy reaches its socket.
Overtaken(socket, socketAfter) ==
    \E m \in socket.late :
        socketAfter = [socket EXCEPT !.inbox = Append(@, m), !.late = @ \ {m}]

LateArrival ==
    /\ \/ Overtaken(toServer, toServer') /\ UNCHANGED toClient
       \/ Overtaken(toClient, toClient') /\ UNCHANGED toServer
    /\ UNCHANGED faults
==============================================================================
