--------------------------- MODULE SetupInvariant ---------------------------
(***************************************************************************)
(* The inductive invariant of the connection set-up: how the packets on    *)
(* their way, the children and the clients fit together.                   *)
(***************************************************************************)
EXTENDS Setup

\* The SETUP of the socket that client c has now, read by nobody yet.
Waiting(c) == {i \in DOMAIN listener : listener[i].peer = Here(c)}

Travelling(c) == {m \in delayed : m.flag = "SETUP" /\ m.peer = Here(c)}

\* The children that have answered it.
Answering(c) == {k \in Serving(c) : child[k].state = "FILENAME"}

\* processSelect has tries left as long as it waits.
TriesLeft == \A c \in Clients : client[c].state # "DONE" => client[c].tries <= MAX_TRIES

\* What UDP delays has been sent by a client to the listener or to a child, or
\* by a child, and is not flipped.
DelayedKinds ==
    \A m \in delayed :
        \/ m.flag = "SETUP" /\ m.server = Listener
        \/ m.flag \in {"SETUP_RES", "FNAME"} /\ m.server \in Children

\* A child has one peer from its fork until it is waited for; it has received
\* nothing before it answers, and ends only when its client is gone.
ChildrenSound ==
    \A k \in Children :
        /\ child[k].state = "none" => child[k].peer = {}
        /\ child[k].state # "none" => \E peer \in Peers : child[k].peer = {peer}
        /\ child[k].state # "FILENAME" => child[k].inbox = NoInbox
        /\ child[k].state = "DONE" =>
             \A peer \in child[k].peer : peer.socket = "closed"

\* The SETUP of a socket is in one place: on its way, at the listener, or with
\* the child that it became.
OneServer ==
    \A c \in Clients :
        /\ \A i, j \in Waiting(c) : i = j
        /\ \A k, l \in Serving(c) : k = l
        /\ Waiting(c) # {} => Travelling(c) = {} /\ Serving(c) = {}
        /\ Travelling(c) # {} => Serving(c) = {}

\* What a socket has received, or will receive, comes from the child that
\* serves it.
Answers ==
    /\ \A c \in Clients : \A i \in DOMAIN client[c].inbox :
         /\ client[c].inbox[i].peer = Here(c)
         /\ client[c].inbox[i].server \in Answering(c)
    /\ \A m \in delayed :
         m.flag = "SETUP_RES" /\ m.peer.socket = "open" =>
             m.server \in Answering(m.peer.client)

\* A new socket is unknown to everyone.
NewSocket ==
    \A c \in Clients : client[c].state = "CONNECTION" =>
        /\ client[c].inbox = NoInbox
        /\ Waiting(c) = {} /\ Travelling(c) = {} /\ Serving(c) = {}

\* filename() is entered with an answer to read.
AnswerThere ==
    \A c \in Clients : client[c].state = "FILENAME" => client[c].inbox # NoInbox

\* FNAME is with the child that it was sent to, or on its way there.
FnameSent ==
    /\ \A k \in Children : child[k].inbox # NoInbox =>
         \A peer \in child[k].peer : client[peer.client].state = "FILENAME_WAIT"
    /\ \A m \in delayed : m.flag = "FNAME" =>
         /\ client[m.peer.client].state = "FILENAME_WAIT"
         /\ child[m.server].peer = {Here(m.peer.client)}

Inductive ==
    /\ TypeOK /\ TriesLeft /\ DelayedKinds /\ ChildrenSound
    /\ OneServer /\ Answers /\ NewSocket /\ AnswerThere /\ FnameSent

----------------------------------------------------------------------------

\* Every answer comes from a child.
FromChildren ==
    \A c \in Clients : \A i \in DOMAIN client[c].inbox :
        client[c].inbox[i].server \in Children

\* The SETUP of the socket that client c has now waits, intact, to be read or
\* to be answered, or there is an answer.
Hope(c) ==
    \/ \E i \in DOMAIN listener :
         listener[i].peer = Here(c) /\ listener[i].flag # "CRC_ERROR"
    \/ \E k \in Children : child[k].state = "CONNECTION" /\ child[k].peer = {Here(c)}
    \/ client[c].inbox # NoInbox

\* Every try of client c but the last has cost a packet of its own or to it,
\* and the last one has when nothing is left of it.
Account(c) ==
    /\ client[c].state \in {"START", "CONNECTION"} => client[c].tries <= faults[c]
    /\ client[c].state = "CONNECTION_WAIT" =>
         /\ client[c].tries <= faults[c] + 1
         /\ Hope(c) \/ client[c].tries <= faults[c]
    /\ client[c].state = "FILENAME" => client[c].tries = 0
    /\ client[c].outcome = "no response" => faults[c] >= MAX_TRIES

\* The invariant behind NoResponseTakesLosses; it needs no Patient.
Accounts ==
    /\ TypeOK /\ TriesLeft /\ DelayedKinds /\ FromChildren
    /\ Timely /\ luck = "sent" => \A c \in Clients : Account(c)
=============================================================================
