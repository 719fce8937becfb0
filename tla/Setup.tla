-------------------------------- MODULE Setup --------------------------------
(***************************************************************************)
(* How a client gets a server process: the states START, CONNECTION and    *)
(* FILENAME of rcopy.c up to its first FNAME, process_server of server.c,  *)
(* which forks a child for every packet it can read, and the first states  *)
(* of those children.  Transfer goes on from here.                         *)
(***************************************************************************)
EXTENDS Integers, Sequences

CONSTANTS
    Clients,        \* runs of rcopy, at the same time
    Children,       \* bound: processes that the server may have at once,
                    \* zombies left out
    Listener,       \* the socket that the server has bound
    MAX_TRIES,      \* 10 in srej.h
    Lookups,        \* the results gethostbyname may have
    Fates,          \* what may befall a packet, among Misfortunes
    MaxFaults,      \* bound, by client: packets of its own, or to it, that
                    \* suffer one of Fates
    AnswerFates,    \* what errorDrop and errorFlipBits may do to the first
                    \* packet of a child
    Timely,         \* whether the server answers within the client's second
    Patient         \* whether a child quits only after its client is gone

Misfortunes == {"dropped", "flipped", "late"}

ASSUME SetupAssumption ==
    /\ Listener \notin Children
    /\ MAX_TRIES \in Nat \ {0}
    /\ Lookups \in (SUBSET BOOLEAN) \ {{}}
    /\ Fates \subseteq Misfortunes /\ MaxFaults \in [Clients -> Nat]
    /\ AnswerFates \subseteq {"sent", "dropped", "flipped"}
    /\ Timely \in BOOLEAN /\ Patient \in BOOLEAN

VARIABLES
    client,     \* by client: its state, retryCount, remote, inbox and outcome
    child,      \* by child: its state, its peer and its inbox
    listener,   \* the inbox of the bound socket
    delayed,    \* packets that UDP has not delivered yet
    luck,       \* the fate of the first packet of every child (see Injector)
    faults      \* by client: packets of its own, or to it, hit by one of
                \* Fates so far

vars == <<client, child, listener, delayed, luck, faults>>

\* The other end of a packet or of a child: a client, with the socket it had
\* then.  The socket is open until that client ends or starts over.
Peers == [client : Clients, socket : {"open", "closed"}]

\* Client c with the socket it has now.
Here(c) == [client |-> c, socket |-> "open"]

\* A packet from the peer to the server, or from the child to the peer.
Packets == [flag : {"SETUP", "SETUP_RES", "FNAME", "CRC_ERROR"},
            peer : Peers, server : Children \cup {Listener}]

ClientStates == {"START", "CONNECTION", "CONNECTION_WAIT", "FILENAME",
                 "FILENAME_WAIT", "DONE"}

\* A child that is DONE is a zombie until the server waits for it.
ChildStates == {"none", "CONNECTION", "FILENAME", "DONE"}

NoInbox == <<>>

Init ==
    /\ client = [c \in Clients |->
         [state |-> "START", tries |-> 0, remote |-> Listener,
          inbox |-> NoInbox, outcome |-> "running"]]
    /\ child = [k \in Children |->
         [state |-> "none", peer |-> {}, inbox |-> NoInbox]]
    /\ listener = NoInbox
    /\ delayed = {}
    /\ luck \in AnswerFates
    /\ faults = [c \in Clients |-> 0]

----------------------------------------------------------------------------

\* Mutant: the next try uses the socket of the last one.
LeftOpen(c, peer) == peer

\* A peer of client c after its socket has been closed.
Left(c, peer) == IF peer.client = c THEN [peer EXCEPT !.socket = "closed"] ELSE peer

\* close(sk_num) of client c, for all that was sent to or from that socket and
\* for the children that serve it.
LeftPacket(c, m) == [m EXCEPT !.peer = Left(c, @)]
LeftInbox(c, inbox) == [i \in DOMAIN inbox |-> LeftPacket(c, inbox[i])]

Abandoned(c) ==
    [k \in Children |->
        [child[k] EXCEPT !.peer = {Left(c, peer) : peer \in @},
                         !.inbox = LeftInbox(c, @)]]

\* What reaches an inbox at once of a packet that meets a fate.
Arriving(m, fate) ==
    CASE fate = "sent"    -> <<m>>
      [] fate = "flipped" -> <<[m EXCEPT !.flag = "CRC_ERROR"]>>
      [] OTHER            -> <<>>

Delaying(m, fate) == IF fate = "late" THEN {m} ELSE {}

FaultCounts == {f \in [Clients -> Nat] : \A c \in Clients : f[c] <= MaxFaults[c]}

\* A packet of client c, or to it, meets a fate.
Counting(c, fate) ==
    /\ faults' = [faults EXCEPT ![c] = @ + IF fate = "sent" THEN 0 ELSE 1]
    /\ faults'[c] <= MaxFaults[c]

Misfortune == Fates \cup {"sent"}

----------------------------------------------------------------------------

\* start_state(): a new socket, that sends to the port of the server again.
StartState(c) ==
    /\ client[c].state = "START"
    /\ child' = Abandoned(c)
    /\ listener' = LeftInbox(c, listener)
    /\ delayed' = {LeftPacket(c, m) : m \in delayed}
    /\ \E found \in Lookups :
         client' = [client EXCEPT
           ![c].state = IF found THEN "CONNECTION" ELSE "DONE",
           ![c].remote = Listener, ![c].inbox = NoInbox]
    /\ UNCHANGED <<luck, faults>>

\* Mutant: one try less.
TriesUsedUpEarly(tries) == tries >= MAX_TRIES

\* Mutant: one try more.
TriesUsedUpLate(tries) == tries > MAX_TRIES + 1

\* processSelect gives up without waiting.
TriesUsedUp(tries) == tries > MAX_TRIES

\* connection_setup() sends SETUP and then, in processSelect, counts it.
ConnectionSetup(c) ==
    /\ client[c].state = "CONNECTION"
    /\ LET tries == client[c].tries + 1
           m     == [flag |-> "SETUP", server |-> Listener,
                     peer |-> Here(c)]
       IN  \E fate \in Misfortune :
             /\ Counting(c, fate)
             /\ LET coming == listener \o Arriving(m, fate)
                    later  == delayed \cup Delaying(m, fate)
                IN  IF TriesUsedUp(tries)
                    THEN /\ client' = [client EXCEPT
                              ![c].state = "DONE", ![c].tries = tries,
                              ![c].outcome = "no response"]
                         /\ child' = Abandoned(c)
                         /\ listener' = LeftInbox(c, coming)
                         /\ delayed' = {LeftPacket(c, x) : x \in later}
                    ELSE /\ client' = [client EXCEPT
                              ![c].state = "CONNECTION_WAIT", ![c].tries = tries]
                         /\ listener' = coming
                         /\ delayed' = later
                         /\ UNCHANGED child
    /\ UNCHANGED luck

ConnectionAnswered(c) ==
    /\ client[c].state = "CONNECTION_WAIT"
    /\ client[c].inbox # NoInbox
    /\ client' = [client EXCEPT ![c].state = "FILENAME", ![c].tries = 0]
    /\ UNCHANGED <<child, listener, delayed, luck, faults>>

\* The children that serve the socket client c has now.
Serving(c) ==
    {k \in Children : child[k].peer = {Here(c)}}

\* SETUP waits to be read or to be answered.
Pending(c) ==
    \/ \E i \in DOMAIN listener : listener[i].peer = Here(c)
    \/ \E k \in Serving(c) : child[k].state = "CONNECTION"

\* Mutant: the same socket is used for the next try.
SameSocket == "CONNECTION"

\* Where connection_setup() goes after a second without an answer.
RetryState == "START"

\* Mutant: the count starts again with each try.
TriesForgotten(tries) == 0

TriesAfterTimeout(tries) == tries

ConnectionTimeout(c) ==
    /\ client[c].state = "CONNECTION_WAIT"
    /\ client[c].inbox = NoInbox
    /\ Timely => ~Pending(c)
    /\ client' = [client EXCEPT ![c].state = RetryState,
                                ![c].tries = TriesAfterTimeout(@)]
    /\ UNCHANGED <<child, listener, delayed, luck, faults>>

\* filename(): the answer may have any flag; what counts is who sent it.  An
\* answer that fails the checksum starts everything over.
FilenameFirst(c) ==
    /\ client[c].state = "FILENAME"
    /\ client[c].inbox # NoInbox
    /\ LET answer == Head(client[c].inbox)
           m      == [answer EXCEPT !.flag = "FNAME"]
           to     == answer.server
       IN  /\ client' = [client EXCEPT
                ![c].remote = to, ![c].inbox = Tail(@),
                ![c].state = IF answer.flag = "CRC_ERROR" THEN "START"
                             ELSE "FILENAME_WAIT"]
           /\ IF answer.flag = "CRC_ERROR"
              THEN UNCHANGED <<child, delayed, faults>>
              ELSE \E fate \in Misfortune :
                     /\ Counting(c, fate)
                     /\ child' = [child EXCEPT
                          ![to].inbox = @ \o Arriving(m, fate)]
                     /\ delayed' = delayed \cup Delaying(m, fate)
    /\ UNCHANGED <<listener, luck>>

----------------------------------------------------------------------------

Reaped(k) ==
    IF child[k].state = "DONE"
    THEN [state |-> "none", peer |-> {}, inbox |-> NoInbox] ELSE child[k]

\* The processes there may be: waitpid frees the zombies in the same step.
Free == {k \in Children : child[k].state \in {"none", "DONE"}}

\* process_server(): a child for every packet that passes the checksum; then
\* waitpid for the children that have ended, and only then.
ServeClient ==
    /\ listener # NoInbox
    /\ LET m == Head(listener)
       IN  IF m.flag = "CRC_ERROR"
           THEN child' = [k \in Children |-> Reaped(k)]
           ELSE /\ Free # {}
                /\ child' = [k \in Children |->
                     IF k = CHOOSE new \in Free : TRUE
                     THEN [state |-> "CONNECTION", peer |-> {m.peer},
                           inbox |-> NoInbox]
                     ELSE Reaped(k)]
    /\ listener' = Tail(listener)
    /\ UNCHANGED <<client, delayed, luck, faults>>

\* connection(): SETUP_RES from a new socket.  Every child has inherited the
\* same place in the random sequence.
Connection(k) ==
    /\ child[k].state = "CONNECTION"
    /\ \E peer \in child[k].peer, udp \in Misfortune :
         LET m    == [flag |-> "SETUP_RES", peer |-> peer, server |-> k]
             fate == IF luck = "sent" THEN udp ELSE luck
         IN  /\ Counting(peer.client, udp)
             /\ client' = IF peer.socket = "open"
                  THEN [client EXCEPT
                         ![peer.client].inbox = @ \o Arriving(m, fate)]
                  ELSE client
             /\ delayed' = delayed \cup Delaying(m, fate)
    /\ child' = [child EXCEPT ![k].state = "FILENAME", ![k].inbox = NoInbox]
    /\ UNCHANGED <<listener, luck>>

\* Mutant: filename() of the server waits without a limit.
NeverGivingUp == {}

\* The states of a child that end when select returns 0.
GivingUp == {"FILENAME"}

\* filename() of server.c: nothing for LONG_TIME.  (A packet that comes is
\* the business of module Server.)
GiveUp(k) ==
    /\ child[k].state \in GivingUp
    /\ child[k].inbox = NoInbox
    /\ Patient => \A peer \in child[k].peer : peer.socket = "closed"
    /\ child' = [child EXCEPT ![k].state = "DONE"]
    /\ UNCHANGED <<client, listener, delayed, luck, faults>>

\* A delayed packet arrives, or finds its socket closed.
LateArrival ==
    \E m \in delayed :
        /\ delayed' = delayed \ {m}
        /\ CASE m.flag = "SETUP" ->
                  listener' = Append(listener, m) /\ UNCHANGED <<client, child>>
             [] m.flag = "SETUP_RES" ->
                  /\ client' = IF m.peer.socket = "open"
                       THEN [client EXCEPT ![m.peer.client].inbox = Append(@, m)]
                       ELSE client
                  /\ UNCHANGED <<listener, child>>
             [] m.flag = "FNAME" ->
                  /\ child' = IF child[m.server].state = "FILENAME"
                       THEN [child EXCEPT ![m.server].inbox = Append(@, m)]
                       ELSE child
                  /\ UNCHANGED <<client, listener>>
        /\ UNCHANGED <<luck, faults>>

----------------------------------------------------------------------------

ClientStep(c) ==
    \/ StartState(c) \/ ConnectionSetup(c) \/ ConnectionAnswered(c)
    \/ ConnectionTimeout(c) \/ FilenameFirst(c)

ChildStep(k) == Connection(k) \/ GiveUp(k)

Next ==
    \/ \E c \in Clients : ClientStep(c)
    \/ \E k \in Children : ChildStep(k)
    \/ ServeClient
    \/ LateArrival

Spec == Init /\ [][Next]_vars

\* The scheduler runs every process, select returns once its time is over,
\* and a delayed packet arrives.
FairSpec ==
    /\ Spec
    /\ \A c \in Clients : WF_vars(ClientStep(c))
    /\ \A k \in Children : WF_vars(ChildStep(k))
    /\ WF_vars(ServeClient)
    /\ WF_vars(LateArrival)

----------------------------------------------------------------------------

TypeOK ==
    /\ client \in [Clients ->
         [state : ClientStates, tries : 0 .. MAX_TRIES + 1,
          remote : Children \cup {Listener}, inbox : Seq(Packets),
          outcome : {"running", "no response"}]]
    /\ child \in [Children ->
         [state : ChildStates, peer : SUBSET Peers, inbox : Seq(Packets)]]
    /\ listener \in Seq(Packets)
    /\ delayed \subseteq Packets
    /\ luck \in AnswerFates
    /\ faults \in FaultCounts

\* When a client reads the answer to its SETUP, exactly one child serves its
\* socket: it is the sender of every answer the socket holds or will get, it
\* waits in filename() and has received nothing yet.  This is the state in
\* which Transfer begins; a late SETUP of an abandoned socket, or its child,
\* does not get in the way.
Handover ==
    \A c \in Clients : client[c].state = "FILENAME" =>
        \E k \in Children :
            /\ Serving(c) = {k} /\ ~Pending(c)
            /\ child[k].state = "FILENAME" /\ child[k].inbox = NoInbox
            /\ \A i \in DOMAIN client[c].inbox : client[c].inbox[i].server = k

\* With a server that lives and answers in time, a client reports that it got
\* no response only after MAX_TRIES packets of its own, or to it, were hit: it
\* waits for each of its tries, and another client's misfortunes pay for none.
NoResponseTakesLosses ==
    \A c \in Clients :
        Timely /\ luck = "sent" /\ client[c].outcome = "no response" =>
            faults[c] >= MAX_TRIES

\* The client gives up or goes on to send its file: processSelect returns done
\* when the tries are used up.
ClientEnds ==
    \A c \in Clients : <>(client[c].state \in {"FILENAME_WAIT", "DONE"})

\* A child whose client has started over does not wait for it for ever.
OrphansEnd ==
    \A k \in Children :
        (child[k].state = "FILENAME" /\ \A peer \in child[k].peer : peer.socket = "closed")
            ~> child[k].state \in {"DONE", "none"}
=============================================================================
