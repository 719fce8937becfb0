----------------------------- MODULE SetupProofs -----------------------------
(***************************************************************************)
(* The connection set-up, for any number of clients and children: its      *)
(* variables keep their types, a client that goes on is served by exactly  *)
(* one child, and one that gives up has lost a packet for every try.       *)
(***************************************************************************)
EXTENDS SetupInvariant, TLAPS

ClientRecords ==
    [state : ClientStates, tries : 0 .. MAX_TRIES + 1,
     remote : Children \cup {Listener}, inbox : Seq(Packets),
     outcome : {"running", "no response"}]

ChildRecords == [state : ChildStates, peer : SUBSET Peers, inbox : Seq(Packets)]

(***************************************************************************)
(* Inboxes and peers.                                                      *)
(***************************************************************************)

\* Taking the first packet of an inbox.
LEMMA Taken ==
    ASSUME NEW S, NEW s \in Seq(S), s # <<>>
    PROVE  /\ 1 \in DOMAIN s /\ Head(s) = s[1] /\ Head(s) \in S
           /\ Tail(s) \in Seq(S)
           /\ \A i \in DOMAIN Tail(s) :
                i \in Nat /\ i + 1 \in DOMAIN s /\ Tail(s)[i] = s[i + 1]
  OBVIOUS

\* An inbox that a packet arrives at grows by that packet, flipped or not, or
\* stays as it is.
LEMMA Arrived ==
    ASSUME NEW s \in Seq(Packets), NEW m \in Packets, NEW fate \in Misfortunes \cup {"sent"}
    PROVE  LET t == s \o Arriving(m, fate)
           IN  /\ t \in Seq(Packets)
               /\ s # <<>> => t # <<>>
               /\ fate \in {"dropped", "late"} => t = s
               /\ \A i \in DOMAIN t :
                    \/ i \in DOMAIN s /\ t[i] = s[i]
                    \/ i = Len(s) + 1 /\ t[i].peer = m.peer /\ t[i].server = m.server
  <1>1. CASE fate \in {"dropped", "late"}
    <2>1. Arriving(m, fate) = <<>>
      BY <1>1 DEF Arriving
    <2> QED BY <2>1, <1>1
  <1>2. CASE fate \in {"sent", "flipped"}
    <2>1. PICK x \in Packets : /\ Arriving(m, fate) = <<x>>
                               /\ x.peer = m.peer /\ x.server = m.server
      BY <1>2 DEF Arriving, Packets
    <2>2. /\ s \o <<x>> \in Seq(Packets) /\ s \o <<x>> # <<>>
          /\ \A i \in DOMAIN (s \o <<x>>) :
               \/ i \in DOMAIN s /\ (s \o <<x>>)[i] = s[i]
               \/ i = Len(s) + 1 /\ (s \o <<x>>)[i] = x
      OBVIOUS
    <2> QED BY <1>2, <2>1, <2>2
  <1> QED BY <1>1, <1>2 DEF Misfortunes

LEMMA Appended ==
    ASSUME NEW s \in Seq(Packets), NEW m \in Packets
    PROVE  /\ Append(s, m) \in Seq(Packets) /\ Append(s, m) # <<>>
           /\ \A i \in DOMAIN Append(s, m) :
                \/ i \in DOMAIN s /\ Append(s, m)[i] = s[i]
                \/ i = Len(s) + 1 /\ Append(s, m)[i] = m
  OBVIOUS

\* Closing the socket of client c changes the peers of c, and no others.
LEMMA LeftPeer ==
    ASSUME NEW c \in Clients, NEW p \in Peers
    PROVE  /\ Left(c, p) \in Peers /\ Left(c, p).client = p.client
           /\ \A d \in Clients : Left(c, p) = Here(d) <=> p = Here(d) /\ d # c
           /\ Left(c, p).socket = "open" => Left(c, p) = p /\ p.client # c
           /\ p.socket = "closed" => Left(c, p).socket = "closed"
           /\ p.socket = "open" => p = Here(p.client)
  BY DEF Left, Peers, Here

LEMMA LeftOne ==
    ASSUME NEW c \in Clients, NEW m \in Packets
    PROVE  /\ LeftPacket(c, m) \in Packets
           /\ LeftPacket(c, m).peer = Left(c, m.peer)
           /\ LeftPacket(c, m).flag = m.flag
           /\ LeftPacket(c, m).server = m.server
           /\ m.peer \in Peers
  <1>1. m.peer \in Peers
    BY DEF Packets
  <1>2. Left(c, m.peer) \in Peers
    BY <1>1, LeftPeer
  <1> QED BY <1>1, <1>2 DEF LeftPacket, Packets

LEMMA LeftAll ==
    ASSUME NEW c \in Clients, NEW s \in Seq(Packets)
    PROVE  /\ LeftInbox(c, s) \in Seq(Packets)
           /\ DOMAIN LeftInbox(c, s) = DOMAIN s
           /\ \A i \in DOMAIN s : LeftInbox(c, s)[i] = LeftPacket(c, s[i])
           /\ s = <<>> => LeftInbox(c, s) = <<>>
  <1>1. \A i \in 1 .. Len(s) : LeftPacket(c, s[i]) \in Packets
    BY LeftOne
  <1>2. [i \in 1 .. Len(s) |-> LeftPacket(c, s[i])] \in Seq(Packets)
    BY <1>1
  <1>3. LeftInbox(c, s) = [i \in 1 .. Len(s) |-> LeftPacket(c, s[i])]
    BY DEF LeftInbox
  <1> HIDE DEF LeftInbox
  <1> QED BY <1>2, <1>3

\* The peers of a client with its socket open.
LEMMA HereFacts ==
    /\ \A c \in Clients : Here(c) \in Peers /\ Here(c).client = c /\ Here(c).socket = "open"
    /\ \A c, d \in Clients : Here(c) = Here(d) => c = d
    /\ \A p \in Peers : /\ p.client \in Clients
                        /\ p.socket = "open" => p = Here(p.client)
                        /\ p.socket \in {"open", "closed"}
  BY DEF Here, Peers

(***************************************************************************)
(* The steps.                                                              *)
(***************************************************************************)

LEMMA InitInductive == Init => Inductive
  <1> SUFFICES ASSUME Init PROVE Inductive
    OBVIOUS
  <1> DEFINE new == [state |-> "START", tries |-> 0, remote |-> Listener,
                     inbox |-> <<>>, outcome |-> "running"]
             unborn == [state |-> "none", peer |-> {}, inbox |-> <<>>]
  <1>1. /\ client = [c \in Clients |-> new] /\ child = [k \in Children |-> unborn]
        /\ listener = <<>> /\ delayed = {}
    BY DEF Init, NoInbox
  <1>2. new \in ClientRecords /\ unborn \in ChildRecords
    BY SetupAssumption DEF ClientRecords, ClientStates, ChildRecords, ChildStates
  <1>3. TypeOK
    <2>1. faults \in FaultCounts /\ luck \in AnswerFates
      BY SetupAssumption DEF Init, FaultCounts
    <2> QED BY <1>1, <1>2, <2>1 DEF TypeOK, ClientRecords, ChildRecords
  <1>4. /\ \A c \in Clients : client[c].state = "START" /\ client[c].tries = 0
                              /\ client[c].inbox = <<>>
        /\ \A k \in Children : /\ child[k].state = "none" /\ child[k].peer = {}
                               /\ child[k].inbox = <<>>
    BY <1>1
  <1>5. \A c \in Clients : Waiting(c) = {} /\ Travelling(c) = {} /\ Serving(c) = {}
    <2> TAKE c \in Clients
    <2>1. Waiting(c) = {} /\ Travelling(c) = {}
      BY <1>1 DEF Waiting, Travelling
    <2>2. \A k \in Children : child[k].peer # {Here(c)}
      BY <1>4
    <2> QED BY <2>1, <2>2 DEF Serving
  <1>6. TriesLeft /\ DelayedKinds /\ ChildrenSound
    BY <1>1, <1>4, SetupAssumption DEF TriesLeft, DelayedKinds, ChildrenSound, NoInbox
  <1>7. OneServer /\ Answers /\ NewSocket /\ AnswerThere /\ FnameSent
    BY <1>1, <1>4, <1>5 DEF OneServer, Answers, NewSocket, AnswerThere, FnameSent, NoInbox
  <1> QED BY <1>3, <1>6, <1>7 DEF Inductive

\* Closing the socket of client c changes the peers that its children have.
LEMMA AbandonedTypes ==
    ASSUME NEW c \in Clients, child \in [Children -> ChildRecords], child' = Abandoned(c)
    PROVE  \A k \in Children :
             /\ child'[k].state = child[k].state
             /\ child'[k].peer = {Left(c, p) : p \in child[k].peer}
             /\ child'[k].inbox = LeftInbox(c, child[k].inbox)
             /\ child'[k] \in ChildRecords
  <1> TAKE k \in Children
  <1>1. /\ child[k].peer \subseteq Peers /\ child[k].inbox \in Seq(Packets)
        /\ child[k] \in ChildRecords
    BY DEF ChildRecords
  <1>2. child'[k] = [child[k] EXCEPT !.peer = {Left(c, p) : p \in @},
                                     !.inbox = LeftInbox(c, @)]
    BY DEF Abandoned
  <1>3. {Left(c, p) : p \in child[k].peer} \in SUBSET Peers
    BY <1>1, LeftPeer
  <1>4. LeftInbox(c, child[k].inbox) \in Seq(Packets)
    BY <1>1, LeftAll
  <1> QED BY <1>1, <1>2, <1>3, <1>4 DEF ChildRecords

\* Client c closes its socket, to start over or to end: none of the packets and
\* children of that socket is one of the next socket.
LEMMA Leaving ==
    ASSUME Inductive, NEW c \in Clients, client[c].state \in {"START", "CONNECTION"},
           NEW new \in ClientRecords, client' = [client EXCEPT ![c] = new],
           new.inbox = <<>>, new.state \in {"CONNECTION", "DONE"},
           new.state = "CONNECTION" => new.tries <= MAX_TRIES,
           NEW coming \in Seq(Packets), NEW later \in SUBSET Packets,
           \A i \in DOMAIN coming : coming[i].peer # Here(c) =>
                i \in DOMAIN listener /\ coming[i] = listener[i],
           \A m \in later : m.peer # Here(c) => m \in delayed,
           \A m \in later : \/ m.flag = "SETUP" /\ m.server = Listener
                            \/ m \in delayed,
           child' = Abandoned(c), listener' = LeftInbox(c, coming),
           delayed' = {LeftPacket(c, m) : m \in later},
           luck' = luck, faults' \in FaultCounts
    PROVE  Inductive'
  <1>1. /\ TypeOK /\ TriesLeft /\ DelayedKinds /\ ChildrenSound /\ OneServer
        /\ Answers /\ NewSocket /\ AnswerThere /\ FnameSent
        /\ client \in [Clients -> ClientRecords] /\ child \in [Children -> ChildRecords]
        /\ delayed \subseteq Packets /\ listener \in Seq(Packets)
    BY DEF Inductive, TypeOK, ClientRecords, ChildRecords
  <1>2. \A d \in Clients : client'[d] = IF d = c THEN new ELSE client[d]
    BY <1>1
  <1>3. \A k \in Children :
          /\ child[k].peer \subseteq Peers /\ child[k].inbox \in Seq(Packets)
          /\ child[k].state \in ChildStates
    BY <1>1 DEF ChildRecords
  <1>4. \A k \in Children :
          /\ child'[k].state = child[k].state
          /\ child'[k].peer = {Left(c, p) : p \in child[k].peer}
          /\ child'[k].inbox = LeftInbox(c, child[k].inbox)
          /\ child'[k] \in ChildRecords
    BY <1>1, AbandonedTypes
  <1>5. TypeOK'
    <2>1. client' \in [Clients -> ClientRecords]
      BY <1>1
    <2>2. child' \in [Children -> ChildRecords]
      BY <1>4 DEF Abandoned
    <2>3. listener' \in Seq(Packets)
      BY LeftAll
    <2>4. delayed' \subseteq Packets
      BY LeftOne
    <2> QED BY <1>1, <2>1, <2>2, <2>3, <2>4 DEF TypeOK, ClientRecords, ChildRecords
  \* What is left of the sockets of the others, and of this one.
  <1>6. \A d \in Clients : \A k \in Children :
          k \in Serving(d)' <=> d # c /\ k \in Serving(d)
    <2> TAKE d \in Clients
    <2> TAKE k \in Children
    <2>1. CASE child[k].peer = {}
      BY <1>4, <2>1 DEF Serving
    <2>2. ASSUME NEW p \in Peers, child[k].peer = {p}
          PROVE  k \in Serving(d)' <=> d # c /\ k \in Serving(d)
      <3>1. child'[k].peer = {Left(c, p)}
        BY <1>4, <2>2
      <3>2. k \in Serving(d)' <=> Left(c, p) = Here(d)
        BY <3>1 DEF Serving, Here
      <3>3. k \in Serving(d) <=> p = Here(d)
        BY <2>2 DEF Serving
      <3> QED BY <3>2, <3>3, LeftPeer
    <2> QED BY <1>1, <2>1, <2>2 DEF ChildrenSound
  <1>7. \A d \in Clients : Serving(d)' = IF d = c THEN {} ELSE Serving(d)
    BY <1>6 DEF Serving
  <1>8. \A i \in DOMAIN listener' :
          /\ i \in DOMAIN coming /\ listener'[i].peer = Left(c, coming[i].peer)
          /\ coming[i] \in Packets /\ coming[i].peer \in Peers
    BY LeftAll, LeftOne
  <1>9. \A d \in Clients : /\ Waiting(d)' \subseteq Waiting(d)
                           /\ d = c => Waiting(d)' = {}
    <2> TAKE d \in Clients
    <2>1. ASSUME NEW i \in DOMAIN listener', listener'[i].peer = Here(d)
          PROVE  d # c /\ i \in Waiting(d)
      <3>1. Left(c, coming[i].peer) = Here(d) /\ coming[i].peer \in Peers /\ i \in DOMAIN coming
        BY <1>8, <2>1
      <3>2. coming[i].peer = Here(d) /\ d # c
        BY <3>1, LeftPeer
      <3> QED BY <3>1, <3>2, HereFacts DEF Waiting
    <2> QED BY <2>1 DEF Waiting, Here
  <1>10. \A x \in delayed' : \E m \in later :
           /\ x.flag = m.flag /\ x.server = m.server /\ x.peer = Left(c, m.peer)
           /\ m \in Packets /\ m.peer \in Peers
           /\ x.peer.socket = "open" => x.peer = m.peer /\ m.peer.client # c /\ m \in delayed
    <2> TAKE x \in delayed'
    <2>1. PICK m \in later : x = LeftPacket(c, m)
      OBVIOUS
    <2>2. /\ x.flag = m.flag /\ x.server = m.server /\ x.peer = Left(c, m.peer)
          /\ m \in Packets /\ m.peer \in Peers
      BY <2>1, LeftOne
    <2>3. ASSUME x.peer.socket = "open"
          PROVE  x.peer = m.peer /\ m.peer.client # c /\ m \in delayed
      <3>1. x.peer = m.peer /\ m.peer.client # c
        BY <2>2, <2>3, LeftPeer
      <3> QED BY <3>1, HereFacts
    <2> QED BY <2>2, <2>3
  <1>11. \A d \in Clients : /\ Travelling(d)' # {} => Travelling(d) # {}
                            /\ d = c => Travelling(d)' = {}
    <2> TAKE d \in Clients
    <2>1. ASSUME NEW x \in delayed', x.flag = "SETUP", x.peer = Here(d)
          PROVE  d # c /\ Travelling(d) # {}
      <3>1. PICK m \in later : /\ x.flag = m.flag /\ x.peer = m.peer
                               /\ m.peer.client # c /\ m \in delayed
        BY <1>10, <2>1, HereFacts
      <3> QED BY <2>1, <3>1, HereFacts DEF Travelling
    <2> QED BY <2>1 DEF Travelling, Here
  <1>12. TriesLeft' /\ AnswerThere'
    BY <1>1, <1>2 DEF TriesLeft, AnswerThere
  <1>13. DelayedKinds'
    BY <1>1, <1>10 DEF DelayedKinds
  <1>14. ChildrenSound'
    <2> SUFFICES ASSUME NEW k \in Children
                 PROVE  /\ child'[k].state = "none" => child'[k].peer = {}
                        /\ child'[k].state # "none" => \E p \in Peers : child'[k].peer = {p}
                        /\ child'[k].state # "FILENAME" => child'[k].inbox = <<>>
                        /\ child'[k].state = "DONE" =>
                             \A p \in child'[k].peer : p.socket = "closed"
      BY DEF ChildrenSound, NoInbox
    <2>1. child[k].state = "none" => child'[k].peer = {}
      BY <1>1, <1>4 DEF ChildrenSound
    <2>2. ASSUME child[k].state # "none"
          PROVE  /\ \E p \in Peers : child'[k].peer = {p}
                 /\ child[k].state = "DONE" =>
                      \A p \in child'[k].peer : p.socket = "closed"
      <3>1. PICK p \in Peers : child[k].peer = {p}
        BY <1>1, <2>2 DEF ChildrenSound
      <3>2. child'[k].peer = {Left(c, p)} /\ Left(c, p) \in Peers
        BY <1>4, <3>1, LeftPeer
      <3>3. child[k].state = "DONE" => p.socket = "closed"
        BY <1>1, <3>1 DEF ChildrenSound
      <3> QED BY <3>2, <3>3, LeftPeer
    <2>3. child[k].state # "FILENAME" => child'[k].inbox = <<>>
      BY <1>1, <1>3, <1>4, LeftAll DEF ChildrenSound, NoInbox
    <2> QED BY <1>4, <2>1, <2>2, <2>3
  <1>15. OneServer'
    BY <1>1, <1>7, <1>9, <1>11 DEF OneServer
  <1>16. \A d \in Clients : d # c => Answering(d)' = Answering(d)
    BY <1>4, <1>7 DEF Answering, Serving
  <1>17. Answers'
    <2>1. ASSUME NEW d \in Clients, NEW i \in DOMAIN client'[d].inbox
          PROVE  /\ client'[d].inbox[i].peer = Here(d)
                 /\ client'[d].inbox[i].server \in Answering(d)'
      <3>1. d # c
        BY <1>2, <2>1
      <3> QED BY <1>1, <1>2, <1>16, <2>1, <3>1 DEF Answers
    <2>2. ASSUME NEW x \in delayed', x.flag = "SETUP_RES", x.peer.socket = "open"
          PROVE  x.server \in Answering(x.peer.client)'
      <3>1. PICK m \in later : /\ x.flag = m.flag /\ x.server = m.server /\ x.peer = m.peer
                               /\ m.peer.client # c /\ m \in delayed /\ m.peer \in Peers
        BY <1>10, <2>2
      <3>2. m.server \in Answering(m.peer.client)
        BY <1>1, <2>2, <3>1 DEF Answers
      <3> QED BY <1>16, <3>1, <3>2, HereFacts
    <2>3. \A d : Here(d)' = Here(d)
      BY DEF Here
    <2> QED BY <2>1, <2>2, <2>3 DEF Answers
  <1>18. NewSocket'
    <2>1. ASSUME NEW d \in Clients, client'[d].state = "CONNECTION"
          PROVE  /\ client'[d].inbox = <<>> /\ Waiting(d)' = {}
                 /\ Travelling(d)' = {} /\ Serving(d)' = {}
      <3>1. CASE d = c
        BY <1>2, <1>7, <1>9, <1>11, <3>1
      <3>2. CASE d # c
        BY <1>1, <1>2, <1>7, <1>9, <1>11, <2>1, <3>2 DEF NewSocket, NoInbox
      <3> QED BY <3>1, <3>2
    <2> QED BY <2>1 DEF NewSocket, NoInbox
  <1>19. FnameSent'
    <2>1. ASSUME NEW k \in Children, child'[k].inbox # <<>>, NEW q \in child'[k].peer
          PROVE  client'[q.client].state = "FILENAME_WAIT"
      <3>1. child[k].inbox # <<>>
        BY <1>3, <1>4, <2>1, LeftAll
      <3>2. PICK p \in child[k].peer : q = Left(c, p)
        BY <1>4, <2>1
      <3>3. client[p.client].state = "FILENAME_WAIT" /\ p \in Peers /\ q.client = p.client
        BY <1>1, <1>3, <3>1, <3>2, LeftPeer DEF FnameSent, NoInbox
      <3> QED BY <1>2, <3>3, HereFacts
    <2>2. ASSUME NEW x \in delayed', x.flag = "FNAME"
          PROVE  /\ client'[x.peer.client].state = "FILENAME_WAIT"
                 /\ child'[x.server].peer = {Here(x.peer.client)}
      <3>1. PICK m \in later : /\ x.flag = m.flag /\ x.server = m.server
                               /\ x.peer = Left(c, m.peer) /\ m.peer \in Peers
                               /\ m.flag = "SETUP" \/ m \in delayed
        BY <1>10
      <3>2. /\ m \in delayed /\ x.peer.client = m.peer.client
            /\ client[m.peer.client].state = "FILENAME_WAIT"
            /\ child[m.server].peer = {Here(m.peer.client)}
            /\ m.peer.client \in Clients /\ m.peer.client # c
        <4>1. m \in delayed /\ m.flag = "FNAME" /\ m.peer.client \in Clients
          BY <2>2, <3>1, HereFacts
        <4>2. client[m.peer.client].state = "FILENAME_WAIT"
              /\ child[m.server].peer = {Here(m.peer.client)}
          BY <1>1, <4>1 DEF FnameSent
        <4>3. client[c].state # "FILENAME_WAIT"
          OBVIOUS
        <4> QED BY <3>1, <4>1, <4>2, <4>3, LeftPeer
      <3>3. m.server \in Children
        BY <1>1, <2>2, <3>1, <3>2 DEF DelayedKinds
      <3>4. child'[m.server].peer = {Here(m.peer.client)}
        <4>1. m.server \in Serving(m.peer.client)
          BY <3>2, <3>3 DEF Serving
        <4> QED BY <1>6, <3>2, <3>3, <4>1 DEF Serving
      <3> QED BY <1>2, <3>1, <3>2, <3>4
    <2>3. \A d : Here(d)' = Here(d)
      BY DEF Here
    <2> QED BY <2>1, <2>2, <2>3 DEF FnameSent, NoInbox
  <1> QED BY <1>5, <1>12, <1>13, <1>14, <1>15, <1>17, <1>18, <1>19 DEF Inductive

\* start_state().
LEMMA StartInductive ==
    ASSUME Inductive, NEW c \in Clients, StartState(c)
    PROVE  Inductive'
  <1>1. /\ TypeOK /\ TriesLeft /\ DelayedKinds /\ client[c].state = "START"
        /\ client[c] \in ClientRecords /\ listener \in Seq(Packets) /\ delayed \subseteq Packets
    BY DEF Inductive, TypeOK, ClientRecords, StartState
  <1>2. PICK found \in Lookups :
          client' = [client EXCEPT
            ![c].state = IF found THEN "CONNECTION" ELSE "DONE",
            ![c].remote = Listener, ![c].inbox = NoInbox]
    BY DEF StartState
  <1> DEFINE new == [client[c] EXCEPT !.state = IF found THEN "CONNECTION" ELSE "DONE",
                                      !.remote = Listener, !.inbox = <<>>]
  <1>3. /\ new \in ClientRecords /\ new.inbox = <<>> /\ new.tries = client[c].tries
        /\ new.state \in {"CONNECTION", "DONE"}
    <2>1. (IF found THEN "CONNECTION" ELSE "DONE") \in ClientStates \cap {"CONNECTION", "DONE"}
      BY DEF ClientStates
    <2>2. <<>> \in Seq(Packets)
      OBVIOUS
    <2> QED BY <1>1, <2>1, <2>2 DEF ClientRecords
  <1>4. client' = [client EXCEPT ![c] = new]
    BY <1>1, <1>2 DEF NoInbox, TypeOK
  <1>5. new.tries <= MAX_TRIES
    BY <1>1, <1>3 DEF TriesLeft
  <1>6. /\ child' = Abandoned(c) /\ listener' = LeftInbox(c, listener)
        /\ delayed' = {LeftPacket(c, m) : m \in delayed}
        /\ luck' = luck /\ faults' \in FaultCounts
    BY <1>1 DEF StartState, TypeOK
  <1> HIDE DEF new
  <1> QED BY <1>1, <1>3, <1>4, <1>5, <1>6, Leaving

\* A client takes a step that leaves its socket open and moves no packet.
LEMMA ClientMoves ==
    ASSUME Inductive, NEW c \in Clients, NEW new \in ClientRecords,
           client' = [client EXCEPT ![c] = new],
           UNCHANGED <<child, listener, delayed, luck, faults>>,
           client[c].state # "FILENAME_WAIT",
           new.state \in {"START", "FILENAME"}, new.tries <= MAX_TRIES,
           new.state = "FILENAME" => new.inbox # <<>>,
           \A i \in DOMAIN new.inbox :
               \E j \in DOMAIN client[c].inbox : new.inbox[i] = client[c].inbox[j]
    PROVE  Inductive'
  <1>1. /\ TypeOK /\ TriesLeft /\ DelayedKinds /\ ChildrenSound /\ OneServer
        /\ Answers /\ NewSocket /\ AnswerThere /\ FnameSent
        /\ client \in [Clients -> ClientRecords]
    BY DEF Inductive, TypeOK, ClientRecords
  <1>2. \A d \in Clients : client'[d] = IF d = c THEN new ELSE client[d]
    BY <1>1
  <1>3. TypeOK'
    BY <1>1 DEF TypeOK, ClientRecords
  <1>4. \A d : /\ Waiting(d)' = Waiting(d) /\ Travelling(d)' = Travelling(d)
               /\ Serving(d)' = Serving(d) /\ Answering(d)' = Answering(d)
               /\ Here(d)' = Here(d)
    BY DEF Waiting, Travelling, Serving, Answering, Here
  <1>5. DelayedKinds' /\ ChildrenSound' /\ OneServer'
    BY <1>1, <1>4 DEF DelayedKinds, ChildrenSound, OneServer
  <1>6. TriesLeft' /\ AnswerThere' /\ NewSocket'
    BY <1>1, <1>2, <1>4 DEF TriesLeft, AnswerThere, NewSocket, NoInbox
  <1>7. Answers'
    BY <1>1, <1>2, <1>4 DEF Answers
  <1>8. FnameSent'
    <2>1. \A d \in Clients : client[d].state = "FILENAME_WAIT" =>
            client'[d].state = "FILENAME_WAIT"
      BY <1>2
    <2>2. /\ \A k \in Children : child[k].peer \subseteq Peers
          /\ \A m \in delayed : m.peer.client \in Clients
      BY <1>1 DEF TypeOK, Packets, Peers
    <2> QED BY <1>1, <2>1, <2>2, HereFacts DEF FnameSent, Here
  <1> QED BY <1>3, <1>5, <1>6, <1>7, <1>8 DEF Inductive

\* processSelect() returns with an answer, or after a second without one.
LEMMA AnsweredInductive ==
    ASSUME Inductive, NEW c \in Clients, ConnectionAnswered(c) \/ ConnectionTimeout(c)
    PROVE  Inductive'
  <1>1. /\ TypeOK /\ TriesLeft /\ client[c].state = "CONNECTION_WAIT"
        /\ client[c] \in ClientRecords
    BY DEF Inductive, TypeOK, ClientRecords, ConnectionAnswered, ConnectionTimeout
  <1>2. client[c].tries \in 0 .. MAX_TRIES
    <2>1. client[c].tries \in 0 .. MAX_TRIES + 1 /\ client[c].tries <= MAX_TRIES
      BY <1>1 DEF TriesLeft, ClientRecords
    <2> QED BY <2>1, SetupAssumption
  <1>3. CASE ConnectionAnswered(c)
    <2> DEFINE new == [client[c] EXCEPT !.state = "FILENAME", !.tries = 0]
    <2>1. /\ new \in ClientRecords /\ new.inbox = client[c].inbox /\ new.tries = 0
          /\ new.state = "FILENAME"
      <3>1. 0 \in 0 .. MAX_TRIES + 1 /\ "FILENAME" \in ClientStates
        BY SetupAssumption DEF ClientStates
      <3> QED BY <1>1, <3>1 DEF ClientRecords
    <2>2. /\ client' = [client EXCEPT ![c] = new] /\ client[c].inbox # <<>>
          /\ UNCHANGED <<child, listener, delayed, luck, faults>>
      BY <1>1, <1>3 DEF ConnectionAnswered, TypeOK, NoInbox
    <2>3. 0 <= MAX_TRIES
      BY SetupAssumption
    <2> HIDE DEF new
    <2> QED BY <1>1, <2>1, <2>2, <2>3, ClientMoves
  <1>4. CASE ConnectionTimeout(c)
    <2> DEFINE new == [client[c] EXCEPT !.state = "START"]
    <2>1. /\ new \in ClientRecords /\ new.inbox = client[c].inbox
          /\ new.tries = client[c].tries /\ new.state = "START"
      BY <1>1 DEF ClientRecords, ClientStates
    <2>2. /\ client' = [client EXCEPT ![c] = new]
          /\ UNCHANGED <<child, listener, delayed, luck, faults>>
      BY <1>1, <1>4 DEF ConnectionTimeout, TypeOK, RetryState, TriesAfterTimeout
    <2>3. new.tries <= MAX_TRIES
      BY <1>2, <2>1
    <2> HIDE DEF new
    <2> QED BY <1>1, <2>1, <2>2, <2>3, ClientMoves
  <1> QED BY <1>3, <1>4

\* A packet is counted as hit or as spared.
LEMMA Counted ==
    ASSUME faults \in FaultCounts, NEW c \in Clients, NEW fate, Counting(c, fate)
    PROVE  faults' \in FaultCounts
  BY SetupAssumption DEF Counting, FaultCounts

\* connection_setup().
LEMMA SetupInductive ==
    ASSUME Inductive, NEW c \in Clients, ConnectionSetup(c)
    PROVE  Inductive'
  <1> DEFINE m == [flag |-> "SETUP", server |-> Listener, peer |-> Here(c)]
             tries == client[c].tries + 1
             gone == [client[c] EXCEPT !.state = "DONE", !.tries = tries,
                                       !.outcome = "no response"]
             waits == [client[c] EXCEPT !.state = "CONNECTION_WAIT", !.tries = tries]
  <1>1. /\ TypeOK /\ TriesLeft /\ DelayedKinds /\ ChildrenSound /\ OneServer
        /\ Answers /\ NewSocket /\ AnswerThere /\ FnameSent
        /\ client[c].state = "CONNECTION" /\ client[c].inbox = <<>>
        /\ Waiting(c) = {} /\ Travelling(c) = {} /\ Serving(c) = {}
        /\ client \in [Clients -> ClientRecords] /\ client[c] \in ClientRecords
        /\ listener \in Seq(Packets) /\ delayed \subseteq Packets /\ faults \in FaultCounts
    BY DEF Inductive, TypeOK, ClientRecords, ConnectionSetup, NewSocket, NoInbox
  <1>2. PICK fate \in Misfortune :
          /\ Counting(c, fate)
          /\ IF TriesUsedUp(tries)
             THEN /\ client' = [client EXCEPT
                       ![c].state = "DONE", ![c].tries = tries,
                       ![c].outcome = "no response"]
                  /\ child' = Abandoned(c)
                  /\ listener' = LeftInbox(c, listener \o Arriving(m, fate))
                  /\ delayed' = {LeftPacket(c, x) : x \in delayed \cup Delaying(m, fate)}
             ELSE /\ client' = [client EXCEPT
                       ![c].state = "CONNECTION_WAIT", ![c].tries = tries]
                  /\ listener' = listener \o Arriving(m, fate)
                  /\ delayed' = delayed \cup Delaying(m, fate)
                  /\ UNCHANGED child
    BY DEF ConnectionSetup
  <1>3. /\ m \in Packets /\ m.flag = "SETUP" /\ m.server = Listener /\ m.peer = Here(c)
        /\ fate \in Misfortunes \cup {"sent"}
    BY HereFacts, SetupAssumption DEF Packets, Misfortune
  <1> DEFINE coming == listener \o Arriving(m, fate)
             later == delayed \cup Delaying(m, fate)
  <1>4. /\ coming \in Seq(Packets)
        /\ fate = "late" => coming = listener
        /\ \A i \in DOMAIN coming :
             \/ i \in DOMAIN listener /\ coming[i] = listener[i]
             \/ i = Len(listener) + 1 /\ coming[i].peer = Here(c)
    <2> HIDE DEF m
    <2> QED BY <1>1, <1>3, Arrived
  <1>5. /\ later \in SUBSET Packets
        /\ fate # "late" => later = delayed
        /\ \A x \in later : x \in delayed \/ x = m
    <2> HIDE DEF m
    <2> QED BY <1>1, <1>3 DEF Delaying
  <1>6. /\ tries \in 0 .. MAX_TRIES + 1 /\ luck' = luck /\ luck \in AnswerFates
        /\ faults' \in FaultCounts
    <2>1. client[c].tries \in 0 .. MAX_TRIES + 1 /\ client[c].tries <= MAX_TRIES
      BY <1>1 DEF TriesLeft, ClientRecords
    <2>2. tries \in 0 .. MAX_TRIES + 1
      BY <2>1, SetupAssumption
    <2>3. faults' \in FaultCounts
      BY <1>1, <1>2, Counted
    <2>4. luck' = luck /\ luck \in AnswerFates
      BY <1>1 DEF ConnectionSetup, TypeOK
    <2> QED BY <2>2, <2>3, <2>4
  <1>7. CASE TriesUsedUp(tries)
    <2>1. gone \in ClientRecords /\ gone.inbox = <<>> /\ gone.state = "DONE"
      BY <1>1, <1>6 DEF ClientRecords, ClientStates
    <2>2. /\ client' = [client EXCEPT ![c] = gone] /\ child' = Abandoned(c)
          /\ listener' = LeftInbox(c, coming)
          /\ delayed' = {LeftPacket(c, x) : x \in later}
      BY <1>1, <1>2, <1>7
    <2>3. /\ \A i \in DOMAIN coming : coming[i].peer # Here(c) =>
                i \in DOMAIN listener /\ coming[i] = listener[i]
          /\ \A x \in later : x.peer # Here(c) => x \in delayed
          /\ \A x \in later : \/ x.flag = "SETUP" /\ x.server = Listener
                              \/ x \in delayed
      BY <1>3, <1>4, <1>5
    <2> HIDE DEF gone, coming, later, m, tries
    <2> QED BY <1>1, <1>4, <1>5, <1>6, <2>1, <2>2, <2>3, Leaving
  <1>8. CASE ~TriesUsedUp(tries)
    <2>1. /\ waits \in ClientRecords /\ waits.inbox = <<>> /\ waits.tries = tries
          /\ waits.state = "CONNECTION_WAIT"
      BY <1>1, <1>6 DEF ClientRecords, ClientStates
    <2>2. /\ client' = [client EXCEPT ![c] = waits] /\ child' = child
          /\ listener' = coming /\ delayed' = later
      BY <1>1, <1>2, <1>8
    <2>3. tries <= MAX_TRIES
      BY <1>6, <1>8, SetupAssumption DEF TriesUsedUp
    <2> HIDE DEF waits, coming, later, m, tries
    <2>4. \A d \in Clients : client'[d] = IF d = c THEN waits ELSE client[d]
      BY <1>1, <2>2
    <2>5. TypeOK'
      BY <1>1, <1>4, <1>5, <1>6, <2>1, <2>2 DEF TypeOK, ClientRecords
    <2>6. TriesLeft' /\ AnswerThere'
      BY <1>1, <2>1, <2>3, <2>4 DEF TriesLeft, AnswerThere
    <2>7. DelayedKinds' /\ ChildrenSound'
      BY <1>1, <1>3, <1>5, <2>2 DEF DelayedKinds, ChildrenSound
    <2>8. \A d : Serving(d)' = Serving(d) /\ Answering(d)' = Answering(d) /\ Here(d)' = Here(d)
      BY <2>2 DEF Serving, Answering, Here
    <2>9. \A d \in Clients : d # c =>
            Waiting(d)' \subseteq Waiting(d) /\ Travelling(d)' \subseteq Travelling(d)
      BY <1>3, <1>4, <1>5, <2>2, <2>8, HereFacts DEF Waiting, Travelling
    <2>10. Waiting(c)' \subseteq {Len(listener) + 1}
      BY <1>1, <1>4, <2>2, <2>8 DEF Waiting
    <2>11. fate = "late" => Waiting(c)' = {}
      BY <1>1, <1>4, <2>2, <2>8 DEF Waiting
    <2>12. fate # "late" => Travelling(c)' = {}
      BY <1>1, <1>5, <2>2, <2>8 DEF Travelling
    <2>13. OneServer'
      BY <1>1, <2>8, <2>9, <2>10, <2>11, <2>12 DEF OneServer
    <2>14. Answers'
      <3>1. \A d \in Clients : client'[d].inbox = client[d].inbox
        BY <1>1, <2>1, <2>4
      <3>2. \A x \in delayed' : x.flag = "SETUP_RES" => x \in delayed
        BY <1>3, <1>5, <2>2
      <3> QED BY <1>1, <2>8, <3>1, <3>2 DEF Answers
    <2>15. NewSocket'
      <3>1. ASSUME NEW d \in Clients, client'[d].state = "CONNECTION"
            PROVE  d # c /\ client[d].state = "CONNECTION" /\ client'[d].inbox = client[d].inbox
        BY <2>1, <2>4, <3>1
      <3>2. ASSUME NEW d \in Clients, client'[d].state = "CONNECTION"
            PROVE  /\ client'[d].inbox = <<>> /\ Waiting(d)' = {}
                   /\ Travelling(d)' = {} /\ Serving(d)' = {}
        BY <1>1, <2>8, <2>9, <3>1, <3>2 DEF NewSocket, NoInbox
      <3> QED BY <3>2 DEF NewSocket, NoInbox
    <2>16. FnameSent'
      <3>1. \A d \in Clients : client[d].state = "FILENAME_WAIT" =>
              client'[d].state = "FILENAME_WAIT"
        BY <1>1, <2>4
      <3>2. \A x \in delayed' : x.flag = "FNAME" => x \in delayed
        BY <1>3, <1>5, <2>2
      <3>3. /\ \A k \in Children : child[k].peer \subseteq Peers
            /\ \A x \in delayed : x.peer.client \in Clients
        BY <1>1 DEF TypeOK, Packets, Peers
      <3>4. ASSUME NEW k \in Children, child'[k].inbox # <<>>, NEW q \in child'[k].peer
            PROVE  client'[q.client].state = "FILENAME_WAIT"
        BY <1>1, <2>2, <3>1, <3>3, <3>4, HereFacts DEF FnameSent, NoInbox
      <3>5. ASSUME NEW x \in delayed', x.flag = "FNAME"
            PROVE  /\ client'[x.peer.client].state = "FILENAME_WAIT"
                   /\ child'[x.server].peer = {Here(x.peer.client)}
        BY <1>1, <2>2, <3>1, <3>2, <3>3, <3>5 DEF FnameSent
      <3> QED BY <2>8, <3>4, <3>5 DEF FnameSent, NoInbox
    <2> QED BY <2>5, <2>6, <2>7, <2>13, <2>14, <2>15, <2>16 DEF Inductive
  <1> QED BY <1>7, <1>8

\* filename() of the client.
LEMMA FilenameInductive ==
    ASSUME Inductive, NEW c \in Clients, FilenameFirst(c)
    PROVE  Inductive'
  <1> DEFINE answer == Head(client[c].inbox)
             m == [answer EXCEPT !.flag = "FNAME"]
             to == answer.server
             again == [client[c] EXCEPT !.remote = to, !.inbox = Tail(@), !.state = "START"]
             waits == [client[c] EXCEPT !.remote = to, !.inbox = Tail(@), !.state = "FILENAME_WAIT"]
  <1>1. /\ TypeOK /\ TriesLeft /\ DelayedKinds /\ ChildrenSound /\ OneServer
        /\ Answers /\ NewSocket /\ AnswerThere /\ FnameSent
        /\ client[c].state = "FILENAME" /\ client[c].inbox # <<>>
        /\ client \in [Clients -> ClientRecords] /\ client[c] \in ClientRecords
        /\ child \in [Children -> ChildRecords]
        /\ delayed \subseteq Packets /\ faults \in FaultCounts
    BY DEF Inductive, TypeOK, ClientRecords, ChildRecords, FilenameFirst, NoInbox
  <1>2. /\ client[c].inbox \in Seq(Packets)
        /\ client[c].tries <= MAX_TRIES
    BY <1>1 DEF ClientRecords, TriesLeft
  <1>3. /\ answer \in Packets /\ Tail(client[c].inbox) \in Seq(Packets)
        /\ \A i \in DOMAIN Tail(client[c].inbox) :
             \E j \in DOMAIN client[c].inbox : Tail(client[c].inbox)[i] = client[c].inbox[j]
        /\ 1 \in DOMAIN client[c].inbox /\ answer = client[c].inbox[1]
    BY <1>1, <1>2, Taken
  <1>4. /\ answer.peer = Here(c) /\ to \in Answering(c)
        /\ to \in Children /\ child[to].peer = {Here(c)} /\ child[to].state = "FILENAME"
    BY <1>1, <1>3 DEF Answers, Answering, Serving
  <1>5. CASE answer.flag = "CRC_ERROR"
    <2>1. /\ again \in ClientRecords /\ again.inbox = Tail(client[c].inbox)
          /\ again.tries = client[c].tries /\ again.state = "START"
      BY <1>1, <1>3, <1>4 DEF ClientRecords, ClientStates
    <2>2. /\ client' = [client EXCEPT ![c] = again]
          /\ UNCHANGED <<child, listener, delayed, luck, faults>>
      BY <1>1, <1>5 DEF FilenameFirst
    <2>3. \A i \in DOMAIN again.inbox :
            \E j \in DOMAIN client[c].inbox : again.inbox[i] = client[c].inbox[j]
      BY <1>3, <2>1
    <2>4. client[c].state # "FILENAME_WAIT" /\ again.tries <= MAX_TRIES
          /\ again.state \in {"START", "FILENAME"} /\ again.state # "FILENAME"
      BY <1>1, <1>2, <2>1
    <2> HIDE DEF again
    <2> QED BY <2>1, <2>2, <2>3, <2>4, ClientMoves
  <1>6. CASE answer.flag # "CRC_ERROR"
    <2>1. PICK fate \in Misfortune :
            /\ Counting(c, fate)
            /\ child' = [child EXCEPT ![to].inbox = @ \o Arriving(m, fate)]
            /\ delayed' = delayed \cup Delaying(m, fate)
      BY <1>6 DEF FilenameFirst
    <2>2. /\ waits \in ClientRecords /\ waits.inbox = Tail(client[c].inbox)
          /\ waits.tries = client[c].tries /\ waits.state = "FILENAME_WAIT"
      BY <1>1, <1>3, <1>4 DEF ClientRecords, ClientStates
    <2>3. /\ client' = [client EXCEPT ![c] = waits] /\ listener' = listener /\ luck' = luck
      BY <1>1, <1>6 DEF FilenameFirst
    <2>4. /\ m \in Packets /\ m.flag = "FNAME" /\ m.server = to /\ m.peer = Here(c)
          /\ fate \in Misfortunes \cup {"sent"}
      <3>1. fate \in Misfortunes \cup {"sent"}
        BY SetupAssumption DEF Misfortune
      <3> HIDE DEF answer
      <3> QED BY <1>3, <1>4, <3>1 DEF Packets
    <2>5. /\ delayed' \subseteq Packets /\ \A x \in delayed' : x \in delayed \/ x = m
          /\ \A x \in delayed : x \in delayed'
      BY <1>1, <2>1, <2>4 DEF Delaying
    <2> DEFINE grown == child[to].inbox \o Arriving(m, fate)
    <2>6. grown \in Seq(Packets)
      <3>1. child[to].inbox \in Seq(Packets)
        BY <1>1, <1>4 DEF ChildRecords
      <3> HIDE DEF m, to
      <3> QED BY <2>4, <3>1, Arrived
    <2>7. /\ child' \in [Children -> ChildRecords]
          /\ \A k \in Children : /\ child'[k].state = child[k].state
                                 /\ child'[k].peer = child[k].peer
                                 /\ k # to => child'[k] = child[k]
      <3> HIDE DEF m, to, grown
      <3>1. child' = [child EXCEPT ![to].inbox = grown]
        BY <2>1 DEF grown
      <3> QED BY <1>1, <1>4, <2>6, <3>1 DEF ChildRecords
    <2>8. \A d \in Clients : client'[d] = IF d = c THEN waits ELSE client[d]
      BY <1>1, <2>3
    <2>9. client' \in [Clients -> ClientRecords] /\ faults' \in FaultCounts
      BY <1>1, <2>1, <2>2, <2>3, Counted
    <2> HIDE DEF waits, m, to, grown, answer
    <2>10. TypeOK'
      BY <1>1, <2>3, <2>5, <2>7, <2>9 DEF TypeOK, ClientRecords, ChildRecords
    <2>11. TriesLeft' /\ AnswerThere'
      BY <1>1, <1>2, <2>2, <2>8 DEF TriesLeft, AnswerThere
    <2>12. DelayedKinds'
      BY <1>1, <1>4, <2>4, <2>5 DEF DelayedKinds
    <2>13. ChildrenSound'
      BY <1>1, <1>4, <2>7 DEF ChildrenSound
    <2>14. \A d \in Clients :
             /\ Waiting(d)' = Waiting(d) /\ Travelling(d)' = Travelling(d)
             /\ Serving(d)' = Serving(d) /\ Answering(d)' = Answering(d) /\ Here(d)' = Here(d)
      <3> TAKE d \in Clients
      <3>1. Waiting(d)' = Waiting(d) /\ Here(d)' = Here(d)
        BY <2>3 DEF Waiting, Here
      <3>2. Travelling(d)' = Travelling(d)
        BY <2>4, <2>5, <3>1 DEF Travelling
      <3>3. Serving(d)' = Serving(d)
        BY <2>7, <3>1 DEF Serving
      <3> QED BY <2>7, <3>1, <3>2, <3>3 DEF Answering, Serving
    <2>15. OneServer'
      BY <1>1, <2>14 DEF OneServer
    <2>16. Answers'
      <3>1. ASSUME NEW d \in Clients, NEW i \in DOMAIN client'[d].inbox
            PROVE  \E j \in DOMAIN client[d].inbox : client'[d].inbox[i] = client[d].inbox[j]
        <4>1. CASE d = c
          <5>1. client'[d].inbox = Tail(client[c].inbox)
            BY <2>2, <2>8, <4>1
          <5> QED BY <1>3, <3>1, <4>1, <5>1
        <4>2. CASE d # c
          BY <2>8, <3>1, <4>2
        <4> QED BY <4>1, <4>2
      <3>2. ASSUME NEW d \in Clients, NEW i \in DOMAIN client'[d].inbox
            PROVE  /\ client'[d].inbox[i].peer = Here(d)
                   /\ client'[d].inbox[i].server \in Answering(d)'
        BY <1>1, <2>14, <3>1, <3>2 DEF Answers
      <3>3. ASSUME NEW x \in delayed', x.flag = "SETUP_RES", x.peer.socket = "open"
            PROVE  x.server \in Answering(x.peer.client)'
        <4>1. x \in delayed /\ x \in Packets
          BY <1>1, <2>4, <2>5, <3>3
        <4>2. x.peer.client \in Clients
          BY <4>1 DEF Packets, Peers
        <4> QED BY <1>1, <2>14, <3>3, <4>1, <4>2 DEF Answers
      <3> QED BY <2>14, <3>2, <3>3 DEF Answers
    <2>17. NewSocket'
      <3>1. ASSUME NEW d \in Clients, client'[d].state = "CONNECTION"
            PROVE  client[d].state = "CONNECTION" /\ client'[d].inbox = client[d].inbox
        BY <2>2, <2>8, <3>1
      <3> QED BY <1>1, <2>14, <3>1 DEF NewSocket
    <2>18. FnameSent'
      <3>1. \A d \in Clients : client[d].state = "FILENAME_WAIT" \/ d = c =>
              client'[d].state = "FILENAME_WAIT"
        BY <2>2, <2>8
      <3>2. ASSUME NEW k \in Children, child'[k].inbox # <<>>, NEW q \in child'[k].peer
            PROVE  client'[q.client].state = "FILENAME_WAIT"
        <4>1. CASE k = to
          BY <1>4, <2>7, <3>1, <3>2, <4>1, HereFacts
        <4>2. CASE k # to
          <5>1. child[k].peer \subseteq Peers
            BY <1>1 DEF ChildRecords
          <5> QED BY <1>1, <2>7, <3>1, <3>2, <4>2, <5>1, HereFacts DEF FnameSent, NoInbox
        <4> QED BY <4>1, <4>2
      <3>3. ASSUME NEW x \in delayed', x.flag = "FNAME"
            PROVE  /\ client'[x.peer.client].state = "FILENAME_WAIT"
                   /\ child'[x.server].peer = {Here(x.peer.client)}
        <4>1. CASE x = m
          BY <1>4, <2>4, <2>7, <3>1, <4>1, HereFacts
        <4>2. CASE x \in delayed
          <5>1. x.server \in Children /\ x.peer \in Peers
            BY <1>1, <3>3, <4>2 DEF DelayedKinds, Packets
          <5> QED BY <1>1, <2>7, <3>1, <3>3, <4>2, <5>1, HereFacts DEF FnameSent
        <4> QED BY <2>5, <4>1, <4>2
      <3>4. \A d : Here(d)' = Here(d)
        BY DEF Here
      <3> QED BY <3>2, <3>3, <3>4 DEF FnameSent, NoInbox
    <2> QED BY <2>10, <2>11, <2>12, <2>13, <2>15, <2>16, <2>17, <2>18 DEF Inductive
  <1> QED BY <1>5, <1>6

\* process_server().
LEMMA ServeInductive ==
    ASSUME Inductive, ServeClient
    PROVE  Inductive'
  <1> DEFINE m == Head(listener)
             new == CHOOSE k \in Free : TRUE
             unborn == [state |-> "none", peer |-> {}, inbox |-> <<>>]
             forked == [state |-> "CONNECTION", peer |-> {m.peer}, inbox |-> <<>>]
  <1>1. /\ TypeOK /\ TriesLeft /\ DelayedKinds /\ ChildrenSound /\ OneServer
        /\ Answers /\ NewSocket /\ AnswerThere /\ FnameSent
        /\ child \in [Children -> ChildRecords]
        /\ listener \in Seq(Packets) /\ listener # <<>> /\ delayed \subseteq Packets
        /\ listener' = Tail(listener)
        /\ UNCHANGED <<client, delayed, luck, faults>>
    BY DEF Inductive, TypeOK, ChildRecords, ServeClient, NoInbox
  <1>2. /\ m \in Packets /\ Tail(listener) \in Seq(Packets)
        /\ 1 \in DOMAIN listener /\ m = listener[1]
        /\ \A i \in DOMAIN Tail(listener) :
             i \in Nat /\ i + 1 \in DOMAIN listener /\ Tail(listener)[i] = listener[i + 1]
    BY <1>1, Taken
  <1>3. m.peer \in Peers
    BY <1>2 DEF Packets
  <1>4. unborn \in ChildRecords /\ forked \in ChildRecords
    BY <1>3 DEF ChildRecords, ChildStates
  <1>5. /\ child' \in [Children -> ChildRecords]
        /\ \A k \in Children :
             \/ child[k].state # "DONE" /\ child'[k] = child[k]
             \/ child[k].state = "DONE" /\ child'[k] = unborn
             \/ k = new /\ child[k].state \in {"none", "DONE"} /\ child'[k] = forked
        /\ \/ \A k \in Children : child'[k] # forked \/ child'[k] = child[k]
           \/ new \in Children /\ child'[new] = forked
    <2>1. \A k \in Children : /\ Reaped(k) \in ChildRecords
                              /\ child[k].state # "DONE" => Reaped(k) = child[k]
                              /\ child[k].state = "DONE" => Reaped(k) = unborn
      BY <1>1, <1>4 DEF Reaped, NoInbox
    <2> HIDE DEF unborn, forked
    <2>2. CASE m.flag = "CRC_ERROR"
      <3>1. child' = [k \in Children |-> Reaped(k)]
        BY <2>2 DEF ServeClient
      <3>2. unborn # forked
        BY DEF unborn, forked
      <3> QED BY <2>1, <3>1, <3>2
    <2>3. CASE m.flag # "CRC_ERROR"
      <3>1. /\ Free # {}
            /\ child' = [k \in Children |-> IF k = new THEN forked ELSE Reaped(k)]
        BY <2>3 DEF ServeClient, forked, NoInbox
      <3>2. new \in Free
        BY <3>1
      <3>3. new \in Children /\ child[new].state \in {"none", "DONE"}
        BY <3>2 DEF Free
      <3> HIDE DEF new
      <3> QED BY <1>4, <2>1, <3>1, <3>3
    <2> QED BY <2>2, <2>3
  <1> HIDE DEF m, new
  <1>6. \A k \in Children :
          child[k].state \in {"none", "DONE"} => \A d \in Clients : k \notin Serving(d)
    <2> SUFFICES ASSUME NEW k \in Children, child[k].state \in {"none", "DONE"},
                        NEW d \in Clients
                 PROVE  child[k].peer # {Here(d)}
      BY DEF Serving
    <2>1. CASE child[k].state = "none"
      BY <1>1, <2>1 DEF ChildrenSound
    <2>2. CASE child[k].state = "DONE"
      BY <1>1, <2>2, HereFacts DEF ChildrenSound
    <2> QED BY <2>1, <2>2
  <1>7. \A d \in Clients : Serving(d) \subseteq Serving(d)'
    BY <1>5, <1>6 DEF Serving, Here
  <1>8. \A d \in Clients : \A k \in Serving(d)' :
          \/ k \in Serving(d)
          \/ k = new /\ m.peer = Here(d) /\ child'[k].state = "CONNECTION"
    <2> SUFFICES ASSUME NEW d \in Clients, NEW k \in Serving(d)', k \notin Serving(d)
                 PROVE  k = new /\ m.peer = Here(d) /\ child'[k].state = "CONNECTION"
      OBVIOUS
    <2>1. k \in Children /\ child'[k].peer = {Here(d)}
      BY DEF Serving, Here
    <2>2. child'[k] # child[k]
      BY <2>1 DEF Serving
    <2>3. child'[k] # unborn
      BY <2>1
    <2> QED BY <1>5, <2>1, <2>2, <2>3
  <1>9. \A d \in Clients : Answering(d)' = Answering(d)
    <2> SUFFICES ASSUME NEW d \in Clients, NEW k
                 PROVE  k \in Answering(d)' <=> k \in Answering(d)
      BY DEF Answering
    <2>1. ASSUME k \in Answering(d) PROVE k \in Answering(d)'
      <3>1. k \in Serving(d)' /\ k \in Children /\ child[k].state = "FILENAME"
        BY <1>7, <2>1 DEF Answering, Serving
      <3> QED BY <1>5, <3>1 DEF Answering
    <2>2. ASSUME k \in Answering(d)' PROVE k \in Answering(d)
      <3>1. k \in Serving(d)' /\ k \in Children /\ child'[k].state = "FILENAME"
        BY <2>2 DEF Answering, Serving
      <3>2. k \in Serving(d)
        BY <1>8, <3>1
      <3> QED BY <1>5, <3>1, <3>2 DEF Answering
    <2> QED BY <2>1, <2>2
  <1>10. \A d \in Clients : \A i \in Waiting(d)' : i \in Nat /\ i + 1 \in Waiting(d)
    BY <1>1, <1>2 DEF Waiting, Here
  <1>11. \A d \in Clients : m.peer = Here(d) =>
           Waiting(d)' = {} /\ Travelling(d) = {} /\ Serving(d) = {}
    <2> SUFFICES ASSUME NEW d \in Clients, m.peer = Here(d)
                 PROVE  Waiting(d)' = {} /\ Travelling(d) = {} /\ Serving(d) = {}
      OBVIOUS
    <2>1. 1 \in Waiting(d)
      BY <1>2 DEF Waiting
    <2>2. \A i \in Waiting(d)' : FALSE
      <3> TAKE i \in Waiting(d)'
      <3>1. i \in Nat /\ i + 1 = 1
        BY <1>1, <1>10, <2>1 DEF OneServer
      <3>2. i # 0
        BY <1>1, <1>2 DEF Waiting
      <3> QED BY <3>1, <3>2
    <2> QED BY <1>1, <2>1, <2>2 DEF OneServer
  <1>12. \A d \in Clients : Travelling(d)' = Travelling(d) /\ Here(d)' = Here(d)
    BY <1>1 DEF Travelling, Here
  <1>13. TypeOK'
    BY <1>1, <1>2, <1>5 DEF TypeOK, ChildRecords
  <1>14. TriesLeft' /\ DelayedKinds' /\ AnswerThere'
    BY <1>1 DEF TriesLeft, DelayedKinds, AnswerThere
  <1>15. ChildrenSound'
    <2> SUFFICES ASSUME NEW k \in Children
                 PROVE  /\ child'[k].state = "none" => child'[k].peer = {}
                        /\ child'[k].state # "none" => \E p \in Peers : child'[k].peer = {p}
                        /\ child'[k].state # "FILENAME" => child'[k].inbox = <<>>
                        /\ child'[k].state = "DONE" =>
                             \A p \in child'[k].peer : p.socket = "closed"
      BY DEF ChildrenSound, NoInbox
    <2>1. CASE child'[k] = child[k]
      BY <1>1, <2>1 DEF ChildrenSound, NoInbox
    <2>2. CASE child'[k] = unborn
      BY <2>2
    <2>3. CASE child'[k] = forked
      BY <1>3, <2>3
    <2> QED BY <1>5, <2>1, <2>2, <2>3
  <1>16. OneServer'
    <2>1. ASSUME NEW d \in Clients
          PROVE  /\ \A i, j \in Waiting(d)' : i = j
                 /\ \A k, l \in Serving(d)' : k = l
                 /\ Waiting(d)' # {} => Travelling(d)' = {} /\ Serving(d)' = {}
                 /\ Travelling(d)' # {} => Serving(d)' = {}
      <3>1. \A i, j \in Waiting(d)' : i = j
        BY <1>1, <1>10 DEF OneServer
      <3>2. CASE m.peer = Here(d)
        BY <1>8, <1>11, <1>12, <3>1, <3>2
      <3>3. CASE m.peer # Here(d)
        <4>1. Serving(d)' = Serving(d)
          BY <1>7, <1>8, <3>3
        <4>2. Waiting(d)' # {} => Waiting(d) # {}
          BY <1>10
        <4> QED BY <1>1, <1>12, <3>1, <4>1, <4>2 DEF OneServer
      <3> QED BY <3>2, <3>3
    <2> QED BY <2>1 DEF OneServer
  <1>17. Answers'
    <2>1. ASSUME NEW x \in delayed, x.flag = "SETUP_RES", x.peer.socket = "open"
          PROVE  x.server \in Answering(x.peer.client)'
      <3>1. x.peer.client \in Clients
        BY <1>1 DEF Packets, Peers
      <3> QED BY <1>1, <1>9, <2>1, <3>1 DEF Answers
    <2> QED BY <1>1, <1>9, <1>12, <2>1 DEF Answers
  <1>18. NewSocket'
    <2> SUFFICES ASSUME NEW d \in Clients, client[d].state = "CONNECTION"
                 PROVE  /\ client[d].inbox = <<>> /\ Waiting(d)' = {}
                        /\ Travelling(d)' = {} /\ Serving(d)' = {}
      BY <1>1 DEF NewSocket, NoInbox
    <2>1. /\ client[d].inbox = <<>> /\ Waiting(d) = {}
          /\ Travelling(d) = {} /\ Serving(d) = {}
      BY <1>1 DEF NewSocket, NoInbox
    <2>2. m.peer # Here(d)
      BY <1>2, <2>1 DEF Waiting
    <2> QED BY <1>8, <1>10, <1>12, <2>1, <2>2
  <1>19. FnameSent'
    <2>1. ASSUME NEW k \in Children, child'[k].inbox # <<>>
          PROVE  child'[k] = child[k]
      <3>1. child'[k] # unborn /\ child'[k] # forked
        BY <2>1
      <3> QED BY <1>5, <3>1
    <2>2. ASSUME NEW x \in delayed, x.flag = "FNAME"
          PROVE  child'[x.server].peer = {Here(x.peer.client)}
      <3>1. x.server \in Children /\ x.peer.client \in Clients
        BY <1>1, <2>2 DEF DelayedKinds, Packets, Peers
      <3>2. x.server \in Serving(x.peer.client)
        BY <1>1, <2>2, <3>1 DEF FnameSent, Serving
      <3> QED BY <1>7, <1>12, <3>1, <3>2 DEF Serving
    <2> QED BY <1>1, <2>1, <2>2 DEF FnameSent, NoInbox, Here
  <1> QED BY <1>13, <1>14, <1>15, <1>16, <1>17, <1>18, <1>19 DEF Inductive

\* connection().
LEMMA ConnectionInductive ==
    ASSUME Inductive, NEW k \in Children, Connection(k)
    PROVE  Inductive'
  <1>1. /\ TypeOK /\ TriesLeft /\ DelayedKinds /\ ChildrenSound /\ OneServer
        /\ Answers /\ NewSocket /\ AnswerThere /\ FnameSent
        /\ client \in [Clients -> ClientRecords] /\ child \in [Children -> ChildRecords]
        /\ delayed \subseteq Packets /\ faults \in FaultCounts
        /\ child[k].state = "CONNECTION"
        /\ child' = [child EXCEPT ![k].state = "FILENAME", ![k].inbox = NoInbox]
        /\ listener' = listener /\ luck' = luck /\ luck \in AnswerFates
    BY DEF Inductive, TypeOK, ClientRecords, ChildRecords, Connection
  <1>2. PICK peer \in child[k].peer, udp \in Misfortune :
          LET m    == [flag |-> "SETUP_RES", peer |-> peer, server |-> k]
              fate == IF luck = "sent" THEN udp ELSE luck
          IN  /\ Counting(peer.client, udp)
              /\ client' = IF peer.socket = "open"
                   THEN [client EXCEPT
                          ![peer.client].inbox = @ \o Arriving(m, fate)]
                   ELSE client
              /\ delayed' = delayed \cup Delaying(m, fate)
    BY DEF Connection
  <1> DEFINE m == [flag |-> "SETUP_RES", peer |-> peer, server |-> k]
             fate == IF luck = "sent" THEN udp ELSE luck
  <1>3. /\ peer \in Peers /\ child[k].peer = {peer}
    <2>1. \E p \in Peers : child[k].peer = {p}
      BY <1>1 DEF ChildrenSound
    <2> QED BY <1>2, <2>1
  <1>4. /\ m \in Packets /\ m.flag = "SETUP_RES" /\ m.peer = peer /\ m.server = k
    BY <1>3 DEF Packets
  <1>5. fate \in Misfortunes \cup {"sent"}
    BY <1>1, SetupAssumption DEF Misfortune, Misfortunes
  <1>6. /\ Counting(peer.client, udp)
        /\ client' = IF peer.socket = "open"
                     THEN [client EXCEPT ![peer.client].inbox = @ \o Arriving(m, fate)]
                     ELSE client
        /\ delayed' = delayed \cup Delaying(m, fate)
    BY <1>2
  <1> HIDE DEF m, fate
  <1>7. delayed' \subseteq Packets /\ \A x \in delayed' : x \in delayed \/ x = m
    BY <1>1, <1>4, <1>6 DEF Delaying
  <1>8. /\ child' \in [Children -> ChildRecords]
        /\ \A l \in Children : /\ child'[l].peer = child[l].peer
                               /\ l # k => child'[l] = child[l]
        /\ child'[k].state = "FILENAME" /\ child'[k].inbox = <<>>
    <2> DEFINE answering == [child[k] EXCEPT !.state = "FILENAME", !.inbox = <<>>]
    <2>1. child' = [child EXCEPT ![k] = answering]
      BY <1>1 DEF NoInbox
    <2>2. child[k] \in ChildRecords
      BY <1>1
    <2>3. <<>> \in Seq(Packets) /\ "FILENAME" \in ChildStates
      BY DEF ChildStates
    <2>4. /\ answering \in ChildRecords /\ answering.peer = child[k].peer
          /\ answering.state = "FILENAME" /\ answering.inbox = <<>>
      BY <2>2, <2>3 DEF ChildRecords
    <2> HIDE DEF answering
    <2> QED BY <1>1, <2>1, <2>4
  <1>9. /\ client' \in [Clients -> ClientRecords]
        /\ \A d \in Clients :
             /\ client'[d].state = client[d].state /\ client'[d].tries = client[d].tries
             /\ client[d].inbox # <<>> => client'[d].inbox # <<>>
             /\ \A i \in DOMAIN client'[d].inbox :
                  \/ /\ i \in DOMAIN client[d].inbox
                     /\ client'[d].inbox[i] = client[d].inbox[i]
                  \/ /\ peer = Here(d)
                     /\ client'[d].inbox[i].peer = peer /\ client'[d].inbox[i].server = k
             /\ peer # Here(d) => client'[d] = client[d]
    <2>1. CASE peer.socket # "open"
      BY <1>1, <1>6, <2>1
    <2>2. CASE peer.socket = "open"
      <3> DEFINE c == peer.client
                 grown == client[c].inbox \o Arriving(m, fate)
      <3>1. c \in Clients /\ peer = Here(c)
        BY <1>3, <2>2, HereFacts
      <3>2. client[c].inbox \in Seq(Packets)
        BY <1>1, <3>1 DEF ClientRecords
      <3>3. /\ grown \in Seq(Packets)
            /\ client[c].inbox # <<>> => grown # <<>>
            /\ \A i \in DOMAIN grown :
                 \/ i \in DOMAIN client[c].inbox /\ grown[i] = client[c].inbox[i]
                 \/ grown[i].peer = peer /\ grown[i].server = k
        <4> HIDE DEF c
        <4>1. client[c].inbox # <<>> => grown # <<>>
          BY <1>4, <1>5, <3>2, Arrived
        <4>2. grown \in Seq(Packets)
          BY <1>4, <1>5, <3>2, Arrived
        <4>3. \A i \in DOMAIN grown :
                \/ i \in DOMAIN client[c].inbox /\ grown[i] = client[c].inbox[i]
                \/ i = Len(client[c].inbox) + 1 /\ grown[i].peer = m.peer /\ grown[i].server = m.server
          <5> DEFINE inbox == client[c].inbox
                     all   == inbox \o Arriving(m, fate)
          <5>1. inbox \in Seq(Packets) /\ m \in Packets /\ fate \in Misfortunes \cup {"sent"}
            BY <1>4, <1>5, <3>2
          <5> HIDE DEF inbox
          <5>2. \A i \in DOMAIN all :
                  \/ i \in DOMAIN inbox /\ all[i] = inbox[i]
                  \/ i = Len(inbox) + 1 /\ all[i].peer = m.peer /\ all[i].server = m.server
            BY <5>1, Arrived
          <5> HIDE DEF all
          <5>3. all = grown /\ inbox = client[c].inbox
            BY DEF all, inbox
          <5> HIDE DEF grown
          <5> QED BY <5>2, <5>3
        <4>4. m.peer = peer /\ m.server = k
          BY <1>4
        <4>5. \A i \in DOMAIN grown :
                \/ i \in DOMAIN client[c].inbox /\ grown[i] = client[c].inbox[i]
                \/ grown[i].peer = peer /\ grown[i].server = k
          <5> HIDE DEF grown, m
          <5> QED BY <4>3, <4>4
        <4> HIDE DEF grown
        <4> QED BY <4>1, <4>2, <4>5
      <3>4. client' = [client EXCEPT ![c].inbox = grown]
        BY <1>6, <2>2
      <3> HIDE DEF c, grown
      <3>5. \A d \in Clients : peer = Here(d) => d = c
        BY <3>1, HereFacts
      <3>6. /\ client' \in [Clients -> ClientRecords]
            /\ \A d \in Clients : d # c => client'[d] = client[d]
            /\ client'[c].state = client[c].state /\ client'[c].tries = client[c].tries
            /\ client'[c].inbox = grown
        BY <1>1, <3>1, <3>3, <3>4 DEF ClientRecords
      <3>7. ASSUME NEW d \in Clients
            PROVE  /\ client'[d].state = client[d].state /\ client'[d].tries = client[d].tries
                   /\ client[d].inbox # <<>> => client'[d].inbox # <<>>
                   /\ \A i \in DOMAIN client'[d].inbox :
                        \/ /\ i \in DOMAIN client[d].inbox
                           /\ client'[d].inbox[i] = client[d].inbox[i]
                        \/ /\ peer = Here(d)
                           /\ client'[d].inbox[i].peer = peer
                           /\ client'[d].inbox[i].server = k
                   /\ peer # Here(d) => client'[d] = client[d]
        <4>1. CASE d = c
          BY <3>1, <3>3, <3>6, <4>1
        <4>2. CASE d # c
          BY <3>6, <4>2
        <4> QED BY <4>1, <4>2
      <3> QED BY <3>6, <3>7
    <2> QED BY <2>1, <2>2
  <1>10. TypeOK'
    <2>1. faults' \in FaultCounts
      <3>1. peer.client \in Clients
        BY <1>3 DEF Peers
      <3> QED BY <1>1, <1>6, <3>1, Counted
    <2> QED BY <1>1, <1>7, <1>8, <1>9, <2>1 DEF TypeOK, ClientRecords, ChildRecords
  <1>11. TriesLeft' /\ AnswerThere'
    BY <1>1, <1>9 DEF TriesLeft, AnswerThere, NoInbox
  <1>12. DelayedKinds'
    BY <1>1, <1>4, <1>7 DEF DelayedKinds
  <1>13. ChildrenSound'
    BY <1>1, <1>3, <1>8 DEF ChildrenSound, NoInbox
  <1>14. \A d \in Clients :
           /\ Waiting(d)' = Waiting(d) /\ Travelling(d)' = Travelling(d)
           /\ Serving(d)' = Serving(d) /\ Here(d)' = Here(d)
           /\ Answering(d) \subseteq Answering(d)'
           /\ peer = Here(d) => k \in Answering(d)' /\ k \in Serving(d)
    <2> TAKE d \in Clients
    <2>1. Waiting(d)' = Waiting(d) /\ Here(d)' = Here(d)
      BY <1>1 DEF Waiting, Here
    <2>2. Travelling(d)' = Travelling(d)
      BY <1>4, <1>6, <1>7, <2>1 DEF Travelling
    <2>3. Serving(d)' = Serving(d)
      BY <1>8, <2>1 DEF Serving
    <2>4. peer = Here(d) => k \in Serving(d)
      BY <1>3 DEF Serving
    <2> QED BY <1>8, <2>1, <2>2, <2>3, <2>4 DEF Answering, Serving
  <1>15. OneServer'
    BY <1>1, <1>14 DEF OneServer
  <1>16. Answers'
    <2>1. ASSUME NEW d \in Clients, NEW i \in DOMAIN client'[d].inbox
          PROVE  /\ client'[d].inbox[i].peer = Here(d)
                 /\ client'[d].inbox[i].server \in Answering(d)'
      BY <1>1, <1>9, <1>14, <2>1 DEF Answers
    <2>2. ASSUME NEW x \in delayed', x.flag = "SETUP_RES", x.peer.socket = "open"
          PROVE  x.server \in Answering(x.peer.client)'
      <3>1. x.peer.client \in Clients
        BY <1>7 DEF Packets, Peers
      <3>2. CASE x = m
        BY <1>3, <1>4, <1>14, <2>2, <3>1, <3>2, HereFacts
      <3>3. CASE x \in delayed
        BY <1>1, <1>14, <2>2, <3>1, <3>3 DEF Answers
      <3> QED BY <1>7, <3>2, <3>3
    <2> QED BY <1>14, <2>1, <2>2 DEF Answers
  <1>17. NewSocket'
    BY <1>1, <1>9, <1>14 DEF NewSocket
  <1>18. FnameSent'
    <2>1. ASSUME NEW l \in Children, child'[l].inbox # <<>>, NEW q \in child'[l].peer
          PROVE  client'[q.client].state = "FILENAME_WAIT"
      <3>1. child'[l] = child[l]
        BY <1>8, <2>1
      <3>2. q.client \in Clients
        BY <1>1, <2>1, <3>1 DEF ChildRecords, Peers
      <3> QED BY <1>1, <1>9, <2>1, <3>1, <3>2 DEF FnameSent, NoInbox
    <2>2. ASSUME NEW x \in delayed', x.flag = "FNAME"
          PROVE  /\ client'[x.peer.client].state = "FILENAME_WAIT"
                 /\ child'[x.server].peer = {Here(x.peer.client)}
      <3>1. x \in delayed /\ x.peer.client \in Clients
        BY <1>4, <1>7, <2>2 DEF Packets, Peers
      <3>2. x.server \in Children
        BY <1>1, <2>2, <3>1 DEF DelayedKinds
      <3> QED BY <1>1, <1>8, <1>9, <2>2, <3>1, <3>2 DEF FnameSent
    <2> QED BY <1>14, <2>1, <2>2, HereFacts DEF FnameSent, NoInbox, Here
  <1> QED BY <1>10, <1>11, <1>12, <1>13, <1>15, <1>16, <1>17, <1>18 DEF Inductive

\* filename() of the server, when nothing comes.
LEMMA GiveUpInductive ==
    ASSUME Inductive, Patient, NEW k \in Children, GiveUp(k)
    PROVE  Inductive'
  <1>1. /\ TypeOK /\ TriesLeft /\ DelayedKinds /\ ChildrenSound /\ OneServer
        /\ Answers /\ NewSocket /\ AnswerThere /\ FnameSent
        /\ child \in [Children -> ChildRecords]
        /\ child[k].state = "FILENAME" /\ child[k].inbox = <<>>
        /\ \A p \in child[k].peer : p.socket = "closed"
        /\ child' = [child EXCEPT ![k].state = "DONE"]
        /\ UNCHANGED <<client, listener, delayed, luck, faults>>
    BY DEF Inductive, TypeOK, ChildRecords, GiveUp, GivingUp, NoInbox
  <1>2. /\ child' \in [Children -> ChildRecords]
        /\ \A l \in Children : /\ child'[l].peer = child[l].peer
                               /\ child'[l].inbox = child[l].inbox
                               /\ l # k => child'[l] = child[l]
        /\ child'[k].state = "DONE"
    BY <1>1 DEF ChildRecords, ChildStates
  <1>3. \A d \in Clients : k \notin Serving(d)
    BY <1>1, HereFacts DEF Serving
  <1>4. \A d \in Clients :
          /\ Waiting(d)' = Waiting(d) /\ Travelling(d)' = Travelling(d)
          /\ Serving(d)' = Serving(d) /\ Here(d)' = Here(d)
          /\ Answering(d)' = Answering(d)
    <2> TAKE d \in Clients
    <2>1. /\ Waiting(d)' = Waiting(d) /\ Travelling(d)' = Travelling(d) /\ Here(d)' = Here(d)
      BY <1>1 DEF Waiting, Travelling, Here
    <2>2. Serving(d)' = Serving(d)
      BY <1>2, <2>1 DEF Serving
    <2>3. \A l \in Serving(d) : l # k /\ l \in Children
      BY <1>3 DEF Serving
    <2>4. Answering(d)' = Answering(d)
      BY <1>2, <2>2, <2>3 DEF Answering
    <2> QED BY <2>1, <2>2, <2>4
  <1>5. TypeOK' /\ TriesLeft' /\ DelayedKinds' /\ AnswerThere'
    BY <1>1, <1>2 DEF TypeOK, TriesLeft, DelayedKinds, AnswerThere, ChildRecords
  <1>6. ChildrenSound'
    BY <1>1, <1>2 DEF ChildrenSound, NoInbox
  <1>7. OneServer' /\ NewSocket'
    BY <1>1, <1>4 DEF OneServer, NewSocket
  <1>8. Answers'
    <2>1. \A x \in delayed : x.peer.client \in Clients
      BY <1>1 DEF TypeOK, Packets, Peers
    <2> QED BY <1>1, <1>4, <2>1 DEF Answers
  <1>9. FnameSent'
    <2>1. \A x \in delayed : x.flag = "FNAME" => x.server \in Children
      BY <1>1 DEF DelayedKinds
    <2> QED BY <1>1, <1>2, <2>1 DEF FnameSent, Here
  <1> QED BY <1>5, <1>6, <1>7, <1>8, <1>9 DEF Inductive

\* UDP delivers a delayed packet.
LEMMA LateInductive ==
    ASSUME Inductive, LateArrival
    PROVE  Inductive'
  <1>1. /\ TypeOK /\ TriesLeft /\ DelayedKinds /\ ChildrenSound /\ OneServer
        /\ Answers /\ NewSocket /\ AnswerThere /\ FnameSent
        /\ client \in [Clients -> ClientRecords] /\ child \in [Children -> ChildRecords]
        /\ listener \in Seq(Packets) /\ delayed \subseteq Packets
    BY DEF Inductive, TypeOK, ClientRecords, ChildRecords
  <1>2. PICK m \in delayed :
          /\ delayed' = delayed \ {m}
          /\ CASE m.flag = "SETUP" ->
                    listener' = Append(listener, m) /\ UNCHANGED <<client, child>>
               [] m.flag = "SETUP_RES" ->
                    /\ client' = IF m.peer.socket = "open"
                         THEN [client EXCEPT ![m.peer.client].inbox = Append(@, m)]
                         ELSE client
                    /\ UNCHANGED <<listener, child>>
               [] m.flag = "FNAME" ->
                    /\ child' = IF child[m.server].state = "FILENAME"
                         THEN [child EXCEPT ![m.server].inbox = Append(@, m)]
                         ELSE child
                    /\ UNCHANGED <<client, listener>>
          /\ UNCHANGED <<luck, faults>>
    BY DEF LateArrival
  <1>3. /\ m \in Packets /\ m.peer \in Peers /\ m.peer.client \in Clients
        /\ m.flag \in {"SETUP", "SETUP_RES", "FNAME"}
        /\ m.flag # "SETUP" => m.server \in Children
        /\ delayed' \subseteq delayed
    BY <1>1, <1>2 DEF DelayedKinds, Packets, Peers
  <1>4. DelayedKinds' /\ \A d : Here(d)' = Here(d)
    BY <1>1, <1>3 DEF DelayedKinds, Here
  <1>5. \A d \in Clients : Travelling(d)' \subseteq Travelling(d)
    BY <1>3, <1>4 DEF Travelling
  <1>6. CASE m.flag = "SETUP"
    <2>1. /\ listener' = Append(listener, m) /\ client' = client /\ child' = child
          /\ luck' = luck /\ faults' = faults
      BY <1>2, <1>6
    <2>2. /\ listener' \in Seq(Packets)
          /\ \A i \in DOMAIN listener' :
               \/ i \in DOMAIN listener /\ listener'[i] = listener[i]
               \/ i = Len(listener) + 1 /\ listener'[i] = m
      BY <1>1, <1>3, <2>1, Appended
    <2>3. TypeOK' /\ TriesLeft' /\ AnswerThere' /\ ChildrenSound'
      BY <1>1, <1>3, <2>1, <2>2 DEF TypeOK, TriesLeft, AnswerThere, ChildrenSound
    <2>4. \A d \in Clients : Serving(d)' = Serving(d) /\ Answering(d)' = Answering(d)
      BY <1>4, <2>1 DEF Serving, Answering
    <2>5. \A d \in Clients : m.peer # Here(d) => Waiting(d)' \subseteq Waiting(d)
      BY <1>4, <2>2 DEF Waiting
    <2>6. \A d \in Clients : m.peer = Here(d) =>
            /\ Waiting(d) = {} /\ Waiting(d)' \subseteq {Len(listener) + 1}
            /\ Travelling(d)' = {} /\ Serving(d) = {} /\ Travelling(d) # {}
      <3> SUFFICES ASSUME NEW d \in Clients, m.peer = Here(d)
                   PROVE  /\ Waiting(d) = {} /\ Waiting(d)' \subseteq {Len(listener) + 1}
                          /\ Travelling(d)' = {} /\ Serving(d) = {} /\ Travelling(d) # {}
        OBVIOUS
      <3>1. m \in Travelling(d)
        BY <1>6 DEF Travelling
      <3>2. Waiting(d) = {} /\ Serving(d) = {}
        BY <1>1, <3>1 DEF OneServer
      <3>3. Waiting(d)' \subseteq {Len(listener) + 1}
        BY <1>4, <2>2, <3>2 DEF Waiting
      <3>4. ASSUME NEW x \in delayed, x.flag = "SETUP", x.peer = m.peer PROVE x = m
        <4>1. x.server = m.server /\ x.flag = m.flag /\ x \in Packets
          BY <1>1, <1>6, <3>4 DEF DelayedKinds
        <4> QED BY <1>3, <3>4, <4>1 DEF Packets
      <3>5. Travelling(d)' = {}
        BY <1>2, <1>3, <1>4, <3>4 DEF Travelling
      <3> QED BY <3>1, <3>2, <3>3, <3>5
    <2>7. OneServer'
      <3>1. ASSUME NEW d \in Clients
            PROVE  /\ \A i, j \in Waiting(d)' : i = j
                   /\ \A k, l \in Serving(d)' : k = l
                   /\ Waiting(d)' # {} => Travelling(d)' = {} /\ Serving(d)' = {}
                   /\ Travelling(d)' # {} => Serving(d)' = {}
        <4>1. CASE m.peer = Here(d)
          BY <2>4, <2>6, <4>1
        <4>2. CASE m.peer # Here(d)
          BY <1>1, <1>5, <2>4, <2>5, <4>2 DEF OneServer
        <4> QED BY <4>1, <4>2
      <3> QED BY <3>1 DEF OneServer
    <2>8. Answers'
      <3>1. \A x \in delayed : x.peer.client \in Clients
        BY <1>1 DEF Packets, Peers
      <3> QED BY <1>1, <1>3, <1>4, <2>1, <2>4, <3>1 DEF Answers
    <2>9. NewSocket'
      <3> SUFFICES ASSUME NEW d \in Clients, client[d].state = "CONNECTION"
                   PROVE  /\ client[d].inbox = <<>> /\ Waiting(d)' = {}
                          /\ Travelling(d)' = {} /\ Serving(d)' = {}
        BY <2>1 DEF NewSocket, NoInbox
      <3>1. client[d].inbox = <<>> /\ Waiting(d) = {} /\ Travelling(d) = {} /\ Serving(d) = {}
        BY <1>1 DEF NewSocket, NoInbox
      <3>2. m.peer # Here(d)
        BY <2>6, <3>1
      <3> QED BY <1>5, <2>4, <2>5, <3>1, <3>2
    <2>10. FnameSent'
      BY <1>1, <1>3, <1>4, <2>1 DEF FnameSent
    <2> QED BY <1>4, <2>3, <2>7, <2>8, <2>9, <2>10 DEF Inductive
  <1>7. CASE m.flag = "SETUP_RES"
    <2> DEFINE c == m.peer.client
               grown == Append(client[c].inbox, m)
    <2>1. /\ client' = IF m.peer.socket = "open"
               THEN [client EXCEPT ![c].inbox = grown] ELSE client
          /\ listener' = listener /\ child' = child /\ luck' = luck /\ faults' = faults
      BY <1>2, <1>7
    <2>2. /\ client[c].inbox \in Seq(Packets) /\ grown \in Seq(Packets) /\ grown # <<>>
          /\ \A i \in DOMAIN grown :
               \/ i \in DOMAIN client[c].inbox /\ grown[i] = client[c].inbox[i]
               \/ i = Len(client[c].inbox) + 1 /\ grown[i] = m
      <3>1. client[c].inbox \in Seq(Packets)
        BY <1>1, <1>3 DEF ClientRecords
      <3> HIDE DEF c
      <3> QED BY <1>3, <3>1, Appended
    <2>3. c \in Clients /\ (m.peer.socket = "open" =>
             m.peer = Here(c) /\ m.server \in Answering(c) /\ m.server \in Serving(c))
      BY <1>1, <1>3, <1>7, HereFacts DEF Answers, Answering
    <2> HIDE DEF c, grown
    <2>4. /\ client' \in [Clients -> ClientRecords]
          /\ \A d \in Clients :
               /\ client'[d].state = client[d].state /\ client'[d].tries = client[d].tries
               /\ \/ client'[d].inbox = client[d].inbox
                  \/ m.peer.socket = "open" /\ d = c /\ client'[d].inbox = grown
      <3>1. CASE m.peer.socket = "open"
        <4>1. client' = [client EXCEPT ![c].inbox = grown]
          BY <2>1, <3>1
        <4>2. client \in [Clients -> ClientRecords] /\ grown \in Seq(Packets) /\ c \in Clients
          BY <1>1, <2>2, <2>3
        <4>3. client' \in [Clients -> ClientRecords]
          BY <4>1, <4>2 DEF ClientRecords
        <4>4. \A d \in Clients : d # c => client'[d] = client[d]
          BY <4>1, <4>2
        <4>5. /\ client'[c].state = client[c].state /\ client'[c].tries = client[c].tries
              /\ client'[c].inbox = grown
          BY <4>1, <4>2 DEF ClientRecords
        <4> QED BY <3>1, <4>3, <4>4, <4>5
      <3>2. CASE m.peer.socket # "open"
        BY <1>1, <2>1, <3>2
      <3> QED BY <3>1, <3>2
    <2>5. TypeOK' /\ TriesLeft' /\ AnswerThere' /\ ChildrenSound'
      <3>1. TypeOK'
        BY <1>1, <1>3, <2>1, <2>4 DEF TypeOK, ClientRecords
      <3>2. TriesLeft' /\ AnswerThere'
        BY <1>1, <2>2, <2>4 DEF TriesLeft, AnswerThere, NoInbox
      <3>3. ChildrenSound'
        BY <1>1, <2>1 DEF ChildrenSound
      <3> QED BY <3>1, <3>2, <3>3
    <2>6. \A d \in Clients : /\ Serving(d)' = Serving(d) /\ Answering(d)' = Answering(d)
                             /\ Waiting(d)' = Waiting(d)
      BY <1>4, <2>1 DEF Serving, Answering, Waiting
    <2>7. OneServer'
      BY <1>1, <1>5, <2>6 DEF OneServer
    <2>8. Answers'
      <3>1. ASSUME NEW d \in Clients, NEW i \in DOMAIN client'[d].inbox
            PROVE  /\ client'[d].inbox[i].peer = Here(d)
                   /\ client'[d].inbox[i].server \in Answering(d)
        <4>1. CASE client'[d].inbox = client[d].inbox
          BY <1>1, <3>1, <4>1 DEF Answers
        <4>2. CASE m.peer.socket = "open" /\ d = c /\ client'[d].inbox = grown
          <5>1. CASE i \in DOMAIN client[c].inbox /\ grown[i] = client[c].inbox[i]
            BY <1>1, <3>1, <4>2, <5>1 DEF Answers
          <5>2. CASE grown[i] = m
            BY <2>3, <4>2, <5>2
          <5> QED BY <2>2, <3>1, <4>2, <5>1, <5>2
        <4> QED BY <2>4, <4>1, <4>2
      <3>2. \A x \in delayed : x.peer.client \in Clients
        BY <1>1 DEF Packets, Peers
      <3>3. ASSUME NEW x \in delayed', x.flag = "SETUP_RES", x.peer.socket = "open"
            PROVE  x.server \in Answering(x.peer.client)'
        BY <1>1, <1>3, <2>6, <3>2, <3>3 DEF Answers
      <3> QED BY <1>4, <2>6, <3>1, <3>3 DEF Answers
    <2>9. NewSocket'
      <3> SUFFICES ASSUME NEW d \in Clients, client'[d].state = "CONNECTION"
                   PROVE  /\ client'[d].inbox = <<>> /\ Waiting(d)' = {}
                          /\ Travelling(d)' = {} /\ Serving(d)' = {}
        BY DEF NewSocket, NoInbox
      <3>1. client[d].inbox = <<>> /\ Waiting(d) = {} /\ Travelling(d) = {} /\ Serving(d) = {}
        BY <1>1, <2>4 DEF NewSocket, NoInbox
      <3> QED BY <1>5, <2>3, <2>4, <2>6, <3>1
    <2>10. FnameSent'
      <3>1. /\ \A k \in Children : \A q \in child[k].peer : q.client \in Clients
            /\ \A x \in delayed : x.peer.client \in Clients
        BY <1>1 DEF ChildRecords, Packets, Peers
      <3>2. ASSUME NEW k \in Children, child[k].inbox # <<>>, NEW q \in child[k].peer
            PROVE  client'[q.client].state = "FILENAME_WAIT"
        BY <1>1, <2>4, <3>1, <3>2 DEF FnameSent, NoInbox
      <3>3. ASSUME NEW x \in delayed', x.flag = "FNAME"
            PROVE  /\ client'[x.peer.client].state = "FILENAME_WAIT"
                   /\ child[x.server].peer = {Here(x.peer.client)}
        BY <1>1, <1>3, <2>4, <3>1, <3>3 DEF FnameSent
      <3> QED BY <1>4, <2>1, <3>2, <3>3 DEF FnameSent, NoInbox
    <2> QED BY <1>4, <2>5, <2>7, <2>8, <2>9, <2>10 DEF Inductive
  <1>8. CASE m.flag = "FNAME"
    <2> DEFINE k == m.server
               grown == Append(child[k].inbox, m)
    <2>1. /\ child' = IF child[k].state = "FILENAME"
               THEN [child EXCEPT ![k].inbox = grown] ELSE child
          /\ listener' = listener /\ client' = client /\ luck' = luck /\ faults' = faults
      BY <1>2, <1>8
    <2>2. /\ k \in Children /\ child[k].peer = {Here(m.peer.client)}
          /\ client[m.peer.client].state = "FILENAME_WAIT"
      BY <1>1, <1>3, <1>8 DEF FnameSent
    <2>3. grown \in Seq(Packets)
      <3>1. child[k].inbox \in Seq(Packets)
        BY <1>1, <2>2 DEF ChildRecords
      <3> HIDE DEF k
      <3> QED BY <1>3, <3>1, Appended
    <2> HIDE DEF k, grown
    <2>4. /\ child' \in [Children -> ChildRecords]
          /\ \A l \in Children :
               /\ child'[l].state = child[l].state /\ child'[l].peer = child[l].peer
               /\ \/ child'[l].inbox = child[l].inbox
                  \/ l = k /\ child[l].state = "FILENAME"
      <3>1. CASE child[k].state = "FILENAME"
        <4>1. child' = [child EXCEPT ![k].inbox = grown]
          BY <2>1, <3>1
        <4> QED BY <1>1, <2>2, <2>3, <3>1, <4>1 DEF ChildRecords
      <3>2. CASE child[k].state # "FILENAME"
        BY <1>1, <2>1, <3>2
      <3> QED BY <3>1, <3>2
    <2>5. TypeOK' /\ TriesLeft' /\ AnswerThere'
      BY <1>1, <1>3, <2>1, <2>4 DEF TypeOK, TriesLeft, AnswerThere, ChildRecords
    <2>6. ChildrenSound'
      BY <1>1, <2>4 DEF ChildrenSound, NoInbox
    <2>7. \A d \in Clients : /\ Serving(d)' = Serving(d) /\ Answering(d)' = Answering(d)
                             /\ Waiting(d)' = Waiting(d)
      <3> TAKE d \in Clients
      <3>1. Waiting(d)' = Waiting(d)
        BY <1>4, <2>1 DEF Waiting
      <3>2. Serving(d)' = Serving(d)
        BY <1>4, <2>4 DEF Serving
      <3> QED BY <2>4, <3>1, <3>2 DEF Answering, Serving
    <2>8. OneServer' /\ NewSocket'
      <3>1. OneServer'
        BY <1>1, <1>5, <2>7 DEF OneServer
      <3>2. NewSocket'
        BY <1>1, <1>5, <2>1, <2>7 DEF NewSocket
      <3> QED BY <3>1, <3>2
    <2>9. Answers'
      <3>1. \A x \in delayed : x.peer.client \in Clients
        BY <1>1 DEF Packets, Peers
      <3> QED BY <1>1, <1>3, <1>4, <2>1, <2>7, <3>1 DEF Answers
    <2>10. FnameSent'
      <3>1. ASSUME NEW l \in Children, child'[l].inbox # <<>>, NEW q \in child'[l].peer
            PROVE  client[q.client].state = "FILENAME_WAIT"
        <4>1. CASE child'[l].inbox = child[l].inbox
          BY <1>1, <2>4, <3>1, <4>1 DEF FnameSent, NoInbox
        <4>2. CASE l = k
          BY <1>3, <2>2, <2>4, <3>1, <4>2, HereFacts
        <4> QED BY <2>4, <4>1, <4>2
      <3>2. \A x \in delayed : x.flag = "FNAME" => x.server \in Children
        BY <1>1 DEF DelayedKinds
      <3>3. ASSUME NEW x \in delayed', x.flag = "FNAME"
            PROVE  /\ client[x.peer.client].state = "FILENAME_WAIT"
                   /\ child'[x.server].peer = {Here(x.peer.client)}
        BY <1>1, <1>3, <2>4, <3>2, <3>3 DEF FnameSent
      <3> QED BY <1>4, <2>1, <3>1, <3>3 DEF FnameSent, NoInbox
    <2> QED BY <1>4, <2>5, <2>6, <2>8, <2>9, <2>10 DEF Inductive
  <1> QED BY <1>3, <1>6, <1>7, <1>8

LEMMA NextInductive ==
    ASSUME Patient, Inductive, [Next]_vars
    PROVE  Inductive'
  <1>1. CASE \E c \in Clients : ClientStep(c)
    BY <1>1, StartInductive, SetupInductive, AnsweredInductive, FilenameInductive
       DEF ClientStep
  <1>2. CASE \E k \in Children : ChildStep(k)
    BY <1>2, ConnectionInductive, GiveUpInductive DEF ChildStep
  <1>3. CASE ServeClient
    BY <1>3, ServeInductive
  <1>4. CASE LateArrival
    BY <1>4, LateInductive
  <1>5. CASE UNCHANGED vars
    <2>1. /\ client' = client /\ child' = child /\ listener' = listener
          /\ delayed' = delayed /\ luck' = luck /\ faults' = faults
      BY <1>5 DEF vars
    <2>2. TypeOK' /\ TriesLeft' /\ DelayedKinds'
      BY <2>1 DEF Inductive, TypeOK, TriesLeft, DelayedKinds
    <2>3. ChildrenSound' /\ AnswerThere' /\ FnameSent'
      BY <2>1 DEF Inductive, ChildrenSound, AnswerThere, FnameSent, Here
    <2>4. \A d : /\ Waiting(d)' = Waiting(d) /\ Travelling(d)' = Travelling(d)
                 /\ Serving(d)' = Serving(d) /\ Answering(d)' = Answering(d)
                 /\ Here(d)' = Here(d)
      BY <2>1 DEF Waiting, Travelling, Serving, Answering, Here
    <2>5. OneServer' /\ Answers' /\ NewSocket'
      BY <2>1, <2>4 DEF Inductive, OneServer, Answers, NewSocket
    <2> QED BY <2>2, <2>3, <2>5 DEF Inductive
  <1> QED BY <1>1, <1>2, <1>3, <1>4, <1>5 DEF Next

LEMMA InductiveHandover ==
    ASSUME Inductive
    PROVE  Handover
  <1> SUFFICES ASSUME NEW c \in Clients, client[c].state = "FILENAME"
               PROVE  \E k \in Children :
                        /\ Serving(c) = {k} /\ ~Pending(c)
                        /\ child[k].state = "FILENAME" /\ child[k].inbox = NoInbox
                        /\ \A i \in DOMAIN client[c].inbox : client[c].inbox[i].server = k
    BY DEF Handover
  <1>1. /\ ChildrenSound /\ OneServer /\ Answers /\ AnswerThere /\ FnameSent
        /\ client \in [Clients -> ClientRecords]
    BY DEF Inductive, TypeOK, ClientRecords
  <1>2. client[c].inbox \in Seq(Packets) /\ client[c].inbox # <<>>
    BY <1>1 DEF AnswerThere, NoInbox, ClientRecords
  <1>3. 1 \in DOMAIN client[c].inbox
    BY <1>2
  <1> DEFINE k == client[c].inbox[1].server
  <1>4. k \in Answering(c)
    BY <1>1, <1>3 DEF Answers
  <1>5. k \in Serving(c) /\ k \in Children /\ child[k].state = "FILENAME"
    BY <1>4 DEF Answering, Serving
  <1> HIDE DEF k
  <1>6. Serving(c) = {k}
    BY <1>1, <1>5 DEF OneServer
  <1>7. Waiting(c) = {}
    BY <1>1, <1>5 DEF OneServer
  <1>8. ~Pending(c)
    BY <1>5, <1>6, <1>7 DEF Pending, Waiting
  <1>9. child[k].inbox = NoInbox
    <2>1. child[k].peer = {Here(c)}
      BY <1>5 DEF Serving
    <2> QED BY <1>1, <1>5, <2>1, HereFacts DEF FnameSent
  <1>10. \A i \in DOMAIN client[c].inbox : client[c].inbox[i].server = k
    BY <1>1, <1>6 DEF Answers, Answering
  <1> QED BY <1>5, <1>6, <1>8, <1>9, <1>10

\* The invariant of the set-up holds as long as no child quits before its
\* client is gone.
THEOREM SetupSound ==
    ASSUME Patient
    PROVE  Spec => []Inductive
  <1>1. Inductive /\ [Next]_vars => Inductive'
    BY NextInductive
  <1> QED BY <1>1, InitInductive, PTL DEF Spec

\* For any number of clients and children, however packets are lost, flipped or
\* late: a client that goes on to send its file name is served by exactly one
\* child, which waits for that name.
THEOREM OneChildServes ==
    ASSUME Patient
    PROVE  Spec => []Handover
  <1> QED BY InductiveHandover, SetupSound, PTL

(***************************************************************************)
(* The account of tries and losses, whether children are patient or not.   *)
(***************************************************************************)

\* A step takes no count of hit packets back.
NoneForgotten == \A d \in Clients : faults[d] <= faults'[d]

LEMMA AccountsFacts ==
    ASSUME Accounts
    PROVE  /\ client \in [Clients -> ClientRecords] /\ child \in [Children -> ChildRecords]
           /\ listener \in Seq(Packets) /\ delayed \subseteq Packets
           /\ faults \in FaultCounts /\ \A c \in Clients : faults[c] \in Nat
           /\ \A c \in Clients : /\ client[c] \in ClientRecords
                                 /\ client[c].inbox \in Seq(Packets)
                                 /\ client[c].tries \in Nat
           /\ \A k \in Children : /\ child[k].inbox \in Seq(Packets)
                                  /\ child[k].peer \subseteq Peers
                                  /\ child[k].state \in ChildStates
  <1>1. /\ client \in [Clients -> ClientRecords] /\ child \in [Children -> ChildRecords]
        /\ listener \in Seq(Packets) /\ delayed \subseteq Packets
        /\ faults \in FaultCounts
    BY DEF Accounts, TypeOK, ClientRecords, ChildRecords
  <1>2. \A c \in Clients : client[c] \in ClientRecords
    BY <1>1
  <1>3. \A c \in Clients : client[c].inbox \in Seq(Packets) /\ client[c].tries \in Nat
    <2>1. \A n \in 0 .. MAX_TRIES + 1 : n \in Nat
      BY SetupAssumption
    <2>2. \A c \in Clients : client[c].tries \in 0 .. MAX_TRIES + 1
      BY <1>2 DEF ClientRecords
    <2> QED BY <1>2, <2>1, <2>2 DEF ClientRecords
  <1>4. \A k \in Children : /\ child[k].inbox \in Seq(Packets)
                            /\ child[k].peer \subseteq Peers
                            /\ child[k].state \in ChildStates
    BY <1>1 DEF ChildRecords
  <1> QED BY <1>1, <1>2, <1>3, <1>4 DEF FaultCounts

LEMMA NothingForgotten ==
    ASSUME Accounts, faults' = faults
    PROVE  NoneForgotten
  BY AccountsFacts DEF NoneForgotten

LEMMA MoreFaults ==
    ASSUME NEW f \in Nat, NEW g \in Nat, f <= g
    PROVE  /\ \A t \in Nat : /\ t <= f => t <= g
                             /\ t <= f + 1 => t <= g + 1
                             /\ t <= f + 1 /\ f < g => t <= g
           /\ \A m \in Nat : f >= m => g >= m
  OBVIOUS

\* A client that takes no step keeps its account as long as its hope is only
\* lost to a fate.
LEMMA AccountKept ==
    ASSUME Accounts, Timely, luck = "sent", faults' \in FaultCounts, NoneForgotten,
           NEW d \in Clients,
           client'[d].state = client[d].state, client'[d].tries = client[d].tries,
           client'[d].outcome = client[d].outcome,
           Hope(d) => Hope(d)' \/ faults[d] < faults'[d]
    PROVE  Account(d)'
  <1>1. /\ client[d].tries \in Nat /\ faults[d] \in Nat /\ faults'[d] \in Nat /\ faults[d] <= faults'[d]
        /\ Account(d) /\ MAX_TRIES \in Nat
    BY AccountsFacts, SetupAssumption DEF Accounts, FaultCounts, NoneForgotten
  <1>2. /\ client[d].state \in {"START", "CONNECTION"} => client[d].tries <= faults[d]
        /\ client[d].state = "CONNECTION_WAIT" =>
             /\ client[d].tries <= faults[d] + 1
             /\ Hope(d) \/ client[d].tries <= faults[d]
        /\ client[d].state = "FILENAME" => client[d].tries = 0
        /\ client[d].outcome = "no response" => faults[d] >= MAX_TRIES
    BY <1>1 DEF Account
  <1>3. /\ \A t \in Nat : /\ t <= faults[d] => t <= faults'[d]
                          /\ t <= faults[d] + 1 => t <= faults'[d] + 1
                          /\ t <= faults[d] + 1 /\ faults[d] < faults'[d] => t <= faults'[d]
        /\ faults[d] >= MAX_TRIES => faults'[d] >= MAX_TRIES
    BY <1>1, MoreFaults
  <1>4. /\ client[d].tries <= faults[d] => client[d].tries <= faults'[d]
        /\ client[d].tries <= faults[d] + 1 => client[d].tries <= faults'[d] + 1
        /\ client[d].tries <= faults[d] + 1 /\ faults[d] < faults'[d] => client[d].tries <= faults'[d]
    BY <1>1, <1>3, Zenon
  <1> QED BY <1>2, <1>3, <1>4, Zenon DEF Account

\* A step of client c is accounted for when c's own account is, and the others
\* keep theirs.
LEMMA AccountsStep ==
    ASSUME Accounts, TypeOK', DelayedKinds', FromChildren', luck' = luck,
           NoneForgotten,
           NEW c \in Clients,
           \A d \in Clients \ {c} :
             /\ client'[d].state = client[d].state /\ client'[d].tries = client[d].tries
             /\ client'[d].outcome = client[d].outcome
             /\ Hope(d) => Hope(d)' \/ faults[d] < faults'[d],
           client'[c].state # "DONE" => client'[c].tries <= MAX_TRIES,
           Timely /\ luck = "sent" => Account(c)'
    PROVE  Accounts'
  <1>1. faults' \in FaultCounts
    BY DEF TypeOK
  <1>2. TriesLeft'
    BY DEF Accounts, TriesLeft
  <1>3. ASSUME Timely, luck = "sent", NEW d \in Clients PROVE Account(d)'
    <2>1. CASE d = c
      BY <1>3, <2>1
    <2>2. CASE d # c
      BY <1>1, <1>3, <2>2, AccountKept
    <2> QED BY <2>1, <2>2
  <1> QED BY <1>2, <1>3 DEF Accounts

\* The same for a step that no client takes.
LEMMA AccountsQuiet ==
    ASSUME Accounts, TypeOK', DelayedKinds', FromChildren', luck' = luck,
           NoneForgotten,
           \A d \in Clients :
             /\ client'[d].state = client[d].state /\ client'[d].tries = client[d].tries
             /\ client'[d].outcome = client[d].outcome
             /\ luck = "sent" /\ Hope(d) => Hope(d)' \/ faults[d] < faults'[d]
    PROVE  Accounts'
  <1>1. faults' \in FaultCounts
    BY DEF TypeOK
  <1>2. TriesLeft'
    BY DEF Accounts, TriesLeft
  <1>3. ASSUME Timely, luck = "sent", NEW d \in Clients PROVE Account(d)'
    BY <1>1, <1>3, AccountKept
  <1> QED BY <1>2, <1>3 DEF Accounts

LEMMA AccountsInit == Init => Accounts
  <1> SUFFICES ASSUME Init PROVE Accounts
    OBVIOUS
  <1>1. TypeOK /\ TriesLeft /\ DelayedKinds
    BY InitInductive DEF Inductive
  <1>2. \A c \in Clients : client[c] = [state |-> "START", tries |-> 0, remote |-> Listener,
                                        inbox |-> <<>>, outcome |-> "running"]
    BY DEF Init, NoInbox
  <1>3. FromChildren
    BY <1>2 DEF FromChildren
  <1>4. \A c \in Clients : Account(c)
    <2> TAKE c \in Clients
    <2>1. /\ client[c].state = "START" /\ client[c].tries = 0
          /\ client[c].outcome = "running" /\ faults[c] = 0
      BY <1>2 DEF Init
    <2> QED BY <2>1 DEF Account
  <1> QED BY <1>1, <1>3, <1>4 DEF Accounts

\* Client c closes its socket: packets and children of other sockets keep
\* their peers.
LEMMA OthersHope ==
    ASSUME Accounts, NEW c \in Clients, NEW d \in Clients, d # c,
           NEW coming \in Seq(Packets),
           \A i \in DOMAIN listener : i \in DOMAIN coming /\ coming[i] = listener[i],
           child' = Abandoned(c), listener' = LeftInbox(c, coming),
           client'[d] = client[d], Hope(d)
    PROVE  Hope(d)'
  <1>1. /\ \A k \in Children : child[k].peer \subseteq Peers
        /\ Here(d)' = Here(d)
    BY AccountsFacts DEF Here
  <1>2. \A p \in Peers : p = Here(d) => Left(c, p) = Here(d)
    BY LeftPeer
  <1>3. CASE \E i \in DOMAIN listener :
               listener[i].peer = Here(d) /\ listener[i].flag # "CRC_ERROR"
    <2>1. PICK i \in DOMAIN listener :
            listener[i].peer = Here(d) /\ listener[i].flag # "CRC_ERROR"
      BY <1>3
    <2>2. i \in DOMAIN coming /\ coming[i] = listener[i] /\ coming[i] \in Packets
      OBVIOUS
    <2>3. i \in DOMAIN listener' /\ listener'[i] = LeftPacket(c, coming[i])
      BY <2>2, LeftAll
    <2>4. listener'[i].peer = Here(d) /\ listener'[i].flag # "CRC_ERROR"
      BY <1>2, <2>1, <2>2, <2>3, LeftOne
    <2> QED BY <1>1, <2>3, <2>4 DEF Hope
  <1>4. CASE \E k \in Children : child[k].state = "CONNECTION" /\ child[k].peer = {Here(d)}
    <2>1. PICK k \in Children : child[k].state = "CONNECTION" /\ child[k].peer = {Here(d)}
      BY <1>4
    <2>2. child'[k].state = child[k].state /\ child'[k].peer = {Left(c, p) : p \in child[k].peer}
      <3>1. child'[k] = [child[k] EXCEPT !.peer = {Left(c, p) : p \in @},
                                         !.inbox = LeftInbox(c, @)]
        BY DEF Abandoned
      <3>2. child[k] \in ChildRecords
        BY AccountsFacts
      <3> QED BY <3>1, <3>2 DEF ChildRecords
    <2>3. child'[k].peer = {Here(d)}
      BY <1>2, <2>1, <2>2, HereFacts
    <2> QED BY <1>1, <2>1, <2>2, <2>3 DEF Hope
  <1>5. CASE client[d].inbox # NoInbox
    BY <1>5 DEF Hope, NoInbox
  <1> QED BY <1>3, <1>4, <1>5 DEF Hope

\* Client c closes its socket to start over or to end.
LEMMA LeavingAccounts ==
    ASSUME Accounts, NEW c \in Clients, NEW new \in ClientRecords,
           client' = [client EXCEPT ![c] = new],
           \A i \in DOMAIN new.inbox : new.inbox[i].server \in Children,
           new.state # "DONE" => new.tries <= MAX_TRIES,
           NEW coming \in Seq(Packets), NEW later \in SUBSET Packets,
           \A i \in DOMAIN listener : i \in DOMAIN coming /\ coming[i] = listener[i],
           \A m \in later : \/ m.flag = "SETUP" /\ m.server = Listener
                            \/ m \in delayed,
           child' = Abandoned(c), listener' = LeftInbox(c, coming),
           delayed' = {LeftPacket(c, m) : m \in later},
           luck' = luck, faults' \in FaultCounts, NoneForgotten,
           Timely /\ luck = "sent" => Account(c)'
    PROVE  Accounts'
  <1>1. /\ client \in [Clients -> ClientRecords] /\ child \in [Children -> ChildRecords]
        /\ luck \in AnswerFates /\ DelayedKinds /\ FromChildren
    BY AccountsFacts DEF Accounts, TypeOK
  <1>2. \A d \in Clients : client'[d] = IF d = c THEN new ELSE client[d]
    BY <1>1
  <1>3. TypeOK'
    <2>1. client' \in [Clients -> ClientRecords]
      BY <1>1
    <2>2. child' \in [Children -> ChildRecords]
      BY <1>1, AbandonedTypes DEF Abandoned
    <2>3. listener' \in Seq(Packets)
      BY LeftAll
    <2>4. delayed' \subseteq Packets
      BY LeftOne
    <2> QED BY <1>1, <2>1, <2>2, <2>3, <2>4 DEF TypeOK, ClientRecords, ChildRecords
  <1>4. DelayedKinds'
    <2> SUFFICES ASSUME NEW x \in delayed'
                 PROVE  \/ x.flag = "SETUP" /\ x.server = Listener
                        \/ x.flag \in {"SETUP_RES", "FNAME"} /\ x.server \in Children
      BY DEF DelayedKinds
    <2>1. PICK m \in later : x = LeftPacket(c, m)
      OBVIOUS
    <2>2. x.flag = m.flag /\ x.server = m.server
      BY <2>1, LeftOne
    <2> QED BY <1>1, <2>1, <2>2 DEF DelayedKinds
  <1>5. FromChildren'
    BY <1>1, <1>2 DEF FromChildren
  <1>6. \A d \in Clients \ {c} :
          /\ client'[d] = client[d]
          /\ Hope(d) => Hope(d)'
    BY <1>2, OthersHope
  <1> QED BY <1>2, <1>3, <1>4, <1>5, <1>6, AccountsStep

LEMMA CountedMore ==
    ASSUME faults \in FaultCounts, NEW c \in Clients, NEW fate, Counting(c, fate)
    PROVE  /\ faults' \in FaultCounts /\ NoneForgotten
           /\ fate # "sent" => faults[c] < faults'[c] /\ faults'[c] = faults[c] + 1
  BY SetupAssumption DEF Counting, FaultCounts, NoneForgotten

\* What an inbox holds stays in it when a packet arrives.
LEMMA StillThere ==
    ASSUME NEW s \in Seq(Packets), NEW m \in Packets, NEW fate \in Misfortunes \cup {"sent"}
    PROVE  LET t == s \o Arriving(m, fate)
           IN  /\ t \in Seq(Packets)
               /\ \A i \in DOMAIN s : i \in DOMAIN t /\ t[i] = s[i]
               /\ \A i \in DOMAIN t : (i \in DOMAIN s /\ t[i] = s[i]) \/ t[i].server = m.server
               /\ s # <<>> => t # <<>>
               /\ fate = "sent" => t # <<>> /\ Len(s) + 1 \in DOMAIN t /\ t[Len(s) + 1] = m
  <1> DEFINE a == Arriving(m, fate)
  <1>1. a = <<>> \/ \E x \in Packets : a = <<x>> /\ x.server = m.server
    BY DEF Arriving, Misfortunes, Packets
  <1>2. fate = "sent" => a = <<m>>
    BY DEF Arriving
  <1> HIDE DEF a
  <1>3. CASE a = <<>>
    <2>1. s \o a = s
      BY <1>3
    <2>2. fate # "sent"
      BY <1>2, <1>3
    <2> QED BY <2>1, <2>2 DEF a
  <1>4. ASSUME NEW x \in Packets, a = <<x>>, x.server = m.server
        PROVE  /\ s \o a \in Seq(Packets) /\ s \o a # <<>>
               /\ \A i \in DOMAIN s : i \in DOMAIN (s \o a) /\ (s \o a)[i] = s[i]
               /\ \A i \in DOMAIN (s \o a) :
                    (i \in DOMAIN s /\ (s \o a)[i] = s[i]) \/ (s \o a)[i].server = m.server
               /\ Len(s) + 1 \in DOMAIN (s \o a) /\ (s \o a)[Len(s) + 1] = x
    BY <1>4
  <1>5. CASE \E x \in Packets : a = <<x>> /\ x.server = m.server
    <2>1. PICK x \in Packets : a = <<x>> /\ x.server = m.server
      BY <1>5
    <2>2. fate = "sent" => x = m
      BY <1>2, <2>1
    <2> QED BY <1>4, <2>1, <2>2 DEF a
  <1> QED BY <1>1, <1>3, <1>5 DEF a

\* Client d keeps its hope when its packets stay where they are.
LEMMA HopeStays ==
    ASSUME NEW d \in Clients, Hope(d),
           \A i \in DOMAIN listener : i \in DOMAIN listener' /\ listener'[i] = listener[i],
           \A k \in Children : child[k].state = "CONNECTION" =>
               child'[k].state = "CONNECTION" /\ child'[k].peer = child[k].peer,
           client[d].inbox # <<>> => client'[d].inbox # <<>>
    PROVE  Hope(d)'
  <1>1. Here(d)' = Here(d)
    BY DEF Here
  <1>2. CASE \E i \in DOMAIN listener :
               listener[i].peer = Here(d) /\ listener[i].flag # "CRC_ERROR"
    BY <1>1, <1>2 DEF Hope
  <1>3. CASE \E k \in Children : child[k].state = "CONNECTION" /\ child[k].peer = {Here(d)}
    BY <1>1, <1>3 DEF Hope
  <1>4. CASE client[d].inbox # NoInbox
    BY <1>4 DEF Hope, NoInbox
  <1> QED BY <1>2, <1>3, <1>4 DEF Hope

LEMMA StartAccounts ==
    ASSUME Accounts, NEW c \in Clients, StartState(c)
    PROVE  Accounts'
  <1>1. /\ client[c].state = "START" /\ client \in [Clients -> ClientRecords]
        /\ client[c] \in ClientRecords /\ listener \in Seq(Packets) /\ delayed \subseteq Packets
        /\ faults[c] \in Nat /\ faults \in FaultCounts /\ DelayedKinds /\ TriesLeft
    BY AccountsFacts DEF Accounts, StartState
  <1>2. PICK found \in Lookups :
          client' = [client EXCEPT
            ![c].state = IF found THEN "CONNECTION" ELSE "DONE",
            ![c].remote = Listener, ![c].inbox = NoInbox]
    BY DEF StartState
  <1> DEFINE new == [client[c] EXCEPT !.state = IF found THEN "CONNECTION" ELSE "DONE",
                                      !.remote = Listener, !.inbox = <<>>]
  <1>3. /\ new \in ClientRecords /\ new.inbox = <<>> /\ new.tries = client[c].tries
        /\ new.state \in {"CONNECTION", "DONE"} /\ new.outcome = client[c].outcome
    <2>1. (IF found THEN "CONNECTION" ELSE "DONE") \in ClientStates \cap {"CONNECTION", "DONE"}
      BY DEF ClientStates
    <2>2. <<>> \in Seq(Packets)
      OBVIOUS
    <2> QED BY <1>1, <2>1, <2>2 DEF ClientRecords
  <1>4. client' = [client EXCEPT ![c] = new]
    BY <1>1, <1>2 DEF NoInbox
  <1>5. new.tries <= MAX_TRIES
    BY <1>1, <1>3 DEF TriesLeft
  <1>6. /\ child' = Abandoned(c) /\ listener' = LeftInbox(c, listener)
        /\ delayed' = {LeftPacket(c, m) : m \in delayed}
        /\ luck' = luck /\ faults' = faults
    BY DEF StartState
  <1> HIDE DEF new
  <1>7. ASSUME Timely /\ luck = "sent" PROVE Account(c)'
    <2>1. client'[c] = new
      BY <1>1, <1>4
    <2>2. Account(c)
      BY <1>7 DEF Accounts
    <2>3. client[c].tries <= faults[c] /\ (client[c].outcome = "no response" => faults[c] >= MAX_TRIES)
      BY <1>1, <2>2 DEF Account
    <2>4. /\ client'[c].tries <= faults'[c] /\ client'[c].state \in {"CONNECTION", "DONE"}
          /\ client'[c].outcome = "no response" => faults'[c] >= MAX_TRIES
      BY <1>3, <1>6, <2>1, <2>3
    <2> QED BY <2>4 DEF Account
  <1>8. /\ \A i \in DOMAIN new.inbox : new.inbox[i].server \in Children
        /\ faults' \in FaultCounts /\ NoneForgotten
    BY <1>1, <1>3, <1>6, NothingForgotten
  <1> QED BY <1>1, <1>3, <1>4, <1>5, <1>6, <1>7, <1>8, LeavingAccounts

LEMMA AnsweredAccounts ==
    ASSUME Accounts, NEW c \in Clients, ConnectionAnswered(c) \/ ConnectionTimeout(c)
    PROVE  Accounts'
  <1>1. /\ client[c].state = "CONNECTION_WAIT" /\ client \in [Clients -> ClientRecords]
        /\ client[c] \in ClientRecords /\ faults[c] \in Nat /\ client[c].tries \in Nat
        /\ TypeOK /\ TriesLeft /\ DelayedKinds /\ FromChildren
        /\ UNCHANGED <<child, listener, delayed, luck, faults>>
    BY AccountsFacts DEF Accounts, ConnectionAnswered, ConnectionTimeout
  <1>2. PICK new \in ClientRecords :
          /\ client' = [client EXCEPT ![c] = new] /\ new.inbox = client[c].inbox
          /\ new.outcome = client[c].outcome
          /\ \/ ConnectionAnswered(c) /\ new.state = "FILENAME" /\ new.tries = 0
             \/ ConnectionTimeout(c) /\ new.state = "START" /\ new.tries = client[c].tries
    <2>1. CASE ConnectionAnswered(c)
      <3> DEFINE new == [client[c] EXCEPT !.state = "FILENAME", !.tries = 0]
      <3>1. 0 \in 0 .. MAX_TRIES + 1 /\ "FILENAME" \in ClientStates
        BY SetupAssumption DEF ClientStates
      <3>2. /\ new \in ClientRecords /\ new.inbox = client[c].inbox /\ new.tries = 0
            /\ new.state = "FILENAME" /\ new.outcome = client[c].outcome
        BY <1>1, <3>1 DEF ClientRecords
      <3>3. client' = [client EXCEPT ![c] = new]
        BY <1>1, <2>1 DEF ConnectionAnswered
      <3> HIDE DEF new
      <3> QED BY <2>1, <3>2, <3>3
    <2>2. CASE ConnectionTimeout(c)
      <3> DEFINE new == [client[c] EXCEPT !.state = "START"]
      <3>1. /\ new \in ClientRecords /\ new.inbox = client[c].inbox
            /\ new.tries = client[c].tries /\ new.state = "START"
            /\ new.outcome = client[c].outcome
        BY <1>1 DEF ClientRecords, ClientStates
      <3>2. client' = [client EXCEPT ![c] = new]
        BY <1>1, <2>2 DEF ConnectionTimeout, RetryState, TriesAfterTimeout
      <3> HIDE DEF new
      <3> QED BY <2>2, <3>1, <3>2
    <2> QED BY <2>1, <2>2
  <1>3. \A d \in Clients : client'[d] = IF d = c THEN new ELSE client[d]
    BY <1>1, <1>2
  <1>4. TypeOK' /\ DelayedKinds' /\ FromChildren'
    <2>1. client' \in [Clients -> ClientRecords]
      BY <1>1, <1>2
    <2>2. TypeOK'
      BY <1>1, <2>1 DEF TypeOK, ClientRecords
    <2> QED BY <1>1, <1>2, <1>3, <2>2 DEF DelayedKinds, FromChildren
  <1>5. \A d \in Clients \ {c} : client'[d] = client[d] /\ (Hope(d) => Hope(d)')
    BY <1>1, <1>3, HopeStays
  <1>6. client'[c].tries <= MAX_TRIES
    BY <1>1, <1>2, <1>3, SetupAssumption DEF TriesLeft
  <1>7. ASSUME Timely /\ luck = "sent" PROVE Account(c)'
    <2>1. Account(c)
      BY <1>7 DEF Accounts
    <2>2. client[c].outcome = "no response" => faults[c] >= MAX_TRIES
      BY <2>1 DEF Account
    <2>3. ASSUME ConnectionTimeout(c) PROVE client[c].tries <= faults[c]
      <3>1. ~Hope(c)
        <4>1. client[c].inbox = NoInbox /\ ~Pending(c)
          BY <1>7, <2>3 DEF ConnectionTimeout
        <4> QED BY <4>1 DEF Hope, Pending, Serving
      <3> QED BY <1>1, <2>1, <3>1 DEF Account
    <2>4. client'[c] = new /\ faults' = faults
      BY <1>1, <1>3
    <2>5. CASE new.state = "FILENAME" /\ new.tries = 0
      BY <1>2, <2>2, <2>4, <2>5 DEF Account
    <2>6. CASE ConnectionTimeout(c) /\ new.state = "START" /\ new.tries = client[c].tries
      BY <1>2, <2>2, <2>3, <2>4, <2>6 DEF Account
    <2> QED BY <1>2, <2>5, <2>6
  <1>8. NoneForgotten /\ luck' = luck
    BY <1>1, NothingForgotten
  <1> QED BY <1>4, <1>5, <1>6, <1>7, <1>8, AccountsStep

LEMMA SetupAccounts ==
    ASSUME Accounts, NEW c \in Clients, ConnectionSetup(c)
    PROVE  Accounts'
  <1> DEFINE m == [flag |-> "SETUP", server |-> Listener, peer |-> Here(c)]
             tries == client[c].tries + 1
             gone == [client[c] EXCEPT !.state = "DONE", !.tries = tries,
                                       !.outcome = "no response"]
             waits == [client[c] EXCEPT !.state = "CONNECTION_WAIT", !.tries = tries]
  <1>1. /\ client[c].state = "CONNECTION" /\ client \in [Clients -> ClientRecords]
        /\ client[c] \in ClientRecords /\ listener \in Seq(Packets) /\ delayed \subseteq Packets
        /\ faults[c] \in Nat /\ faults \in FaultCounts /\ client[c].tries \in Nat
        /\ TypeOK /\ DelayedKinds /\ TriesLeft /\ FromChildren /\ luck' = luck
    BY AccountsFacts DEF Accounts, ConnectionSetup
  <1>2. PICK fate \in Misfortune :
          /\ Counting(c, fate)
          /\ LET coming == listener \o Arriving(m, fate)
                 later  == delayed \cup Delaying(m, fate)
             IN  IF TriesUsedUp(tries)
                 THEN /\ client' = [client EXCEPT
                           ![c].state = "DONE", ![c].tries = tries,
                           ![c].outcome = "no response"]
                      /\ child' = Abandoned(c)
                      /\ listener' = LeftInbox(c, coming)
                      /\ delayed' = {LeftPacket(c, x) : x \in later}
                 ELSE /\ client' = [client EXCEPT
                           ![c].state = "CONNECTION_WAIT", ![c].tries = tries]
                      /\ listener' = coming
                      /\ delayed' = later
                      /\ UNCHANGED child
    BY DEF ConnectionSetup
  <1> DEFINE coming == listener \o Arriving(m, fate)
             later  == delayed \cup Delaying(m, fate)
  <1>3. /\ faults' \in FaultCounts /\ NoneForgotten
        /\ faults'[c] \in Nat /\ faults[c] <= faults'[c]
        /\ fate # "sent" => faults'[c] = faults[c] + 1
    <2>1. Counting(c, fate)
      BY <1>2
    <2>2. /\ faults' \in FaultCounts /\ NoneForgotten
          /\ fate # "sent" => faults'[c] = faults[c] + 1
      BY <1>1, <2>1, CountedMore
    <2> QED BY <2>2 DEF FaultCounts, NoneForgotten
  <1>4. m \in Packets /\ fate \in Misfortunes \cup {"sent"}
    BY HereFacts, SetupAssumption DEF Packets, Misfortune
  <1>5. /\ coming \in Seq(Packets)
        /\ \A i \in DOMAIN listener : i \in DOMAIN coming /\ coming[i] = listener[i]
        /\ fate = "sent" => Len(listener) + 1 \in DOMAIN coming /\ coming[Len(listener) + 1] = m
    <2> HIDE DEF m
    <2> QED BY <1>1, <1>4, StillThere
  <1>6. later \subseteq Packets /\ \A x \in later : x \in delayed \/ x = m
    BY <1>1, <1>4 DEF Delaying
  <1>7. tries \in 0 .. MAX_TRIES + 1 /\ tries \in Nat
    <2>1. client[c].tries <= MAX_TRIES
      BY <1>1 DEF TriesLeft
    <2> QED BY <1>1, <2>1, SetupAssumption
  <1>8. /\ gone \in ClientRecords /\ gone.inbox = client[c].inbox /\ gone.state = "DONE"
        /\ gone.tries = tries /\ gone.outcome = "no response"
        /\ waits \in ClientRecords /\ waits.inbox = client[c].inbox
        /\ waits.state = "CONNECTION_WAIT" /\ waits.tries = tries
        /\ waits.outcome = client[c].outcome
    <2> HIDE DEF tries
    <2> QED BY <1>1, <1>7 DEF ClientRecords, ClientStates
  <1>9. \A i \in DOMAIN client[c].inbox : client[c].inbox[i].server \in Children
    BY <1>1 DEF FromChildren
  <1>10. ASSUME Timely, luck = "sent"
         PROVE  /\ client[c].tries <= faults[c]
                /\ client[c].outcome = "no response" => faults[c] >= MAX_TRIES
    <2>1. Account(c)
      BY <1>10 DEF Accounts
    <2> QED BY <1>1, <2>1 DEF Account
  <1>11. CASE TriesUsedUp(tries)
    <2>1. /\ client' = [client EXCEPT ![c] = gone]
          /\ child' = Abandoned(c) /\ listener' = LeftInbox(c, coming)
          /\ delayed' = {LeftPacket(c, x) : x \in later}
      BY <1>1, <1>2, <1>11
    <2>2. ASSUME Timely /\ luck = "sent" PROVE Account(c)'
      <3>0. client[c].tries <= faults[c]
        BY <1>10, <2>2
      <3>1. MAX_TRIES <= faults[c]
        BY <1>1, <1>7, <1>11, <3>0, SetupAssumption DEF TriesUsedUp
      <3>2. faults'[c] >= MAX_TRIES
        BY <1>1, <1>3, <3>1, SetupAssumption
      <3>3. client'[c].state = "DONE"
        BY <1>1, <1>8, <2>1
      <3> QED BY <3>2, <3>3 DEF Account
    <2>3. \A x \in later : (x.flag = "SETUP" /\ x.server = Listener) \/ x \in delayed
      BY <1>6
    <2> HIDE DEF gone, coming, later
    <2> QED BY <1>1, <1>3, <1>5, <1>6, <1>8, <1>9, <2>1, <2>2, <2>3, LeavingAccounts
  <1>12. CASE ~TriesUsedUp(tries)
    <2>1. /\ client' = [client EXCEPT ![c] = waits]
          /\ listener' = coming /\ delayed' = later /\ child' = child
      BY <1>1, <1>2, <1>12
    <2>2. \A d \in Clients : client'[d] = IF d = c THEN waits ELSE client[d]
      BY <1>1, <2>1
    <2>3. tries <= MAX_TRIES
      BY <1>7, <1>12, SetupAssumption DEF TriesUsedUp
    <2>4. TypeOK'
      <3>1. client' \in [Clients -> ClientRecords]
        BY <1>1, <1>8, <2>1
      <3> HIDE DEF coming, later
      <3> QED BY <1>1, <1>3, <1>5, <1>6, <2>1, <3>1 DEF TypeOK, ClientRecords
    <2>5. DelayedKinds'
      BY <1>1, <1>6, <2>1 DEF DelayedKinds
    <2>6. FromChildren'
      BY <1>1, <1>8, <1>9, <2>2 DEF FromChildren
    <2>7. \A d \in Clients \ {c} : client'[d] = client[d] /\ (Hope(d) => Hope(d)')
      <3> HIDE DEF coming
      <3> QED BY <1>5, <2>1, <2>2, HopeStays
    <2>8. ASSUME Timely /\ luck = "sent" PROVE Account(c)'
      <3>1. client'[c] = waits
        BY <2>2
      <3>0. /\ client[c].tries <= faults[c]
            /\ client[c].outcome = "no response" => faults[c] >= MAX_TRIES
        BY <1>10, <2>8
      <3>2. tries <= faults[c] + 1 /\ tries <= faults'[c] + 1 /\ (fate # "sent" => tries <= faults'[c])
        <4> DEFINE t == client[c].tries
        <4>0. t \in Nat /\ faults[c] \in Nat /\ t <= faults[c]
          BY <1>1, <3>0
        <4> HIDE DEF t
        <4>1. tries <= faults[c] + 1
          <5>1. t + 1 <= faults[c] + 1
            BY <4>0
          <5> QED BY <5>1 DEF t
        <4>2. tries <= faults'[c] + 1
          BY <1>1, <1>3, <1>7, <4>1, MoreFaults
        <4> QED BY <1>3, <4>1, <4>2
      <3>3. client[c].outcome = "no response" => faults'[c] >= MAX_TRIES
        BY <1>1, <1>3, <3>0, MoreFaults, SetupAssumption
      <3>4. fate = "sent" => Hope(c)'
        <4> SUFFICES ASSUME fate = "sent" PROVE Hope(c)'
          OBVIOUS
        <4> DEFINE j == Len(listener) + 1
        <4>1. j \in DOMAIN listener' /\ listener'[j] = m
          BY <1>5, <2>1
        <4>2. m.peer = Here(c)' /\ m.flag # "CRC_ERROR"
          BY DEF Here
        <4> HIDE DEF j, m
        <4> QED BY <4>1, <4>2 DEF Hope
      <3> HIDE DEF tries, waits
      <3> QED BY <1>8, <3>1, <3>2, <3>3, <3>4 DEF Account
    <2>9. client'[c].tries <= MAX_TRIES
      BY <1>8, <2>2, <2>3
    <2> QED BY <1>1, <1>3, <2>4, <2>5, <2>6, <2>7, <2>8, <2>9, AccountsStep
  <1> QED BY <1>11, <1>12

LEMMA FilenameAccounts ==
    ASSUME Accounts, NEW c \in Clients, FilenameFirst(c)
    PROVE  Accounts'
  <1> DEFINE answer == Head(client[c].inbox)
             m == [answer EXCEPT !.flag = "FNAME"]
             to == answer.server
             state == IF answer.flag = "CRC_ERROR" THEN "START" ELSE "FILENAME_WAIT"
             new == [client[c] EXCEPT !.remote = to, !.inbox = Tail(@), !.state = state]
  <1>1. /\ client[c].state = "FILENAME" /\ client[c].inbox # <<>>
        /\ client \in [Clients -> ClientRecords] /\ client[c] \in ClientRecords
        /\ child \in [Children -> ChildRecords] /\ client[c].inbox \in Seq(Packets)
        /\ delayed \subseteq Packets /\ faults[c] \in Nat /\ faults \in FaultCounts
        /\ TypeOK /\ DelayedKinds /\ TriesLeft /\ FromChildren
        /\ luck' = luck /\ listener' = listener
    BY AccountsFacts DEF Accounts, FilenameFirst, NoInbox
  <1>2. /\ answer \in Packets /\ Tail(client[c].inbox) \in Seq(Packets)
        /\ \A i \in DOMAIN Tail(client[c].inbox) :
             i + 1 \in DOMAIN client[c].inbox /\ Tail(client[c].inbox)[i] = client[c].inbox[i + 1]
        /\ 1 \in DOMAIN client[c].inbox /\ answer = client[c].inbox[1]
    BY <1>1, Taken
  <1>3. to \in Children /\ \A i \in DOMAIN client[c].inbox : client[c].inbox[i].server \in Children
    BY <1>1, <1>2 DEF FromChildren
  <1> HIDE DEF answer
  <1>4. /\ new \in ClientRecords /\ new.inbox = Tail(client[c].inbox) /\ new.state = state
        /\ new.tries = client[c].tries /\ new.outcome = client[c].outcome
        /\ state \in {"START", "FILENAME_WAIT"}
    BY <1>1, <1>2, <1>3 DEF ClientRecords, ClientStates
  <1>5. client' = [client EXCEPT ![c] = new]
    BY <1>1 DEF FilenameFirst, answer
  <1> HIDE DEF new
  <1>6. \A d \in Clients : client'[d] = IF d = c THEN new ELSE client[d]
    BY <1>1, <1>5
  <1>7. /\ faults' \in FaultCounts /\ NoneForgotten
        /\ child' \in [Children -> ChildRecords]
        /\ \A k \in Children : /\ child'[k].state = child[k].state
                               /\ child'[k].peer = child[k].peer
        /\ delayed' \subseteq Packets
        /\ \A x \in delayed' : x \in delayed \/ (x.flag = "FNAME" /\ x.server \in Children)
    <2>1. CASE answer.flag = "CRC_ERROR"
      <3>1. child' = child /\ delayed' = delayed /\ faults' = faults
        BY <2>1 DEF FilenameFirst, answer
      <3>2. faults' \in FaultCounts /\ NoneForgotten
        BY <1>1, <3>1, NothingForgotten
      <3> QED BY <1>1, <3>1, <3>2
    <2>2. CASE answer.flag # "CRC_ERROR"
      <3>1. PICK fate \in Misfortune :
              /\ Counting(c, fate)
              /\ child' = [child EXCEPT ![to].inbox = @ \o Arriving(m, fate)]
              /\ delayed' = delayed \cup Delaying(m, fate)
        BY <2>2 DEF FilenameFirst, answer
      <3>2. fate \in Misfortunes \cup {"sent"}
        BY SetupAssumption DEF Misfortune
      <3>3. m \in Packets /\ m.flag = "FNAME" /\ m.server = to
        BY <1>2 DEF Packets
      <3> DEFINE grown == child[to].inbox \o Arriving(m, fate)
      <3>4. grown \in Seq(Packets)
        <4>1. child[to].inbox \in Seq(Packets)
          BY <1>1, <1>3 DEF ChildRecords
        <4> HIDE DEF m
        <4> QED BY <3>2, <3>3, <4>1, StillThere
      <3>5. child' = [child EXCEPT ![to] = [child[to] EXCEPT !.inbox = grown]]
        BY <1>1, <1>3, <3>1
      <3>6. [child[to] EXCEPT !.inbox = grown] \in ChildRecords
            /\ [child[to] EXCEPT !.inbox = grown].state = child[to].state
            /\ [child[to] EXCEPT !.inbox = grown].peer = child[to].peer
        <4> HIDE DEF grown
        <4> QED BY <1>1, <1>3, <3>4 DEF ChildRecords
      <3>7. /\ child' \in [Children -> ChildRecords]
            /\ \A k \in Children : /\ child'[k].state = child[k].state
                                   /\ child'[k].peer = child[k].peer
        <4> HIDE DEF grown
        <4> QED BY <1>1, <1>3, <3>5, <3>6
      <3>8. delayed' \subseteq Packets /\ \A x \in delayed' : x \in delayed \/ x = m
        BY <1>1, <3>1, <3>3 DEF Delaying
      <3>9. faults' \in FaultCounts /\ NoneForgotten
        BY <1>1, <3>1, CountedMore
      <3>10. \A x \in delayed' : x \in delayed \/ (x.flag = "FNAME" /\ x.server \in Children)
        <4> HIDE DEF m, to
        <4> QED BY <1>3, <3>3, <3>8
      <3> HIDE DEF m, grown
      <3> QED BY <3>7, <3>8, <3>9, <3>10
    <2> QED BY <2>1, <2>2
  <1>8. TypeOK' /\ DelayedKinds' /\ FromChildren'
    <2>1. client' \in [Clients -> ClientRecords]
      BY <1>1, <1>4, <1>5
    <2>2. TypeOK'
      BY <1>1, <1>7, <2>1 DEF TypeOK, ClientRecords, ChildRecords
    <2>3. DelayedKinds'
      BY <1>1, <1>7 DEF DelayedKinds
    <2>4. FromChildren'
      <3>1. \A i \in DOMAIN new.inbox : new.inbox[i].server \in Children
        BY <1>2, <1>3, <1>4
      <3> QED BY <1>1, <1>6, <3>1 DEF FromChildren
    <2> QED BY <2>2, <2>3, <2>4
  <1>9. \A d \in Clients \ {c} : client'[d] = client[d] /\ (Hope(d) => Hope(d)')
    BY <1>1, <1>6, <1>7, HopeStays
  <1>10. client'[c].tries <= MAX_TRIES
    BY <1>1, <1>4, <1>6 DEF TriesLeft
  <1>11. ASSUME Timely /\ luck = "sent" PROVE Account(c)'
    <2>1. Account(c)
      BY <1>11 DEF Accounts
    <2>2. client[c].tries = 0 /\ (client[c].outcome = "no response" => faults[c] >= MAX_TRIES)
      BY <1>1, <2>1 DEF Account
    <2>3. faults'[c] \in Nat /\ faults[c] <= faults'[c] /\ MAX_TRIES \in Nat
      BY <1>7, SetupAssumption DEF FaultCounts, NoneForgotten
    <2>4. client'[c].tries = 0 /\ client'[c].state \in {"START", "FILENAME_WAIT"}
          /\ client'[c].outcome = client[c].outcome
      BY <1>4, <1>6, <2>2
    <2>5. 0 <= faults'[c] /\ (faults[c] >= MAX_TRIES => faults'[c] >= MAX_TRIES)
      BY <1>1, <1>7, <2>3, MoreFaults
    <2> QED BY <2>2, <2>4, <2>5 DEF Account
  <1> QED BY <1>1, <1>7, <1>8, <1>9, <1>10, <1>11, AccountsStep

LEMMA ServeAccounts ==
    ASSUME Accounts, ServeClient
    PROVE  Accounts'
  <1> DEFINE m == Head(listener)
             new == CHOOSE k \in Free : TRUE
             unborn == [state |-> "none", peer |-> {}, inbox |-> <<>>]
             born == [state |-> "CONNECTION", peer |-> {m.peer}, inbox |-> <<>>]
  <1>1. /\ listener # <<>> /\ listener \in Seq(Packets)
        /\ child \in [Children -> ChildRecords]
        /\ TypeOK /\ DelayedKinds /\ FromChildren
        /\ listener' = Tail(listener)
        /\ client' = client /\ delayed' = delayed /\ luck' = luck /\ faults' = faults
    BY AccountsFacts DEF Accounts, ServeClient, NoInbox
  <1>2. /\ 1 \in DOMAIN listener /\ m = listener[1] /\ m \in Packets
        /\ listener' \in Seq(Packets)
        /\ \A i \in DOMAIN listener :
             i = 1 \/ (i - 1 \in DOMAIN listener' /\ listener'[i - 1] = listener[i])
    <2>1. \A i \in DOMAIN listener :
            i = 1 \/ (i - 1 \in DOMAIN Tail(listener) /\ Tail(listener)[i - 1] = listener[i])
      BY <1>1
    <2> QED BY <1>1, <2>1, Taken
  <1> HIDE DEF m
  <1>3. unborn \in ChildRecords /\ born \in ChildRecords
        /\ \A k \in Children : Reaped(k) = IF child[k].state = "DONE" THEN unborn ELSE child[k]
    <2>1. m.peer \in Peers
      BY <1>2 DEF Packets
    <2> QED BY <1>1, <2>1 DEF ChildRecords, ChildStates, Reaped, NoInbox
  <1>4. /\ child' \in [Children -> ChildRecords]
        /\ \A k \in Children : child[k].state = "CONNECTION" => child'[k] = child[k]
        /\ m.flag # "CRC_ERROR" =>
             \E k \in Children : child'[k].state = "CONNECTION" /\ child'[k].peer = {m.peer}
    <2>1. CASE m.flag = "CRC_ERROR"
      <3>1. child' = [k \in Children |-> Reaped(k)]
        BY <2>1 DEF ServeClient, m
      <3> HIDE DEF unborn
      <3> QED BY <1>1, <1>3, <2>1, <3>1
    <2>2. CASE m.flag # "CRC_ERROR"
      <3>1. /\ Free # {}
            /\ child' = [k \in Children |-> IF k = new THEN born ELSE Reaped(k)]
        BY <2>2 DEF ServeClient, m, NoInbox
      <3>2. new \in Free /\ new \in Children /\ child[new].state # "CONNECTION"
        <4>1. new \in Free
          BY <3>1
        <4> HIDE DEF new
        <4> QED BY <4>1 DEF Free
      <3>3. born.state = "CONNECTION" /\ born.peer = {m.peer}
        OBVIOUS
      <3> HIDE DEF new, born, unborn
      <3> QED BY <1>1, <1>3, <3>1, <3>2, <3>3
    <2> QED BY <2>1, <2>2
  <1>5. TypeOK' /\ DelayedKinds' /\ FromChildren'
    BY <1>1, <1>2, <1>4 DEF TypeOK, ChildRecords, DelayedKinds, FromChildren
  <1>6. ASSUME NEW d \in Clients, Hope(d) PROVE Hope(d)'
    <2>1. Here(d)' = Here(d)
      BY DEF Here
    <2>2. CASE \E i \in DOMAIN listener :
                 listener[i].peer = Here(d) /\ listener[i].flag # "CRC_ERROR"
      <3>1. PICK i \in DOMAIN listener :
              listener[i].peer = Here(d) /\ listener[i].flag # "CRC_ERROR"
        BY <2>2
      <3>2. CASE i = 1
        BY <1>2, <1>4, <2>1, <3>1, <3>2 DEF Hope
      <3>3. CASE i # 1
        BY <1>2, <2>1, <3>1, <3>3 DEF Hope
      <3> QED BY <3>2, <3>3
    <2>3. CASE \E k \in Children : child[k].state = "CONNECTION" /\ child[k].peer = {Here(d)}
      BY <1>4, <2>1, <2>3 DEF Hope
    <2>4. CASE client[d].inbox # NoInbox
      BY <1>1, <2>4 DEF Hope, NoInbox
    <2> QED BY <1>6, <2>2, <2>3, <2>4 DEF Hope
  <1>7. NoneForgotten
    BY <1>1, NothingForgotten
  <1> QED BY <1>1, <1>5, <1>6, <1>7, AccountsQuiet

\* A child sends SETUP_RES.
LEMMA ConnectionAccounts ==
    ASSUME Accounts, NEW k \in Children, Connection(k)
    PROVE  Accounts'
  <1>1. /\ child[k].state = "CONNECTION" /\ child[k].peer \subseteq Peers
        /\ child[k] \in ChildRecords
        /\ client \in [Clients -> ClientRecords] /\ child \in [Children -> ChildRecords]
        /\ delayed \subseteq Packets /\ faults \in FaultCounts
        /\ TypeOK /\ DelayedKinds /\ FromChildren /\ luck \in AnswerFates
        /\ child' = [child EXCEPT ![k].state = "FILENAME", ![k].inbox = NoInbox]
        /\ listener' = listener /\ luck' = luck
    BY AccountsFacts DEF Accounts, Connection, TypeOK
  <1>2. PICK peer \in child[k].peer, udp \in Misfortune :
          LET m    == [flag |-> "SETUP_RES", peer |-> peer, server |-> k]
              fate == IF luck = "sent" THEN udp ELSE luck
          IN  /\ Counting(peer.client, udp)
              /\ client' = IF peer.socket = "open"
                   THEN [client EXCEPT
                          ![peer.client].inbox = @ \o Arriving(m, fate)]
                   ELSE client
              /\ delayed' = delayed \cup Delaying(m, fate)
    BY DEF Connection
  <1> DEFINE m    == [flag |-> "SETUP_RES", peer |-> peer, server |-> k]
             fate == IF luck = "sent" THEN udp ELSE luck
             e    == peer.client
             grown == client[e].inbox \o Arriving(m, fate)
  <1>3. /\ peer \in Peers /\ e \in Clients /\ (peer.socket = "open" => peer = Here(e))
        /\ fate \in Misfortunes \cup {"sent"} /\ m \in Packets
        /\ m.flag = "SETUP_RES" /\ m.server = k
    <2>1. peer \in Peers
      BY <1>1
    <2>2. fate \in Misfortunes \cup {"sent"}
      BY <1>1, SetupAssumption DEF Misfortune, Misfortunes
    <2> QED BY <2>1, <2>2, HereFacts DEF Packets
  <1>4. /\ faults' \in FaultCounts /\ NoneForgotten
        /\ udp # "sent" => faults[e] < faults'[e]
    <2>1. Counting(e, udp)
      BY <1>2
    <2> HIDE DEF e
    <2> QED BY <1>1, <1>3, <2>1, CountedMore
  <1>5. /\ client' = IF peer.socket = "open"
                     THEN [client EXCEPT ![e].inbox = grown] ELSE client
        /\ delayed' = delayed \cup Delaying(m, fate)
    BY <1>2
  <1>6. /\ client[e] \in ClientRecords /\ client[e].inbox \in Seq(Packets)
        /\ \A i \in DOMAIN client[e].inbox : client[e].inbox[i].server \in Children
    BY <1>1, <1>3, AccountsFacts DEF FromChildren
  <1>7. /\ grown \in Seq(Packets)
        /\ client[e].inbox # <<>> => grown # <<>>
        /\ fate = "sent" => grown # <<>>
        /\ \A i \in DOMAIN grown : grown[i].server \in Children
    <2> HIDE DEF m, fate, e
    <2>1. /\ grown \in Seq(Packets)
          /\ client[e].inbox # <<>> => grown # <<>>
          /\ fate = "sent" => grown # <<>>
          /\ \A i \in DOMAIN grown :
               (i \in DOMAIN client[e].inbox /\ grown[i] = client[e].inbox[i])
                 \/ grown[i].server = m.server
      <3> DEFINE inbox == client[e].inbox
                 all   == inbox \o Arriving(m, fate)
      <3>1. inbox \in Seq(Packets) /\ m \in Packets /\ fate \in Misfortunes \cup {"sent"}
        BY <1>3, <1>6
      <3> HIDE DEF inbox
      <3>2. /\ all \in Seq(Packets)
            /\ inbox # <<>> => all # <<>>
            /\ fate = "sent" => all # <<>>
            /\ \A i \in DOMAIN all :
                 (i \in DOMAIN inbox /\ all[i] = inbox[i]) \/ all[i].server = m.server
        BY <3>1, StillThere, SMTT(20)
      <3> QED BY <3>2 DEF inbox
    <2>2. m.server \in Children
      BY <1>3
    <2>3. \A i \in DOMAIN client[e].inbox : client[e].inbox[i].server \in Children
      BY <1>6
    <2> HIDE DEF grown
    <2> QED BY <2>1, <2>2, <2>3
  <1>8. delayed' \subseteq Packets /\ \A x \in delayed' : x \in delayed \/ x = m
    <2> HIDE DEF m, fate
    <2> QED BY <1>1, <1>3, <1>5 DEF Delaying
  <1> DEFINE new == [client[e] EXCEPT !.inbox = grown]
  <1>9. /\ new \in ClientRecords /\ new.inbox = grown /\ new.state = client[e].state
        /\ new.tries = client[e].tries /\ new.outcome = client[e].outcome
    <2> HIDE DEF e, grown
    <2> QED BY <1>6, <1>7 DEF ClientRecords
  <1>10. client' = IF peer.socket = "open" THEN [client EXCEPT ![e] = new] ELSE client
    <2> HIDE DEF grown
    <2> QED BY <1>5
  <1> HIDE DEF m, fate, e, grown, new
  <1>11. \A d \in Clients : client'[d] = IF peer.socket = "open" /\ d = e THEN new ELSE client[d]
    BY <1>1, <1>3, <1>10
  <1>12. /\ child' \in [Children -> ChildRecords]
         /\ \A l \in Children : l # k => child'[l] = child[l]
    <2>1. [child[k] EXCEPT !.state = "FILENAME", !.inbox = <<>>] \in ChildRecords
      <3>1. "FILENAME" \in ChildStates /\ <<>> \in Seq(Packets) /\ child[k] \in ChildRecords
        BY <1>1 DEF ChildStates
      <3> QED BY <3>1 DEF ChildRecords
    <2>2. child' = [child EXCEPT ![k] = [child[k] EXCEPT !.state = "FILENAME", !.inbox = <<>>]]
      BY <1>1 DEF NoInbox
    <2> QED BY <1>1, <2>1, <2>2
  <1>13. TypeOK' /\ DelayedKinds' /\ FromChildren'
    <2>1. client' \in [Clients -> ClientRecords]
      BY <1>1, <1>9, <1>10
    <2>2. TypeOK'
      BY <1>1, <1>4, <1>8, <1>12, <2>1 DEF TypeOK, ClientRecords, ChildRecords
    <2>3. DelayedKinds'
      BY <1>1, <1>3, <1>8 DEF DelayedKinds
    <2>4. FromChildren'
      BY <1>1, <1>7, <1>9, <1>11 DEF FromChildren
    <2> QED BY <2>2, <2>3, <2>4
  <1>14. ASSUME NEW d \in Clients, luck = "sent", Hope(d)
         PROVE  Hope(d)' \/ faults[d] < faults'[d]
    <2>1. Here(d)' = Here(d) /\ fate = udp
      BY <1>14 DEF Here, fate
    <2>2. CASE \E i \in DOMAIN listener :
                 listener[i].peer = Here(d) /\ listener[i].flag # "CRC_ERROR"
      BY <1>1, <2>1, <2>2 DEF Hope
    <2>3. CASE \E l \in Children : child[l].state = "CONNECTION" /\ child[l].peer = {Here(d)}
      <3>1. PICK l \in Children : child[l].state = "CONNECTION" /\ child[l].peer = {Here(d)}
        BY <2>3
      <3>2. CASE l # k
        BY <1>12, <2>1, <3>1, <3>2 DEF Hope
      <3>3. CASE l = k
        <4>1. peer = Here(d) /\ peer.socket = "open" /\ e = d
          BY <3>1, <3>3, HereFacts DEF e
        <4>2. client'[d].inbox = grown
          BY <1>9, <1>11, <4>1
        <4>3. fate = "sent" => Hope(d)'
          BY <1>7, <4>2 DEF Hope, NoInbox
        <4> QED BY <1>4, <2>1, <4>1, <4>3
      <3> QED BY <3>2, <3>3
    <2>4. CASE client[d].inbox # NoInbox
      BY <1>7, <1>9, <1>11, <2>4 DEF Hope, NoInbox
    <2> QED BY <1>14, <2>2, <2>3, <2>4 DEF Hope
  <1>15. \A d \in Clients : /\ client'[d].state = client[d].state
                            /\ client'[d].tries = client[d].tries
                            /\ client'[d].outcome = client[d].outcome
    BY <1>9, <1>11
  <1> QED BY <1>1, <1>4, <1>13, <1>14, <1>15, AccountsQuiet

LEMMA GiveUpAccounts ==
    ASSUME Accounts, NEW k \in Children, GiveUp(k)
    PROVE  Accounts'
  <1>1. /\ child[k].state = "FILENAME" /\ child \in [Children -> ChildRecords]
        /\ child[k] \in ChildRecords
        /\ TypeOK /\ DelayedKinds /\ FromChildren
        /\ child' = [child EXCEPT ![k].state = "DONE"]
        /\ client' = client /\ listener' = listener /\ delayed' = delayed
        /\ luck' = luck /\ faults' = faults
    BY AccountsFacts DEF Accounts, GiveUp, GivingUp
  <1>2. child' \in [Children -> ChildRecords]
        /\ \A l \in Children : l # k => child'[l] = child[l]
    <2>1. [child[k] EXCEPT !.state = "DONE"] \in ChildRecords
      <3>1. "DONE" \in ChildStates /\ child[k] \in ChildRecords
        BY <1>1 DEF ChildStates
      <3> QED BY <3>1 DEF ChildRecords
    <2>2. child' = [child EXCEPT ![k] = [child[k] EXCEPT !.state = "DONE"]]
      BY <1>1
    <2> QED BY <1>1, <2>1, <2>2
  <1>3. TypeOK' /\ DelayedKinds' /\ FromChildren'
    BY <1>1, <1>2 DEF TypeOK, ChildRecords, DelayedKinds, FromChildren
  <1>4. \A l \in Children : child[l].state = "CONNECTION" => l # k
    BY <1>1
  <1>5. \A d \in Clients : Hope(d) => Hope(d)'
    BY <1>1, <1>2, <1>4, HopeStays
  <1>6. NoneForgotten
    BY <1>1, NothingForgotten
  <1> QED BY <1>1, <1>3, <1>5, <1>6, AccountsQuiet

LEMMA LateAccounts ==
    ASSUME Accounts, LateArrival
    PROVE  Accounts'
  <1>1. /\ client \in [Clients -> ClientRecords] /\ child \in [Children -> ChildRecords]
        /\ listener \in Seq(Packets) /\ delayed \subseteq Packets
        /\ TypeOK /\ DelayedKinds /\ FromChildren
        /\ luck' = luck /\ faults' = faults
    BY AccountsFacts DEF Accounts, LateArrival
  <1>2. PICK m \in delayed :
          /\ delayed' = delayed \ {m}
          /\ CASE m.flag = "SETUP" ->
                    listener' = Append(listener, m) /\ UNCHANGED <<client, child>>
               [] m.flag = "SETUP_RES" ->
                    /\ client' = IF m.peer.socket = "open"
                         THEN [client EXCEPT ![m.peer.client].inbox = Append(@, m)]
                         ELSE client
                    /\ UNCHANGED <<listener, child>>
               [] m.flag = "FNAME" ->
                    /\ child' = IF child[m.server].state = "FILENAME"
                         THEN [child EXCEPT ![m.server].inbox = Append(@, m)]
                         ELSE child
                    /\ UNCHANGED <<client, listener>>
    BY DEF LateArrival
  <1>3. /\ m \in Packets /\ m.peer \in Peers /\ m.peer.client \in Clients
        /\ \/ m.flag = "SETUP"
           \/ m.flag \in {"SETUP_RES", "FNAME"} /\ m.server \in Children
    BY <1>1, <1>2 DEF DelayedKinds, Packets, Peers
  <1>4. /\ listener' \in Seq(Packets)
        /\ \A i \in DOMAIN listener : i \in DOMAIN listener' /\ listener'[i] = listener[i]
        /\ child' \in [Children -> ChildRecords]
        /\ \A k \in Children : child'[k].state = child[k].state /\ child'[k].peer = child[k].peer
        /\ client' \in [Clients -> ClientRecords]
        /\ \A d \in Clients :
             /\ client'[d].state = client[d].state /\ client'[d].tries = client[d].tries
             /\ client'[d].outcome = client[d].outcome
             /\ client[d].inbox # <<>> => client'[d].inbox # <<>>
             /\ \A i \in DOMAIN client'[d].inbox : client'[d].inbox[i].server \in Children
    <2>0. \A d \in Clients : \A i \in DOMAIN client[d].inbox :
            client[d].inbox[i].server \in Children
      BY <1>1 DEF FromChildren
    <2>1. CASE m.flag = "SETUP"
      <3>1. listener' = Append(listener, m) /\ client' = client /\ child' = child
        BY <1>2, <2>1
      <3>2. \A i \in DOMAIN listener :
              i \in DOMAIN Append(listener, m) /\ Append(listener, m)[i] = listener[i]
        BY <1>1
      <3> QED BY <1>1, <1>3, <2>0, <3>1, <3>2, Appended
    <2>2. CASE m.flag = "SETUP_RES"
      <3> DEFINE e == m.peer.client
                 grown == Append(client[e].inbox, m)
                 new == [client[e] EXCEPT !.inbox = grown]
      <3>1. /\ client' = IF m.peer.socket = "open" THEN [client EXCEPT ![e].inbox = grown] ELSE client
            /\ listener' = listener /\ child' = child
        BY <1>2, <2>2
      <3>2. client[e] \in ClientRecords /\ client[e].inbox \in Seq(Packets) /\ e \in Clients
        BY <1>1, <1>3 DEF ClientRecords
      <3>3. m.server \in Children
        BY <1>3, <2>2
      <3> HIDE DEF e
      <3>4. /\ grown \in Seq(Packets) /\ grown # <<>>
            /\ \A i \in DOMAIN grown : grown[i].server \in Children
        <4>1. \A i \in DOMAIN grown :
                \/ i \in DOMAIN client[e].inbox /\ grown[i] = client[e].inbox[i]
                \/ grown[i] = m
          BY <1>3, <3>2, Appended
        <4>2. grown \in Seq(Packets) /\ grown # <<>>
          BY <1>3, <3>2, Appended
        <4> HIDE DEF grown
        <4> QED BY <2>0, <3>2, <3>3, <4>1, <4>2
      <3>5. client' = IF m.peer.socket = "open" THEN [client EXCEPT ![e] = new] ELSE client
        <4> HIDE DEF grown
        <4> QED BY <3>1
      <3> HIDE DEF grown
      <3>6. /\ new \in ClientRecords /\ new.inbox = grown /\ new.state = client[e].state
            /\ new.tries = client[e].tries /\ new.outcome = client[e].outcome
        BY <3>2, <3>4 DEF ClientRecords
      <3> HIDE DEF new
      <3>7. \A d \in Clients :
              client'[d] = IF m.peer.socket = "open" /\ d = e THEN new ELSE client[d]
        BY <1>1, <3>2, <3>5
      <3>8. client' \in [Clients -> ClientRecords]
        BY <1>1, <3>5, <3>6
      <3>9. \A d \in Clients :
              /\ client'[d].state = client[d].state /\ client'[d].tries = client[d].tries
              /\ client'[d].outcome = client[d].outcome
              /\ client[d].inbox # <<>> => client'[d].inbox # <<>>
              /\ \A i \in DOMAIN client'[d].inbox : client'[d].inbox[i].server \in Children
        BY <2>0, <3>4, <3>6, <3>7
      <3> QED BY <1>1, <3>1, <3>8, <3>9
    <2>3. CASE m.flag = "FNAME"
      <3> DEFINE to == m.server
                 grown == Append(child[to].inbox, m)
                 new == [child[to] EXCEPT !.inbox = grown]
      <3>1. /\ child' = IF child[to].state = "FILENAME" THEN [child EXCEPT ![to].inbox = grown] ELSE child
            /\ listener' = listener /\ client' = client
        BY <1>2, <2>3
      <3>2. to \in Children /\ child[to] \in ChildRecords /\ child[to].inbox \in Seq(Packets)
        BY <1>1, <1>3, <2>3 DEF ChildRecords
      <3> HIDE DEF to
      <3>3. grown \in Seq(Packets)
        BY <1>3, <3>2, Appended
      <3>4. child' = IF child[to].state = "FILENAME" THEN [child EXCEPT ![to] = new] ELSE child
        <4> HIDE DEF grown
        <4> QED BY <3>1
      <3> HIDE DEF grown
      <3>5. new \in ChildRecords /\ new.state = child[to].state /\ new.peer = child[to].peer
        BY <3>2, <3>3 DEF ChildRecords
      <3> HIDE DEF new
      <3>6. /\ child' \in [Children -> ChildRecords]
            /\ \A k \in Children : child'[k].state = child[k].state /\ child'[k].peer = child[k].peer
        BY <1>1, <3>2, <3>4, <3>5
      <3> QED BY <1>1, <2>0, <3>1, <3>6
    <2> QED BY <1>3, <2>1, <2>2, <2>3
  <1>5. TypeOK' /\ DelayedKinds' /\ FromChildren'
    <2>1. TypeOK'
      BY <1>1, <1>2, <1>4 DEF TypeOK, ClientRecords, ChildRecords
    <2> QED BY <1>1, <1>2, <1>4, <2>1 DEF DelayedKinds, FromChildren
  <1>6. \A d \in Clients : Hope(d) => Hope(d)'
    BY <1>4, HopeStays
  <1>7. NoneForgotten
    BY <1>1, NothingForgotten
  <1> QED BY <1>1, <1>4, <1>5, <1>6, <1>7, AccountsQuiet

LEMMA NextAccounts == Accounts /\ [Next]_vars => Accounts'
  <1> SUFFICES ASSUME Accounts, [Next]_vars PROVE Accounts'
    OBVIOUS
  <1>1. CASE \E c \in Clients : ClientStep(c)
    BY <1>1, StartAccounts, SetupAccounts, AnsweredAccounts, FilenameAccounts DEF ClientStep
  <1>2. CASE \E k \in Children : ChildStep(k)
    BY <1>2, ConnectionAccounts, GiveUpAccounts DEF ChildStep
  <1>3. CASE ServeClient
    BY <1>3, ServeAccounts
  <1>4. CASE LateArrival
    BY <1>4, LateAccounts
  <1>5. CASE UNCHANGED vars
    <2>1. /\ client' = client /\ child' = child /\ listener' = listener
          /\ delayed' = delayed /\ luck' = luck /\ faults' = faults
      BY <1>5 DEF vars
    <2>2. TypeOK' /\ DelayedKinds' /\ FromChildren'
      BY <2>1 DEF Accounts, TypeOK, DelayedKinds, FromChildren
    <2>3. NoneForgotten
      BY <2>1, NothingForgotten
    <2>4. \A d \in Clients : Hope(d) => Hope(d)'
      BY <2>1, HopeStays
    <2> QED BY <2>1, <2>2, <2>3, <2>4, AccountsQuiet
  <1> QED BY <1>1, <1>2, <1>3, <1>4, <1>5 DEF Next

\* The account of tries and losses is right in every state.
THEOREM AccountsSound == Spec => []Accounts
  <1> QED BY AccountsInit, NextAccounts, PTL DEF Spec

\* The variables of the set-up keep their types, however the children and the
\* network behave: what a child writes to is an inbox of packets, and no client
\* counts beyond the last of its tries.
THEOREM TypeCorrect == Spec => []TypeOK
  <1>1. Accounts => TypeOK
    BY DEF Accounts
  <1> QED BY <1>1, AccountsSound, PTL

\* With a server that answers within the second, no client reports that it got
\* no response before MAX_TRIES packets of its own, or to it, were hit, whichever
\* they were, however many clients there are and even if children quit early.
THEOREM GivingUpTakesLosses == Spec => []NoResponseTakesLosses
  <1>1. Accounts => NoResponseTakesLosses
    BY DEF Accounts, Account, NoResponseTakesLosses
  <1> QED BY <1>1, AccountsSound, PTL
=============================================================================
