----------------------------- MODULE OrderProofs -----------------------------
(***************************************************************************)
(* WindowNeverRetreats and BlameTakesLosses, for every file, window, bound *)
(* and number of faults, on a network that keeps the order: packets are    *)
(* dropped or flipped, never late and never there twice.                   *)
(***************************************************************************)
EXTENDS TransferProofs, TransferInvariant

KeepsOrder == Fates \subseteq {"dropped", "flipped"}

\* The RRs that wait at the client are sorted and none is below lower; nothing
\* can overtake them.
RRsInOrder ==
    /\ toClient.late = {}
    /\ \A i \in DOMAIN toClient.inbox :
         toClient.inbox[i].flag = "RR" => window.lower <= toClient.inbox[i].seq
    /\ \A i, j \in DOMAIN toClient.inbox :
         /\ i < j
         /\ toClient.inbox[i].flag = "RR"
         /\ toClient.inbox[j].flag = "RR"
         => toClient.inbox[i].seq <= toClient.inbox[j].seq

(***************************************************************************)
(* What an orderly network does to a socket.                               *)
(***************************************************************************)

\* after is before with messages of S behind it.
Longer(before, after, S) ==
    /\ Len(before) <= Len(after)
    /\ \A i \in 1 .. Len(before) : after[i] = before[i]
    /\ \A i \in Len(before) + 1 .. Len(after) : after[i] \in S

\* What is sent leaves of a socket what it does not add to.
SameEnds(before, after) ==
    /\ after.late = before.late
    /\ after.open = before.open
    /\ after.name = before.name
    /\ after.remote = before.remote

\* What may be heard of the packets of S: themselves, or noise from where they
\* come from.
Heard(S) == S \cup {n \in Noise : \E m \in S : n.from = m.from}

\* An orderly network delivers a packet, or noise in its place.
LEMMA ArrivesHeard ==
    ASSUME NEW S \in SUBSET Messages, NEW m \in S, NEW fate
    PROVE  Arrives(m, fate) \in Heard(S)
  <1>1. [Garbled EXCEPT !.from = m.from] \in Noise
    <2>1. <<>> \in Seq(Nat) /\ m.from \in Nat
      BY EmptySeq DEF Messages
    <2> QED BY <2>1 DEF Garbled, Signal, Packet, Messages, Flags, Noise
  <1>2. [Garbled EXCEPT !.from = m.from].from = m.from
    BY DEF Garbled, Signal, Packet
  <1> QED BY <1>1, <1>2 DEF Arrives, Heard

\* sendtoErr puts what arrives behind what waits, and counts what it hits.
LEMMA TransmitInOrder ==
    ASSUME KeepsOrder, NEW socket \in Sockets, NEW S, IsFiniteSet(S),
           NEW ms \in [S -> Messages], NEW socketAfter,
           faults \in 0 .. MaxFaults,
           Transmit(socket, ms, socketAfter)
    PROVE  /\ SameEnds(socket, socketAfter)
           /\ Longer(socket.inbox, socketAfter.inbox, Heard({ms[k] : k \in S}))
           /\ faults' >= faults
  <1> DEFINE q    == socket.inbox
             sent == {ms[k] : k \in S}
  <1>0. /\ q \in Seq(Messages) /\ socket.late \subseteq Messages
        /\ Len(q) \in Nat /\ DOMAIN ms = S
        /\ sent \in SUBSET Messages
    BY LenProperties DEF Sockets
  <1>1. CASE socketAfter = socket /\ UNCHANGED faults
    BY <1>0, <1>1 DEF Longer, SameEnds
  <1>2. ASSUME NEW fate \in [S -> Fates \cup {"sent"}],
               faults' = faults + Cardinality(Hit(fate)),
               NEW order \in Increasing(Arriving(fate)),
               socketAfter = Fed(socket, ms, fate, order)
        PROVE  /\ SameEnds(socket, socketAfter)
               /\ Longer(q, socketAfter.inbox, Heard(sent))
               /\ faults' >= faults
    <2> DEFINE n   == Cardinality(Arriving(fate))
               new == [i \in DOMAIN order |-> Arrives(ms[order[i]], fate[order[i]])]
    <2>1. Arriving(fate) \subseteq S /\ Hit(fate) \subseteq S
      BY DEF Arriving, Hit
    <2>2. Delayed(fate) = {}
      <3>1. \A k \in S : fate[k] \in {"dropped", "flipped", "sent"}
        BY DEF KeepsOrder
      <3> QED BY <3>1 DEF Delayed
    <2>3. n \in Nat /\ faults' >= faults
      <3>1. n \in Nat /\ Cardinality(Hit(fate)) \in Nat
        BY <2>1, FS_Subset, FS_CardinalityType
      <3> QED BY <1>2, <3>1
    <2>4. order \in [1 .. n -> S]
      BY <2>1 DEF Increasing
    <2>5. /\ new \in [1 .. n -> Messages]
          /\ \A i \in 1 .. n : new[i] \in Heard(sent)
      <3>1. \A i \in 1 .. n : order[i] \in S /\ ms[order[i]] \in sent
        BY <2>4
      <3> HIDE DEF sent
      <3> QED BY <1>0, <2>4, <3>1, ArrivesType, ArrivesHeard
    <2>6. socketAfter = [socket EXCEPT !.inbox = q \o new, !.late = socket.late]
      <3>1. socket.late \cup {ms[k] : k \in Delayed(fate)} = socket.late
        BY <2>2
      <3> QED BY <1>2, <3>1 DEF Fed
    <2> HIDE DEF n, new, q, sent
    <2>7. new \in Seq(Messages) /\ Len(new) = n
      BY <2>3, <2>5, SeqDef, LenProperties
    <2>8. /\ q \o new \in Seq(Messages)
          /\ Len(q \o new) = Len(q) + n
          /\ \A i \in 1 .. Len(q) + n : (q \o new)[i] =
               IF i <= Len(q) THEN q[i] ELSE new[i - Len(q)]
      BY <1>0, <2>7, ConcatProperties
    <2>9. socketAfter.inbox = q \o new /\ SameEnds(socket, socketAfter)
      BY <2>6 DEF Sockets, SameEnds
    <2>10. Longer(q, q \o new, Heard(sent))
      <3>1. \A i \in Len(q) + 1 .. Len(q) + n :
              i - Len(q) \in 1 .. n /\ (q \o new)[i] = new[i - Len(q)]
        BY <1>0, <2>3, <2>8
      <3> QED BY <1>0, <2>3, <2>5, <2>8, <3>1 DEF Longer
    <2> QED BY <2>3, <2>9, <2>10
  <1> QED BY <1>0, <1>1, <1>2 DEF Transmit

\* The packets of S as a receiver hears them, when all are from one socket.
LEMMA HeardFrom ==
    ASSUME NEW S, NEW n \in Nat, \A m \in S : m.from = n
    PROVE  \A m \in Heard(S) : m.from = n
  BY DEF Heard

\* recvfrom takes the first.
LEMMA ReceivedInOrder ==
    ASSUME NEW socket \in Sockets, Readable(socket)
    PROVE  LET q == socket.inbox
               r == Received(socket).inbox
           IN  /\ Received(socket).late = socket.late
               /\ Len(q) \in Nat /\ 1 \in DOMAIN q /\ Head(q) = q[1]
               /\ DOMAIN q = 1 .. Len(q) /\ DOMAIN r = 1 .. Len(q) - 1
               /\ \A i \in 1 .. Len(q) - 1 : r[i] = q[i + 1]
  <1> DEFINE q == socket.inbox
  <1>1. q \in Seq(Messages) /\ q # <<>>
    BY DEF Sockets, Readable
  <1>2. /\ Head(q) = q[1] /\ Tail(q) \in Seq(Messages)
        /\ Len(Tail(q)) = Len(q) - 1
        /\ \A i \in 1 .. Len(Tail(q)) : Tail(q)[i] = q[i + 1]
    BY <1>1, HeadTailProperties
  <1>3. /\ Len(q) \in Nat \ {0} /\ DOMAIN q = 1 .. Len(q)
        /\ DOMAIN Tail(q) = 1 .. Len(Tail(q))
    BY <1>1, <1>2, LenProperties, EmptySeq
  <1>4. Received(socket).inbox = Tail(q) /\ Received(socket).late = socket.late
    BY DEF Received, Sockets
  <1> QED BY <1>2, <1>3, <1>4

(***************************************************************************)
(* A step of the client.                                                   *)
(***************************************************************************)

\* The client moves lower only to the number of the RR that it takes from the
\* front of its socket.
TakesFront ==
    \/ /\ UNCHANGED window.lower
       /\ \/ UNCHANGED toClient
          \/ Readable(toClient) /\ toClient' = Received(toClient)
          \/ toClient' = ClosedSocket
    \/ /\ Readable(toClient)
       /\ toClient' = Received(toClient)
       /\ Head(toClient.inbox).flag = "RR"
       /\ window'.lower = Head(toClient.inbox).seq

\* Every step of the client is one of those.
LEMMA RcopyNextFront ==
    ASSUME TypeOK, RcopyNext
    PROVE  TakesFront
  <1> USE DEF GoTo, Exit, windowVars, networkVars
  <1>0. window \in Windows /\ toClient \in Sockets
    BY DEF TypeOK, ClientTypeOK, NetworkTypeOK
  <1>1. CASE Filename \/ FilenameTimeout
    <2>1. window' = window
      BY <1>1 DEF Filename, FilenameFirst, FilenameGarbled, FilenameAgain,
                  FilenameAnswered, FilenameTimeout, SendFname
    <2>2. \/ UNCHANGED toClient
          \/ Readable(toClient) /\ toClient' = Received(toClient)
          \/ toClient' = ClosedSocket
      BY <1>1 DEF Filename, FilenameFirst, FilenameGarbled, FilenameAgain,
                  FilenameAnswered, FilenameTimeout, ClientRecv
    <2> QED BY <2>1, <2>2 DEF TakesFront
  <1>2. CASE GetData /\ ~GetRR
    <2>1. window' = window
      BY <1>2 DEF GetData, GetNothing, GetUnknown, GetFnameRes, GetFopenErr,
                  GetSREJ, GetEoF
    <2>2. \/ UNCHANGED toClient
          \/ Readable(toClient) /\ toClient' = Received(toClient)
          \/ toClient' = ClosedSocket
      BY <1>2 DEF GetData, GetNothing, GetUnknown, GetFnameRes, GetFopenErr,
                  GetSREJ, GetEoF, Crash, ClientRecv
    <2> QED BY <2>1, <2>2 DEF TakesFront
  <1>3. CASE GetRR
    <2>1. PICK m \in OnTheWay(toClient) :
            /\ ClientRecv(m) /\ m.flag = "RR"
            /\ window' \in {[window EXCEPT !.end = -1], Slid(m.seq)}
      BY <1>3 DEF GetRR
    <2>2. m \in Messages
      BY <1>0, <2>1, ClientRecvType
    <2>3. [window EXCEPT !.end = -1].lower = window.lower
      BY <1>0, WindowsType
    <2>4. Slid(m.seq).lower = m.seq
      BY <1>0, <2>2, SlidType DEF Messages
    <2> QED BY <2>1, <2>3, <2>4 DEF TakesFront, ClientRecv
  <1>4. CASE SendData
    <2>1. window'.lower = window.lower
      <3>1. window.current \in Int
        BY <1>0, WindowsType
      <3>2. /\ [window EXCEPT !.current = @ + 1].lower = window.lower
            /\ [window EXCEPT !.end = window.current].lower = window.lower
        BY <1>0, <3>1, WindowsType
      <3> QED BY <1>4, <3>2 DEF SendData, SendChunk, ReachEndOfFile, ReadError
    <2>2. UNCHANGED toClient \/ toClient' = ClosedSocket
      BY <1>4 DEF SendData, SendChunk, ReachEndOfFile, ReadError, Crash
    <2> QED BY <2>1, <2>2 DEF TakesFront
  <1>5. CASE WindowStatus \/ WindowGivesUp \/ WindowResends \/ WindowSendsEoF
    <2>1. window'.lower = window.lower
      <3>1. [window EXCEPT !.current = @ + 1].lower = window.lower
        BY <1>0, WindowsType
      <3> QED BY <1>5, <3>1 DEF WindowStatus, WindowOpen, WindowAnswered,
                                WindowGivesUp, WindowResends, WindowSendsEoF
    <2>2. UNCHANGED toClient \/ toClient' = ClosedSocket
      BY <1>5 DEF WindowStatus, WindowOpen, WindowAnswered,
                  WindowGivesUp, WindowResends, WindowSendsEoF, Crash
    <2> QED BY <2>1, <2>2 DEF TakesFront
  <1> QED BY <1>1, <1>2, <1>3, <1>4, <1>5 DEF RcopyNext, RcopyTimeout

\* What the client takes from the front is not below lower, and what stays is
\* not below what it took.
LEMMA ClientKeepsOrder ==
    ASSUME TypeOK, RRsInOrder, RcopyNext
    PROVE  RRsInOrder' /\ window'.lower >= window.lower
  <1>0. window.lower \in Nat /\ toClient \in Sockets /\ TakesFront
    BY RcopyNextFront, WindowsType DEF TypeOK, ClientTypeOK, NetworkTypeOK
  <1>1. CASE UNCHANGED <<window.lower, toClient>>
    BY <1>0, <1>1 DEF RRsInOrder
  <1>2. CASE UNCHANGED window.lower /\ toClient' = ClosedSocket
    <2>1. ClosedSocket.inbox = <<>> /\ ClosedSocket.late = {}
      BY DEF ClosedSocket, EmptySocket
    <2>2. DOMAIN toClient'.inbox = {} /\ toClient'.late = {}
      BY <1>2, <2>1
    <2> QED BY <1>0, <1>2, <2>2 DEF RRsInOrder
  <1>3. CASE Readable(toClient) /\ toClient' = Received(toClient)
    <2> DEFINE q == toClient.inbox
               r == toClient'.inbox
    <2>1. /\ toClient'.late = toClient.late
          /\ Len(q) \in Nat /\ 1 \in DOMAIN q /\ Head(q) = q[1]
          /\ DOMAIN q = 1 .. Len(q) /\ DOMAIN r = 1 .. Len(q) - 1
          /\ \A i \in 1 .. Len(q) - 1 : r[i] = q[i + 1]
      BY <1>0, <1>3, ReceivedInOrder
    <2>2. \A i \in DOMAIN q : q[i].seq \in Nat
      <3>1. q \in Seq(Messages)
        BY <1>0 DEF Sockets
      <3>2. \A i \in DOMAIN q : q[i] \in Messages
        <4> HIDE DEF q
        <4> QED BY <3>1, ElementOfSeq, LenProperties
      <3> QED BY <3>2 DEF Messages
    <2>3. /\ toClient.late = {}
          /\ \A i \in DOMAIN q : q[i].flag = "RR" => window.lower <= q[i].seq
          /\ \A i, j \in DOMAIN q :
               i < j /\ q[i].flag = "RR" /\ q[j].flag = "RR" => q[i].seq <= q[j].seq
      BY DEF RRsInOrder
    <2> HIDE DEF q, r
    <2>4. \A i \in DOMAIN r : /\ i \in Nat /\ i + 1 \in DOMAIN q
                              /\ r[i] = q[i + 1] /\ 1 < i + 1
      BY <2>1
    <2>5. /\ window'.lower = window.lower \/ (q[1].flag = "RR" /\ window'.lower = q[1].seq)
      BY <1>0, <2>1 DEF TakesFront, q
    <2>6. /\ window'.lower >= window.lower
          /\ \A i \in DOMAIN r : r[i].flag = "RR" => window'.lower <= r[i].seq
      <3>1. CASE window'.lower = window.lower
        BY <1>0, <2>3, <2>4, <3>1
      <3>2. CASE q[1].flag = "RR" /\ window'.lower = q[1].seq
        BY <1>0, <2>1, <2>2, <2>3, <2>4, <3>2
      <3> QED BY <2>5, <3>1, <3>2
    <2>7. \A i, j \in DOMAIN r :
            i < j /\ r[i].flag = "RR" /\ r[j].flag = "RR" => r[i].seq <= r[j].seq
      <3> SUFFICES ASSUME NEW i \in DOMAIN r, NEW j \in DOMAIN r, i < j,
                          r[i].flag = "RR", r[j].flag = "RR"
                   PROVE  r[i].seq <= r[j].seq
        OBVIOUS
      <3>1. /\ i + 1 \in DOMAIN q /\ j + 1 \in DOMAIN q /\ i + 1 < j + 1
            /\ r[i] = q[i + 1] /\ r[j] = q[j + 1]
        BY <2>4
      <3> QED BY <2>3, <3>1
    <2> QED BY <2>1, <2>3, <2>6, <2>7 DEF RRsInOrder, r
  <1> QED BY <1>0, <1>1, <1>2, <1>3 DEF TakesFront

(***************************************************************************)
(* A step of the server.                                                   *)
(***************************************************************************)

\* Messages that are no RR, or the RR for what is expected after the step.
Current == {m \in Messages : m.flag = "RR" => m.seq = expected'}

\* The server only adds to the client's socket, at its end.
AddsCurrent ==
    /\ toClient'.late = toClient.late
    /\ Longer(toClient.inbox, toClient'.inbox, Current)

\* Packets that are Current are added, with the noise that some become.
LEMMA TransmitCurrent ==
    ASSUME KeepsOrder, TypeOK, NEW S, IsFiniteSet(S), NEW ms \in [S -> Current],
           Transmit(toClient, ms, toClient')
    PROVE  AddsCurrent
  <1>1. /\ ms \in [S -> Messages] /\ toClient \in Sockets
        /\ faults \in 0 .. MaxFaults
    BY DEF Current, TypeOK, NetworkTypeOK
  <1>2. /\ toClient'.late = toClient.late
        /\ Longer(toClient.inbox, toClient'.inbox, Heard({ms[k] : k \in S}))
    BY <1>1, TransmitInOrder DEF SameEnds
  <1>3. Heard({ms[k] : k \in S}) \subseteq Current
    BY DEF Current, Heard, Noise
  <1> QED BY <1>2, <1>3 DEF AddsCurrent, Longer

\* The same for one packet.
LEMMA SendCurrent ==
    ASSUME KeepsOrder, TypeOK, NEW m, FromServer(m) \in Current, SendToClient(m)
    PROVE  AddsCurrent
  <1> DEFINE p == FromServer(m)
  <1>1. p \in Current /\ Transmit(toClient, <<p>>, toClient')
    BY DEF SendToClient
  <1> HIDE DEF p
  <1>2. <<p>> \in [1 .. 1 -> Current]
    BY <1>1
  <1>3. IsFiniteSet(1 .. 1)
    <2>1. 1 .. 1 = {1}
      OBVIOUS
    <2> QED BY <2>1, FS_Singleton
  <1> QED BY <1>1, <1>2, <1>3, TransmitCurrent

\* A signal is no RR.
LEMMA SignalCurrent ==
    ASSUME KeepsOrder, TypeOK, toServer' \in Sockets,
           NEW flag \in Flags \ {"RR"}, SendToClient(Signal(flag))
    PROVE  AddsCurrent
  <1>1. Signal(flag) \in Messages /\ Signal(flag).flag = flag
    BY PacketType DEF Signal, Packet
  <1>2. FromServer(Signal(flag)) \in Current
    BY <1>1, FromServerType DEF Current
  <1> QED BY <1>2, SendCurrent

\* The RR names what is expected after the step.
LEMMA AcknowledgeCurrent ==
    ASSUME KeepsOrder, TypeOK, toServer' \in Sockets, expected' \in Nat,
           AcknowledgeUpTo(expected')
    PROVE  AddsCurrent
  <1> DEFINE e == expected'
             p == Packet("RR", e, <<>>)
  <1>1. p \in Messages /\ p.seq = e
    BY EmptySeq, PacketType DEF Flags, Packet, Bytes
  <1>2. FromServer(p) \in Messages /\ FromServer(p).seq = e
    BY <1>1, FromServerType
  <1>3. FromServer(p) \in Current
    BY <1>2 DEF Current
  <1>4. SendToClient(p)
    BY DEF AcknowledgeUpTo
  <1> HIDE DEF p
  <1> QED BY <1>3, <1>4, SendCurrent

\* Nothing sent, nothing added.
LEMMA SilentCurrent ==
    ASSUME TypeOK, UNCHANGED toClient
    PROVE  AddsCurrent
  <1>1. Len(toClient.inbox) \in Nat
    BY LenProperties DEF TypeOK, NetworkTypeOK, Sockets
  <1> QED BY <1>1 DEF AddsCurrent, Longer

\* get_data() of the server.
LEMMA ReceiveDataCurrent ==
    ASSUME KeepsOrder, TypeOK, ReceiveData, expected' \in Nat, toServer' \in Sockets
    PROVE  AddsCurrent
  <1>1. PICK m \in OnTheWay(toServer) :
          InOrder(m) \/ FillsGap(m) \/ Duplicate(m) \/ OutOfOrder(m)
    BY DEF ReceiveData
  <1>2. CASE InOrder(m) \/ FillsGap(m) \/ Duplicate(m)
    <2>1. AcknowledgeUpTo(expected')
      BY <1>2 DEF InOrder, FillsGap, Duplicate, recvVars
    <2> QED BY <2>1, AcknowledgeCurrent
  <1>3. CASE OutOfOrder(m)
    <2>1. CASE UNCHANGED toClient
      BY <2>1, SilentCurrent
    <2>2. CASE IsNull(squeue, SlotOf(m.seq))
      <3> DEFINE queue   == add_element(squeue, SlotOf(m.seq), m.data)
                 missing == Missing(queue, m.seq)
                 ms      == [k \in missing |-> FromServer(Packet("SREJ", k, <<>>))]
      <3>1. Transmit(toClient, ms, toClient')
        BY <1>3, <2>2 DEF OutOfOrder
      <3>2. expected \in Nat \ {0} /\ m.seq \in Nat
        BY OnTheWayType DEF TypeOK, ServerTypeOK, NetworkTypeOK, Messages
      <3>3. missing \subseteq expected .. m.seq - 1 /\ IsFiniteSet(missing)
        BY <3>2, MissingType
      <3> HIDE DEF missing
      <3>4. ASSUME NEW k \in missing PROVE ms[k] \in Current
        <4> DEFINE p == Packet("SREJ", k, <<>>)
        <4>1. k \in Nat
          BY <3>2, <3>3
        <4>2. p \in Messages /\ p.flag = "SREJ"
          BY <4>1, EmptySeq, PacketType DEF Packet, Flags, Bytes
        <4>3. FromServer(p) \in Messages /\ FromServer(p).flag = "SREJ"
          BY <4>2, FromServerType
        <4> QED BY <4>3 DEF Current
      <3>5. ms \in [missing -> Current]
        BY <3>4
      <3> HIDE DEF ms
      <3> QED BY <3>1, <3>3, <3>5, TransmitCurrent
    <2> QED BY <1>3, <2>1, <2>2 DEF OutOfOrder
  <1> QED BY <1>1, <1>2, <1>3

\* Every step of the server.
LEMMA ServerNextCurrent ==
    ASSUME KeepsOrder, TypeOK, ServerNext
    PROVE  AddsCurrent
  <1>0. toServer' \in Sockets /\ expected' \in Nat
    BY ServerNextType DEF ServerTypeOK, NetworkTypeOK
  <1>1. CASE FilenameOpens
    <2>1. PICK ok \in Opens : SendToClient(Signal(OpenAnswer(ok)))
      BY <1>1 DEF FilenameOpens
    <2>2. OpenAnswer(ok) \in Flags \ {"RR"}
      BY DEF OpenAnswer, Flags
    <2> QED BY <1>0, <2>1, <2>2, SignalCurrent
  <1>2. CASE Reconnect
    BY <1>0, <1>2, SignalCurrent DEF Reconnect, Flags
  <1>3. CASE FnameAgain
    BY <1>0, <1>3, SignalCurrent DEF FnameAgain, Flags
  <1>4. CASE CloseFile
    BY <1>0, <1>4, SignalCurrent DEF CloseFile, Flags
  <1>5. CASE FilenameOther \/ GiveUp \/ ClientTerminated \/ IgnorePacket
    BY <1>5, SilentCurrent
       DEF FilenameOther, GiveUp, ClientTerminated, IgnorePacket
  <1>6. CASE ReceiveData
    BY <1>0, <1>6, ReceiveDataCurrent
  <1> QED BY <1>1, <1>2, <1>3, <1>4, <1>5, <1>6 DEF ServerNext, WaitData

\* The RR of a step names what is expected, and no RR before it names more.
LEMMA ServerKeepsOrder ==
    ASSUME KeepsOrder, TypeOK, AckNeverAhead, RRsInOrder, ServerNext,
           UNCHANGED window
    PROVE  RRsInOrder'
  <1> DEFINE q == toClient.inbox
             r == toClient'.inbox
             n == Len(q)
  <1>1. AddsCurrent
    BY ServerNextCurrent
  <1>2. /\ expected \in Nat /\ expected' \in Nat /\ expected <= expected'
        /\ window.lower \in Nat /\ window.lower <= expected
    BY ServerNextType, WindowsType
       DEF TypeOK, ClientTypeOK, ServerTypeOK, AcksWhatItHas, AckNeverAhead
  <1>3. q \in Seq(Messages) /\ r \in Seq(Messages)
    BY ServerNextType DEF TypeOK, NetworkTypeOK, Sockets
  <1>4. /\ n \in Nat /\ DOMAIN q = 1 .. n
        /\ Len(r) \in Nat /\ DOMAIN r = 1 .. Len(r)
        /\ \A i \in DOMAIN q : q[i].seq \in Nat
    <2>1. \A i \in DOMAIN q : q[i] \in Messages
      <3> HIDE DEF q
      <3> QED BY <1>3, ElementOfSeq, LenProperties
    <2>2. \A i \in DOMAIN q : q[i].seq \in Nat
      BY <2>1 DEF Messages
    <2> HIDE DEF q, r
    <2> QED BY <1>3, <2>2, LenProperties
  <1>5. /\ toClient.late = {}
        /\ \A i \in DOMAIN q : q[i].flag = "RR" =>
             window.lower <= q[i].seq /\ q[i].seq <= expected
        /\ \A i, j \in DOMAIN q :
             i < j /\ q[i].flag = "RR" /\ q[j].flag = "RR" => q[i].seq <= q[j].seq
    BY DEF RRsInOrder, AckNeverAhead, OnTheWay
  <1>6. /\ toClient'.late = {}
        /\ n <= Len(r)
        /\ \A i \in 1 .. n : r[i] = q[i]
        /\ \A i \in n + 1 .. Len(r) : r[i].flag = "RR" => r[i].seq = expected'
    BY <1>1, <1>5 DEF AddsCurrent, Longer, Current
  <1> HIDE DEF q, r, n
  <1>7. \A i \in DOMAIN r : i \in DOMAIN q \/ i \in n + 1 .. Len(r)
    BY <1>4
  <1>8. \A i \in DOMAIN r : r[i].flag = "RR" => window.lower <= r[i].seq
    <2> SUFFICES ASSUME NEW i \in DOMAIN r, r[i].flag = "RR"
                 PROVE  window.lower <= r[i].seq
      OBVIOUS
    <2>1. CASE i \in DOMAIN q
      BY <1>4, <1>5, <1>6, <2>1
    <2>2. CASE i \in n + 1 .. Len(r)
      BY <1>2, <1>6, <2>2
    <2> QED BY <1>7, <2>1, <2>2
  <1>9. ASSUME NEW i \in DOMAIN r, NEW j \in DOMAIN r, i < j,
               r[i].flag = "RR", r[j].flag = "RR"
        PROVE  r[i].seq <= r[j].seq
    <2>1. CASE j \in DOMAIN q
      <3>1. i \in DOMAIN q
        BY <1>4, <1>9, <2>1
      <3>2. r[i] = q[i] /\ r[j] = q[j]
        BY <1>4, <1>6, <2>1, <3>1
      <3> QED BY <1>5, <1>9, <2>1, <3>1, <3>2
    <2>2. CASE j \in n + 1 .. Len(r) /\ i \in DOMAIN q
      <3>1. r[i] = q[i] /\ q[i].seq <= expected /\ r[j].seq = expected'
        BY <1>4, <1>5, <1>6, <1>9, <2>2
      <3> QED BY <1>2, <1>4, <2>2, <3>1
    <2>3. CASE j \in n + 1 .. Len(r) /\ i \in n + 1 .. Len(r)
      BY <1>2, <1>6, <1>9, <2>3
    <2> QED BY <1>7, <2>1, <2>2, <2>3
  <1> QED BY <1>6, <1>8, <1>9 DEF RRsInOrder, r

(***************************************************************************)
(* The order is kept.                                                      *)
(***************************************************************************)

\* SETUP_RES is no RR, and no copy of it is late.
LEMMA InitInOrder ==
    ASSUME KeepsOrder
    PROVE  Init => RRsInOrder
  <1> SUFFICES ASSUME Init PROVE RRsInOrder
    OBVIOUS
  <1>1. toClient \in SetupAnswers
    BY DEF Init
  <1>2. toClient.late = {}
    <2>1. FreshSocket.late = {} /\ "twice" \notin Fates
      BY DEF FreshSocket, NewSocket, EmptySocket, KeepsOrder
    <2> QED BY <1>1, <2>1 DEF SetupAnswers, FreshSocket, NewSocket, EmptySocket
  <1>3. \A i \in DOMAIN toClient.inbox : toClient.inbox[i].flag # "RR"
    BY <1>1, SetupAnswersType DEF OnTheWay
  <1> QED BY <1>2, <1>3 DEF RRsInOrder

\* What holds before a step.
Orderly == TypeOK /\ AckNeverAhead /\ RRsInOrder

\* Every step keeps the order and none takes lower back.
LEMMA NextInOrder ==
    ASSUME KeepsOrder
    PROVE  Orderly /\ [Next]_vars =>
             Orderly' /\ (window'.lower >= window.lower \/ UNCHANGED vars)
  <1> SUFFICES ASSUME Orderly, [Next]_vars
               PROVE  Orderly' /\ (window'.lower >= window.lower \/ UNCHANGED vars)
    OBVIOUS
  <1>0. TypeOK /\ AckNeverAhead /\ RRsInOrder /\ TypeOK' /\ AckNeverAhead'
    BY NextType, NextAck DEF Orderly
  <1>1. window.lower \in Nat
    BY <1>0, WindowsType DEF TypeOK, ClientTypeOK
  <1>2. CASE RcopyNext
    BY <1>0, <1>2, ClientKeepsOrder DEF Orderly
  <1>3. CASE ServerNext /\ UNCHANGED rcopyVars
    <2>1. UNCHANGED window
      BY <1>3 DEF rcopyVars, windowVars
    <2>2. RRsInOrder'
      BY <1>0, <1>3, <2>1, ServerKeepsOrder
    <2> QED BY <1>0, <1>1, <2>1, <2>2 DEF Orderly
  <1>4. CASE LateArrival /\ UNCHANGED rcopyVars
    <2>1. UNCHANGED toClient
      BY <1>0, <1>4 DEF LateArrival, Overtaken, RRsInOrder
    <2>2. UNCHANGED window
      BY <1>4 DEF rcopyVars, windowVars
    <2> QED BY <1>0, <1>1, <2>1, <2>2 DEF Orderly, RRsInOrder
  <1>5. CASE UNCHANGED vars
    <2>1. UNCHANGED <<toClient, window>>
      BY <1>5 DEF vars, rcopyVars, windowVars, networkVars
    <2> QED BY <1>0, <1>5, <2>1 DEF Orderly, RRsInOrder
  <1> QED BY <1>2, <1>3, <1>4, <1>5 DEF Next

\* On a network that drops and flips but keeps the order, get_data of rcopy.c
\* never takes lower back, although it assigns whatever number an RR carries:
\* later RRs of server.c carry higher numbers, also those for duplicates, and
\* a lost or garbled one leaves the others sorted.
THEOREM WindowAdvances ==
    ASSUME KeepsOrder
    PROVE  Spec => WindowNeverRetreats
  <1>1. Init => Orderly
    BY InitType, InitAck, InitInOrder DEF Orderly
  <1>2. Orderly /\ [Next]_vars => Orderly'
    BY NextInOrder
  <1>3. Orderly /\ [Next]_vars => [window'.lower >= window.lower]_vars
    BY NextInOrder
  <1> QED BY <1>1, <1>2, <1>3, PTL DEF Spec, WindowNeverRetreats

(***************************************************************************)
(* BlameTakesLosses on the same network: what is sent arrives, or a fault  *)
(* is counted, and nothing is sent to a socket that nobody reads.          *)
(***************************************************************************)

\* One packet, sent: it is the last that waits, or one fault more.
SentOnce(socket, m, socketAfter) ==
    /\ SameEnds(socket, socketAfter)
    /\ Longer(socket.inbox, socketAfter.inbox, Heard({m}))
    /\ faults' >= faults
    /\ \/ faults' >= faults + 1
       \/ /\ Len(socketAfter.inbox) = Len(socket.inbox) + 1
          /\ socketAfter.inbox[Len(socketAfter.inbox)] = m

\* A packet that met no fate arrives behind what waits.
LEMMA UnhitArrives ==
    ASSUME NEW socket \in Sockets, NEW m \in Messages, NEW fate, fate[1] = "sent",
           DOMAIN fate = {1}, NEW order \in Increasing(Arriving(fate)),
           NEW socketAfter, socketAfter = Fed(socket, <<m>>, fate, order)
    PROVE  /\ Len(socketAfter.inbox) = Len(socket.inbox) + 1
           /\ socketAfter.inbox[Len(socketAfter.inbox)] = m
  <1> DEFINE q   == socket.inbox
             new == [i \in DOMAIN order |-> Arrives(<<m>>[order[i]], fate[order[i]])]
  <1>0. q \in Seq(Messages) /\ Len(q) \in Nat
    BY LenProperties DEF Sockets
  <1>1. Arriving(fate) = {1} /\ Cardinality({1}) = 1
    BY FS_Singleton DEF Arriving
  <1>2. order \in [1 .. 1 -> {1}]
    BY <1>1 DEF Increasing
  <1>3. new = <<m>>
    <2>1. DOMAIN order = 1 .. 1 /\ \A i \in 1 .. 1 : i = 1 /\ order[i] = 1
      BY <1>2
    <2>2. \A i \in 1 .. 1 : Arrives(<<m>>[order[i]], fate[order[i]]) = m
      BY <2>1 DEF Arrives
    <2>3. new = [i \in 1 .. 1 |-> m]
      BY <2>1, <2>2
    <2>4. <<m>> = [i \in 1 .. 1 |-> m]
      OBVIOUS
    <2> QED BY <2>3, <2>4
  <1>4. socketAfter.inbox = q \o <<m>>
    BY <1>3 DEF Fed, Sockets
  <1>5. <<m>> \in Seq(Messages) /\ Len(<<m>>) = 1 /\ <<m>>[1] = m
    OBVIOUS
  <1> HIDE DEF q
  <1>6. Len(q \o <<m>>) = Len(q) + 1 /\ (q \o <<m>>)[Len(q) + 1] = m
    BY <1>0, <1>5, ConcatProperties
  <1> QED BY <1>4, <1>6 DEF q

\* sendtoErr for one packet, to a socket that is open.
LEMMA TransmitOnce ==
    ASSUME KeepsOrder, NEW socket \in Sockets, socket.open, NEW m \in Messages,
           NEW socketAfter, faults \in 0 .. MaxFaults,
           Transmit(socket, <<m>>, socketAfter)
    PROVE  SentOnce(socket, m, socketAfter)
  <1>1. /\ <<m>> \in [{1} -> Messages] /\ <<m>>[1] = m
        /\ DOMAIN <<m>> = {1} /\ {<<m>>[k] : k \in {1}} = {m}
        /\ IsFiniteSet({1}) /\ Cardinality({1}) = 1
    <2>1. 1 .. 1 = {1}
      OBVIOUS
    <2>2. IsFiniteSet({1}) /\ Cardinality({1}) = 1
      BY FS_Singleton
    <2>3. DOMAIN <<m>> = {1} /\ <<m>>[1] = m
      BY <2>1
    <2>4. <<m>> \in [{1} -> Messages]
      BY <2>1
    <2>5. {<<m>>[k] : k \in {1}} = {m}
      BY <2>3
    <2> QED BY <2>2, <2>3, <2>4, <2>5
  <1>2. /\ SameEnds(socket, socketAfter)
        /\ Longer(socket.inbox, socketAfter.inbox, Heard({<<m>>[k] : k \in {1}}))
        /\ faults' >= faults
    <2> DEFINE ms == <<m>>
    <2>1. ms \in [{1} -> Messages] /\ Transmit(socket, ms, socketAfter)
      BY <1>1
    <2> HIDE DEF ms
    <2>2. /\ SameEnds(socket, socketAfter)
          /\ Longer(socket.inbox, socketAfter.inbox, Heard({ms[k] : k \in {1}}))
          /\ faults' >= faults
      BY <1>1, <2>1, TransmitInOrder
    <2> QED BY <2>2 DEF ms
  <1>3. PICK fate \in [{1} -> Fates \cup {"sent"}] :
          /\ faults' = faults + Cardinality(Hit(fate))
          /\ \E order \in Increasing(Arriving(fate)) :
               socketAfter = Fed(socket, <<m>>, fate, order)
    BY <1>1 DEF Transmit
  <1>4. CASE fate[1] = "sent"
    <2>1. DOMAIN fate = {1}
      BY <1>3
    <2>2. PICK order \in Increasing(Arriving(fate)) :
            socketAfter = Fed(socket, <<m>>, fate, order)
      BY <1>3
    <2>3. /\ Len(socketAfter.inbox) = Len(socket.inbox) + 1
          /\ socketAfter.inbox[Len(socketAfter.inbox)] = m
      BY <1>4, <2>1, <2>2, UnhitArrives
    <2> QED BY <1>1, <1>2, <2>3 DEF SentOnce
  <1>5. CASE fate[1] # "sent"
    <2>1. Hit(fate) = {1}
      BY <1>5 DEF Hit
    <2>2. faults' >= faults + 1
      BY <1>1, <1>3, <2>1
    <2> QED BY <1>1, <1>2, <2>2 DEF SentOnce
  <1> QED BY <1>4, <1>5

\* What a socket holds, as a sequence.
LEMMA InboxType ==
    ASSUME NEW socket \in Sockets
    PROVE  /\ socket.inbox \in Seq(Messages)
           /\ Len(socket.inbox) \in Nat
           /\ DOMAIN socket.inbox = 1 .. Len(socket.inbox)
           /\ \A i \in DOMAIN socket.inbox : socket.inbox[i] \in Messages
           /\ Readable(socket) <=> Len(socket.inbox) > 0
  <1>1. socket.inbox \in Seq(Messages)
    BY DEF Sockets
  <1>2. \A q \in Seq(Messages) :
          /\ Len(q) \in Nat /\ DOMAIN q = 1 .. Len(q)
          /\ \A i \in DOMAIN q : q[i] \in Messages
          /\ q # <<>> <=> Len(q) > 0
    BY LenProperties, ElementOfSeq, EmptySeq
  <1> QED BY <1>1, <1>2 DEF Readable

\* recvfrom leaves the socket what it is, but for its remote.
LEMMA ReceivedEnds ==
    ASSUME NEW socket \in Sockets, Readable(socket)
    PROVE  /\ Received(socket).late = socket.late
           /\ Received(socket).open = socket.open
           /\ Received(socket).name = socket.name
           /\ Received(socket).remote = Head(socket.inbox).from
  BY DEF Received, Sockets

(***************************************************************************)
(* A step of the server, while the client runs.                            *)
(***************************************************************************)

\* The server adds to the client's socket, with its name on every packet.
Replied ==
    /\ SameEnds(toClient, toClient')
    /\ Longer(toClient.inbox, toClient'.inbox, {n \in Messages : n.from = 0})
    /\ faults' >= faults

\* One answer, or a fault.
AnsweredOnce ==
    faults' >= faults + 1 \/ Len(toClient'.inbox) > Len(toClient.inbox)

\* The server takes a packet and answers what it must.
ServerAnswers ==
    /\ Readable(toServer)
    /\ toServer' = Received(toServer)
    /\ Replied
    /\ sstate' \in {"FILENAME", "WAIT_DATA"}
    /\ sstate = "WAIT_DATA" => sstate' = "WAIT_DATA"
    /\ sstate' = "FILENAME" => UNCHANGED toClient
    /\ Answerable(Head(toServer.inbox)) => AnsweredOnce

\* What those steps begin with.
Talking ==
    /\ TypeOK /\ Linked /\ Running
    /\ Readable(toServer)
    /\ toServer' = Received(toServer)

\* The packet that a server process takes is for the state that it is in.
LEMMA FrontOfServer ==
    ASSUME TypeOK, Linked, Running, Readable(toServer)
    PROVE  /\ Head(toServer.inbox) \in Messages
           /\ Head(toServer.inbox).flag # "TERMINATE"
           /\ sstate = "FILENAME" =>
                Head(toServer.inbox).flag \in {"FNAME", "CRC_ERROR"}
           /\ toServer.name = 0 /\ toClient.open
           /\ Received(toServer).name = 0 /\ Received(toServer) \in Sockets
  <1>1. toServer \in Sockets
    BY DEF TypeOK, NetworkTypeOK
  <1>2. Head(toServer.inbox) = toServer.inbox[1] /\ 1 \in DOMAIN toServer.inbox
    BY <1>1, ReceivedInOrder
  <1>3. Received(toServer).name = toServer.name
    BY <1>1, ReceivedEnds
  <1> QED BY <1>1, <1>2, <1>3, ReceivedType DEF Linked

\* Packets with the server's name.
LEMMA RepliesMany ==
    ASSUME KeepsOrder, Talking, NEW S, IsFiniteSet(S),
           NEW ms \in [S -> {n \in Messages : n.from = 0}],
           Transmit(toClient, ms, toClient')
    PROVE  Replied
  <1> DEFINE sent == {ms[k] : k \in S}
  <1>1. toClient \in Sockets /\ faults \in 0 .. MaxFaults /\ ms \in [S -> Messages]
    BY DEF Talking, TypeOK, NetworkTypeOK
  <1>2. /\ SameEnds(toClient, toClient') /\ faults' >= faults
        /\ Longer(toClient.inbox, toClient'.inbox, Heard(sent))
    BY <1>1, TransmitInOrder
  <1>3. sent \subseteq Messages /\ \A m \in sent : m.from = 0
    OBVIOUS
  <1>4. Heard(sent) \subseteq {n \in Messages : n.from = 0}
    <2> HIDE DEF sent
    <2> QED BY <1>3 DEF Heard, Noise
  <1> HIDE DEF sent
  <1> QED BY <1>2, <1>4 DEF Replied, Longer

\* One packet.
LEMMA RepliesOnce ==
    ASSUME KeepsOrder, Talking, NEW p \in Messages, SendToClient(p)
    PROVE  Replied /\ AnsweredOnce
  <1> DEFINE m == FromServer(p)
  <1>1. /\ toClient \in Sockets /\ faults \in 0 .. MaxFaults /\ toClient.open
        /\ toServer'.name = 0 /\ toServer' \in Sockets
    BY FrontOfServer DEF Talking, TypeOK, NetworkTypeOK
  <1>2. m \in Messages /\ m.from = 0
    <2>1. m \in Messages
      BY <1>1, FromServerType
    <2>2. m.from = 0
      BY <1>1 DEF FromServer, Messages
    <2> QED BY <2>1, <2>2
  <1>3. Transmit(toClient, <<m>>, toClient')
    BY DEF SendToClient
  <1> HIDE DEF m
  <1>4. SentOnce(toClient, m, toClient')
    BY <1>1, <1>2, <1>3, TransmitOnce
  <1>5. Heard({m}) \subseteq {n \in Messages : n.from = 0}
    BY <1>2 DEF Heard, Noise
  <1>6. Len(toClient.inbox) \in Nat
    BY <1>1, InboxType
  <1>7. Replied
    BY <1>4, <1>5 DEF SentOnce, Replied, Longer
  <1>8. Len(toClient.inbox) + 1 > Len(toClient.inbox)
    BY <1>6
  <1>9. AnsweredOnce
    BY <1>4, <1>8 DEF SentOnce, AnsweredOnce
  <1> QED BY <1>7, <1>9

\* Nothing sent.
LEMMA RepliesNothing ==
    ASSUME TypeOK, UNCHANGED <<toClient, faults>>
    PROVE  Replied
  <1>1. Len(toClient.inbox) \in Nat /\ faults \in Nat
    BY InboxType DEF TypeOK, NetworkTypeOK
  <1> QED BY <1>1 DEF Replied, SameEnds, Longer

\* get_data() of the server answers all but what comes too early.
LEMMA ReceiveDataReplies ==
    ASSUME KeepsOrder, Talking, ReceiveData, ServerTypeOK'
    PROVE  Replied /\ (Answerable(Head(toServer.inbox)) => AnsweredOnce)
  <1>0. TypeOK /\ ServerTypeOK /\ NetworkTypeOK /\ toServer' \in Sockets
        /\ toServer'.name = 0
    BY FrontOfServer DEF Talking, TypeOK
  <1>1. PICK m \in OnTheWay(toServer) :
          /\ m = Head(toServer.inbox) /\ m.flag = "DATA"
          /\ InOrder(m) \/ FillsGap(m) \/ Duplicate(m) \/ OutOfOrder(m)
    BY DEF ReceiveData, DataArrives, ServerRecv
  <1>2. CASE InOrder(m) \/ FillsGap(m) \/ Duplicate(m)
    <2>1. PICK e \in Nat : AcknowledgeUpTo(e)
      <3>1. AcknowledgeUpTo(expected') /\ expected' \in Nat
        BY <1>2 DEF InOrder, FillsGap, Duplicate, recvVars, ServerTypeOK
      <3> QED BY <3>1
    <2>2. Packet("RR", e, <<>>) \in Messages
      BY EmptySeq, PacketType DEF Flags, Bytes
    <2> QED BY <2>1, <2>2, RepliesOnce DEF AcknowledgeUpTo
  <1>3. CASE OutOfOrder(m)
    <2>1. ~Answerable(Head(toServer.inbox))
      <3>1. m.seq \in Nat /\ expected \in Nat /\ m.seq > expected
        BY <1>0, <1>3, OnTheWayType
           DEF OutOfOrder, NetworkTypeOK, ServerTypeOK, Messages
      <3> QED BY <1>1, <3>1 DEF Answerable
    <2>2. CASE UNCHANGED <<toClient, faults>>
      BY <1>0, <2>1, <2>2, RepliesNothing
    <2>3. CASE IsNull(squeue, SlotOf(m.seq))
      <3> DEFINE queue   == add_element(squeue, SlotOf(m.seq), m.data)
                 missing == Missing(queue, m.seq)
                 ms      == [k \in missing |-> FromServer(Packet("SREJ", k, <<>>))]
      <3>1. Transmit(toClient, ms, toClient')
        BY <1>3, <2>3 DEF OutOfOrder
      <3>2. expected \in Nat \ {0} /\ m.seq \in Nat
        BY <1>0, OnTheWayType DEF ServerTypeOK, NetworkTypeOK, Messages
      <3>3. missing \subseteq expected .. m.seq - 1 /\ IsFiniteSet(missing)
        BY <3>2, MissingType
      <3> HIDE DEF missing
      <3>4. ASSUME NEW k \in missing PROVE ms[k] \in {n \in Messages : n.from = 0}
        <4> DEFINE p == Packet("SREJ", k, <<>>)
        <4>1. k \in Nat
          BY <3>2, <3>3
        <4>2. p \in Messages
          BY <4>1, EmptySeq, PacketType DEF Flags, Bytes
        <4> HIDE DEF p
        <4>3. FromServer(p) \in Messages
          BY <1>0, <4>2, FromServerType
        <4>4. FromServer(p).from = 0
          BY <1>0, <4>2 DEF FromServer, Messages
        <4> QED BY <4>3, <4>4 DEF p
      <3>5. ms \in [missing -> {n \in Messages : n.from = 0}]
        BY <3>4
      <3> HIDE DEF ms
      <3>6. Replied
        BY <3>1, <3>3, <3>5, RepliesMany
      <3> QED BY <2>1, <3>6
    <2> QED BY <1>3, <2>2, <2>3 DEF OutOfOrder
  <1> QED BY <1>1, <1>2, <1>3

\* Every step of the server, while its client runs.
LEMMA ServerNextAnswers ==
    ASSUME KeepsOrder, TypeOK, Linked, Running, ServerNext, StillAnswers'
    PROVE  ServerAnswers
  <1>0. /\ toServer \in Sockets /\ toClient.open
        /\ sstate \in {"FILENAME", "WAIT_DATA"}
        /\ ServerTypeOK'
    BY ServerNextType DEF TypeOK, NetworkTypeOK, Linked
  <1>1. ASSUME NEW m, ServerRecv(m)
        PROVE  /\ Talking /\ m = Head(toServer.inbox)
               /\ m.flag # "TERMINATE"
               /\ sstate = "FILENAME" => m.flag \in {"FNAME", "CRC_ERROR"}
    <2>1. Readable(toServer) /\ m = Head(toServer.inbox) /\ toServer' = Received(toServer)
      BY <1>1 DEF ServerRecv
    <2> QED BY <2>1, FrontOfServer DEF Talking
  <1>2. CASE FilenameOpens
    <2>1. PICK m \in OnTheWay(toServer) : ServerRecv(m) /\ m.flag = "FNAME"
      BY <1>2 DEF FilenameOpens
    <2>2. PICK ok \in Opens : SendToClient(Signal(OpenAnswer(ok)))
      BY <1>2 DEF FilenameOpens
    <2>3. Signal(OpenAnswer(ok)) \in Messages
      BY PacketType DEF OpenAnswer, Flags
    <2>4. Talking /\ Replied /\ AnsweredOnce
      BY <1>1, <2>1, <2>2, <2>3, RepliesOnce
    <2>5. sstate' = "WAIT_DATA"
      BY <1>2 DEF FilenameOpens
    <2> QED BY <2>4, <2>5 DEF ServerAnswers, Talking
  <1>3. CASE FilenameOther
    <2>1. PICK m \in OnTheWay(toServer) :
            /\ ServerRecv(m) /\ m.flag # "FNAME"
            /\ sstate' = IF m.flag = "CRC_ERROR" THEN "FILENAME" ELSE "CONNECTION"
      BY <1>3 DEF FilenameOther
    <2>2. /\ Talking /\ m = Head(toServer.inbox) /\ m.flag = "CRC_ERROR"
          /\ sstate = "FILENAME" /\ sstate' = "FILENAME"
      BY <1>1, <1>3, <2>1 DEF FilenameOther
    <2>3. UNCHANGED <<toClient, faults>>
      BY <1>3 DEF FilenameOther
    <2>4. ~Answerable(Head(toServer.inbox))
      BY <2>2 DEF Answerable
    <2>5. Replied
      BY <2>3, RepliesNothing
    <2> QED BY <2>2, <2>3, <2>4, <2>5 DEF ServerAnswers, Talking
  <1>4. ~Reconnect /\ ~GiveUp
    BY <1>0 DEF Reconnect, GiveUp, LongTimeout, StillAnswers
  <1>5. ~ClientTerminated
    BY FrontOfServer DEF ClientTerminated
  <1>6. CASE FnameAgain \/ CloseFile
    <2>1. PICK flag \in {"FNAME_RES", "EoF"} : SendToClient(Signal(flag))
      BY <1>6 DEF FnameAgain, CloseFile
    <2>2. Signal(flag) \in Messages
      BY PacketType DEF Flags
    <2>3. Talking
      BY <1>1, <1>6 DEF FnameAgain, CloseFile
    <2>4. Replied /\ AnsweredOnce
      BY <2>1, <2>2, <2>3, RepliesOnce
    <2>5. sstate = "WAIT_DATA" /\ sstate' = "WAIT_DATA"
      BY <1>6 DEF FnameAgain, CloseFile, serverVars
    <2> QED BY <2>3, <2>4, <2>5 DEF ServerAnswers, Talking
  <1>7. CASE IgnorePacket
    <2>1. PICK m \in OnTheWay(toServer) :
            ServerRecv(m) /\ m.flag \notin {"FNAME", "DATA", "EoF", "TERMINATE"}
      BY <1>7 DEF IgnorePacket
    <2>2. Talking /\ ~Answerable(Head(toServer.inbox))
      BY <1>1, <2>1 DEF Answerable
    <2>3. /\ UNCHANGED <<toClient, faults>>
          /\ sstate = "WAIT_DATA" /\ sstate' = "WAIT_DATA"
      BY <1>7 DEF IgnorePacket, serverVars
    <2>4. Replied
      BY <2>3, RepliesNothing
    <2> QED BY <2>2, <2>3, <2>4 DEF ServerAnswers, Talking
  <1>8. CASE ReceiveData
    <2>1. PICK m \in OnTheWay(toServer) : DataArrives(m)
      BY <1>8 DEF ReceiveData
    <2>2. Talking /\ sstate = "WAIT_DATA" /\ sstate' = "WAIT_DATA"
      BY <1>1, <2>1 DEF DataArrives
    <2>3. Replied /\ (Answerable(Head(toServer.inbox)) => AnsweredOnce)
      BY <1>0, <1>8, <2>2, ReceiveDataReplies
    <2> QED BY <2>2, <2>3 DEF ServerAnswers, Talking
  <1> QED BY <1>2, <1>3, <1>4, <1>5, <1>6, <1>7, <1>8 DEF ServerNext, WaitData

\* The front is taken; the others move up, and the server expects no less.
LEMMA AnswerableStays ==
    ASSUME TypeOK, Readable(toServer), toServer' = Received(toServer),
           expected' \in Nat, expected <= expected',
           ~Answerable(Head(toServer.inbox)),
           NEW i \in DOMAIN toServer.inbox, Answerable(toServer.inbox[i])
    PROVE  (\E j \in DOMAIN toServer.inbox : Answerable(toServer.inbox[j]))'
  <1> DEFINE q == toServer.inbox
             r == toServer'.inbox
  <1>1. toServer \in Sockets /\ expected \in Nat
    BY DEF TypeOK, NetworkTypeOK, ServerTypeOK
  <1>2. /\ Len(q) \in Nat /\ Head(q) = q[1]
        /\ DOMAIN q = 1 .. Len(q) /\ DOMAIN r = 1 .. Len(q) - 1
        /\ \A j \in 1 .. Len(q) - 1 : r[j] = q[j + 1]
    BY <1>1, ReceivedInOrder
  <1>3. q[i] \in Messages
    BY <1>1, InboxType
  <1>4. q[i].seq \in Nat
    BY <1>3 DEF Messages
  <1> HIDE DEF q, r
  <1>5. i # 1
    BY <1>2 DEF q
  <1>6. i - 1 \in DOMAIN r /\ r[i - 1] = q[i]
    BY <1>2, <1>5 DEF q
  <1>7. q[i].flag \in {"FNAME", "EoF"} \/ (q[i].flag = "DATA" /\ q[i].seq <= expected)
    BY DEF Answerable, q
  <1>8. q[i].flag \in {"FNAME", "EoF"} \/ (q[i].flag = "DATA" /\ q[i].seq <= expected')
    BY <1>1, <1>4, <1>7
  <1>9. PICK j \in DOMAIN toServer'.inbox : toServer'.inbox[j] = q[i]
    BY <1>6 DEF r
  <1>10. (Answerable(toServer.inbox[j]))'
    BY <1>8, <1>9 DEF Answerable
  <1> QED BY <1>9, <1>10

\* A due answer that is no longer due was a fault.
LEMMA PaidCount ==
    ASSUME NEW tries \in Nat, NEW before \in Nat, NEW after \in Nat,
           NEW due \in {0, 1}, NEW dueAfter \in {0, 1},
           tries <= before + due, before <= after,
           due = 1 => dueAfter = 1 \/ after >= before + 1
    PROVE  tries <= after + dueAfter
  OBVIOUS

\* What is due stays due until it is sent; then it waits, or it was a fault.
LEMMA ServerPays ==
    ASSUME TypeOK, NetworkTypeOK', ServerAnswers, expected' \in Nat,
           expected <= expected',
           NEW tries \in Nat, tries <= faults + Due
    PROVE  tries <= faults' + Due'
  <1>0. /\ faults \in Nat /\ faults' \in Nat /\ faults <= faults'
        /\ toClient \in Sockets /\ toClient' \in Sockets
    BY DEF TypeOK, NetworkTypeOK, ServerAnswers, Replied
  <1>1. Readable(toClient) => Readable(toClient')
    <2>1. /\ Len(toClient.inbox) \in Nat /\ Len(toClient'.inbox) \in Nat
          /\ Readable(toClient) <=> Len(toClient.inbox) > 0
          /\ Readable(toClient') <=> Len(toClient'.inbox) > 0
      BY <1>0, InboxType
    <2>2. Len(toClient.inbox) <= Len(toClient'.inbox)
      BY DEF ServerAnswers, Replied, Longer
    <2> QED BY <2>1, <2>2
  <1>2. AnswerDue => AnswerDue' \/ faults' >= faults + 1
    <2>1. CASE Readable(toClient)
      BY <1>1, <2>1 DEF AnswerDue, Readable
    <2>2. CASE Answerable(Head(toServer.inbox))
      <3>1. AnsweredOnce
        BY <2>2 DEF ServerAnswers
      <3>2. Len(toClient'.inbox) > Len(toClient.inbox) => Readable(toClient')
        <4>1. /\ Len(toClient.inbox) \in Nat /\ Len(toClient'.inbox) \in Nat
              /\ Readable(toClient') <=> Len(toClient'.inbox) > 0
          BY <1>0, InboxType
        <4> QED BY <4>1
      <3> QED BY <3>1, <3>2 DEF AnsweredOnce, AnswerDue, Readable
    <2>3. ASSUME NEW i \in DOMAIN toServer.inbox, Answerable(toServer.inbox[i]),
                 ~Answerable(Head(toServer.inbox))
          PROVE  AnswerDue'
      BY <2>3, AnswerableStays DEF ServerAnswers, AnswerDue
    <2> QED BY <2>1, <2>2, <2>3 DEF AnswerDue
  <1>3. Due \in {0, 1} /\ Due' \in {0, 1}
        /\ (AnswerDue <=> Due = 1) /\ (AnswerDue' <=> Due' = 1)
    BY DEF Due
  <1>4. Due = 1 => Due' = 1 \/ faults' >= faults + 1
    BY <1>2, <1>3
  <1> HIDE DEF Due
  <1> QED BY <1>0, <1>3, <1>4, PaidCount

\* The links stand while the client waits for the server's step.
LEMMA ServerKeepsLinks ==
    ASSUME TypeOK, NetworkTypeOK', Linked, Running, ServerAnswers, UNCHANGED cstate
    PROVE  Linked'
  <1>0. toServer \in Sockets /\ toClient \in Sockets /\ toClient' \in Sockets
    BY DEF TypeOK, NetworkTypeOK
  <1>1. /\ toClient'.open /\ toClient'.remote = 0 /\ toClient'.late = {}
        /\ toServer'.open /\ toServer'.name = 0 /\ toServer'.late = {}
        /\ sstate' \in {"FILENAME", "WAIT_DATA"}
    BY <1>0, ReceivedEnds DEF ServerAnswers, Replied, SameEnds, Linked
  <1>2. \A i \in DOMAIN toClient'.inbox : toClient'.inbox[i].from = 0
    <2> DEFINE q == toClient.inbox
               r == toClient'.inbox
    <2>1. \A i \in DOMAIN q : q[i].from = 0
      BY DEF Linked
    <2>2. Longer(q, r, {n \in Messages : n.from = 0})
      BY DEF ServerAnswers, Replied
    <2>3. /\ Len(q) \in Nat /\ Len(r) \in Nat
          /\ DOMAIN q = 1 .. Len(q) /\ DOMAIN r = 1 .. Len(r)
      BY <1>0, InboxType
    <2> HIDE DEF q, r
    <2>4. \A i \in DOMAIN r : i \in 1 .. Len(q) \/ i \in Len(q) + 1 .. Len(r)
      BY <2>3
    <2>5. \A i \in DOMAIN r : r[i].from = 0
      BY <2>1, <2>2, <2>3, <2>4 DEF Longer
    <2> QED BY <2>5 DEF r
  <1>3. \A i \in DOMAIN toServer'.inbox :
          /\ toServer'.inbox[i].flag # "TERMINATE"
          /\ sstate' = "FILENAME" =>
               toServer'.inbox[i].flag \in {"FNAME", "CRC_ERROR"}
    <2> DEFINE q == toServer.inbox
               r == toServer'.inbox
    <2>1. /\ Len(q) \in Nat /\ DOMAIN q = 1 .. Len(q) /\ DOMAIN r = 1 .. Len(q) - 1
          /\ \A i \in 1 .. Len(q) - 1 : r[i] = q[i + 1]
      BY <1>0, ReceivedInOrder DEF ServerAnswers
    <2>2. sstate' = "FILENAME" => sstate = "FILENAME"
      BY DEF ServerAnswers, Linked
    <2>3. \A i \in DOMAIN q :
            /\ q[i].flag # "TERMINATE"
            /\ sstate = "FILENAME" => q[i].flag \in {"FNAME", "CRC_ERROR"}
      BY DEF Linked
    <2> HIDE DEF q, r
    <2>4. \A i \in DOMAIN r : i + 1 \in DOMAIN q /\ r[i] = q[i + 1]
      BY <2>1
    <2> QED BY <2>2, <2>3, <2>4 DEF r
  <1> QED BY <1>1, <1>2, <1>3 DEF Linked

\* Before FNAME there is nothing for the server to take; after it, the server
\* answers from wait_data().
LEMMA ServerKeepsIntroduced ==
    ASSUME TypeOK, Linked, Introduced, Running, ServerAnswers,
           UNCHANGED <<cstate, fnameRetry>>
    PROVE  Introduced'
  <1>1. ~(cstate = "FILENAME" /\ fnameRetry = 0)
    BY DEF Introduced, ServerAnswers, Readable
  <1>2. sstate' # "WAIT_DATA" => sstate # "WAIT_DATA" /\ UNCHANGED toClient
    BY DEF ServerAnswers
  <1>3. Running' <=> Running
    BY DEF Running
  <1> QED BY <1>1, <1>2, <1>3 DEF Introduced, Readable

\* The server's steps leave the account of the client's tries right.
LEMMA ServerAccounts ==
    ASSUME KeepsOrder, StillAnswers, StillAnswers', TypeOK, TriesAccounted, ServerNext,
           UNCHANGED rcopyVars
    PROVE  TriesAccounted'
  <1>0. /\ Linked /\ Introduced /\ TriesPaid
        /\ UNCHANGED <<cstate, fnameRetry, retryCount, window>>
    BY DEF TriesAccounted, rcopyVars, windowVars
  <1>1. CASE ~Running
    <2>1. ~Running' /\ cstate' \in {"START", "DONE", "CRASHED"}
      BY <1>0, <1>1 DEF Running
    <2>2. (retryCount > 0 => Closed \/ window.end # 0)'
      BY <1>0 DEF TriesPaid, Closed
    <2> QED BY <2>1, <2>2 DEF TriesAccounted, Linked, Introduced, TriesPaid
  <1>2. CASE Running
    <2>1. /\ NetworkTypeOK' /\ expected' \in Nat /\ expected <= expected'
          /\ fnameRetry \in Nat /\ retryCount \in Nat
          /\ faults \in Nat /\ faults' \in Nat
      BY ServerNextType
         DEF ServerTypeOK, AcksWhatItHas, TypeOK, ClientTypeOK, NetworkTypeOK
    <2>2. ServerAnswers
      BY <1>0, <1>2, ServerNextAnswers
    <2>3. Linked' /\ Introduced'
      BY <1>0, <1>2, <2>1, <2>2, ServerKeepsLinks, ServerKeepsIntroduced
    <2>4. cstate' = "FILENAME" => fnameRetry' <= faults'
      <3>1. faults <= faults'
        BY <2>1, <2>2 DEF ServerAnswers, Replied
      <3>2. cstate = "FILENAME" => fnameRetry <= faults
        BY <1>0 DEF TriesPaid
      <3> QED BY <1>0, <2>1, <3>1, <3>2
    <2>5. cstate' = "FILENAME_WAIT" => fnameRetry' <= faults' + Due'
      <3>1. cstate = "FILENAME_WAIT" => fnameRetry <= faults + Due
        BY <1>0 DEF TriesPaid
      <3>2. fnameRetry <= faults + Due => fnameRetry <= faults' + Due'
        BY <2>1, <2>2, ServerPays
      <3> QED BY <1>0, <3>1, <3>2
    <2>6. cstate' = "WINDOW" => retryCount' <= faults' + Due'
      <3>1. cstate = "WINDOW" => retryCount <= faults + Due
        BY <1>0 DEF TriesPaid
      <3>2. retryCount <= faults + Due => retryCount <= faults' + Due'
        BY <2>1, <2>2, ServerPays
      <3> QED BY <1>0, <3>1, <3>2
    <2>7. (Running /\ cstate # "WINDOW" => retryCount = 0)'
          /\ (retryCount > 0 => Closed \/ window.end # 0)'
      BY <1>0 DEF TriesPaid, Running, Closed
    <2> QED BY <2>3, <2>4, <2>5, <2>6, <2>7 DEF TriesAccounted, TriesPaid
  <1> QED BY <1>1, <1>2

(***************************************************************************)
(* A step of the client, while it runs.                                    *)
(***************************************************************************)

\* The client goes on: it may take a packet, and may send one that the server
\* knows in its state.
ClientMoves ==
    /\ UNCHANGED toClient \/ (Readable(toClient) /\ toClient' = Received(toClient))
    /\ \/ UNCHANGED <<toServer, faults>>
       \/ \E m \in Messages :
            /\ SentOnce(toServer, m, toServer')
            /\ m.flag = "FNAME" \/ (m.flag \in {"DATA", "EoF"} /\ cstate \notin Introducing)
    /\ cstate' \in Introducing => fnameRetry' > 0
    /\ cstate = "FILENAME" /\ fnameRetry = 0 => toClient' = Received(toClient)
    /\ cstate \in Introducing /\ cstate' \notin Introducing =>
         cstate = "FILENAME_WAIT" /\ Readable(toClient)

FewestLosses == IF MAX_TRIES < WINDOW_TRIES THEN MAX_TRIES ELSE WINDOW_TRIES

\* What every step of a running client keeps.
ClientAccounts ==
    /\ Running' => ClientMoves
    /\ TriesPaid'
    /\ outcome' = "no response" => outcome = "no response" \/ faults' >= FewestLosses

\* What a step of a running client begins with.
Waiting ==
    /\ KeepsOrder /\ Timely
    /\ TypeOK /\ AckNeverAhead /\ Linked /\ Introduced /\ TriesPaid /\ Running
    /\ UNCHANGED serverVars

\* What the client's steps change is of the type they need.
LEMMA WaitingType ==
    ASSUME Waiting
    PROVE  /\ toServer \in Sockets /\ toClient \in Sockets /\ toServer.open
           /\ faults \in 0 .. MaxFaults /\ faults \in Nat
           /\ fnameRetry \in Nat /\ retryCount \in Nat
           /\ expected \in Nat /\ expected' = expected /\ sstate' = sstate
           /\ window \in Windows /\ window.lower \in Nat /\ window.lower <= expected
           /\ toClient.remote = 0
           /\ Readable(toClient) => Received(toClient).remote = 0
  <1>1. /\ toServer \in Sockets /\ toClient \in Sockets
        /\ faults \in 0 .. MaxFaults /\ faults \in Nat
        /\ fnameRetry \in Nat /\ retryCount \in Nat
        /\ expected \in Nat
        /\ window \in Windows /\ window.lower \in Nat
    <2>1. ClientTypeOK /\ ServerTypeOK /\ NetworkTypeOK
      BY DEF Waiting, TypeOK
    <2>2. toServer \in Sockets /\ toClient \in Sockets /\ faults \in 0 .. MaxFaults
      BY <2>1 DEF NetworkTypeOK
    <2>3. fnameRetry \in 0 .. MAX_TRIES + 1 /\ retryCount \in Nat /\ window \in Windows
      BY <2>1 DEF ClientTypeOK
    <2>4. expected \in Nat
      BY <2>1 DEF ServerTypeOK
    <2>5. faults \in Nat /\ fnameRetry \in Nat
      BY <2>2, <2>3
    <2> QED BY <2>2, <2>3, <2>4, <2>5, WindowsType
  <1>2. expected' = expected /\ sstate' = sstate
    BY DEF Waiting, serverVars, recvVars
  <1>3. window.lower <= expected /\ toClient.remote = 0 /\ toServer.open
    BY DEF Waiting, AckNeverAhead, Linked
  <1>4. Readable(toClient) => Received(toClient).remote = 0
    <2>1. \A i \in DOMAIN toClient.inbox : toClient.inbox[i].from = 0
      BY DEF Waiting, Linked
    <2> QED BY <1>1, <2>1, ReceivedEnds, ReceivedInOrder
  <1> QED BY <1>1, <1>2, <1>3, <1>4

\* What the client sends reaches its server, or is a fault.
LEMMA ClientSends ==
    ASSUME Waiting, NEW me, me.remote = 0, NEW m \in Messages, SendToServer(me, m)
    PROVE  SentOnce(toServer, m, toServer')
  <1>1. toServer.name = 0
    BY DEF Waiting, Linked
  <1>2. Transmit(toServer, <<m>>, toServer')
    BY <1>1 DEF SendToServer
  <1> QED BY <1>2, WaitingType, TransmitOnce DEF Waiting

\* A chunk sent again.
LEMMA ClientResends ==
    ASSUME Waiting, NEW me, me.remote = 0, NEW seq \in Nat, Resend(me, seq)
    PROVE  \E m \in Messages :
             m.flag = "DATA" /\ m.seq = seq /\ SentOnce(toServer, m, toServer')
  <1> DEFINE m == Packet("DATA", seq, UpToNul(cqueue[SlotOf(seq)]))
  <1>1. UpToNul(cqueue[SlotOf(seq)]) \in Bytes
    <2>1. SlotOf(seq) \in Slots
      BY SlotOfType
    <2> QED BY <2>1, UpToNulType DEF Waiting, TypeOK, ClientTypeOK
  <1>2. m \in Messages /\ m.flag = "DATA" /\ m.seq = seq
    BY <1>1, PacketType DEF Flags, Packet
  <1>3. SendToServer(me, m)
    BY DEF Resend
  <1> HIDE DEF m
  <1> QED BY <1>2, <1>3, ClientSends

\* A signal.
LEMMA ClientSignalsOnce ==
    ASSUME Waiting, NEW me, me.remote = 0, NEW flag \in {"FNAME", "EoF"},
           SendToServer(me, Signal(flag))
    PROVE  \E m \in Messages : m.flag = flag /\ SentOnce(toServer, m, toServer')
  <1> DEFINE m == Signal(flag)
  <1>1. m \in Messages /\ m.flag = flag
    BY PacketType DEF Flags, Signal, Packet
  <1> HIDE DEF m
  <1>2. SendToServer(me, m)
    BY DEF m
  <1> QED BY <1>1, <1>2, ClientSends

\* A select that times out: nothing is due, so every try so far was a loss.
LEMMA NothingDue ==
    ASSUME Waiting, TimesOut
    PROVE  Due = 0
  <1>1. ~Readable(toClient) /\ toServer.inbox = <<>>
    BY DEF TimesOut, Waiting, Readable
  <1>2. DOMAIN toServer.inbox = {}
    BY <1>1
  <1> QED BY <1>1, <1>2 DEF Due, AnswerDue

\* The count of it.
LEMMA OneMore ==
    ASSUME NEW tries \in Nat, NEW before \in Nat, NEW after \in Nat, NEW due \in {0, 1},
           tries <= before,
           after >= before + 1 \/ (before <= after /\ due = 1)
    PROVE  tries + 1 <= after + due
  OBVIOUS

\* One try more, and one answer due or one fault more.
LEMMA ClientPays ==
    ASSUME Waiting, NetworkTypeOK',
           NEW tries \in Nat, tries <= faults,
           NEW m \in Messages, SentOnce(toServer, m, toServer'),
           m.flag \in {"FNAME", "EoF"} \/ (m.flag = "DATA" /\ m.seq <= expected)
    PROVE  tries + 1 <= faults' + Due'
  <1>1. faults \in Nat /\ faults' \in Nat /\ Due' \in {0, 1} /\ expected' = expected
    BY WaitingType DEF NetworkTypeOK, Due
  <1>2. CASE faults' >= faults + 1
    BY <1>1, <1>2, OneMore
  <1>3. CASE /\ Len(toServer'.inbox) = Len(toServer.inbox) + 1
             /\ toServer'.inbox[Len(toServer'.inbox)] = m
    <2>1. /\ Len(toServer.inbox) \in Nat
          /\ DOMAIN toServer'.inbox = 1 .. Len(toServer'.inbox)
      BY WaitingType, InboxType DEF NetworkTypeOK
    <2>2. Len(toServer'.inbox) \in DOMAIN toServer'.inbox
      BY <1>3, <2>1
    <2>3. PICK i \in DOMAIN toServer'.inbox : toServer'.inbox[i] = m
      BY <1>3, <2>2
    <2>4. Answerable(toServer.inbox[i])'
      BY <1>1, <2>3 DEF Answerable
    <2>5. AnswerDue'
      BY <2>3, <2>4 DEF AnswerDue
    <2>6. Due' = 1 /\ faults <= faults'
      BY <1>1, <2>5 DEF Due, SentOnce
    <2> QED BY <1>1, <2>6, OneMore
  <1> QED BY <1>2, <1>3 DEF SentOnce

\* filename() of the client.
LEMMA FilenameAccounts ==
    ASSUME Waiting, NetworkTypeOK', Filename \/ FilenameTimeout
    PROVE  ClientAccounts
  <1> USE DEF GoTo, Exit, windowVars, networkVars
  <1>0. /\ UNCHANGED <<retryCount, window>>
        /\ cstate \in Introducing /\ retryCount = 0
        /\ faults \in Nat /\ faults' \in Nat /\ fnameRetry \in Nat
        /\ MAX_TRIES \in Nat /\ WINDOW_TRIES \in Nat
    <2>1. UNCHANGED <<retryCount, window>> /\ cstate \in Introducing
      BY DEF Filename, FilenameFirst, FilenameGarbled, FilenameAgain,
             FilenameAnswered, FilenameTimeout, SendFname, Introducing
    <2>2. retryCount = 0
      BY <2>1 DEF Waiting, TriesPaid, Introducing
    <2> QED BY <2>1, <2>2, WaitingType, RcopyAssumption DEF NetworkTypeOK
  <1>1. CASE FilenameFirst
    <2>1. Readable(toClient) /\ toClient' = Received(toClient)
      BY <1>1 DEF FilenameFirst, ClientRecv
    <2>2. PICK m \in Messages : m.flag = "FNAME" /\ SentOnce(toServer, m, toServer')
      <3> DEFINE me == toClient'
      <3>1. me.remote = 0 /\ SendToServer(me, Signal("FNAME"))
        BY <1>1, <2>1, WaitingType DEF FilenameFirst, SendFname
      <3> HIDE DEF me
      <3> QED BY <3>1, ClientSignalsOnce
    <2>3. /\ cstate' = "FILENAME_WAIT" /\ UNCHANGED outcome
          /\ fnameRetry = 0 /\ fnameRetry' = 0 + 1
      BY <1>1 DEF FilenameFirst, SendFname
    <2>4. 0 + 1 <= faults' + Due'
      BY <1>0, <2>2, ClientPays
    <2>5. ClientMoves
      BY <2>1, <2>2, <2>3 DEF ClientMoves, Introducing
    <2>6. TriesPaid'
      BY <1>0, <2>3, <2>4 DEF TriesPaid
    <2> QED BY <2>3, <2>5, <2>6 DEF ClientAccounts
  <1>2. CASE FilenameGarbled
    BY <1>0, <1>2 DEF FilenameGarbled, ClientAccounts, TriesPaid, Running
  <1>3. CASE FilenameAgain
    <2>1. fnameRetry > 0 /\ fnameRetry' = fnameRetry + 1 /\ cstate = "FILENAME"
      BY <1>3 DEF FilenameAgain, SendFname
    <2>2. fnameRetry <= faults
      BY <2>1 DEF Waiting, TriesPaid
    <2>3. PICK m \in Messages : m.flag = "FNAME" /\ SentOnce(toServer, m, toServer')
      BY <1>3, WaitingType, ClientSignalsOnce DEF FilenameAgain, SendFname
    <2>4. fnameRetry + 1 <= faults' + Due' /\ faults' >= faults
      BY <1>0, <2>2, <2>3, ClientPays DEF SentOnce
    <2>5. CASE TriesUsedUp(fnameRetry')
      <3>1. cstate' = "DONE" /\ ~Running'
        BY <1>3, <2>5 DEF FilenameAgain, Running
      <3>2. TriesPaid'
        BY <1>0, <3>1 DEF TriesPaid, Running
      <3>3. faults' >= FewestLosses
        <4>1. fnameRetry + 1 > MAX_TRIES
          BY <2>1, <2>5 DEF TriesUsedUp
        <4>2. FewestLosses <= MAX_TRIES /\ FewestLosses \in Nat
          BY <1>0 DEF FewestLosses
        <4> HIDE DEF FewestLosses
        <4>3. MAX_TRIES <= fnameRetry
          BY <1>0, <4>1
        <4> QED BY <1>0, <2>2, <2>4, <4>2, <4>3
      <3> QED BY <3>1, <3>2, <3>3 DEF ClientAccounts
    <2>6. CASE ~TriesUsedUp(fnameRetry')
      <3>1. cstate' = "FILENAME_WAIT" /\ UNCHANGED <<toClient, outcome>>
        BY <1>3, <2>6 DEF FilenameAgain
      <3>2. ClientMoves
        BY <1>0, <2>1, <2>3, <3>1 DEF ClientMoves, Introducing
      <3>3. TriesPaid'
        BY <1>0, <2>1, <2>4, <3>1 DEF TriesPaid
      <3> QED BY <3>1, <3>2, <3>3 DEF ClientAccounts
    <2> QED BY <2>5, <2>6
  <1>4. CASE FilenameAnswered
    <2>1. /\ cstate = "FILENAME_WAIT" /\ Readable(toClient) /\ cstate' = "GET_DATA"
          /\ UNCHANGED <<outcome, toClient, toServer, faults>>
      BY <1>4 DEF FilenameAnswered
    <2>2. ClientMoves
      BY <2>1 DEF ClientMoves, Introducing
    <2>3. TriesPaid'
      BY <1>0, <2>1 DEF TriesPaid
    <2> QED BY <2>1, <2>2, <2>3 DEF ClientAccounts
  <1>5. CASE FilenameTimeout
    <2>1. /\ cstate = "FILENAME_WAIT" /\ TimesOut /\ cstate' = "FILENAME"
          /\ UNCHANGED <<fnameRetry, outcome, toClient, toServer, faults>>
      BY <1>5 DEF FilenameTimeout
    <2>2. fnameRetry > 0
      BY <2>1 DEF Waiting, Introduced
    <2>3. fnameRetry <= faults
      <3>1. fnameRetry <= faults + Due
        BY <2>1 DEF Waiting, TriesPaid
      <3>2. Due = 0
        BY <2>1, NothingDue
      <3> QED BY <1>0, <3>1, <3>2
    <2>4. ClientMoves
      BY <2>1, <2>2 DEF ClientMoves, Introducing
    <2>5. TriesPaid'
      BY <1>0, <2>1, <2>3 DEF TriesPaid
    <2> QED BY <2>1, <2>4, <2>5 DEF ClientAccounts
  <1> QED BY <1>1, <1>2, <1>3, <1>4, <1>5 DEF Filename

\* A client that has not counted a try since it heard an answer owes nothing.
LEMMA NoTries ==
    ASSUME faults' \in Nat, retryCount' = 0, cstate' \notin Introducing
    PROVE  TriesPaid'
  <1>1. Due' \in {0, 1}
    BY DEF Due
  <1>2. \A f \in Nat, d \in {0, 1} : 0 <= f + d
    OBVIOUS
  <1>3. 0 <= faults' + Due'
    BY <1>1, <1>2
  <1>4. ~(retryCount' > 0)
    OBVIOUS
  <1> QED BY <1>3, <1>4 DEF TriesPaid, Introducing

\* get_data() of the client, which the server meets in wait_data().
LEMMA GetDataAccounts ==
    ASSUME Waiting, NetworkTypeOK', GetData
    PROVE  ClientAccounts
  <1> USE DEF GoTo, Exit, windowVars, networkVars
  <1>0. /\ cstate = "GET_DATA" /\ UNCHANGED retryCount /\ retryCount = 0
        /\ faults \in Nat /\ faults' \in Nat
    <2>1. cstate = "GET_DATA" /\ UNCHANGED retryCount
      BY DEF GetData, GetNothing, GetUnknown, GetFnameRes, GetFopenErr,
             GetRR, GetSREJ, GetEoF
    <2>2. retryCount = 0
      BY <2>1 DEF Waiting, TriesPaid
    <2> QED BY <2>1, <2>2, WaitingType DEF NetworkTypeOK
  <1>1. /\ cstate' \in {"GET_DATA", "SEND_DATA", "WINDOW", "DONE", "CRASHED"}
        /\ outcome' # "no response" \/ UNCHANGED outcome
    BY DEF GetData, GetNothing, GetUnknown, GetFnameRes, GetFopenErr,
           GetRR, GetSREJ, GetEoF, Crash
  <1>2. TriesPaid'
    BY <1>0, <1>1, NoTries DEF Introducing
  <1>3. CASE GetNothing \/ GetUnknown \/ GetFnameRes \/ GetRR
    <2>1. UNCHANGED <<toServer, faults>>
      BY <1>3 DEF GetNothing, GetUnknown, GetFnameRes, GetRR
    <2>2. \/ UNCHANGED toClient
          \/ Readable(toClient) /\ toClient' = Received(toClient)
      BY <1>3 DEF GetNothing, GetUnknown, GetFnameRes, GetRR, ClientRecv
    <2>3. cstate' \notin Introducing
      BY <1>1 DEF Introducing
    <2>4. ClientMoves
      BY <1>0, <2>1, <2>2, <2>3 DEF ClientMoves, Introducing
    <2> QED BY <1>1, <1>2, <2>4 DEF ClientAccounts
  <1>4. CASE GetFopenErr \/ GetEoF
    <2>1. ~Running'
      BY <1>4 DEF GetFopenErr, GetEoF, Running
    <2> QED BY <1>1, <1>2, <2>1 DEF ClientAccounts
  <1>5. CASE GetSREJ
    <2> DEFINE seq == Head(toClient.inbox).seq
    <2>1. CASE ~CanResend(seq)
      <3>1. ~Running'
        BY <1>5, <2>1 DEF GetSREJ, Crash, Running
      <3> QED BY <1>1, <1>2, <3>1 DEF ClientAccounts
    <2>2. CASE CanResend(seq)
      <3>1. /\ Readable(toClient) /\ toClient' = Received(toClient)
            /\ cstate' = "GET_DATA"
        BY <1>5, <2>2 DEF GetSREJ
      <3>2. seq \in Nat
        BY <3>1, WaitingType, ReceivedType DEF Messages
      <3>3. PICK m \in Messages : m.flag = "DATA" /\ SentOnce(toServer, m, toServer')
        <4> DEFINE me == toClient'
        <4>1. me.remote = 0 /\ Resend(me, seq)
          BY <1>5, <2>2, <3>1, WaitingType DEF GetSREJ
        <4> HIDE DEF me, seq
        <4> QED BY <3>2, <4>1, ClientResends
      <3>4. ClientMoves
        BY <1>0, <3>1, <3>3 DEF ClientMoves, Introducing
      <3> QED BY <1>1, <1>2, <3>4 DEF ClientAccounts
    <2> QED BY <2>1, <2>2
  <1> QED BY <1>3, <1>4, <1>5 DEF GetData

\* send_data() of the client.
LEMMA SendDataAccounts ==
    ASSUME Waiting, NetworkTypeOK', SendData
    PROVE  ClientAccounts
  <1> USE DEF GoTo, Exit, windowVars, networkVars
  <1>0. /\ cstate = "SEND_DATA" /\ UNCHANGED retryCount /\ retryCount = 0
        /\ faults \in Nat /\ faults' \in Nat
    <2>1. cstate = "SEND_DATA" /\ UNCHANGED retryCount
      BY DEF SendData, SendChunk, ReachEndOfFile, ReadError
    <2>2. retryCount = 0
      BY <2>1 DEF Waiting, TriesPaid
    <2> QED BY <2>1, <2>2, WaitingType DEF NetworkTypeOK
  <1>1. /\ cstate' \in {"GET_DATA", "CRASHED"}
        /\ outcome' # "no response" \/ UNCHANGED outcome
    BY DEF SendData, SendChunk, ReachEndOfFile, ReadError, Crash
  <1>2. TriesPaid'
    BY <1>0, <1>1, NoTries DEF Introducing
  <1>3. CASE ReachEndOfFile
    <2>1. ClientMoves
      BY <1>0, <1>3 DEF ReachEndOfFile, ClientMoves, Introducing
    <2> QED BY <1>1, <1>2, <2>1 DEF ClientAccounts
  <1>4. CASE ReadError
    <2>1. ~Running'
      BY <1>4 DEF ReadError, Crash, Running
    <2> QED BY <1>1, <1>2, <2>1 DEF ClientAccounts
  <1>5. CASE SendChunk
    <2> DEFINE m == Packet("DATA", window.current, File[nread + 1])
    <2>1. m \in Messages /\ m.flag = "DATA"
      <3>1. nread \in 0 .. Len(File) /\ nread < Len(File)
        BY <1>5 DEF SendChunk, Waiting, TypeOK, ClientTypeOK
      <3>2. Len(File) \in Nat
        BY RcopyAssumption, LenProperties
      <3>3. nread + 1 \in 1 .. Len(File)
        BY <3>1, <3>2
      <3>4. File[nread + 1] \in Bytes
        BY <3>3, RcopyAssumption, ElementOfSeq
      <3>5. window.current \in Nat
        BY WaitingType, WindowsType
      <3> QED BY <3>4, <3>5, PacketType DEF Flags, Packet
    <2>2. SendToServer(toClient, m) /\ UNCHANGED toClient /\ cstate' = "GET_DATA"
      BY <1>5 DEF SendChunk
    <2> HIDE DEF m
    <2>3. SentOnce(toServer, m, toServer')
      BY <2>1, <2>2, WaitingType, ClientSends
    <2>4. ClientMoves
      BY <1>0, <2>1, <2>2, <2>3 DEF ClientMoves, Introducing
    <2> QED BY <1>1, <1>2, <2>4 DEF ClientAccounts
  <1> QED BY <1>3, <1>4, <1>5 DEF SendData

\* window_status() of the client: it counts a try only when the answer to the
\* one before was lost, and the chunk it sends again is one that the server
\* answers, because lower is never ahead of it.
LEMMA WindowAccounts ==
    ASSUME Waiting, NetworkTypeOK',
           WindowStatus \/ WindowGivesUp \/ WindowResends \/ WindowSendsEoF
    PROVE  ClientAccounts
  <1> USE DEF GoTo, Exit, windowVars, networkVars
  <1>0. /\ cstate = "WINDOW" /\ retryCount \in Nat
        /\ faults \in Nat /\ faults' \in Nat
        /\ retryCount > 0 => Closed \/ window.end # 0
    <2>1. cstate = "WINDOW"
      BY DEF WindowStatus, WindowOpen, WindowAnswered, WindowGivesUp,
             WindowResends, WindowSendsEoF
    <2>2. retryCount > 0 => Closed \/ window.end # 0
      BY DEF Waiting, TriesPaid
    <2>3. faults \in Nat /\ faults' \in Nat
      BY WaitingType DEF NetworkTypeOK
    <2> QED BY <2>1, <2>2, <2>3, WaitingType
  <1>1. TimesOut => retryCount <= faults
    <2>1. retryCount <= faults + Due
      BY <1>0 DEF Waiting, TriesPaid
    <2>2. TimesOut => Due = 0
      BY NothingDue
    <2> HIDE DEF Due, TimesOut
    <2> QED BY <1>0, <2>1, <2>2
  <1>2. CASE WindowOpen
    <2>1. /\ cstate' = "SEND_DATA" /\ UNCHANGED <<retryCount, outcome>>
          /\ UNCHANGED <<toClient, toServer, faults>>
          /\ retryCount = 0
      BY <1>0, <1>2 DEF WindowOpen
    <2>2. ClientMoves /\ TriesPaid'
      BY <1>0, <2>1 DEF ClientMoves, Introducing, TriesPaid
    <2> QED BY <2>1, <2>2 DEF ClientAccounts
  <1>3. CASE WindowAnswered
    <2>1. /\ cstate' = "GET_DATA" /\ UNCHANGED outcome /\ retryCount' = 0
          /\ UNCHANGED <<toClient, toServer, faults>>
      BY <1>3 DEF WindowAnswered, RetryAfterAnswer
    <2>2. ClientMoves /\ TriesPaid'
      BY <1>0, <2>1 DEF ClientMoves, Introducing, TriesPaid
    <2> QED BY <2>1, <2>2 DEF ClientAccounts
  <1>4. CASE WindowGivesUp
    <2>1. /\ ~Running' /\ cstate' = "DONE" /\ UNCHANGED <<retryCount, window, faults>>
          /\ retryCount = WINDOW_TRIES /\ retryCount <= faults
      BY <1>1, <1>4 DEF WindowGivesUp, OutOfTries, Running
    <2>2. faults' >= FewestLosses
      <3>1. FewestLosses <= WINDOW_TRIES /\ FewestLosses \in Nat
        BY RcopyAssumption DEF FewestLosses
      <3> HIDE DEF FewestLosses
      <3> QED BY <1>0, <2>1, <3>1
    <2>3. TriesPaid'
      BY <1>0, <2>1 DEF TriesPaid, Closed
    <2> QED BY <2>1, <2>2, <2>3 DEF ClientAccounts
  <1>5. ASSUME NEW m \in Messages, SentOnce(toServer, m, toServer'),
               m.flag = "EoF" \/ (m.flag = "DATA" /\ m.seq <= expected),
               TimesOut, cstate' = "WINDOW", retryCount' = retryCount + 1,
               UNCHANGED <<toClient, outcome>>, (Closed \/ window.end # 0)'
        PROVE  ClientAccounts
    <2>1. ClientMoves
      BY <1>0, <1>5 DEF ClientMoves, Introducing
    <2>2. retryCount + 1 <= faults' + Due'
      <3>1. retryCount <= faults
        BY <1>1, <1>5
      <3>2. m.flag \in {"FNAME", "EoF"} \/ (m.flag = "DATA" /\ m.seq <= expected)
        BY <1>5
      <3> HIDE DEF Due
      <3> QED BY <1>0, <1>5, <3>1, <3>2, ClientPays
    <2>3. TriesPaid'
      BY <1>5, <2>2 DEF TriesPaid
    <2> QED BY <1>5, <2>1, <2>3 DEF ClientAccounts
  <1>6. CASE WindowResends
    <2>1. /\ TimesOut /\ retryCount' = retryCount + 1 /\ UNCHANGED window
          /\ Closed \/ window.end # 0
      BY <1>6 DEF WindowResends
    <2>2. (Closed \/ window.end # 0)'
      BY <2>1 DEF Closed
    <2>3. CASE CanResend(window.lower)
      <3>1. /\ Resend(toClient, window.lower) /\ cstate' = "WINDOW"
            /\ UNCHANGED <<toClient, outcome>>
        BY <1>6, <2>3 DEF WindowResends
      <3> DEFINE lower == window.lower
      <3>2. lower \in Nat /\ lower <= expected /\ toClient.remote = 0
            /\ Resend(toClient, lower)
        BY <3>1, WaitingType
      <3> HIDE DEF lower
      <3>3. PICK m \in Messages :
              m.flag = "DATA" /\ m.seq = lower /\ SentOnce(toServer, m, toServer')
        BY <3>2, ClientResends
      <3> QED BY <1>5, <2>1, <2>2, <3>1, <3>2, <3>3
    <2>4. CASE ~CanResend(window.lower)
      <3>1. cstate' = "CRASHED" /\ outcome' = "crash"
        BY <1>6, <2>4 DEF WindowResends, Crash
      <3>2. ~Running' /\ TriesPaid'
        BY <2>2, <3>1 DEF Running, TriesPaid
      <3> QED BY <3>1, <3>2 DEF ClientAccounts
    <2> QED BY <2>3, <2>4
  <1>7. CASE WindowSendsEoF
    <2>1. /\ TimesOut /\ retryCount' = retryCount + 1
          /\ SendToServer(toClient, Signal("EoF")) /\ cstate' = "WINDOW"
          /\ UNCHANGED <<toClient, outcome>>
          /\ window.end = -1 /\ window' = [window EXCEPT !.current = @ + 1]
      BY <1>7 DEF WindowSendsEoF
    <2>2. (Closed \/ window.end # 0)'
      <3>1. window \in Windows
        BY WaitingType
      <3>2. window'.end = -1
        BY <2>1, <3>1 DEF Windows
      <3> QED BY <3>2
    <2>3. PICK m \in Messages : m.flag = "EoF" /\ SentOnce(toServer, m, toServer')
      BY <2>1, WaitingType, ClientSignalsOnce
    <2> QED BY <1>5, <2>1, <2>2, <2>3
  <1> QED BY <1>2, <1>3, <1>4, <1>6, <1>7 DEF WindowStatus

\* A running client that goes on stays linked.
LEMMA ClientKeepsLinks ==
    ASSUME Waiting, ClientMoves, Running', NetworkTypeOK'
    PROVE  Linked'
  <1>0. /\ toServer \in Sockets /\ toClient \in Sockets
        /\ toServer' \in Sockets /\ toClient' \in Sockets
        /\ sstate' = sstate /\ Linked /\ Introduced /\ Running
    BY WaitingType DEF Waiting, NetworkTypeOK
  <1>1. /\ toClient'.open /\ toClient'.remote = 0 /\ toClient'.late = {}
        /\ \A i \in DOMAIN toClient'.inbox : toClient'.inbox[i].from = 0
    <2>1. CASE UNCHANGED toClient
      BY <1>0, <2>1 DEF Linked
    <2>2. CASE Readable(toClient) /\ toClient' = Received(toClient)
      <3> DEFINE q == toClient.inbox
                 r == toClient'.inbox
      <3>1. toClient'.open /\ toClient'.remote = 0 /\ toClient'.late = {}
        BY <1>0, <2>2, ReceivedEnds, WaitingType DEF Linked
      <3>2. /\ Len(q) \in Nat /\ DOMAIN q = 1 .. Len(q)
            /\ DOMAIN r = 1 .. Len(q) - 1
            /\ \A i \in 1 .. Len(q) - 1 : r[i] = q[i + 1]
        BY <1>0, <2>2, ReceivedInOrder
      <3>3. \A i \in DOMAIN q : q[i].from = 0
        BY <1>0 DEF Linked
      <3> HIDE DEF q, r
      <3>4. \A i \in DOMAIN r : r[i].from = 0
        BY <3>2, <3>3
      <3> QED BY <3>1, <3>4 DEF r
    <2> QED BY <2>1, <2>2 DEF ClientMoves
  <1>2. /\ toServer'.open /\ toServer'.name = 0 /\ toServer'.late = {}
        /\ \A i \in DOMAIN toServer'.inbox :
             /\ toServer'.inbox[i].flag # "TERMINATE"
             /\ sstate = "FILENAME" =>
                  toServer'.inbox[i].flag \in {"FNAME", "CRC_ERROR"}
    <2>1. CASE UNCHANGED toServer
      BY <1>0, <2>1 DEF Linked
    <2>2. ASSUME NEW m \in Messages, SentOnce(toServer, m, toServer'),
                 \/ m.flag = "FNAME"
                 \/ m.flag \in {"DATA", "EoF"} /\ cstate \notin Introducing
          PROVE  /\ toServer'.open /\ toServer'.name = 0 /\ toServer'.late = {}
                 /\ \A i \in DOMAIN toServer'.inbox :
                      /\ toServer'.inbox[i].flag # "TERMINATE"
                      /\ sstate = "FILENAME" =>
                           toServer'.inbox[i].flag \in {"FNAME", "CRC_ERROR"}
      <3> DEFINE q == toServer.inbox
                 r == toServer'.inbox
      <3>1. toServer'.open /\ toServer'.name = 0 /\ toServer'.late = {}
        BY <1>0, <2>2 DEF SentOnce, SameEnds, Linked
      <3>2. sstate = "FILENAME" => m.flag = "FNAME"
        BY <1>0, <2>2 DEF Introduced, Introducing
      <3>3. \A n \in Heard({m}) :
              /\ n.flag # "TERMINATE"
              /\ sstate = "FILENAME" => n.flag \in {"FNAME", "CRC_ERROR"}
        BY <2>2, <3>2 DEF Heard, Noise
      <3>4. \A i \in DOMAIN q :
              /\ q[i].flag # "TERMINATE"
              /\ sstate = "FILENAME" => q[i].flag \in {"FNAME", "CRC_ERROR"}
        BY <1>0 DEF Linked
      <3>5. Longer(q, r, Heard({m}))
        BY <2>2 DEF SentOnce
      <3>6. /\ Len(q) \in Nat /\ Len(r) \in Nat
            /\ DOMAIN q = 1 .. Len(q) /\ DOMAIN r = 1 .. Len(r)
        BY <1>0, InboxType
      <3> HIDE DEF q, r
      <3>7. \A i \in DOMAIN r : i \in 1 .. Len(q) \/ i \in Len(q) + 1 .. Len(r)
        BY <3>6
      <3>8. \A i \in DOMAIN r : (i \in DOMAIN q /\ r[i] = q[i]) \/ r[i] \in Heard({m})
        BY <3>5, <3>6, <3>7 DEF Longer
      <3>9. \A i \in DOMAIN r :
              /\ r[i].flag # "TERMINATE"
              /\ sstate = "FILENAME" => r[i].flag \in {"FNAME", "CRC_ERROR"}
        BY <3>3, <3>4, <3>8
      <3> QED BY <3>1, <3>9 DEF r
    <2> QED BY <2>1, <2>2 DEF ClientMoves
  <1>3. sstate' \in {"FILENAME", "WAIT_DATA"}
    BY <1>0 DEF Linked
  <1> QED BY <1>0, <1>1, <1>2, <1>3 DEF Linked

\* It leaves filename() with an answer, which wait_data() of the server sent.
LEMMA ClientKeepsIntroduced ==
    ASSUME Waiting, ClientMoves, Running', NetworkTypeOK'
    PROVE  Introduced'
  <1>0. /\ toClient \in Sockets /\ sstate' = sstate /\ Introduced /\ Running
    BY WaitingType DEF Waiting
  <1>1. ~(cstate' = "FILENAME" /\ fnameRetry' = 0)
        /\ (cstate' = "FILENAME_WAIT" => fnameRetry' > 0)
    BY DEF ClientMoves, Introducing
  <1>2. Readable(toClient') => Readable(toClient)
    <2>1. toClient' = Received(toClient) => Received(toClient).inbox = Tail(toClient.inbox)
      BY <1>0 DEF Received, Sockets
    <2>2. CASE UNCHANGED toClient
      BY <2>2
    <2>3. CASE Readable(toClient)
      BY <2>3
    <2> QED BY <2>2, <2>3 DEF ClientMoves
  <1>3. Readable(toClient') => ~(cstate = "FILENAME" /\ fnameRetry = 0)
    <2> SUFFICES ASSUME cstate = "FILENAME", fnameRetry = 0
                 PROVE  ~Readable(toClient')
      OBVIOUS
    <2>1. Len(toClient.inbox) = 1 /\ toClient' = Received(toClient)
      BY <1>0 DEF Introduced, ClientMoves
    <2>2. Readable(toClient) /\ Received(toClient) \in Sockets
      BY <1>0, <2>1, InboxType, ReceivedType
    <2>3. DOMAIN toClient'.inbox = 1 .. 0
      BY <1>0, <2>1, <2>2, ReceivedInOrder
    <2>4. DOMAIN toClient'.inbox = 1 .. Len(toClient'.inbox)
          /\ Len(toClient'.inbox) \in Nat
          /\ (Readable(toClient') <=> Len(toClient'.inbox) > 0)
      BY <2>1, <2>2, InboxType
    <2>5. \A n \in Nat : n > 0 => 1 \in 1 .. n
      OBVIOUS
    <2>6. 1 \notin 1 .. 0
      OBVIOUS
    <2> QED BY <2>3, <2>4, <2>5, <2>6
  <1>4. Readable(toClient') => sstate' = "WAIT_DATA"
    BY <1>0, <1>2, <1>3 DEF Introduced
  <1>5. cstate' \notin Introducing => sstate' = "WAIT_DATA"
    <2>1. CASE cstate \notin Introducing
      BY <1>0, <2>1 DEF Introduced, Introducing
    <2>2. CASE cstate \in Introducing /\ cstate' \notin Introducing
      <3>1. cstate = "FILENAME_WAIT" /\ Readable(toClient)
        BY <2>2 DEF ClientMoves
      <3> QED BY <1>0, <3>1 DEF Introduced
    <2> QED BY <2>1, <2>2
  <1> QED BY <1>1, <1>4, <1>5 DEF Introduced, Introducing, Readable

\* The client's steps keep the account and blame the server only by it.
LEMMA ClientNextAccounts ==
    ASSUME KeepsOrder, StillAnswers, TypeOK, NetworkTypeOK', AckNeverAhead,
           TriesAccounted, RcopyNext, UNCHANGED serverVars
    PROVE  /\ TriesAccounted'
           /\ outcome' = "no response" =>
                outcome = "no response" \/ faults' >= FewestLosses
  <1>1. Running
    BY DEF RcopyNext, RcopyTimeout, Filename, FilenameFirst, FilenameGarbled,
           FilenameAgain, FilenameAnswered, FilenameTimeout, GetData,
           GetNothing, GetUnknown, GetFnameRes, GetFopenErr, GetRR, GetSREJ,
           GetEoF, SendData, SendChunk, ReachEndOfFile, ReadError, WindowStatus,
           WindowOpen, WindowAnswered, WindowGivesUp, WindowResends,
           WindowSendsEoF, Running
  <1>2. Waiting
    BY <1>1 DEF Waiting, TriesAccounted, StillAnswers
  <1>3. ClientAccounts
    BY <1>2, FilenameAccounts, GetDataAccounts, SendDataAccounts, WindowAccounts
       DEF RcopyNext, RcopyTimeout
  <1>4. CASE Running'
    <2>1. Linked' /\ Introduced'
      BY <1>2, <1>3, <1>4, ClientKeepsLinks, ClientKeepsIntroduced
         DEF ClientAccounts
    <2> QED BY <1>3, <2>1 DEF ClientAccounts, TriesAccounted
  <1>5. CASE ~Running'
    <2>1. Linked' /\ Introduced'
      BY <1>5 DEF Linked, Introduced, Running
    <2> QED BY <1>3, <2>1 DEF ClientAccounts, TriesAccounted
  <1> QED BY <1>4, <1>5

(***************************************************************************)
(* The account is kept, and the blame follows from it.                     *)
(***************************************************************************)

\* Before the client has read the answer to SETUP.
LEMMA InitAccounts ==
    ASSUME KeepsOrder
    PROVE  Init => TriesAccounted
  <1> SUFFICES ASSUME Init PROVE TriesAccounted
    OBVIOUS
  <1>1. toClient \in SetupAnswers /\ toServer = FreshSocket
    BY DEF Init
  <1>2. /\ cstate = "FILENAME" /\ fnameRetry = 0 /\ retryCount = 0 /\ faults = 0
        /\ sstate = "FILENAME"
    BY DEF Init, RcopyInit, ServerInit
  <1>3. PICK m \in {Signal("SETUP_RES"), Garbled} :
          toClient = [FreshSocket EXCEPT !.inbox = <<m>>]
    BY <1>1 DEF SetupAnswers, KeepsOrder
  <1>4. /\ toClient.inbox = <<m>> /\ toClient.open /\ toClient.remote = 0
        /\ toClient.late = {} /\ m.from = 0
    BY <1>3 DEF FreshSocket, NewSocket, EmptySocket, Signal, Packet, Garbled
  <1>5. /\ toServer.inbox = <<>> /\ toServer.open /\ toServer.name = 0
        /\ toServer.late = {}
    BY <1>1 DEF FreshSocket, NewSocket, EmptySocket
  <1>6. Linked
    <2>1. \A i \in DOMAIN toClient.inbox : toClient.inbox[i] = m
      BY <1>4
    <2>2. DOMAIN toServer.inbox = {}
      BY <1>5
    <2> QED BY <1>2, <1>4, <1>5, <2>1, <2>2 DEF Linked
  <1>7. Introduced
    <2>1. Len(toClient.inbox) = 1
      BY <1>4
    <2> QED BY <1>2, <1>5, <2>1 DEF Introduced
  <1>8. TriesPaid
    BY <1>2 DEF TriesPaid
  <1> QED BY <1>6, <1>7, <1>8 DEF TriesAccounted

\* A send never takes a fault back.
LEMMA TransmitCounts ==
    ASSUME NEW socket, NEW ms, IsFiniteSet(DOMAIN ms), NEW socketAfter,
           faults \in Nat, Transmit(socket, ms, socketAfter)
    PROVE  faults <= faults'
  <1>1. CASE UNCHANGED faults
    BY <1>1
  <1>2. ASSUME NEW fate \in [DOMAIN ms -> Fates \cup {"sent"}],
               faults' = faults + Cardinality(Hit(fate))
        PROVE  faults <= faults'
    <2>1. Hit(fate) \subseteq DOMAIN ms
      BY DEF Hit
    <2>2. Cardinality(Hit(fate)) \in Nat
      BY <2>1, FS_Subset, FS_CardinalityType
    <2> QED BY <1>2, <2>2
  <1> QED BY <1>1, <1>2 DEF Transmit

\* Nor does the send of one packet.
LEMMA SendsCount ==
    ASSUME faults \in Nat
    PROVE  /\ \A me, m : SendToServer(me, m) => faults <= faults'
           /\ \A m : SendToClient(m) => faults <= faults'
  <1>1. ASSUME NEW socket, NEW m, NEW socketAfter, Transmit(socket, <<m>>, socketAfter)
        PROVE  faults <= faults'
    <2> DEFINE ms == <<m>>
    <2>1. DOMAIN ms = {1} /\ IsFiniteSet({1})
      <3>1. 1 .. 1 = {1}
        OBVIOUS
      <3> QED BY <3>1, FS_Singleton
    <2>2. Transmit(socket, ms, socketAfter) /\ IsFiniteSet(DOMAIN ms)
      BY <1>1, <2>1
    <2> HIDE DEF ms
    <2> QED BY <2>2, TransmitCounts
  <1>2. ASSUME NEW me, NEW m, SendToServer(me, m) PROVE faults <= faults'
    BY <1>1, <1>2 DEF SendToServer
  <1>3. ASSUME NEW m, SendToClient(m) PROVE faults <= faults'
    BY <1>1, <1>3 DEF SendToClient
  <1> QED BY <1>2, <1>3

\* Nor does any step.
LEMMA StepsCountFaults ==
    ASSUME TypeOK, [Next]_vars
    PROVE  faults <= faults'
  <1>0. faults \in Nat
    BY NetworkAssumption DEF TypeOK, NetworkTypeOK
  <1>1. UNCHANGED faults => faults <= faults'
    BY <1>0
  <1>2. CASE RcopyNext
    <2>1. CASE Filename \/ FilenameTimeout
      <3>1. UNCHANGED faults \/ \E me : SendToServer(me, Signal("FNAME"))
        BY <2>1 DEF Filename, FilenameFirst, FilenameGarbled, FilenameAgain,
                    FilenameAnswered, FilenameTimeout, SendFname, networkVars
      <3> QED BY <1>0, <1>1, <3>1, SendsCount
    <2>2. CASE GetData \/ SendData
      <3>1. UNCHANGED faults \/ \E me, m : SendToServer(me, m)
        BY <2>2 DEF GetData, GetNothing, GetUnknown, GetFnameRes, GetFopenErr,
                    GetRR, GetSREJ, GetEoF, SendData, SendChunk,
                    ReachEndOfFile, ReadError, Resend, networkVars
      <3> QED BY <1>0, <1>1, <3>1, SendsCount
    <2>3. CASE WindowStatus \/ WindowGivesUp \/ WindowResends \/ WindowSendsEoF
      <3>1. UNCHANGED faults \/ \E me, m : SendToServer(me, m)
        BY <2>3 DEF WindowStatus, WindowOpen, WindowAnswered, WindowGivesUp,
                    WindowResends, WindowSendsEoF, Resend, networkVars
      <3> QED BY <1>0, <1>1, <3>1, SendsCount
    <2> QED BY <1>2, <2>1, <2>2, <2>3 DEF RcopyNext, RcopyTimeout
  <1>3. CASE ServerNext
    <2>1. CASE ~ReceiveData
      <3>1. UNCHANGED faults \/ \E m : SendToClient(m)
        BY <1>3, <2>1
           DEF ServerNext, FilenameOpens, FilenameOther, Reconnect, GiveUp,
               WaitData, FnameAgain, CloseFile, ClientTerminated, IgnorePacket
      <3> QED BY <1>0, <1>1, <3>1, SendsCount
    <2>2. CASE ReceiveData
      <3>1. PICK m \in OnTheWay(toServer) :
              InOrder(m) \/ FillsGap(m) \/ Duplicate(m) \/ OutOfOrder(m)
        BY <2>2 DEF ReceiveData
      <3>2. CASE InOrder(m) \/ FillsGap(m) \/ Duplicate(m)
        <4>1. \E p : SendToClient(p)
          BY <3>2 DEF InOrder, FillsGap, Duplicate, AcknowledgeUpTo
        <4> QED BY <1>0, <4>1, SendsCount
      <3>3. CASE OutOfOrder(m)
        <4>1. CASE IsNull(squeue, SlotOf(m.seq))
          <5> DEFINE queue   == add_element(squeue, SlotOf(m.seq), m.data)
                     missing == Missing(queue, m.seq)
                     ms == [k \in missing |-> FromServer(Packet("SREJ", k, <<>>))]
          <5>1. Transmit(toClient, ms, toClient')
            BY <3>3, <4>1 DEF OutOfOrder
          <5>2. expected \in Nat \ {0} /\ m.seq \in Nat
            BY OnTheWayType DEF TypeOK, ServerTypeOK, NetworkTypeOK, Messages
          <5>3. IsFiniteSet(missing)
            BY <5>2, MissingType
          <5> HIDE DEF missing
          <5>4. DOMAIN ms = missing
            OBVIOUS
          <5> HIDE DEF ms
          <5> QED BY <1>0, <5>1, <5>3, <5>4, TransmitCounts
        <4> QED BY <1>1, <3>3, <4>1 DEF OutOfOrder
      <3> QED BY <3>1, <3>2, <3>3
    <2> QED BY <2>1, <2>2
  <1>4. CASE LateArrival \/ UNCHANGED vars
    BY <1>1, <1>4 DEF LateArrival, vars, networkVars
  <1> QED BY <1>2, <1>3, <1>4 DEF Next

\* What holds before a step.
Accounting == TypeOK /\ AckNeverAhead /\ TriesAccounted /\ BlameTakesLosses

\* It holds at first.
LEMMA InitAccounting ==
    ASSUME KeepsOrder
    PROVE  Init => Accounting
  <1>1. Init => outcome # "no response"
    BY DEF Init, RcopyInit
  <1> QED BY <1>1, InitType, InitAck, InitAccounts DEF Accounting, BlameTakesLosses

\* A server process that has quit does nothing more.
LEMMA QuitsForGood ==
    ASSUME [Next]_vars, sstate = "DONE"
    PROVE  sstate' = "DONE"
  <1>1. ~ServerNext
    BY DEF ServerNext, FilenameOpens, FilenameOther, Reconnect, GiveUp, GivingUp,
           WaitData, FnameAgain, CloseFile, ClientTerminated, IgnorePacket,
           ReceiveData, DataArrives
  <1> QED BY <1>1 DEF Next, vars, serverVars

\* Every step keeps the account.
LEMMA NextAccounts ==
    ASSUME KeepsOrder
    PROVE  Accounting /\ [Next]_vars => Accounting'
  <1> SUFFICES ASSUME Accounting, [Next]_vars PROVE Accounting'
    OBVIOUS
  <1>0. /\ TypeOK /\ AckNeverAhead /\ TriesAccounted /\ BlameTakesLosses
        /\ TypeOK' /\ AckNeverAhead' /\ NetworkTypeOK'
    BY NextType, NextAck DEF Accounting, TypeOK
  <1>1. /\ faults \in Nat /\ faults' \in Nat /\ FewestLosses \in Nat
    BY <1>0, RcopyAssumption DEF TypeOK, NetworkTypeOK, FewestLosses
  <1>2. TriesAccounted'
    <2> SUFFICES ASSUME StillAnswers' PROVE TriesAccounted'
      BY DEF TriesAccounted
    <2>1. StillAnswers
      BY QuitsForGood DEF StillAnswers
    <2>2. Linked /\ Introduced /\ TriesPaid
      BY <1>0, <2>1 DEF TriesAccounted
    <2>3. CASE RcopyNext /\ UNCHANGED serverVars
      BY <1>0, <2>1, <2>3, ClientNextAccounts
    <2>4. CASE ServerNext /\ UNCHANGED rcopyVars
      BY <1>0, <2>1, <2>4, ServerAccounts
    <2>5. CASE (LateArrival /\ UNCHANGED <<rcopyVars, serverVars>>) \/ UNCHANGED vars
      <3>1. /\ UNCHANGED <<cstate, fnameRetry, retryCount, window, outcome, faults>>
            /\ UNCHANGED <<sstate, expected>>
        BY <2>5 DEF LateArrival, vars, rcopyVars, windowVars, serverVars, recvVars,
                    networkVars
      <3>2. CASE Running
        <4>1. UNCHANGED <<toClient, toServer>>
          BY <2>2, <2>5, <3>2
             DEF LateArrival, Overtaken, Linked, vars, networkVars
        <4>2. Linked' /\ Introduced'
          BY <2>2, <3>1, <4>1 DEF Linked, Introduced, Running, Readable
        <4>3. TriesPaid'
          <5>1. Due' = Due
            BY <3>1, <4>1 DEF Due, AnswerDue, Readable, Answerable
          <5> HIDE DEF Due
          <5> QED BY <2>2, <3>1, <5>1 DEF TriesPaid, Running, Closed
        <4> QED BY <4>2, <4>3 DEF TriesAccounted
      <3>3. CASE ~Running
        <4>1. ~Running' /\ (retryCount > 0 => Closed \/ window.end # 0)'
          BY <2>2, <3>1, <3>3 DEF TriesPaid, Running, Closed
        <4> QED BY <4>1 DEF TriesAccounted, Linked, Introduced, TriesPaid, Running
      <3> QED BY <3>2, <3>3
    <2> QED BY <2>3, <2>4, <2>5 DEF Next
  <1>3. BlameTakesLosses'
    <2>1. SUFFICES ASSUME Timely, Patient, outcome' = "no response"
                   PROVE  faults' >= FewestLosses
      BY DEF BlameTakesLosses, FewestLosses
    <2>2. outcome = "no response" => faults >= FewestLosses
      BY <1>0, <2>1 DEF BlameTakesLosses, FewestLosses
    <2>3. faults >= FewestLosses => faults' >= FewestLosses
      <3>1. faults <= faults'
        BY <1>0, StepsCountFaults
      <3> QED BY <1>1, <3>1
    <2>4. CASE RcopyNext /\ UNCHANGED serverVars
      <3>1. outcome = "no response" \/ faults' >= FewestLosses
        BY <1>0, <2>1, <2>4, ClientNextAccounts DEF StillAnswers
      <3> QED BY <2>2, <2>3, <3>1
    <2>5. CASE UNCHANGED outcome
      BY <2>1, <2>2, <2>3, <2>5
    <2> QED BY <2>4, <2>5 DEF Next, vars, rcopyVars
  <1> QED BY <1>0, <1>2, <1>3 DEF Accounting

\* On a network that drops and flips but keeps the order, as long as the server
\* has not quit and answers in time, every failed try that the client counts is
\* a loss: the account that the blame is drawn from.
THEOREM AccountKept ==
    ASSUME KeepsOrder
    PROVE  Spec => []TriesAccounted
  <1>1. Init => Accounting
    BY InitAccounting
  <1>2. Accounting /\ [Next]_vars => Accounting'
    BY NextAccounts
  <1>3. Accounting => TriesAccounted
    BY DEF Accounting
  <1> QED BY <1>1, <1>2, <1>3, PTL DEF Spec

\* And so rcopy.c blames such a server, in filename() or in window_status(),
\* only after as many losses as it has tries, for every file and every window.
THEOREM BlameIsPaid ==
    ASSUME KeepsOrder
    PROVE  Spec => []BlameTakesLosses
  <1>1. Init => Accounting
    BY InitAccounting
  <1>2. Accounting /\ [Next]_vars => Accounting'
    BY NextAccounts
  <1>3. Accounting => BlameTakesLosses
    BY DEF Accounting
  <1> QED BY <1>1, <1>2, <1>3, PTL DEF Spec
=============================================================================
