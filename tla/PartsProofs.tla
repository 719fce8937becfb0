----------------------------- MODULE PartsProofs -----------------------------
(***************************************************************************)
(* Facts about the parts of a transfer: the window buffers of Queue, with  *)
(* the two facts about sets of integers that the searches of server.c rest *)
(* on, and the sockets of Network, what sending, receiving and a late      *)
(* arrival do to a socket and to the messages that are on their way.       *)
(***************************************************************************)
EXTENDS Network, Queue, FiniteSetTheorems, SequenceTheorems,
        WellFoundedInduction, TLAPS

\* A search upwards that has something to find finds the least such number.
LEMMA LeastNatural ==
    ASSUME NEW S \in SUBSET Nat, S # {}
    PROVE  \E n \in S : \A k \in S : n <= k
  <1> DEFINE R == {ss \in Nat \X Nat : ss[1] < ss[2]}
  <1>1. R = OpToRel(<, Nat)
    BY DEF OpToRel
  <1>2. IsWellFoundedOn(R, Nat)
    BY <1>1, NatLessThanWellFounded
  <1>3. PICK n \in S : \A k \in S : ~(<<k, n>> \in R)
    <2> HIDE DEF R
    <2> QED BY <1>2, WFMin
  <1>4. ASSUME NEW k \in S PROVE n <= k
    <2>1. n \in Nat /\ k \in Nat /\ <<k, n>> \notin R
      BY <1>3
    <2>2. ~(k < n)
      BY <2>1, Zenon
    <2> QED BY <2>1, <2>2
  <1> QED BY <1>3, <1>4

\* A bounded set of numbers has a greatest one.
LEMMA GreatestNatural ==
    ASSUME NEW S \in SUBSET Nat, S # {}, NEW b \in Nat, \A k \in S : k <= b
    PROVE  \E n \in S : \A k \in S : k <= n
  <1> DEFINE T == {d \in Nat : b - d \in S}
  <1>1. PICK s \in S : TRUE
    OBVIOUS
  <1>2. b - s \in Nat /\ b - (b - s) = s
    BY <1>1
  <1>3. T # {}
    BY <1>1, <1>2
  <1>4. PICK d \in T : \A e \in T : d <= e
    BY <1>3, LeastNatural
  <1>5. ASSUME NEW k \in S PROVE k <= b - d
    <2>1. b - k \in Nat /\ b - (b - k) = k
      OBVIOUS
    <2>2. d <= b - k
      BY <1>4, <2>1
    <2> QED BY <1>4, <2>1, <2>2
  <1> QED BY <1>4, <1>5

\* Every sequence number has a slot.
LEMMA SlotOfType ==
    ASSUME NEW seq \in Int
    PROVE  SlotOf(seq) \in Slots
  BY SizesPositive DEF SlotOf, Slots

\* Division with a remainder.
LEMMA Division ==
    ASSUME NEW n \in Int, n > 0, NEW k \in Int
    PROVE  k = n * (k \div n) + (k % n)
  BY SMT

\* A positive multiple of a number is at least that number.
LEMMA PositiveMultiple ==
    ASSUME NEW n \in Int, n > 0, NEW d \in Int, d > 0
    PROVE  n * d >= n
  OBVIOUS

\* Two numbers less than a window apart never share a slot.
LEMMA SlotOfInjective ==
    ASSUME NEW k \in Int, NEW l \in Int, SlotOf(k) = SlotOf(l),
           k - l < WindowSize, l - k < WindowSize
    PROVE  k = l
  <1> DEFINE a == k \div WindowSize
             b == l \div WindowSize
  <1>1. WindowSize \in Int /\ WindowSize > 0
    BY SizesPositive
  <1>2. a \in Int /\ b \in Int
    BY <1>1, SMT
  <1>3. /\ k = WindowSize * a + (k % WindowSize)
        /\ l = WindowSize * b + (l % WindowSize)
    BY <1>1, Division
  <1>4. k % WindowSize \in Int /\ k % WindowSize = l % WindowSize
    BY <1>1 DEF SlotOf
  <1> HIDE DEF a, b
  <1>5. WindowSize * a \in Int /\ WindowSize * b \in Int
    BY <1>1, <1>2, SMT
  <1>6. k - l = WindowSize * a - WindowSize * b
    BY <1>3, <1>4, <1>5
  <1>7. /\ WindowSize * a - WindowSize * b = WindowSize * (a - b)
        /\ WindowSize * b - WindowSize * a = WindowSize * (b - a)
    BY <1>1, <1>2, SMT
  <1>8. ~(a > b)
    <2> SUFFICES ASSUME a > b PROVE FALSE
      OBVIOUS
    <2>1. WindowSize * (a - b) >= WindowSize
      BY <1>1, <1>2, PositiveMultiple
    <2> QED BY <1>1, <1>6, <1>7, <2>1
  <1>9. ~(b > a)
    <2> SUFFICES ASSUME b > a PROVE FALSE
      OBVIOUS
    <2>1. WindowSize * (b - a) >= WindowSize
      BY <1>1, <1>2, PositiveMultiple
    <2> QED BY <1>1, <1>5, <1>6, <1>7, <2>1
  <1> QED BY <1>2, <1>5, <1>6, <1>8, <1>9

\* What is cut at its first NUL is still a sequence of bytes.
LEMMA UpToNulType ==
    ASSUME NEW bytes \in Bytes
    PROVE  UpToNul(bytes) \in Bytes
  <1> DEFINE nuls == {j \in DOMAIN bytes : bytes[j] = 0}
  <1>1. CASE nuls = {}
    BY <1>1 DEF UpToNul
  <1>2. CASE nuls # {}
    <2>1. DOMAIN bytes = 1 .. Len(bytes) /\ Len(bytes) \in Nat
      BY LenProperties DEF Bytes
    <2>2. nuls \in SUBSET Nat
      BY <2>1
    <2>7. \E j \in nuls : \A k \in nuls : j <= k
      <3> HIDE DEF nuls
      <3> QED BY <1>2, <2>2, LeastNatural
    <2> DEFINE first == CHOOSE j \in nuls : \A k \in nuls : j <= k
    <2>3. first \in 1 .. Len(bytes)
      BY <2>1, <2>7
    <2>4. \A i \in 1 .. first - 1 : bytes[i] \in Nat
      BY <2>1, <2>3, ElementOfSeq DEF Bytes
    <2>5. SubSeq(bytes, 1, first - 1) \in Seq(Nat)
      <3> HIDE DEF first
      <3> QED BY <2>3, <2>4, SubSeqProperties
    <2>6. UpToNul(bytes) = SubSeq(bytes, 1, first - 1)
      BY <1>2 DEF UpToNul
    <2> QED BY <2>5, <2>6 DEF Bytes
  <1> QED BY <1>1, <1>2

\* The operations keep a queue a queue.
LEMMA QueueType ==
    /\ init_queue \in [Slots -> Bytes]
    /\ \A queue \in [Slots -> Bytes], i \in Slots, buf \in Bytes :
         /\ add_element(queue, i, buf) \in [Slots -> Bytes]
         /\ remove_element(queue, i) \in [Slots -> Bytes]
  <1>1. <<>> \in Bytes
    BY EmptySeq DEF Bytes
  <1>2. ASSUME NEW queue \in [Slots -> Bytes], NEW i \in Slots, NEW buf \in Bytes
        PROVE  add_element(queue, i, buf) \in [Slots -> Bytes]
    <2> DEFINE old == queue[i]
    <2>1. /\ old \in Seq(Nat) /\ buf \in Seq(Nat)
          /\ Len(old) \in Nat /\ Len(buf) \in Nat
      BY LenProperties DEF Bytes
    <2>2. \A j \in Len(buf) + 1 .. Len(old) : old[j] \in Nat
      BY <2>1, ElementOfSeq
    <2>3. SubSeq(old, Len(buf) + 1, Len(old)) \in Seq(Nat)
      BY <2>1, <2>2, SubSeqProperties
    <2>4. buf \o SubSeq(old, Len(buf) + 1, Len(old)) \in Bytes
      BY <2>1, <2>3, ConcatProperties DEF Bytes
    <2> QED BY <2>4 DEF add_element
  <1> QED BY <1>1, <1>2 DEF init_queue, remove_element

----------------------------------------------------------------------------

\* The packets that fail their checksum.
Noise == {m \in Messages : m.flag = "CRC_ERROR"}

\* What the network makes of a packet is that packet or noise.
LEMMA ArrivesType ==
    ASSUME NEW m \in Messages, NEW fate
    PROVE  Arrives(m, fate) \in Messages /\ Arrives(m, fate) \in {m} \cup Noise
  <1>1. [Garbled EXCEPT !.from = m.from] \in Noise
    <2>1. <<>> \in Seq(Nat) /\ m.from \in Nat
      BY EmptySeq DEF Messages
    <2> QED BY <2>1 DEF Garbled, Signal, Packet, Messages, Flags, Noise
  <1> QED BY <1>1 DEF Arrives, Noise

\* A socket holds messages only.
LEMMA OnTheWayType ==
    ASSUME NEW socket \in Sockets
    PROVE  OnTheWay(socket) \subseteq Messages
  <1>1. socket.inbox \in Seq(Messages) /\ socket.late \subseteq Messages
    BY DEF Sockets
  <1>2. \A i \in DOMAIN socket.inbox : socket.inbox[i] \in Messages
    BY <1>1, LenProperties, ElementOfSeq
  <1> QED BY <1>1, <1>2 DEF OnTheWay

\* recvfrom hands over a message that was on its way and adds none.
LEMMA ReceivedType ==
    ASSUME NEW socket \in Sockets, Readable(socket)
    PROVE  /\ Head(socket.inbox) \in Messages
           /\ Head(socket.inbox) \in OnTheWay(socket)
           /\ Received(socket) \in Sockets
           /\ OnTheWay(Received(socket)) \subseteq OnTheWay(socket)
  <1> DEFINE q == socket.inbox
  <1>1. q \in Seq(Messages) /\ q # <<>>
    BY DEF Sockets, Readable
  <1>2. /\ Head(q) \in Messages
        /\ Tail(q) \in Seq(Messages)
        /\ Len(Tail(q)) = Len(q) - 1
        /\ \A i \in 1 .. Len(Tail(q)) : Tail(q)[i] = q[i + 1]
    BY <1>1, HeadTailProperties
  <1>3. Len(q) \in Nat \ {0} /\ DOMAIN q = 1 .. Len(q) /\ Head(q) = q[1]
    BY <1>1, EmptySeq, LenProperties
  <1>4. Head(q) \in OnTheWay(socket)
    BY <1>3 DEF OnTheWay
  <1>5. /\ Received(socket) \in Sockets
        /\ Received(socket).inbox = Tail(q)
        /\ Received(socket).late = socket.late
    <2>1. Head(q).from \in Nat
      BY <1>2 DEF Messages
    <2> QED BY <1>2, <2>1 DEF Received, Sockets
  <1>6. \A i \in DOMAIN Tail(q) : Tail(q)[i] \in {q[j] : j \in DOMAIN q}
    BY <1>2, <1>3, LenProperties
  <1>7. OnTheWay(Received(socket)) \subseteq OnTheWay(socket)
    BY <1>5, <1>6 DEF OnTheWay
  <1> QED BY <1>2, <1>4, <1>5, <1>7

\* A socket that was never used, or is closed, is a socket with nothing in it.
LEMMA EmptySockets ==
    /\ \A n \in Nat : NewSocket(n) \in Sockets /\ OnTheWay(NewSocket(n)) = {}
    /\ FreshSocket \in Sockets /\ OnTheWay(FreshSocket) = {}
    /\ ClosedSocket \in Sockets /\ OnTheWay(ClosedSocket) = {}
  <1>1. <<>> \in Seq(Messages)
    BY EmptySeq
  <1>2. \A n \in Nat, open \in BOOLEAN :
           /\ EmptySocket(n, open) \in Sockets
           /\ EmptySocket(n, open).inbox = <<>>
           /\ EmptySocket(n, open).late = {}
    BY <1>1 DEF EmptySocket, Sockets
  <1>3. \A socket : socket.inbox = <<>> /\ socket.late = {} => OnTheWay(socket) = {}
    BY EmptySeq DEF OnTheWay
  <1> QED BY <1>2, <1>3 DEF NewSocket, FreshSocket, ClosedSocket

\* A delayed copy that arrives was on its way.
LEMMA OvertakenType ==
    ASSUME NEW socket \in Sockets, NEW socketAfter,
           Overtaken(socket, socketAfter)
    PROVE  /\ socketAfter \in Sockets
           /\ OnTheWay(socketAfter) \subseteq OnTheWay(socket)
  <1> DEFINE q == socket.inbox
  <1>1. PICK m \in socket.late :
           socketAfter = [socket EXCEPT !.inbox = Append(@, m), !.late = @ \ {m}]
    BY DEF Overtaken
  <1>2. q \in Seq(Messages) /\ m \in Messages
    BY DEF Sockets
  <1>3. /\ Append(q, m) \in Seq(Messages)
        /\ Len(Append(q, m)) = Len(q) + 1
        /\ \A i \in 1 .. Len(q) : Append(q, m)[i] = q[i]
        /\ Append(q, m)[Len(q) + 1] = m
    BY <1>2, AppendProperties
  <1>4. /\ socketAfter \in Sockets
        /\ socketAfter.inbox = Append(q, m)
        /\ socketAfter.late = socket.late \ {m}
    BY <1>1, <1>3 DEF Sockets
  <1>5. \A i \in DOMAIN Append(q, m) : Append(q, m)[i] \in {q[j] : j \in DOMAIN q} \cup {m}
    BY <1>2, <1>3, LenProperties
  <1> QED BY <1>4, <1>5 DEF OnTheWay

\* sendtoErr: the receiver gets nothing but what it had coming, what was sent
\* and noise, and the count of faults keeps to its bound.
LEMMA TransmitEffect ==
    ASSUME NEW socket \in Sockets, NEW S, IsFiniteSet(S),
           NEW ms \in [S -> Messages], NEW socketAfter,
           faults \in 0 .. MaxFaults,
           Transmit(socket, ms, socketAfter)
    PROVE  /\ socketAfter \in Sockets
           /\ OnTheWay(socketAfter) \subseteq
                OnTheWay(socket) \cup {ms[k] : k \in S} \cup Noise
           /\ faults' \in 0 .. MaxFaults
  <1>1. CASE ~socket.open /\ socketAfter = socket /\ UNCHANGED faults
    BY <1>1
  <1>2. ASSUME NEW fate \in [S -> Fates \cup {"sent"}],
               NEW order \in Increasing(Arriving(fate)),
               faults' = faults + Cardinality(Hit(fate)),
               faults' <= MaxFaults,
               socketAfter = Fed(socket, ms, fate, order)
        PROVE  /\ socketAfter \in Sockets
               /\ OnTheWay(socketAfter) \subseteq
                    OnTheWay(socket) \cup {ms[k] : k \in S} \cup Noise
               /\ faults' \in 0 .. MaxFaults
    <2> DEFINE n   == Cardinality(Arriving(fate))
               new == [i \in DOMAIN order |-> Arrives(ms[order[i]], fate[order[i]])]
               q   == socket.inbox
    <2>1. /\ Hit(fate) \subseteq S /\ Arriving(fate) \subseteq S
          /\ Delayed(fate) \subseteq S
      BY DEF Hit, Arriving, Delayed
    <2>2. Cardinality(Hit(fate)) \in Nat /\ n \in Nat
      BY <2>1, FS_Subset, FS_CardinalityType
    <2>3. faults' \in 0 .. MaxFaults
      BY <1>2, <2>2, NetworkAssumption
    <2>4. order \in [1 .. n -> S]
      BY <2>1 DEF Increasing
    <2>5. /\ new \in [1 .. n -> Messages]
          /\ \A i \in 1 .. n : new[i] \in {ms[k] : k \in S} \cup Noise
      BY <2>4, ArrivesType
    <2>6. q \in Seq(Messages) /\ socket.late \subseteq Messages
      BY DEF Sockets
    <2> HIDE DEF n, new, q
    <2>7. new \in Seq(Messages)
      BY <2>2, <2>5, SeqDef
    <2>8. /\ q \o new \in Seq(Messages)
          /\ Len(q \o new) = Len(q) + Len(new)
          /\ \A i \in 1 .. Len(q) + Len(new) : (q \o new)[i] =
               IF i <= Len(q) THEN q[i] ELSE new[i - Len(q)]
      BY <2>6, <2>7, ConcatProperties
    <2>9. /\ Len(q) \in Nat /\ DOMAIN q = 1 .. Len(q)
          /\ Len(new) \in Nat /\ DOMAIN new = 1 .. Len(new)
          /\ DOMAIN (q \o new) = 1 .. Len(q \o new)
      BY <2>6, <2>7, <2>8, LenProperties
    <2>10. \A i \in DOMAIN (q \o new) :
              (q \o new)[i] \in {q[j] : j \in DOMAIN q} \cup {new[j] : j \in DOMAIN new}
      BY <2>8, <2>9
    <2>11. DOMAIN new = 1 .. n
      BY <2>5
    <2>12. socketAfter = [socket EXCEPT
                !.inbox = q \o new,
                !.late  = socket.late \cup {ms[k] : k \in Delayed(fate)}]
      BY <1>2 DEF Fed, q, new
    <2>13. {ms[k] : k \in Delayed(fate)} \subseteq {ms[k] : k \in S}
      BY <2>1
    <2>14. socketAfter \in Sockets
      <3>1. socket.late \cup {ms[k] : k \in Delayed(fate)} \in SUBSET Messages
        <4>1. \A k \in S : ms[k] \in Messages
          OBVIOUS
        <4>2. {ms[k] : k \in Delayed(fate)} \subseteq Messages
          BY <2>1, <4>1
        <4> QED BY <2>6, <4>2
      <3> DEFINE all  == q \o new
                 kept == socket.late \cup {ms[k] : k \in Delayed(fate)}
      <3>2. all \in Seq(Messages) /\ kept \in SUBSET Messages
        BY <2>8, <3>1
      <3>3. socketAfter = [socket EXCEPT !.inbox = all, !.late = kept]
        BY <2>12
      <3> HIDE DEF all, kept
      <3> QED BY <3>2, <3>3 DEF Sockets
    <2>15. OnTheWay(socketAfter) \subseteq
                OnTheWay(socket) \cup {ms[k] : k \in S} \cup Noise
      <3>1. {(q \o new)[i] : i \in DOMAIN (q \o new)} \subseteq
                OnTheWay(socket) \cup {ms[k] : k \in S} \cup Noise
        BY <2>5, <2>10, <2>11 DEF OnTheWay, q
      <3>2. socketAfter.inbox = q \o new
            /\ socketAfter.late = socket.late \cup {ms[k] : k \in Delayed(fate)}
        BY <2>12 DEF Sockets
      <3> QED BY <2>13, <3>1, <3>2 DEF OnTheWay
    <2> QED BY <2>3, <2>14, <2>15
  <1>3. DOMAIN ms = S
    OBVIOUS
  <1> QED BY <1>1, <1>2, <1>3 DEF Transmit

\* The same for a single packet, as the client sends them.
LEMMA TransmitOne ==
    ASSUME NEW socket \in Sockets, NEW m \in Messages, NEW socketAfter,
           faults \in 0 .. MaxFaults,
           Transmit(socket, <<m>>, socketAfter)
    PROVE  /\ socketAfter \in Sockets
           /\ OnTheWay(socketAfter) \subseteq OnTheWay(socket) \cup {m} \cup Noise
           /\ faults' \in 0 .. MaxFaults
  <1>1. <<m>> \in [1 .. 1 -> Messages] /\ <<m>>[1] = m
    OBVIOUS
  <1>2. IsFiniteSet(1 .. 1)
    <2>1. 1 .. 1 = {1}
      OBVIOUS
    <2> QED BY <2>1, FS_Singleton
  <1>3. {<<m>>[k] : k \in 1 .. 1} = {m}
    <2>1. \A k \in 1 .. 1 : k = 1
      OBVIOUS
    <2> QED BY <1>1, <2>1
  <1> QED BY <1>1, <1>2, <1>3, TransmitEffect
==============================================================================
