--------------------------- MODULE TransferProofs ---------------------------
(***************************************************************************)
(* Theorems about a transfer, for every file, window, bound and fate:      *)
(* TypeOK and AckNeverAhead are invariants of Spec.                        *)
(***************************************************************************)
EXTENDS Transfer, PartsProofs

(***************************************************************************)
(* What the two programs receive and send.                                 *)
(***************************************************************************)

\* The client takes a message that was on its way to it.
LEMMA ClientRecvType ==
    ASSUME toClient \in Sockets, NEW m, ClientRecv(m)
    PROVE  /\ m \in Messages /\ m \in OnTheWay(toClient)
           /\ toClient' \in Sockets
           /\ OnTheWay(toClient') \subseteq OnTheWay(toClient)
  BY ReceivedType DEF ClientRecv

\* The server takes a message that was on its way to it.
LEMMA ServerRecvType ==
    ASSUME toServer \in Sockets, NEW m, ServerRecv(m)
    PROVE  /\ m \in Messages /\ m \in OnTheWay(toServer)
           /\ toServer' \in Sockets
           /\ OnTheWay(toServer') \subseteq OnTheWay(toServer)
  BY ReceivedType DEF ServerRecv

\* The packets of both programs are messages.
LEMMA PacketType ==
    /\ \A flag \in Flags : Signal(flag) \in Messages
    /\ \A flag \in Flags, seq \in Nat, data \in Bytes :
         Packet(flag, seq, data) \in Messages
  <1>1. <<>> \in Seq(Nat)
    BY EmptySeq
  <1> QED BY <1>1 DEF Signal, Packet, Messages, Bytes

\* The name of the socket that sends a packet changes nothing else of it.
LEMMA FromServerType ==
    ASSUME toServer' \in Sockets, NEW m \in Messages
    PROVE  /\ FromServer(m) \in Messages
           /\ FromServer(m).flag = m.flag
           /\ FromServer(m).seq = m.seq
           /\ FromServer(m).data = m.data
  <1>1. toServer'.name \in Nat
    BY DEF Sockets
  <1> QED BY <1>1 DEF FromServer, Messages

\* What the client sends reaches the server's socket or nobody.
LEMMA SendToServerType ==
    ASSUME toServer \in Sockets, faults \in 0 .. MaxFaults,
           NEW me, NEW m \in Messages, SendToServer(me, m)
    PROVE  /\ toServer' \in Sockets
           /\ OnTheWay(toServer') \subseteq OnTheWay(toServer) \cup {m} \cup Noise
           /\ faults' \in 0 .. MaxFaults
  BY TransmitOne DEF SendToServer

\* What the server sends reaches the client's socket or nobody.
LEMMA SendToClientType ==
    ASSUME toClient \in Sockets, faults \in 0 .. MaxFaults, toServer' \in Sockets,
           NEW m \in Messages, SendToClient(m)
    PROVE  /\ toClient' \in Sockets
           /\ OnTheWay(toClient') \subseteq
                OnTheWay(toClient) \cup {FromServer(m)} \cup Noise
           /\ faults' \in 0 .. MaxFaults
  BY FromServerType, TransmitOne DEF SendToClient

\* A resend from a slot is a message.
LEMMA ResendType ==
    ASSUME toServer \in Sockets, faults \in 0 .. MaxFaults,
           cqueue \in [Slots -> Bytes], NEW me, NEW seq \in Nat, Resend(me, seq)
    PROVE  toServer' \in Sockets /\ faults' \in 0 .. MaxFaults
  <1>1. SlotOf(seq) \in Slots
    BY SlotOfType
  <1>2. UpToNul(cqueue[SlotOf(seq)]) \in Bytes
    BY <1>1, UpToNulType
  <1>3. Packet("DATA", seq, UpToNul(cqueue[SlotOf(seq)])) \in Messages
    BY <1>2, PacketType DEF Flags
  <1> QED BY <1>3, SendToServerType DEF Resend

(***************************************************************************)
(* The client keeps the types.                                             *)
(***************************************************************************)

\* The sockets before SETUP_RES is read.
LEMMA SetupAnswersType ==
    ASSUME NEW socket \in SetupAnswers
    PROVE  /\ socket \in Sockets
           /\ \A m \in OnTheWay(socket) : m.flag \in {"SETUP_RES", "CRC_ERROR"}
  <1>1. Signal("SETUP_RES") \in Messages /\ Garbled \in Messages
    BY PacketType DEF Flags, Garbled
  <1>2. \A m \in {Signal("SETUP_RES"), Garbled} :
          /\ m.flag \in {"SETUP_RES", "CRC_ERROR"}
          /\ <<m>> \in Seq(Messages) /\ {<<m>>[i] : i \in DOMAIN <<m>>} = {m}
    BY <1>1 DEF Signal, Packet, Garbled
  <1>3. PICK m \in {Signal("SETUP_RES"), Garbled}, late \in {{}, {Signal("SETUP_RES")}} :
          socket = [inbox |-> <<m>>, late |-> late, open |-> TRUE,
                    name |-> 0, remote |-> 0]
    BY DEF SetupAnswers, FreshSocket, NewSocket, EmptySocket
  <1>4. socket \in Sockets
    BY <1>1, <1>2, <1>3 DEF Sockets
  <1>5. OnTheWay(socket) = {m} \cup late
    BY <1>2, <1>3 DEF OnTheWay
  <1> QED BY <1>2, <1>4, <1>5

\* Every initial state is well typed.
LEMMA InitType == Init => TypeOK
  <1> SUFFICES ASSUME Init PROVE TypeOK
    OBVIOUS
  <1> USE DEF Init, RcopyInit, ServerInit
  <1>1. ClientTypeOK
    <2>1. nread \in 0 .. Len(File) /\ timeouts \in 0 .. MaxTimeouts
      BY RcopyAssumption, LenProperties
    <2>2. window \in Windows
      BY SizesPositive DEF FirstUpper, Windows
    <2>3. fnameRetry \in 0 .. MAX_TRIES + 1 /\ fnameRetry <= MAX_TRIES
      BY RcopyAssumption
    <2> QED BY <2>1, <2>2, <2>3, QueueType DEF ClientTypeOK, ClientStates, Outcomes
  <1>2. ServerTypeOK
    BY EmptySeq, QueueType DEF ServerTypeOK, ServerStates, Descriptors
  <1>3. NetworkTypeOK
    BY EmptySockets, SetupAnswersType, NetworkAssumption DEF NetworkTypeOK
  <1> QED BY <1>1, <1>2, <1>3 DEF TypeOK

\* A select that times out is counted within the bound.
LEMMA TimesOutType ==
    ASSUME timeouts \in 0 .. MaxTimeouts, TimesOut
    PROVE  timeouts' \in 0 .. MaxTimeouts
  BY RcopyAssumption DEF TimesOut

\* A send of FNAME, counted; filename() makes no try after its last.
LEMMA SendFnameType ==
    ASSUME TypeOK, NEW me, SendFname(me), fnameRetry <= MAX_TRIES
    PROVE  /\ fnameRetry' \in 0 .. MAX_TRIES + 1
           /\ toServer' \in Sockets /\ faults' \in 0 .. MaxFaults
  <1>1. Signal("FNAME") \in Messages
    BY PacketType DEF Flags
  <1>2. toServer' \in Sockets /\ faults' \in 0 .. MaxFaults
    BY <1>1, SendToServerType DEF SendFname, TypeOK, NetworkTypeOK
  <1>3. fnameRetry' \in 0 .. MAX_TRIES + 1
    BY RcopyAssumption DEF SendFname, TypeOK, ClientTypeOK
  <1> QED BY <1>2, <1>3

\* The counts of tries that leave another one.
LEMMA TriesLeft ==
    /\ \A n \in {0, 1} : n \in 0 .. MAX_TRIES + 1 /\ n <= MAX_TRIES
    /\ \A n \in 0 .. MAX_TRIES + 1 : ~TriesUsedUp(n) => n <= MAX_TRIES
  BY RcopyAssumption DEF TriesUsedUp

\* The other changes to the window leave it a window.
LEMMA WindowsType ==
    ASSUME NEW w \in Windows
    PROVE  /\ w.lower \in Nat /\ w.current \in Nat /\ w.current \in Int
           /\ [w EXCEPT !.current = @ + 1] \in Windows
           /\ [w EXCEPT !.current = @ + 1].lower = w.lower
           /\ \A e \in Int : /\ [w EXCEPT !.end = e] \in Windows
                            /\ [w EXCEPT !.end = e].lower = w.lower
  BY DEF Windows

\* An RR that moves the window leaves it a window.
LEMMA SlidType ==
    ASSUME window \in Windows,
           NEW rr \in Nat
    PROVE  /\ Slid(rr) \in Windows
           /\ Slid(rr).lower = rr
  <1>1. window.upper + (rr - window.lower) \in Int
    BY DEF Windows
  <1> QED BY <1>1 DEF Slid, Windows

\* filename() of the client.
LEMMA FilenameType ==
    ASSUME TypeOK,
           \/ Filename /\ UNCHANGED timeouts
           \/ FilenameTimeout
    PROVE  ClientTypeOK' /\ NetworkTypeOK'
  <1> USE DEF ClientTypeOK, NetworkTypeOK, ClientStates, Outcomes,
              GoTo, Exit, windowVars, networkVars
  <1>0. ClientTypeOK /\ NetworkTypeOK
    BY DEF TypeOK
  <1>1. CASE FilenameFirst /\ UNCHANGED timeouts
    <2>1. toClient' \in Sockets
      BY <1>0, <1>1, ClientRecvType DEF FilenameFirst
    <2>2. /\ fnameRetry = 0 /\ SendFname(toClient')
          /\ fnameRetry' = fnameRetry + 1
      BY <1>0, <1>1 DEF FilenameFirst, SendFname
    <2>3. fnameRetry' \in 0 .. MAX_TRIES + 1 /\ fnameRetry' <= MAX_TRIES
      <3>1. fnameRetry' = 1
        BY <2>2
      <3> QED BY <3>1, TriesLeft
    <2>4. toServer' \in Sockets /\ faults' \in 0 .. MaxFaults
      <3>1. fnameRetry <= MAX_TRIES
        BY <2>2, TriesLeft
      <3> DEFINE me == toClient'
      <3>2. SendFname(me)
        BY <2>2
      <3> HIDE DEF me
      <3> QED BY <3>1, <3>2, SendFnameType
    <2> QED BY <1>0, <1>1, <2>1, <2>3, <2>4 DEF FilenameFirst, SendFname
  <1>2. CASE FilenameGarbled /\ UNCHANGED timeouts
    BY <1>0, <1>2, EmptySockets DEF FilenameGarbled
  <1>3. CASE FilenameAgain /\ UNCHANGED timeouts
    <2>1. /\ fnameRetry' \in 0 .. MAX_TRIES + 1
          /\ toServer' \in Sockets /\ faults' \in 0 .. MaxFaults
      BY <1>0, <1>3, SendFnameType DEF FilenameAgain
    <2>2. CASE TriesUsedUp(fnameRetry')
      BY <1>0, <1>3, <2>1, <2>2, EmptySockets DEF FilenameAgain, SendFname
    <2>3. CASE ~TriesUsedUp(fnameRetry')
      <3>1. fnameRetry' <= MAX_TRIES
        BY <2>1, <2>3, TriesLeft
      <3> QED BY <1>0, <1>3, <2>1, <2>3, <3>1 DEF FilenameAgain, SendFname
    <2> QED BY <2>2, <2>3
  <1>4. CASE FilenameAnswered /\ UNCHANGED timeouts
    <2>1. fnameRetry' \in 0 .. MAX_TRIES + 1 /\ fnameRetry' <= MAX_TRIES
      BY <1>0, <1>4, TriesLeft DEF FilenameAnswered
    <2> QED BY <1>0, <1>4, <2>1 DEF FilenameAnswered
  <1>5. CASE FilenameTimeout
    BY <1>0, <1>5, TimesOutType DEF FilenameTimeout
  <1> QED BY <1>1, <1>2, <1>3, <1>4, <1>5 DEF Filename

\* get_data() of the client.
LEMMA GetDataType ==
    ASSUME TypeOK, GetData, UNCHANGED timeouts
    PROVE  ClientTypeOK' /\ NetworkTypeOK'
  <1> USE DEF ClientTypeOK, NetworkTypeOK, ClientStates, Outcomes,
              GoTo, Exit, windowVars, networkVars
  <1>0. ClientTypeOK /\ NetworkTypeOK
    BY DEF TypeOK
  <1>1. CASE GetNothing
    BY <1>0, <1>1 DEF GetNothing
  <1>2. CASE GetUnknown
    BY <1>0, <1>2, ClientRecvType DEF GetUnknown
  <1>3. CASE GetFnameRes
    BY <1>0, <1>3, ClientRecvType DEF GetFnameRes
  <1>4. CASE GetFopenErr
    BY <1>0, <1>4, EmptySockets DEF GetFopenErr
  <1>5. CASE GetRR
    <2>1. PICK m \in OnTheWay(toClient) :
            /\ ClientRecv(m)
            /\ window' \in {[window EXCEPT !.end = -1], Slid(m.seq)}
      BY <1>0, <1>5 DEF GetRR
    <2>2. m \in Messages /\ toClient' \in Sockets
      BY <1>0, <2>1, ClientRecvType
    <2>3. m.seq \in Nat
      BY <2>2 DEF Messages
    <2>4. window' \in Windows
      <3>1. window \in Windows
        BY <1>0
      <3>2. -1 \in Int
        OBVIOUS
      <3>3. [window EXCEPT !.end = -1] \in Windows
        BY <3>1, <3>2, WindowsType
      <3>4. Slid(m.seq) \in Windows
        BY <2>3, <3>1, SlidType
      <3> QED BY <2>1, <3>3, <3>4
    <2> QED BY <1>0, <1>5, <2>2, <2>4 DEF GetRR
  <1>6. CASE GetSREJ
    <2> DEFINE m == Head(toClient.inbox)
    <2>1. m \in Messages /\ Received(toClient) \in Sockets
      BY <1>0, <1>6, ReceivedType DEF GetSREJ
    <2>2. m.seq \in Nat
      BY <2>1 DEF Messages
    <2>3. CASE CanResend(m.seq)
      <3>1. toServer' \in Sockets /\ faults' \in 0 .. MaxFaults
        <4> DEFINE me == toClient'
        <4>1. Resend(me, m.seq)
          BY <1>6, <2>3 DEF GetSREJ
        <4> HIDE DEF me, m
        <4> QED BY <1>0, <2>2, <4>1, ResendType
      <3> QED BY <1>0, <1>6, <2>1, <2>3, <3>1 DEF GetSREJ
    <2>4. CASE ~CanResend(m.seq)
      BY <1>0, <1>6, <2>4, EmptySockets DEF GetSREJ, Crash
    <2> QED BY <2>3, <2>4
  <1>7. CASE GetEoF
    <2>1. toServer' \in Sockets /\ faults' \in 0 .. MaxFaults
      BY <1>0, <1>7, PacketType, SendToServerType DEF GetEoF, Flags
    <2> QED BY <1>0, <1>7, <2>1, EmptySockets, RcopyAssumption DEF GetEoF
  <1> QED BY <1>1, <1>2, <1>3, <1>4, <1>5, <1>6, <1>7 DEF GetData

\* send_data() of the client.
LEMMA SendDataType ==
    ASSUME TypeOK, SendData, UNCHANGED timeouts
    PROVE  ClientTypeOK' /\ NetworkTypeOK'
  <1> USE DEF ClientTypeOK, NetworkTypeOK, ClientStates, Outcomes,
              GoTo, Exit, windowVars, networkVars
  <1>0. ClientTypeOK /\ NetworkTypeOK
    BY DEF TypeOK
  <1>1. CASE SendChunk
    <2> DEFINE chunk == File[nread + 1]
               i     == SlotOf(window.current)
    <2>1. Len(File) \in Nat /\ nread + 1 \in 1 .. Len(File)
      <3>1. Len(File) \in Nat
        BY RcopyAssumption, LenProperties
      <3>2. nread \in 0 .. Len(File) /\ nread < Len(File)
        BY <1>0, <1>1 DEF SendChunk
      <3> QED BY <3>1, <3>2
    <2>2. chunk \in Bytes
      BY <2>1, RcopyAssumption, ElementOfSeq
    <2>3. window.current \in Nat /\ i \in Slots
      <3>1. window.current \in Nat
        BY <1>0, WindowsType
      <3> QED BY <3>1, SlotOfType
    <2>4. cqueue' \in [Slots -> Bytes]
      <3>1. remove_element(cqueue, i) \in [Slots -> Bytes]
        BY <1>0, <2>2, <2>3, QueueType
      <3>2. add_element(remove_element(cqueue, i), i, chunk) \in [Slots -> Bytes]
        BY <2>2, <2>3, <3>1, QueueType
      <3> QED BY <1>1, <3>2 DEF SendChunk
    <2>5. Packet("DATA", window.current, chunk) \in Messages
      BY <2>2, <2>3, PacketType DEF Flags
    <2>6. toServer' \in Sockets /\ faults' \in 0 .. MaxFaults
      BY <1>0, <1>1, <2>5, SendToServerType DEF SendChunk
    <2>7. window' \in Windows
      BY <1>0, <1>1, WindowsType DEF SendChunk
    <2>8. nread' \in 0 .. Len(File)
      BY <1>1, <2>1 DEF SendChunk
    <2>9. overrun' \in BOOLEAN
      BY <1>0, <1>1 DEF SendChunk
    <2> HIDE DEF chunk, i
    <2> QED BY <1>0, <1>1, <2>4, <2>6, <2>7, <2>8, <2>9 DEF SendChunk
  <1>2. CASE ReachEndOfFile
    <2>1. window' \in Windows
      <3>1. window \in Windows
        BY <1>0
      <3>2. window.current \in Int
        BY <3>1, WindowsType
      <3> QED BY <1>2, <3>1, <3>2, WindowsType DEF ReachEndOfFile
    <2> QED BY <1>0, <1>2, <2>1 DEF ReachEndOfFile
  <1>3. CASE ReadError
    BY <1>0, <1>3, EmptySockets DEF ReadError, Crash
  <1> QED BY <1>1, <1>2, <1>3 DEF SendData

\* window_status() of the client.
LEMMA WindowType ==
    ASSUME TypeOK,
           \/ WindowStatus /\ UNCHANGED timeouts
           \/ WindowGivesUp \/ WindowResends \/ WindowSendsEoF
    PROVE  ClientTypeOK' /\ NetworkTypeOK'
  <1> USE DEF ClientTypeOK, NetworkTypeOK, ClientStates, Outcomes,
              GoTo, Exit, windowVars, networkVars
  <1>0. ClientTypeOK /\ NetworkTypeOK
    BY DEF TypeOK
  <1>1. CASE WindowOpen /\ UNCHANGED timeouts
    BY <1>0, <1>1 DEF WindowOpen
  <1>2. CASE WindowAnswered /\ UNCHANGED timeouts
    BY <1>0, <1>2 DEF WindowAnswered, RetryAfterAnswer
  <1>3. CASE WindowGivesUp
    BY <1>0, <1>3, TimesOutType, EmptySockets DEF WindowGivesUp
  <1>4. CASE WindowResends
    <2>1. timeouts' \in 0 .. MaxTimeouts /\ retryCount' \in Nat
      <3>1. retryCount \in Nat /\ timeouts \in 0 .. MaxTimeouts
        BY <1>0
      <3>2. retryCount' = retryCount + 1 /\ TimesOut
        BY <1>4 DEF WindowResends
      <3>3. retryCount' \in Nat
        BY <3>1, <3>2
      <3> QED BY <3>1, <3>2, <3>3, TimesOutType
    <2>2. CASE CanResend(window.lower)
      <3>1. toServer' \in Sockets /\ faults' \in 0 .. MaxFaults
        BY <1>0, <1>4, <2>2, ResendType, WindowsType DEF WindowResends
      <3>2. /\ cstate' = "WINDOW"
            /\ UNCHANGED <<toClient, fnameRetry, window, cqueue, nread, overrun, outcome>>
        BY <1>4, <2>2 DEF WindowResends
      <3> QED BY <1>0, <1>4, <2>1, <3>1, <3>2 DEF WindowResends
    <2>3. CASE ~CanResend(window.lower)
      <3>1. /\ cstate' = "CRASHED" /\ outcome' = "crash" /\ toClient' = ClosedSocket
            /\ UNCHANGED <<toServer, faults, fnameRetry, window, cqueue, nread, overrun>>
        BY <1>4, <2>3 DEF WindowResends, Crash
      <3> QED BY <1>0, <1>4, <2>1, <3>1, EmptySockets DEF WindowResends
    <2> QED BY <2>2, <2>3
  <1>5. CASE WindowSendsEoF
    <2>1. timeouts' \in 0 .. MaxTimeouts /\ retryCount' \in Nat
      <3>1. retryCount \in Nat /\ timeouts \in 0 .. MaxTimeouts
        BY <1>0
      <3>2. retryCount' = retryCount + 1 /\ TimesOut
        BY <1>5 DEF WindowSendsEoF
      <3>3. retryCount' \in Nat
        BY <3>1, <3>2
      <3> QED BY <3>1, <3>2, <3>3, TimesOutType
    <2>2. toServer' \in Sockets /\ faults' \in 0 .. MaxFaults
      BY <1>0, <1>5, PacketType, SendToServerType DEF WindowSendsEoF, Flags
    <2>3. window' \in Windows
      BY <1>0, <1>5, WindowsType DEF WindowSendsEoF
    <2> QED BY <1>0, <1>5, <2>1, <2>2, <2>3 DEF WindowSendsEoF
  <1> QED BY <1>1, <1>2, <1>3, <1>4, <1>5 DEF WindowStatus

\* A step of the client keeps the types of what it may change.
LEMMA RcopyNextType ==
    ASSUME TypeOK, RcopyNext
    PROVE  ClientTypeOK' /\ NetworkTypeOK'
  BY FilenameType, GetDataType, SendDataType, WindowType
     DEF RcopyNext, RcopyTimeout

(***************************************************************************)
(* The server keeps the types.                                             *)
(***************************************************************************)

\* handle_srej stops: there is a number of chunks buffered in a row.
LEMMA RunLengthType ==
    ASSUME squeue \in [Slots -> Bytes], NEW e \in Int
    PROVE  LET n == RunLength(e)
           IN  /\ n \in 0 .. WindowSize
               /\ \A j \in 0 .. n - 1 : ~IsNull(squeue, SlotOf(e + j))
               /\ n = WindowSize \/ IsNull(squeue, SlotOf(e + n))
  <1> DEFINE S == {n \in 0 .. WindowSize :
                     n = WindowSize \/ IsNull(squeue, SlotOf(e + n))}
  <1>1. WindowSize \in Nat
    BY SizesPositive
  <1>2. S \in SUBSET Nat /\ WindowSize \in S
    BY <1>1
  <1>3. PICK n \in S : \A k \in S : n <= k
    <2> HIDE DEF S
    <2> QED BY <1>2, LeastNatural
  <1>4. n \in 0 .. WindowSize
    OBVIOUS
  <1>5. \A j \in 0 .. n - 1 : ~IsNull(squeue, SlotOf(e + j))
    <2> SUFFICES ASSUME NEW j \in 0 .. n - 1, IsNull(squeue, SlotOf(e + j))
                 PROVE  FALSE
      OBVIOUS
    <2>1. j \in 0 .. WindowSize /\ j < n
      BY <1>1, <1>4
    <2>2. j \in S
      BY <2>1
    <2> QED BY <1>3, <1>4, <2>1, <2>2
  <1> QED BY <1>3, <1>4, <1>5 DEF RunLength

\* What get_data asks for lies between the packet expected and the one that
\* came, and there is only so much of it.
LEMMA MissingType ==
    ASSUME NEW queue, expected \in Nat \ {0}, NEW seq \in Nat
    PROVE  /\ Missing(queue, seq) \subseteq expected .. seq - 1
           /\ IsFiniteSet(Missing(queue, seq))
           /\ Cardinality(Missing(queue, seq)) \in Nat
  <1>1. Missing(queue, seq) \in SUBSET (expected .. seq - 1)
    BY DEF Missing
  <1>2. IsFiniteSet(expected .. seq - 1)
    BY FS_Interval
  <1>3. IsFiniteSet(Missing(queue, seq))
    BY <1>1, <1>2, FS_Subset
  <1> QED BY <1>1, <1>3, FS_CardinalityType

\* What write appends is bytes, whether the file is open or not.
LEMMA WriteType ==
    ASSUME written \in Seq(Bytes), NEW chunks \in Seq(Bytes), Write(chunks)
    PROVE  written' \in Seq(Bytes)
  <1>1. written \o chunks \in Seq(Bytes)
    BY ConcatProperties
  <1> QED BY <1>1 DEF Write

\* An RR for a chunk number is a message.
LEMMA AcknowledgeType ==
    ASSUME toClient \in Sockets, faults \in 0 .. MaxFaults, toServer' \in Sockets,
           NEW e \in Nat, AcknowledgeUpTo(e)
    PROVE  /\ toClient' \in Sockets
           /\ OnTheWay(toClient') \subseteq
                OnTheWay(toClient) \cup {FromServer(Packet("RR", e, <<>>))} \cup Noise
           /\ faults' \in 0 .. MaxFaults
  <1>1. <<>> \in Bytes
    BY EmptySeq DEF Bytes
  <1>2. Packet("RR", e, <<>>) \in Messages
    BY <1>1, PacketType DEF Flags
  <1> QED BY <1>2, SendToClientType DEF AcknowledgeUpTo

\* A step of the server that acknowledges no more than it has.
AcksWhatItHas ==
    /\ expected <= expected'
    /\ \A m \in OnTheWay(toClient') :
         m.flag = "RR" => m \in OnTheWay(toClient) \/ m.seq <= expected'

\* A signal from the server to the client is no acknowledgement.
LEMMA SignalEffect ==
    ASSUME TypeOK, NEW flag \in Flags \ {"RR"}, SendToClient(Signal(flag)),
           toServer' \in Sockets, UNCHANGED expected
    PROVE  toClient' \in Sockets /\ faults' \in 0 .. MaxFaults /\ AcksWhatItHas
  <1>1. toClient \in Sockets /\ faults \in 0 .. MaxFaults /\ expected \in Nat
    BY DEF TypeOK, NetworkTypeOK, ServerTypeOK
  <1>2. Signal(flag) \in Messages
    BY PacketType
  <1>3. /\ toClient' \in Sockets /\ faults' \in 0 .. MaxFaults
        /\ OnTheWay(toClient') \subseteq
             OnTheWay(toClient) \cup {FromServer(Signal(flag))} \cup Noise
    BY <1>1, <1>2, SendToClientType
  <1>4. FromServer(Signal(flag)).flag # "RR" /\ \A m \in Noise : m.flag # "RR"
    BY <1>2, FromServerType DEF Signal, Packet, Noise
  <1>5. expected <= expected'
    BY <1>1
  <1> QED BY <1>3, <1>4, <1>5 DEF AcksWhatItHas

\* Nor is a step that leaves the client's socket and expected alone.
LEMMA SilentEffect ==
    ASSUME TypeOK, UNCHANGED <<toClient, expected>>
    PROVE  AcksWhatItHas
  <1>1. expected \in Nat
    BY DEF TypeOK, ServerTypeOK
  <1>2. expected <= expected'
    BY <1>1
  <1> QED BY <1>2 DEF AcksWhatItHas

\* An RR for what is expected after the step acknowledges what is written.
LEMMA AcknowledgeEffect ==
    ASSUME TypeOK, toServer' \in Sockets, expected' \in Nat,
           expected <= expected', AcknowledgeUpTo(expected')
    PROVE  toClient' \in Sockets /\ faults' \in 0 .. MaxFaults /\ AcksWhatItHas
  <1>1. toClient \in Sockets /\ faults \in 0 .. MaxFaults
    BY DEF TypeOK, NetworkTypeOK
  <1> DEFINE e == expected'
  <1>2. e \in Nat /\ AcknowledgeUpTo(e)
    OBVIOUS
  <1> HIDE DEF e
  <1>3. /\ toClient' \in Sockets /\ faults' \in 0 .. MaxFaults
        /\ OnTheWay(toClient') \subseteq
             OnTheWay(toClient) \cup {FromServer(Packet("RR", e, <<>>))} \cup Noise
    BY <1>1, <1>2, AcknowledgeType
  <1>4. /\ FromServer(Packet("RR", e, <<>>)).seq = e /\ e <= e
        /\ \A m \in Noise : m.flag # "RR"
    <2>1. Packet("RR", e, <<>>) \in Messages /\ Packet("RR", e, <<>>).seq = e
      BY <1>2, EmptySeq, PacketType DEF Packet, Flags, Bytes
    <2> QED BY <1>2, <2>1, FromServerType DEF Noise
  <1> QED BY <1>3, <1>4 DEF AcksWhatItHas, e

\* filename() of the server, and its end of waiting.
LEMMA ServerFilenameType ==
    ASSUME TypeOK, FilenameOpens \/ FilenameOther \/ Reconnect \/ GiveUp
    PROVE  ServerTypeOK' /\ NetworkTypeOK' /\ AcksWhatItHas
  <1> USE DEF ServerTypeOK, NetworkTypeOK, ServerStates, Descriptors, recvVars
  <1>0. ServerTypeOK /\ NetworkTypeOK
    BY DEF TypeOK
  <1>1. CASE FilenameOpens
    <2>1. toServer' \in Sockets
      BY <1>0, <1>1, ServerRecvType DEF FilenameOpens
    <2>2. PICK ok \in Opens :
            /\ fd' = IF ok THEN "open" ELSE "failed"
            /\ SendToClient(Signal(OpenAnswer(ok)))
      BY <1>1 DEF FilenameOpens
    <2>3. OpenAnswer(ok) \in Flags \ {"RR"}
      BY DEF OpenAnswer, Flags
    <2>4. toClient' \in Sockets /\ faults' \in 0 .. MaxFaults /\ AcksWhatItHas
      BY <1>1, <2>1, <2>2, <2>3, SignalEffect DEF FilenameOpens
    <2> QED BY <1>0, <1>1, <2>1, <2>2, <2>4 DEF FilenameOpens
  <1>2. CASE FilenameOther
    <2>1. toServer' \in Sockets
      BY <1>0, <1>2, ServerRecvType DEF FilenameOther
    <2>2. sstate' \in ServerStates
      BY <1>2 DEF FilenameOther
    <2>3. AcksWhatItHas
      BY <1>2, SilentEffect DEF FilenameOther
    <2> QED BY <1>0, <1>2, <2>1, <2>2, <2>3 DEF FilenameOther
  <1>3. CASE GiveUp
    <2>1. AcksWhatItHas
      BY <1>3, SilentEffect DEF GiveUp
    <2> QED BY <1>0, <1>3, <2>1, EmptySockets DEF GiveUp, CloseFd
  <1>4. CASE Reconnect
    <2>1. toServer' \in Sockets
      <3>1. toServer.name + 1 \in Nat
        BY <1>0 DEF Sockets
      <3> QED BY <1>4, <3>1, EmptySockets DEF Reconnect
    <2>2. toClient' \in Sockets /\ faults' \in 0 .. MaxFaults /\ AcksWhatItHas
      BY <1>4, <2>1, SignalEffect DEF Reconnect, Flags
    <2> QED BY <1>0, <1>4, <2>1, <2>2 DEF Reconnect
  <1> QED BY <1>1, <1>2, <1>3, <1>4

\* wait_data() of the server, for every flag but DATA.
LEMMA WaitDataType ==
    ASSUME TypeOK, FnameAgain \/ CloseFile \/ ClientTerminated \/ IgnorePacket
    PROVE  ServerTypeOK' /\ NetworkTypeOK' /\ AcksWhatItHas
  <1> USE DEF ServerTypeOK, NetworkTypeOK, ServerStates, Descriptors, recvVars,
              serverVars
  <1>0. ServerTypeOK /\ NetworkTypeOK
    BY DEF TypeOK
  <1>1. CASE FnameAgain
    <2>1. toServer' \in Sockets
      BY <1>0, <1>1, ServerRecvType DEF FnameAgain
    <2>2. toClient' \in Sockets /\ faults' \in 0 .. MaxFaults /\ AcksWhatItHas
      BY <1>1, <2>1, SignalEffect DEF FnameAgain, Flags
    <2> QED BY <1>0, <1>1, <2>1, <2>2 DEF FnameAgain
  <1>2. CASE CloseFile
    <2>1. toServer' \in Sockets
      BY <1>0, <1>2, ServerRecvType DEF CloseFile
    <2>2. toClient' \in Sockets /\ faults' \in 0 .. MaxFaults /\ AcksWhatItHas
      BY <1>2, <2>1, SignalEffect DEF CloseFile, Flags
    <2> QED BY <1>0, <1>2, <2>1, <2>2 DEF CloseFile, CloseFd
  <1>3. CASE ClientTerminated
    <2>1. AcksWhatItHas
      BY <1>3, SilentEffect DEF ClientTerminated
    <2> QED BY <1>0, <1>3, <2>1, EmptySockets DEF ClientTerminated
  <1>4. CASE IgnorePacket
    <2>1. toServer' \in Sockets
      BY <1>0, <1>4, ServerRecvType DEF IgnorePacket
    <2>2. AcksWhatItHas
      BY <1>4, SilentEffect DEF IgnorePacket
    <2> QED BY <1>0, <1>4, <2>1, <2>2 DEF IgnorePacket
  <1> QED BY <1>1, <1>2, <1>3, <1>4

\* get_data() of the server: the expected packet, nothing outstanding.
LEMMA InOrderType ==
    ASSUME TypeOK, toServer' \in Sockets, NEW m \in Messages, InOrder(m),
           UNCHANGED <<sstate, fd>>
    PROVE  /\ ServerTypeOK' /\ AcksWhatItHas
           /\ toClient' \in Sockets /\ faults' \in 0 .. MaxFaults
  <1>0. ServerTypeOK
    BY DEF TypeOK
  <1>1. written' \in Seq(Bytes)
    <2>1. <<m.data>> \in Seq(Bytes)
      BY DEF Messages, Bytes
    <2> QED BY <1>0, <2>1, WriteType DEF InOrder, ServerTypeOK
  <1>2. /\ expected' \in Nat \ {0} /\ expected <= expected'
        /\ AcknowledgeUpTo(expected')
    BY <1>0 DEF InOrder, ServerTypeOK
  <1>3. toClient' \in Sockets /\ faults' \in 0 .. MaxFaults /\ AcksWhatItHas
    BY <1>2, AcknowledgeEffect
  <1> QED BY <1>0, <1>1, <1>2, <1>3 DEF ServerTypeOK, InOrder

\* get_data() with handle_srej(): the chunks written after a gap.
LEMMA FillsGapType ==
    ASSUME TypeOK, toServer' \in Sockets, NEW m \in Messages, FillsGap(m),
           UNCHANGED <<sstate, fd>>
    PROVE  /\ ServerTypeOK' /\ AcksWhatItHas
           /\ toClient' \in Sockets /\ faults' \in 0 .. MaxFaults
  <1> DEFINE next  == expected + 1
             n     == RunLength(next)
             run   == [j \in 1 .. n |-> UpToNul(squeue[SlotOf(next + j - 1)])]
             slots == {SlotOf(next + j - 1) : j \in 1 .. n}
  <1>0. ServerTypeOK
    BY DEF TypeOK
  <1>1. next \in Nat /\ n \in Nat
    <2>1. next \in Nat
      BY <1>0 DEF ServerTypeOK
    <2>2. squeue \in [Slots -> Bytes]
      BY <1>0 DEF ServerTypeOK
    <2>3. n \in 0 .. WindowSize
      BY <2>1, <2>2, RunLengthType
    <2> QED BY <2>1, <2>3, SizesPositive
  <1>2. run \in Seq(Bytes)
    <2>1. \A j \in 1 .. n : SlotOf(next + j - 1) \in Slots
      BY <1>1, SlotOfType
    <2>2. \A j \in 1 .. n : UpToNul(squeue[SlotOf(next + j - 1)]) \in Bytes
      BY <1>0, <2>1, UpToNulType DEF ServerTypeOK
    <2> HIDE DEF n, next
    <2> QED BY <1>1, <2>2, IsASeq
  <1>3. /\ Write(<<m.data>> \o run)
        /\ squeue' = [i \in Slots |-> IF i \in slots THEN <<>> ELSE squeue[i]]
        /\ rejects' = [i \in Slots |->
             IF i \in slots \cup {SlotOf(expected)} THEN 0 ELSE rejects[i]]
        /\ srejTotal' = srejTotal - 1 - n
        /\ expected' = next + n
        /\ AcknowledgeUpTo(next + n)
    BY DEF FillsGap, Emptied, Handled
  <1> HIDE DEF n, run, slots
  <1>4. written' \in Seq(Bytes)
    <2>1. <<m.data>> \in Seq(Bytes)
      BY DEF Messages, Bytes
    <2>2. <<m.data>> \o run \in Seq(Bytes)
      BY <1>2, <2>1, ConcatProperties
    <2> QED BY <1>0, <1>3, <2>2, WriteType DEF ServerTypeOK
  <1>5. squeue' \in [Slots -> Bytes]
    <2>1. <<>> \in Bytes
      BY EmptySeq DEF Bytes
    <2> QED BY <1>0, <1>3, <2>1 DEF ServerTypeOK
  <1>6. rejects' \in [Slots -> Nat]
    BY <1>0, <1>3 DEF ServerTypeOK
  <1>7. srejTotal' \in Int
    BY <1>0, <1>1, <1>3 DEF ServerTypeOK
  <1>8. expected \in Nat \ {0} /\ expected' = expected + 1 + n
    BY <1>0, <1>3 DEF ServerTypeOK
  <1>9. /\ expected' \in Nat \ {0} /\ expected <= expected'
        /\ AcknowledgeUpTo(expected')
    BY <1>1, <1>3, <1>8
  <1>10. toClient' \in Sockets /\ faults' \in 0 .. MaxFaults /\ AcksWhatItHas
    BY <1>9, AcknowledgeEffect
  <1> QED BY <1>0, <1>4, <1>5, <1>6, <1>7, <1>9, <1>10 DEF ServerTypeOK

\* get_data(): a duplicate.
LEMMA DuplicateType ==
    ASSUME TypeOK, toServer' \in Sockets, NEW m \in Messages, Duplicate(m),
           UNCHANGED <<sstate, fd>>
    PROVE  /\ ServerTypeOK' /\ AcksWhatItHas
           /\ toClient' \in Sockets /\ faults' \in 0 .. MaxFaults
  <1>0. ServerTypeOK
    BY DEF TypeOK
  <1>1. UNCHANGED <<sstate, fd, written, expected, srejTotal, rejects, squeue>>
    BY DEF Duplicate, recvVars
  <1>2. /\ expected' \in Nat /\ expected <= expected' /\ AcknowledgeUpTo(expected')
    BY <1>0, <1>1 DEF ServerTypeOK, Duplicate
  <1>3. toClient' \in Sockets /\ faults' \in 0 .. MaxFaults /\ AcksWhatItHas
    BY <1>2, AcknowledgeEffect
  <1> QED BY <1>0, <1>1, <1>3 DEF ServerTypeOK

\* get_data(): a packet ahead of the expected one, and the SREJs it causes.
LEMMA OutOfOrderType ==
    ASSUME TypeOK, toServer' \in Sockets, NEW m \in Messages, OutOfOrder(m),
           UNCHANGED <<sstate, fd>>
    PROVE  /\ ServerTypeOK' /\ AcksWhatItHas
           /\ toClient' \in Sockets /\ faults' \in 0 .. MaxFaults
  <1>0. ServerTypeOK /\ NetworkTypeOK
    BY DEF TypeOK
  <1>1. CASE ~IsNull(squeue, SlotOf(m.seq))
    <2>1. UNCHANGED <<squeue, srejTotal, rejects, toClient, faults, written, expected>>
      BY <1>1 DEF OutOfOrder
    <2>2. AcksWhatItHas
      BY <2>1, SilentEffect
    <2> QED BY <1>0, <2>1, <2>2 DEF ServerTypeOK, NetworkTypeOK
  <1>2. CASE IsNull(squeue, SlotOf(m.seq))
    <2> DEFINE queue   == add_element(squeue, SlotOf(m.seq), m.data)
               missing == Missing(queue, m.seq)
               ms      == [k \in missing |-> FromServer(Packet("SREJ", k, <<>>))]
               ks(i)   == {k \in missing : SlotOf(k) = i}
    <2>1. m.seq \in Nat /\ m.data \in Bytes /\ SlotOf(m.seq) \in Slots
      BY SlotOfType DEF Messages, Bytes
    <2>2. queue \in [Slots -> Bytes]
      BY <1>0, <2>1, QueueType DEF ServerTypeOK
    <2>3. /\ missing \subseteq expected .. m.seq - 1
          /\ IsFiniteSet(missing) /\ Cardinality(missing) \in Nat
      BY <1>0, <2>1, MissingType DEF ServerTypeOK
    <2>4. /\ squeue' = queue
          /\ srejTotal' = srejTotal + Cardinality(missing)
          /\ rejects' = [i \in Slots |->
               IF ks(i) = {} THEN rejects[i]
               ELSE CHOOSE k \in ks(i) : \A l \in ks(i) : l <= k]
          /\ Transmit(toClient, ms, toClient')
          /\ UNCHANGED <<written, expected>>
      BY <1>2 DEF OutOfOrder
    <2> HIDE DEF queue, missing
    <2>5. \A k \in missing : k \in Nat /\ k <= m.seq
      BY <1>0, <2>1, <2>3 DEF ServerTypeOK
    <2>6. rejects' \in [Slots -> Nat]
      <3> SUFFICES ASSUME NEW i \in Slots, ks(i) # {}
                   PROVE  (CHOOSE k \in ks(i) : \A l \in ks(i) : l <= k) \in Nat
        BY <1>0, <2>4 DEF ServerTypeOK
      <3>1. ks(i) \in SUBSET Nat /\ \A k \in ks(i) : k <= m.seq
        BY <2>5
      <3>2. \E k \in ks(i) : \A l \in ks(i) : l <= k
        <4> HIDE DEF ks
        <4> QED BY <2>1, <3>1, GreatestNatural
      <3> QED BY <3>1, <3>2
    <2>7. \A k \in missing : ms[k] \in Messages /\ ms[k].flag # "RR"
      <3> SUFFICES ASSUME NEW k \in missing
                   PROVE  /\ FromServer(Packet("SREJ", k, <<>>)) \in Messages
                          /\ FromServer(Packet("SREJ", k, <<>>)).flag # "RR"
        OBVIOUS
      <3>1. Packet("SREJ", k, <<>>) \in Messages
        BY <2>5, EmptySeq, PacketType DEF Flags, Bytes
      <3> QED BY <3>1, FromServerType DEF Packet
    <2>8. /\ toClient' \in Sockets /\ faults' \in 0 .. MaxFaults
          /\ OnTheWay(toClient') \subseteq
               OnTheWay(toClient) \cup {ms[k] : k \in missing} \cup Noise
      <3>2. ms \in [missing -> Messages]
        BY <2>7
      <3> HIDE DEF ms
      <3>1. /\ toClient \in Sockets /\ faults \in 0 .. MaxFaults
            /\ IsFiniteSet(missing) /\ ms \in [missing -> Messages]
            /\ Transmit(toClient, ms, toClient')
        BY <1>0, <2>3, <2>4, <3>2 DEF NetworkTypeOK
      <3> QED BY <3>1, TransmitEffect
    <2>9. AcksWhatItHas
      <3>1. \A x \in Noise : x.flag # "RR"
        BY DEF Noise
      <3>2. expected <= expected'
        BY <1>0, <2>4 DEF ServerTypeOK
      <3> HIDE DEF ms
      <3> QED BY <2>7, <2>8, <3>1, <3>2 DEF AcksWhatItHas
    <2>10. srejTotal' \in Int
      BY <1>0, <2>3, <2>4 DEF ServerTypeOK
    <2> QED BY <1>0, <2>2, <2>4, <2>6, <2>8, <2>9, <2>10 DEF ServerTypeOK
  <1> QED BY <1>1, <1>2

\* A step of the server keeps the types of what it may change.
LEMMA ServerNextType ==
    ASSUME TypeOK, ServerNext
    PROVE  ServerTypeOK' /\ NetworkTypeOK' /\ AcksWhatItHas
  <1>1. CASE ReceiveData
    <2>1. PICK m \in OnTheWay(toServer) :
            /\ DataArrives(m)
            /\ InOrder(m) \/ FillsGap(m) \/ Duplicate(m) \/ OutOfOrder(m)
      BY <1>1 DEF ReceiveData
    <2>2. m \in Messages /\ toServer' \in Sockets
      BY <2>1, ServerRecvType DEF DataArrives, TypeOK, NetworkTypeOK
    <2>3. UNCHANGED <<sstate, fd>>
      BY <2>1 DEF DataArrives
    <2>4. /\ ServerTypeOK' /\ AcksWhatItHas
          /\ toClient' \in Sockets /\ faults' \in 0 .. MaxFaults
      BY <2>1, <2>2, <2>3, InOrderType, FillsGapType, DuplicateType, OutOfOrderType
    <2> QED BY <2>2, <2>4 DEF NetworkTypeOK
  <1> QED BY <1>1, ServerFilenameType, WaitDataType DEF ServerNext, WaitData


(***************************************************************************)
(* TypeOK is an invariant.                                                 *)
(***************************************************************************)

\* A step of the network delays nothing new.
LEMMA LateArrivalType ==
    ASSUME toServer \in Sockets, toClient \in Sockets, LateArrival
    PROVE  /\ toServer' \in Sockets /\ toClient' \in Sockets
           /\ OnTheWay(toClient') \subseteq OnTheWay(toClient)
           /\ faults' = faults
  <1>1. CASE Overtaken(toServer, toServer') /\ UNCHANGED toClient
    BY <1>1, OvertakenType DEF LateArrival
  <1>2. CASE Overtaken(toClient, toClient') /\ UNCHANGED toServer
    BY <1>2, OvertakenType DEF LateArrival
  <1> QED BY <1>1, <1>2 DEF LateArrival

\* Every step keeps the types.
LEMMA NextType == TypeOK /\ [Next]_vars => TypeOK'
  <1> SUFFICES ASSUME TypeOK, [Next]_vars PROVE TypeOK'
    OBVIOUS
  <1>0. ClientTypeOK /\ ServerTypeOK /\ NetworkTypeOK
    BY DEF TypeOK
  <1>1. CASE RcopyNext /\ UNCHANGED serverVars
    <2>1. ServerTypeOK'
      BY <1>0, <1>1 DEF ServerTypeOK, serverVars, recvVars
    <2> QED BY <1>1, <2>1, RcopyNextType DEF TypeOK
  <1>2. CASE ServerNext /\ UNCHANGED rcopyVars
    <2>1. ClientTypeOK'
      BY <1>0, <1>2 DEF ClientTypeOK, rcopyVars, windowVars
    <2> QED BY <1>2, <2>1, ServerNextType DEF TypeOK
  <1>3. CASE LateArrival /\ UNCHANGED <<rcopyVars, serverVars>>
    <2>1. ClientTypeOK' /\ ServerTypeOK'
      BY <1>0, <1>3 DEF ClientTypeOK, rcopyVars, windowVars,
                        ServerTypeOK, serverVars, recvVars
    <2>2. NetworkTypeOK'
      BY <1>0, <1>3, LateArrivalType DEF NetworkTypeOK
    <2> QED BY <2>1, <2>2 DEF TypeOK
  <1>4. CASE UNCHANGED vars
    BY <1>0, <1>4 DEF TypeOK, ClientTypeOK, ServerTypeOK, NetworkTypeOK, vars,
                      rcopyVars, windowVars, serverVars, recvVars, networkVars
  <1> QED BY <1>1, <1>2, <1>3, <1>4 DEF Next

\* In every transfer all variables keep their ranges: filename() of rcopy.c
\* stops after MAX_TRIES tries, the window and both buffers stay what their
\* initialisation made them, and whatever is written, sent or buffered by
\* get_data and handle_srej of server.c is a chunk for a slot that exists.
THEOREM TypeCorrect == Spec => []TypeOK
  <1>1. Init => TypeOK
    BY InitType
  <1>2. TypeOK /\ [Next]_vars => TypeOK'
    BY NextType
  <1> QED BY <1>1, <1>2, PTL DEF Spec

(***************************************************************************)
(* AckNeverAhead is an invariant: it is inductive given TypeOK.            *)
(***************************************************************************)

\* A step of the client that tells it nothing new about lower.
LowerFromRR ==
    /\ OnTheWay(toClient') \subseteq OnTheWay(toClient)
    /\ \/ window'.lower = window.lower
       \/ \E m \in OnTheWay(toClient) : m.flag = "RR" /\ window'.lower = m.seq

\* The client moves lower only to the number of an RR that was on its way.
LEMMA RcopyNextLower ==
    ASSUME TypeOK, RcopyNext
    PROVE  LowerFromRR
  <1> USE DEF GoTo, Exit, windowVars, networkVars
  <1>0. window \in Windows /\ toClient \in Sockets
    BY DEF TypeOK, ClientTypeOK, NetworkTypeOK
  <1>1. OnTheWay(ClosedSocket) \subseteq OnTheWay(toClient)
    BY EmptySockets
  <1>2. CASE Filename \/ FilenameTimeout
    <2>1. window' = window
      BY <1>2 DEF Filename, FilenameFirst, FilenameGarbled, FilenameAgain,
                  FilenameAnswered, FilenameTimeout, SendFname
    <2>2. OnTheWay(toClient') \subseteq OnTheWay(toClient)
      BY <1>0, <1>1, <1>2, ClientRecvType
         DEF Filename, FilenameFirst, FilenameGarbled, FilenameAgain,
             FilenameAnswered, FilenameTimeout
    <2> QED BY <2>1, <2>2 DEF LowerFromRR
  <1>3. CASE GetData /\ ~GetRR
    <2>1. window' = window
      BY <1>3 DEF GetData, GetNothing, GetUnknown, GetFnameRes, GetFopenErr,
                  GetSREJ, GetEoF
    <2>2. OnTheWay(toClient') \subseteq OnTheWay(toClient)
      <3>1. CASE GetSREJ
        BY <1>0, <1>1, <3>1, ReceivedType DEF GetSREJ, Crash
      <3>2. CASE GetNothing \/ GetUnknown \/ GetFnameRes \/ GetFopenErr \/ GetEoF
        BY <1>0, <1>1, <3>2, ClientRecvType
           DEF GetNothing, GetUnknown, GetFnameRes, GetFopenErr, GetEoF
      <3> QED BY <1>3, <3>1, <3>2 DEF GetData
    <2> QED BY <2>1, <2>2 DEF LowerFromRR
  <1>4. CASE GetRR
    <2>1. PICK m \in OnTheWay(toClient) :
            /\ ClientRecv(m) /\ m.flag = "RR"
            /\ window' \in {[window EXCEPT !.end = -1], Slid(m.seq)}
      BY <1>4 DEF GetRR
    <2>2. m \in Messages /\ OnTheWay(toClient') \subseteq OnTheWay(toClient)
      BY <1>0, <2>1, ClientRecvType
    <2>3. [window EXCEPT !.end = -1].lower = window.lower
      BY <1>0, WindowsType
    <2>4. Slid(m.seq).lower = m.seq
      BY <1>0, <2>2, SlidType DEF Messages
    <2> QED BY <2>1, <2>2, <2>3, <2>4 DEF LowerFromRR
  <1>5. CASE SendData
    <2>1. window'.lower = window.lower
      <3>1. window.current \in Int
        BY <1>0, WindowsType
      <3>2. /\ [window EXCEPT !.current = @ + 1].lower = window.lower
            /\ [window EXCEPT !.end = window.current].lower = window.lower
        BY <1>0, <3>1, WindowsType
      <3> QED BY <1>5, <3>2 DEF SendData, SendChunk, ReachEndOfFile, ReadError
    <2>2. OnTheWay(toClient') \subseteq OnTheWay(toClient)
      BY <1>1, <1>5 DEF SendData, SendChunk, ReachEndOfFile, ReadError, Crash
    <2> QED BY <2>1, <2>2 DEF LowerFromRR
  <1>6. CASE WindowStatus \/ WindowGivesUp \/ WindowResends \/ WindowSendsEoF
    <2>1. window'.lower = window.lower
      <3>1. [window EXCEPT !.current = @ + 1].lower = window.lower
        BY <1>0, WindowsType
      <3> QED BY <1>6, <3>1 DEF WindowStatus, WindowOpen, WindowAnswered,
                                WindowGivesUp, WindowResends, WindowSendsEoF
    <2>2. OnTheWay(toClient') \subseteq OnTheWay(toClient)
      BY <1>1, <1>6 DEF WindowStatus, WindowOpen, WindowAnswered,
                        WindowGivesUp, WindowResends, WindowSendsEoF, Crash
    <2> QED BY <2>1, <2>2 DEF LowerFromRR
  <1> QED BY <1>2, <1>3, <1>4, <1>5, <1>6 DEF RcopyNext, RcopyTimeout

\* The first RR that can be on its way is one the server sends.
LEMMA InitAck == Init => AckNeverAhead
  <1> SUFFICES ASSUME Init PROVE AckNeverAhead
    OBVIOUS
  <1>1. \A m \in OnTheWay(toClient) : m.flag # "RR"
    BY SetupAnswersType DEF Init
  <1>2. window.lower <= expected
    BY DEF Init, RcopyInit, ServerInit
  <1> QED BY <1>1, <1>2 DEF AckNeverAhead

\* Every step keeps AckNeverAhead.
LEMMA NextAck == TypeOK /\ AckNeverAhead /\ [Next]_vars => AckNeverAhead'
  <1> SUFFICES ASSUME TypeOK, AckNeverAhead, [Next]_vars PROVE AckNeverAhead'
    OBVIOUS
  <1>0. /\ expected \in Nat /\ window.lower \in Nat /\ toClient \in Sockets
        /\ toServer \in Sockets
        /\ \A m \in OnTheWay(toClient) : m.seq \in Nat
    <2>1. toClient \in Sockets
      BY DEF TypeOK, NetworkTypeOK
    <2>2. OnTheWay(toClient) \subseteq Messages
      BY <2>1, OnTheWayType
    <2> QED BY <2>1, <2>2, WindowsType
            DEF TypeOK, ClientTypeOK, ServerTypeOK, NetworkTypeOK, Messages
  <1>1. CASE RcopyNext /\ UNCHANGED serverVars
    <2>1. LowerFromRR
      BY <1>1, RcopyNextLower
    <2>2. expected' = expected
      BY <1>1 DEF serverVars, recvVars
    <2> QED BY <2>1, <2>2 DEF AckNeverAhead, LowerFromRR
  <1>2. CASE ServerNext /\ UNCHANGED rcopyVars
    <2>1. AcksWhatItHas /\ expected' \in Nat
      BY <1>2, ServerNextType DEF ServerTypeOK
    <2>2. window' = window
      BY <1>2 DEF rcopyVars, windowVars
    <2>3. window'.lower <= expected'
      <3>1. window.lower <= expected /\ expected <= expected'
        BY <2>1 DEF AckNeverAhead, AcksWhatItHas
      <3> QED BY <1>0, <2>1, <2>2, <3>1
    <2>4. ASSUME NEW m \in OnTheWay(toClient'), m.flag = "RR"
          PROVE  m.seq <= expected'
      <3>1. CASE m \in OnTheWay(toClient)
        <4>1. m.seq <= expected /\ expected <= expected' /\ m.seq \in Nat
          BY <1>0, <2>1, <2>4, <3>1 DEF AckNeverAhead, AcksWhatItHas
        <4> QED BY <1>0, <2>1, <4>1
      <3> QED BY <2>1, <2>4, <3>1 DEF AcksWhatItHas
    <2> QED BY <2>3, <2>4 DEF AckNeverAhead
  <1>3. CASE LateArrival /\ UNCHANGED <<rcopyVars, serverVars>>
    <2>1. UNCHANGED <<window, expected>>
      BY <1>3 DEF rcopyVars, windowVars, serverVars, recvVars
    <2>2. OnTheWay(toClient') \subseteq OnTheWay(toClient)
      BY <1>0, <1>3, LateArrivalType
    <2> QED BY <2>1, <2>2 DEF AckNeverAhead
  <1>4. CASE UNCHANGED vars
    <2>1. UNCHANGED <<window, expected, toClient>>
      BY <1>4 DEF vars, rcopyVars, windowVars, serverVars, recvVars, networkVars
    <2> QED BY <2>1 DEF AckNeverAhead
  <1> QED BY <1>1, <1>2, <1>3, <1>4 DEF Next

\* In every transfer, on a network that drops, flips, delays and duplicates,
\* lower of rcopy.c never passes expected_seq of server.c, and no RR on its
\* way would make it: get_data, handle_srej and the answer to a duplicate
\* acknowledge only what the server has taken, and expected_seq never goes
\* back, so an RR stays true however late it comes.
THEOREM AckSafe == Spec => []AckNeverAhead
  <1>1. Init => TypeOK /\ AckNeverAhead
    BY InitType, InitAck
  <1>2. TypeOK /\ AckNeverAhead /\ [Next]_vars => (TypeOK /\ AckNeverAhead)'
    BY NextType, NextAck
  <1> QED BY <1>1, <1>2, PTL DEF Spec
=============================================================================
