---------------------------- MODULE TransferSafety ----------------------------
(***************************************************************************)
(* The safety of a transfer, for every file, window, bound and fate: the   *)
(* invariant of TransferInvariant is inductive, and every step of Transfer *)
(* is a step of WindowedCopy or none.  Both rest on a summary of what a    *)
(* step of the client (ClientStep) and of the server (ServerStep) may do.  *)
(***************************************************************************)
EXTENDS TransferInvariant, TransferProofs

(***************************************************************************)
(* A step of the client.                                                   *)
(***************************************************************************)

AskedFor(seq) == \E m \in OnTheWay(toClient) : m.flag = "SREJ" /\ m.seq = seq

\* What window_status and the SREJ case of get_data send again.
Resends ==
    {m \in Messages :
        /\ m.flag = "DATA"
        /\ m.data = UpToNul(cqueue[SlotOf(m.seq)])
        /\ \/ m.seq = window.lower /\ (Closed \/ window.end # 0)
           \/ AskedFor(m.seq)}

\* The signals of the client.
ClientSignals ==
    {m \in Messages :
        \/ m.flag \in {"FNAME", "TERMINATE"}
        \/ m.flag = "EoF" /\ window.end = -1}

\* send_data with something to read.
ReadsChunk ==
    /\ nread < Len(File)
    /\ nread' = nread + 1
    /\ LET i == SlotOf(window.current)
       IN  cqueue' = add_element(remove_element(cqueue, i), i, File[nread + 1])
    /\ window' = [window EXCEPT !.current = @ + 1]
    /\ overrun' = (overrun \/ Closed)
    /\ OnTheWay(toServer') \subseteq
         OnTheWay(toServer) \cup {Packet("DATA", window.current, File[nread + 1])}
           \cup Noise

\* The other changes of the window.
MovesWindow ==
    \/ \E m \in OnTheWay(toClient) :
         /\ m.flag = "RR"
         /\ \/ window.end = m.seq /\ window' = [window EXCEPT !.end = -1]
            \/ window' = Slid(m.seq)
    \/ nread = Len(File) /\ window' = [window EXCEPT !.end = window.current]
    \/ window.end = -1 /\ window' = [window EXCEPT !.current = @ + 1]

Reports ==
    \/ outcome' = "saved" /\ \E m \in OnTheWay(toClient) : m.flag = "EoF"
    \/ outcome' = "open error" /\ \E m \in OnTheWay(toClient) : m.flag = "FOPEN_ERR"
    \/ outcome' \in {"no response", "crash"}

ClientStep ==
    /\ OnTheWay(toClient') \subseteq OnTheWay(toClient)
    /\ \/ ReadsChunk /\ UNCHANGED outcome
       \/ /\ UNCHANGED <<nread, cqueue, overrun>>
          /\ OnTheWay(toServer') \subseteq
               OnTheWay(toServer) \cup Resends \cup ClientSignals \cup Noise
          /\ \/ UNCHANGED <<window, outcome>>
             \/ UNCHANGED outcome /\ MovesWindow
             \/ UNCHANGED window /\ Reports

\* What is sent again is one of Resends.
LEMMA ResendEffect ==
    ASSUME toServer \in Sockets, faults \in 0 .. MaxFaults,
           cqueue \in [Slots -> Bytes], NEW me, NEW seq \in Nat, Resend(me, seq),
           \/ seq = window.lower /\ (Closed \/ window.end # 0)
           \/ AskedFor(seq)
    PROVE  OnTheWay(toServer') \subseteq OnTheWay(toServer) \cup Resends \cup Noise
  <1> DEFINE m == Packet("DATA", seq, UpToNul(cqueue[SlotOf(seq)]))
  <1>1. SlotOf(seq) \in Slots
    BY SlotOfType
  <1>2. UpToNul(cqueue[SlotOf(seq)]) \in Bytes
    BY <1>1, UpToNulType
  <1>3. m \in Messages
    BY <1>2, PacketType DEF Flags
  <1>4. m \in Resends
    BY <1>3 DEF Resends, Packet
  <1>5. OnTheWay(toServer') \subseteq OnTheWay(toServer) \cup {m} \cup Noise
    <2>1. SendToServer(me, m)
      BY DEF Resend
    <2> HIDE DEF m
    <2> QED BY <1>3, <2>1, SendToServerType
  <1> QED BY <1>4, <1>5

\* A signal of the client is one of ClientSignals.
LEMMA ClientSignalEffect ==
    ASSUME toServer \in Sockets, faults \in 0 .. MaxFaults, NEW me,
           NEW flag \in {"FNAME", "TERMINATE", "EoF"},
           flag = "EoF" => window.end = -1,
           SendToServer(me, Signal(flag))
    PROVE  OnTheWay(toServer') \subseteq OnTheWay(toServer) \cup ClientSignals \cup Noise
  <1>1. Signal(flag) \in Messages
    BY PacketType DEF Flags
  <1>2. Signal(flag) \in ClientSignals
    BY <1>1 DEF ClientSignals, Signal, Packet
  <1> QED BY <1>1, <1>2, SendToServerType

\* filename().
LEMMA FilenameEffect ==
    ASSUME TypeOK, RunsUntilReport, Filename \/ FilenameTimeout
    PROVE  ClientStep
  <1> USE DEF GoTo, Exit, windowVars, networkVars
  <1>0. /\ toClient \in Sockets /\ toServer \in Sockets
        /\ faults \in 0 .. MaxFaults
    BY DEF TypeOK, NetworkTypeOK
  <1>1. /\ UNCHANGED <<nread, cqueue, overrun, window>>
        /\ outcome' = outcome \/ outcome' = "no response"
    BY DEF Filename, FilenameFirst, FilenameGarbled, FilenameAgain,
           FilenameAnswered, FilenameTimeout, SendFname, RunsUntilReport
  <1>2. OnTheWay(toClient') \subseteq OnTheWay(toClient)
    BY <1>0, ClientRecvType, EmptySockets
       DEF Filename, FilenameFirst, FilenameGarbled, FilenameAgain,
           FilenameAnswered, FilenameTimeout
  <1>3. OnTheWay(toServer') \subseteq OnTheWay(toServer) \cup ClientSignals \cup Noise
    <2>1. CASE FilenameFirst \/ FilenameAgain
      <3>1. PICK me : SendToServer(me, Signal("FNAME"))
        BY <2>1 DEF FilenameFirst, FilenameAgain, SendFname
      <3> QED BY <1>0, <3>1, ClientSignalEffect
    <2>2. CASE FilenameGarbled \/ FilenameAnswered \/ FilenameTimeout
      BY <2>2 DEF FilenameGarbled, FilenameAnswered, FilenameTimeout
    <2> QED BY <2>1, <2>2 DEF Filename
  <1> QED BY <1>1, <1>2, <1>3 DEF ClientStep, Reports

\* get_data() of rcopy.c.
LEMMA GetDataEffect ==
    ASSUME TypeOK, GetData
    PROVE  ClientStep
  <1> USE DEF GoTo, Exit, windowVars, networkVars
  <1>0. /\ toClient \in Sockets /\ toServer \in Sockets
        /\ faults \in 0 .. MaxFaults /\ cqueue \in [Slots -> Bytes]
    BY DEF TypeOK, NetworkTypeOK, ClientTypeOK
  <1>1. UNCHANGED <<nread, cqueue, overrun>>
    BY DEF GetData, GetNothing, GetUnknown, GetFnameRes, GetFopenErr, GetRR,
           GetSREJ, GetEoF
  <1>2. OnTheWay(ClosedSocket) \subseteq OnTheWay(toClient)
    BY EmptySockets
  <1>3. CASE GetNothing \/ GetUnknown \/ GetFnameRes
    <2>1. UNCHANGED <<window, outcome, toServer>>
      BY <1>3 DEF GetNothing, GetUnknown, GetFnameRes
    <2>2. OnTheWay(toClient') \subseteq OnTheWay(toClient)
      BY <1>0, <1>3, ClientRecvType DEF GetNothing, GetUnknown, GetFnameRes
    <2> QED BY <1>1, <2>1, <2>2 DEF ClientStep
  <1>4. CASE GetFopenErr
    <2>1. Head(toClient.inbox) \in OnTheWay(toClient)
      BY <1>0, <1>4, ReceivedType DEF GetFopenErr
    <2>2. Reports
      BY <1>4, <2>1 DEF GetFopenErr, Reports
    <2> QED BY <1>1, <1>2, <1>4, <2>2 DEF GetFopenErr, ClientStep
  <1>5. CASE GetRR
    <2>1. PICK m \in OnTheWay(toClient) :
            /\ ClientRecv(m) /\ m.flag = "RR"
            /\ \/ window.end = m.seq /\ window' = [window EXCEPT !.end = -1]
               \/ window' = Slid(m.seq)
      BY <1>5 DEF GetRR, AcknowledgesAll
    <2>2. MovesWindow
      BY <2>1 DEF MovesWindow
    <2>3. UNCHANGED <<outcome, toServer>>
      BY <1>5 DEF GetRR
    <2>4. OnTheWay(toClient') \subseteq OnTheWay(toClient)
      BY <1>0, <2>1, ClientRecvType
    <2> QED BY <1>1, <2>2, <2>3, <2>4 DEF ClientStep
  <1>6. CASE GetSREJ
    <2> DEFINE m == Head(toClient.inbox)
    <2>1. /\ m \in Messages /\ m \in OnTheWay(toClient)
          /\ OnTheWay(Received(toClient)) \subseteq OnTheWay(toClient)
      BY <1>0, <1>6, ReceivedType DEF GetSREJ
    <2>2. m.seq \in Nat /\ AskedFor(m.seq) /\ UNCHANGED window
      BY <1>6, <2>1 DEF GetSREJ, AskedFor, Messages
    <2>3. CASE CanResend(m.seq)
      <3> DEFINE me == toClient'
      <3>1. /\ Resend(me, m.seq) /\ toClient' = Received(toClient)
            /\ UNCHANGED outcome
        BY <1>6, <2>3 DEF GetSREJ
      <3>2. OnTheWay(toServer') \subseteq OnTheWay(toServer) \cup Resends \cup Noise
        <4> HIDE DEF m, me
        <4> QED BY <1>0, <2>2, <3>1, ResendEffect
      <3> QED BY <1>1, <2>1, <2>2, <3>1, <3>2 DEF ClientStep
    <2>4. CASE ~CanResend(m.seq)
      <3>1. Reports /\ UNCHANGED toServer /\ toClient' = ClosedSocket
        BY <1>6, <2>4 DEF GetSREJ, Crash, Reports
      <3> QED BY <1>1, <1>2, <2>2, <3>1 DEF ClientStep
    <2> QED BY <2>3, <2>4
  <1>7. CASE GetEoF
    <2>1. Head(toClient.inbox) \in OnTheWay(toClient)
      BY <1>0, <1>7, ReceivedType DEF GetEoF
    <2>2. Reports
      BY <1>7, <2>1 DEF GetEoF, Reports
    <2>3. OnTheWay(toServer') \subseteq OnTheWay(toServer) \cup ClientSignals \cup Noise
      BY <1>0, <1>7, ClientSignalEffect DEF GetEoF
    <2> QED BY <1>1, <1>2, <1>7, <2>2, <2>3 DEF GetEoF, ClientStep
  <1> QED BY <1>3, <1>4, <1>5, <1>6, <1>7 DEF GetData

\* send_data().
LEMMA SendDataEffect ==
    ASSUME TypeOK, SendData
    PROVE  ClientStep
  <1> USE DEF GoTo, Exit, windowVars, networkVars
  <1>0. /\ toClient \in Sockets /\ toServer \in Sockets
        /\ faults \in 0 .. MaxFaults /\ window \in Windows
    BY DEF TypeOK, NetworkTypeOK, ClientTypeOK
  <1>1. CASE SendChunk
    <2> DEFINE chunk == File[nread + 1]
               m     == Packet("DATA", window.current, chunk)
    <2>1. nread + 1 \in 1 .. Len(File)
      <3>1. Len(File) \in Nat /\ nread \in 0 .. Len(File) /\ nread < Len(File)
        BY <1>1, RcopyAssumption, LenProperties
           DEF SendChunk, TypeOK, ClientTypeOK
      <3> QED BY <3>1
    <2>2. chunk \in Bytes
      BY <2>1, RcopyAssumption, ElementOfSeq
    <2>3. m \in Messages
      BY <1>0, <2>2, WindowsType, PacketType DEF Flags
    <2>4. SendToServer(toClient, m)
      BY <1>1 DEF SendChunk
    <2>5. OnTheWay(toServer') \subseteq OnTheWay(toServer) \cup {m} \cup Noise
      <3> HIDE DEF m
      <3> QED BY <1>0, <2>3, <2>4, SendToServerType
    <2>6. ReadsChunk
      BY <1>1, <2>5 DEF SendChunk, ReadsChunk, Closed
    <2> QED BY <1>1, <2>6 DEF SendChunk, ClientStep
  <1>2. CASE ReachEndOfFile
    <2>1. MovesWindow
      BY <1>2 DEF ReachEndOfFile, MovesWindow
    <2> QED BY <1>2, <2>1 DEF ReachEndOfFile, ClientStep
  <1>3. CASE ReadError
    <2>1. Reports
      BY <1>3 DEF ReadError, Crash, Reports
    <2> QED BY <1>3, <2>1, EmptySockets DEF ReadError, Crash, ClientStep
  <1> QED BY <1>1, <1>2, <1>3 DEF SendData

\* window_status().
LEMMA WindowEffect ==
    ASSUME TypeOK, WindowStatus \/ WindowGivesUp \/ WindowResends \/ WindowSendsEoF
    PROVE  ClientStep
  <1> USE DEF GoTo, Exit, windowVars, networkVars
  <1>0. /\ toClient \in Sockets /\ toServer \in Sockets
        /\ faults \in 0 .. MaxFaults /\ cqueue \in [Slots -> Bytes]
        /\ window \in Windows
    BY DEF TypeOK, NetworkTypeOK, ClientTypeOK
  <1>1. CASE WindowStatus
    BY <1>1 DEF WindowStatus, WindowOpen, WindowAnswered, ClientStep
  <1>2. CASE WindowGivesUp
    <2>1. Reports
      BY <1>2 DEF WindowGivesUp, Reports
    <2> QED BY <1>2, <2>1, EmptySockets DEF WindowGivesUp, ClientStep
  <1>3. CASE WindowResends
    <2>1. Closed \/ window.end # 0
      BY <1>3 DEF WindowResends
    <2>2. UNCHANGED <<nread, cqueue, overrun, window>>
      BY <1>3 DEF WindowResends
    <2>3. CASE CanResend(window.lower)
      <3>1. OnTheWay(toServer') \subseteq OnTheWay(toServer) \cup Resends \cup Noise
        BY <1>0, <1>3, <2>1, <2>3, WindowsType, ResendEffect DEF WindowResends
      <3> QED BY <1>3, <2>2, <2>3, <3>1 DEF WindowResends, ClientStep
    <2>4. CASE ~CanResend(window.lower)
      <3>1. Reports /\ toClient' = ClosedSocket /\ UNCHANGED toServer
        BY <1>3, <2>4 DEF WindowResends, Crash, Reports
      <3> QED BY <2>2, <3>1, EmptySockets DEF ClientStep
    <2> QED BY <2>3, <2>4
  <1>4. CASE WindowSendsEoF
    <2>1. MovesWindow
      BY <1>4 DEF WindowSendsEoF, MovesWindow
    <2>2. OnTheWay(toServer') \subseteq OnTheWay(toServer) \cup ClientSignals \cup Noise
      BY <1>0, <1>4, ClientSignalEffect DEF WindowSendsEoF
    <2> QED BY <1>4, <2>1, <2>2 DEF WindowSendsEoF, ClientStep
  <1> QED BY <1>1, <1>2, <1>3, <1>4

\* Every step of the client is a ClientStep.
LEMMA RcopyNextEffect ==
    ASSUME TypeOK, RunsUntilReport, RcopyNext
    PROVE  ClientStep
  BY FilenameEffect, GetDataEffect, SendDataEffect, WindowEffect
     DEF RcopyNext, RcopyTimeout

(***************************************************************************)
(* A step of the server.                                                   *)
(***************************************************************************)

\* get_data and handle_srej accept the chunk expected and some after it.
Accepts ==
    /\ sstate = "WAIT_DATA"
    /\ \E d \in Data : d.seq = expected
    /\ expected' \in expected + 1 .. expected + 1 + WindowSize
    /\ UNCHANGED <<sstate, fd>>

\* wait_data on EoF.
ClosesFile ==
    /\ sstate = "WAIT_DATA"
    /\ \E m \in OnTheWay(toServer) : m.flag = "EoF"
    /\ CloseFd
    /\ UNCHANGED <<sstate, expected>>

OpensFile ==
    /\ sstate = "FILENAME"
    /\ sstate' = "WAIT_DATA"
    /\ fd' \in {"open", "failed"}
    /\ UNCHANGED expected

\* filename() without FNAME, connection(), and the end of the process.
MovesOn ==
    /\ \/ {sstate, sstate'} \subseteq {"FILENAME", "CONNECTION"} /\ UNCHANGED fd
       \/ sstate' = "DONE" /\ (UNCHANGED fd \/ CloseFd)
    /\ UNCHANGED expected

\* What the server sends: SREJs only for what is missing before a packet ahead
\* of the expected one, and RRs, EoF and FOPEN_ERR that are true.
Answers ==
    {m \in Messages :
        \/ m.flag \in {"SETUP_RES", "FNAME_RES"}
        \/ m.flag = "RR" /\ m.seq = expected'
        \/ m.flag = "EoF" /\ ClosesFile
        \/ m.flag = "FOPEN_ERR" /\ OpensFile /\ fd' = "failed"
        \/ /\ m.flag = "SREJ"
           /\ \E d \in Data : d.seq > expected /\ m.seq < d.seq}

ServerStep ==
    /\ OnTheWay(toServer') \subseteq OnTheWay(toServer)
    /\ OnTheWay(toClient') \subseteq OnTheWay(toClient) \cup Answers \cup Noise
    /\ \/ UNCHANGED <<sstate, fd, expected>>
       \/ Accepts \/ ClosesFile \/ OpensFile \/ MovesOn

\* A signal of the server that is one of Answers.
LEMMA ServerSignalEffect ==
    ASSUME TypeOK, toServer' \in Sockets,
           NEW flag \in {"SETUP_RES", "FNAME_RES", "EoF", "FOPEN_ERR"},
           flag = "EoF" => ClosesFile,
           flag = "FOPEN_ERR" => OpensFile /\ fd' = "failed",
           SendToClient(Signal(flag))
    PROVE  OnTheWay(toClient') \subseteq OnTheWay(toClient) \cup Answers \cup Noise
  <1> DEFINE m == FromServer(Signal(flag))
  <1>1. Signal(flag) \in Messages /\ Signal(flag).flag = flag
    BY PacketType DEF Flags, Signal, Packet
  <1>2. m \in Messages /\ m.flag = flag
    BY <1>1, FromServerType
  <1> HIDE DEF m
  <1>3. m \in Answers
    BY <1>2 DEF Answers
  <1>4. OnTheWay(toClient') \subseteq OnTheWay(toClient) \cup {m} \cup Noise
    BY <1>1, SendToClientType DEF m, TypeOK, NetworkTypeOK
  <1> QED BY <1>3, <1>4

\* An RR for what is expected after the step is one of Answers.
LEMMA ServerRREffect ==
    ASSUME TypeOK, toServer' \in Sockets, expected' \in Nat,
           AcknowledgeUpTo(expected')
    PROVE  OnTheWay(toClient') \subseteq OnTheWay(toClient) \cup Answers \cup Noise
  <1> DEFINE e == expected'
             p == Packet("RR", e, <<>>)
             m == FromServer(p)
  <1>1. p \in Messages /\ p.flag = "RR" /\ p.seq = e
    BY EmptySeq, PacketType DEF Flags, Packet, Bytes
  <1>2. m \in Messages /\ m.flag = "RR" /\ m.seq = e
    BY <1>1, FromServerType
  <1>3. m \in Answers
    <2> HIDE DEF m
    <2> QED BY <1>2 DEF Answers
  <1>4. OnTheWay(toClient') \subseteq OnTheWay(toClient) \cup {m} \cup Noise
    <2>1. e \in Nat /\ AcknowledgeUpTo(e)
      OBVIOUS
    <2> HIDE DEF e
    <2> QED BY <2>1, AcknowledgeType DEF TypeOK, NetworkTypeOK
  <1> QED BY <1>3, <1>4

\* filename() of the server, connection() and the end of its patience.
LEMMA ServerFilenameEffect ==
    ASSUME TypeOK, FilenameOpens \/ FilenameOther \/ Reconnect \/ GiveUp
    PROVE  ServerStep
  <1> USE DEF recvVars
  <1>0. toServer \in Sockets /\ toServer' \in Sockets
    BY ServerFilenameType DEF TypeOK, NetworkTypeOK
  <1>1. CASE FilenameOpens
    <2>1. PICK ok \in Opens :
            /\ fd' = IF ok THEN "open" ELSE "failed"
            /\ SendToClient(Signal(OpenAnswer(ok)))
      BY <1>1 DEF FilenameOpens
    <2>2. OpensFile
      BY <1>1, <2>1 DEF FilenameOpens, OpensFile
    <2>3. /\ OpenAnswer(ok) \in {"FNAME_RES", "FOPEN_ERR"}
          /\ OpenAnswer(ok) = "FOPEN_ERR" => fd' = "failed"
      BY <2>1 DEF OpenAnswer
    <2>4. OnTheWay(toClient') \subseteq OnTheWay(toClient) \cup Answers \cup Noise
      BY <1>0, <2>1, <2>2, <2>3, ServerSignalEffect
    <2>5. OnTheWay(toServer') \subseteq OnTheWay(toServer)
      BY <1>0, <1>1, ServerRecvType DEF FilenameOpens
    <2> QED BY <2>2, <2>4, <2>5 DEF ServerStep
  <1>2. CASE FilenameOther
    <2>1. OnTheWay(toServer') \subseteq OnTheWay(toServer)
      BY <1>0, <1>2, ServerRecvType DEF FilenameOther
    <2>2. MovesOn
      BY <1>2 DEF FilenameOther, MovesOn
    <2> QED BY <1>2, <2>1, <2>2 DEF FilenameOther, ServerStep
  <1>3. CASE Reconnect
    <2>1. OnTheWay(toClient') \subseteq OnTheWay(toClient) \cup Answers \cup Noise
      BY <1>0, <1>3, ServerSignalEffect DEF Reconnect
    <2>2. OnTheWay(toServer') = {}
      <3>1. toServer.name + 1 \in Nat
        BY <1>0 DEF Sockets
      <3> QED BY <1>3, <3>1, EmptySockets DEF Reconnect
    <2>3. MovesOn
      BY <1>3 DEF Reconnect, MovesOn
    <2> QED BY <2>1, <2>2, <2>3 DEF ServerStep
  <1>4. CASE GiveUp
    <2>1. MovesOn
      BY <1>4 DEF GiveUp, MovesOn
    <2> QED BY <1>4, <2>1, EmptySockets DEF GiveUp, ServerStep
  <1> QED BY <1>1, <1>2, <1>3, <1>4

\* wait_data() for every flag but DATA.
LEMMA WaitDataEffect ==
    ASSUME TypeOK, FnameAgain \/ CloseFile \/ ClientTerminated \/ IgnorePacket
    PROVE  ServerStep
  <1> USE DEF recvVars, serverVars
  <1>0. toServer \in Sockets /\ toServer' \in Sockets
    BY WaitDataType DEF TypeOK, NetworkTypeOK
  <1>1. OnTheWay(toServer') \subseteq OnTheWay(toServer)
    BY <1>0, ServerRecvType, EmptySockets
       DEF FnameAgain, CloseFile, ClientTerminated, IgnorePacket
  <1>2. CASE FnameAgain
    <2>1. OnTheWay(toClient') \subseteq OnTheWay(toClient) \cup Answers \cup Noise
      BY <1>0, <1>2, ServerSignalEffect DEF FnameAgain
    <2> QED BY <1>1, <1>2, <2>1 DEF FnameAgain, ServerStep
  <1>3. CASE CloseFile
    <2>1. ClosesFile
      BY <1>3 DEF CloseFile, ClosesFile
    <2>2. OnTheWay(toClient') \subseteq OnTheWay(toClient) \cup Answers \cup Noise
      BY <1>0, <1>3, <2>1, ServerSignalEffect DEF CloseFile
    <2> QED BY <1>1, <2>1, <2>2 DEF ServerStep
  <1>4. CASE ClientTerminated
    <2>1. MovesOn
      BY <1>4 DEF ClientTerminated, MovesOn
    <2> QED BY <1>1, <1>4, <2>1 DEF ClientTerminated, ServerStep
  <1>5. CASE IgnorePacket
    BY <1>1, <1>5 DEF IgnorePacket, ServerStep
  <1> QED BY <1>2, <1>3, <1>4, <1>5

\* The SREJs for what is missing before a packet.
LEMMA SrejEffect ==
    ASSUME TypeOK, toServer' \in Sockets, NEW d \in Data, d \in Messages,
           d.seq > expected, NEW queue,
           Transmit(toClient,
                    [k \in Missing(queue, d.seq) |->
                        FromServer(Packet("SREJ", k, <<>>))],
                    toClient')
    PROVE  OnTheWay(toClient') \subseteq OnTheWay(toClient) \cup Answers \cup Noise
  <1> DEFINE missing == Missing(queue, d.seq)
             ms      == [k \in missing |-> FromServer(Packet("SREJ", k, <<>>))]
  <1>1. expected \in Nat \ {0} /\ d.seq \in Nat
    BY DEF TypeOK, ServerTypeOK, Messages
  <1>2. missing \subseteq expected .. d.seq - 1 /\ IsFiniteSet(missing)
    BY <1>1, MissingType
  <1> HIDE DEF missing
  <1>3. ASSUME NEW k \in missing PROVE ms[k] \in Messages /\ ms[k] \in Answers
    <2> DEFINE p == Packet("SREJ", k, <<>>)
    <2>1. k \in Nat /\ k < d.seq
      BY <1>1, <1>2
    <2>2. p \in Messages /\ p.flag = "SREJ" /\ p.seq = k
      BY <2>1, EmptySeq, PacketType DEF Packet, Flags, Bytes
    <2>3. /\ FromServer(p) \in Messages /\ FromServer(p).flag = "SREJ"
          /\ FromServer(p).seq = k
      BY <2>2, FromServerType
    <2>4. FromServer(p) \in Answers
      <3> HIDE DEF p
      <3> QED BY <2>1, <2>3 DEF Answers
    <2> QED BY <2>3, <2>4
  <1>4. ms \in [missing -> Messages]
    BY <1>3
  <1>5. {ms[k] : k \in missing} \subseteq Answers
    BY <1>3
  <1>6. Transmit(toClient, ms, toClient')
    BY DEF missing
  <1> HIDE DEF ms
  <1>7. toClient \in Sockets /\ faults \in 0 .. MaxFaults
    BY DEF TypeOK, NetworkTypeOK
  <1>8. OnTheWay(toClient') \subseteq
          OnTheWay(toClient) \cup {ms[k] : k \in missing} \cup Noise
    BY <1>2, <1>4, <1>6, <1>7, TransmitEffect
  <1> QED BY <1>5, <1>8

\* get_data() of the server.
LEMMA ReceiveDataEffect ==
    ASSUME TypeOK, ReceiveData
    PROVE  ServerStep
  <1> USE DEF recvVars
  <1>1. PICK m \in OnTheWay(toServer) :
          /\ DataArrives(m)
          /\ InOrder(m) \/ FillsGap(m) \/ Duplicate(m) \/ OutOfOrder(m)
    BY DEF ReceiveData
  <1>2. /\ m \in Messages /\ toServer' \in Sockets /\ m \in Data
        /\ OnTheWay(toServer') \subseteq OnTheWay(toServer)
        /\ sstate = "WAIT_DATA" /\ UNCHANGED <<sstate, fd>>
    BY <1>1, ServerRecvType DEF DataArrives, Data, TypeOK, NetworkTypeOK
  <1>3. expected \in Nat \ {0} /\ m.seq \in Nat /\ WindowSize \in Nat
    BY <1>2, SizesPositive DEF TypeOK, ServerTypeOK, Messages
  <1>4. CASE InOrder(m)
    <2>1. /\ m.seq = expected /\ expected' = expected + 1
          /\ AcknowledgeUpTo(expected + 1)
      BY <1>4 DEF InOrder
    <2>2. AcknowledgeUpTo(expected') /\ expected' \in Nat
      BY <1>3, <2>1
    <2>3. Accepts
      BY <1>2, <1>3, <2>1 DEF Accepts
    <2> QED BY <1>2, <2>2, <2>3, ServerRREffect DEF ServerStep
  <1>5. CASE FillsGap(m)
    <2> DEFINE n == RunLength(expected + 1)
    <2>1. /\ m.seq = expected /\ expected' = expected + 1 + n
          /\ AcknowledgeUpTo(expected + 1 + n)
      BY <1>5 DEF FillsGap
    <2>2. n \in 0 .. WindowSize
      <3>1. squeue \in [Slots -> Bytes] /\ expected + 1 \in Int
        BY <1>3 DEF TypeOK, ServerTypeOK
      <3> QED BY <3>1, RunLengthType
    <2> HIDE DEF n
    <2>3. AcknowledgeUpTo(expected') /\ expected' \in Nat
      BY <1>3, <2>1, <2>2
    <2>4. Accepts
      BY <1>2, <1>3, <2>1, <2>2 DEF Accepts
    <2> QED BY <1>2, <2>3, <2>4, ServerRREffect DEF ServerStep
  <1>6. CASE Duplicate(m)
    <2>1. UNCHANGED expected /\ AcknowledgeUpTo(expected)
      BY <1>6 DEF Duplicate
    <2>2. AcknowledgeUpTo(expected') /\ expected' \in Nat
      BY <1>3, <2>1
    <2> QED BY <1>2, <2>1, <2>2, ServerRREffect DEF ServerStep
  <1>7. CASE OutOfOrder(m)
    <2>1. UNCHANGED expected
      BY <1>7 DEF OutOfOrder
    <2>2. CASE IsNull(squeue, SlotOf(m.seq))
      <3> DEFINE queue == add_element(squeue, SlotOf(m.seq), m.data)
      <3>1. m.seq > expected
            /\ Transmit(toClient,
                        [k \in Missing(queue, m.seq) |->
                            FromServer(Packet("SREJ", k, <<>>))],
                        toClient')
        BY <1>7, <2>2 DEF OutOfOrder
      <3> HIDE DEF queue
      <3>2. OnTheWay(toClient') \subseteq OnTheWay(toClient) \cup Answers \cup Noise
        BY <1>2, <3>1, SrejEffect
      <3> QED BY <1>2, <2>1, <3>2 DEF ServerStep
    <2>3. CASE ~IsNull(squeue, SlotOf(m.seq))
      <3>1. UNCHANGED toClient
        BY <1>7, <2>3 DEF OutOfOrder
      <3> QED BY <1>2, <2>1, <3>1 DEF ServerStep
    <2> QED BY <2>2, <2>3
  <1> QED BY <1>1, <1>4, <1>5, <1>6, <1>7

\* Every step of the server is a ServerStep.
LEMMA ServerNextEffect ==
    ASSUME TypeOK, ServerNext
    PROVE  ServerStep
  BY ServerFilenameEffect, WaitDataEffect, ReceiveDataEffect
     DEF ServerNext, WaitData

(***************************************************************************)
(* The invariant is kept.                                                  *)
(***************************************************************************)

\* The numbers are numbers.
LEMMA Numbers ==
    ASSUME TypeOK
    PROVE  /\ expected \in Nat \ {0} /\ Len(File) \in Nat /\ nread \in 0 .. Len(File)
           /\ WindowSize \in Nat \ {0}
           /\ window.lower \in Nat /\ window.current \in Nat
           /\ window.upper \in Int /\ window.end \in Int
           /\ \A m \in OnTheWay(toServer) : m \in Messages /\ m.seq \in Nat
           /\ \A m \in OnTheWay(toClient) : m \in Messages /\ m.seq \in Nat
  <1>1. /\ OnTheWay(toServer) \subseteq Messages
        /\ OnTheWay(toClient) \subseteq Messages
    BY OnTheWayType DEF TypeOK, NetworkTypeOK
  <1>2. Len(File) \in Nat
    BY RcopyAssumption, LenProperties
  <1> QED BY <1>1, <1>2, SizesPositive
          DEF TypeOK, ClientTypeOK, ServerTypeOK, Messages, Windows

\* The fields of the window after each of its changes.
LEMMA WindowFields ==
    ASSUME window \in Windows
    PROVE  /\ LET w == [window EXCEPT !.current = @ + 1]
              IN  /\ w.lower = window.lower /\ w.upper = window.upper
                  /\ w.end = window.end /\ w.current = window.current + 1
           /\ \A e : LET w == [window EXCEPT !.end = e]
                    IN  /\ w.lower = window.lower /\ w.upper = window.upper
                        /\ w.end = e /\ w.current = window.current
           /\ \A rr : LET w == Slid(rr)
                     IN  /\ w.lower = rr
                         /\ w.upper = window.upper + (rr - window.lower)
                         /\ w.end = window.end /\ w.current = window.current
  BY DEF Windows, Slid

\* What holds before a step of the proof.
Before == TypeOK /\ AckNeverAhead /\ Inductive

ByClient == ClientStep /\ UNCHANGED <<sstate, fd, expected>>

ByServer ==
    /\ ServerStep
    /\ UNCHANGED <<window, nread, cqueue, overrun, outcome, cstate>>

\* A chunk is read only before the end of the file is known.
LEMMA ReadsBeforeEnd ==
    ASSUME Before, ReadsChunk
    PROVE  window.end = 0 /\ window.current = nread + 1 /\ nread + 1 \in 1 .. Len(File)
  <1>1. window.end = 0
    BY Numbers DEF Before, Inductive, WindowShape, ReadsChunk
  <1> QED BY <1>1, Numbers DEF Before, Inductive, WindowShape, ReadsChunk

\* rcopy.c keeps its window as wide as its buffer, and its end past the file.
LEMMA ClientWindowShape ==
    ASSUME Before, ByClient
    PROVE  WindowShape'
  <1>0. /\ TypeOK /\ AckNeverAhead /\ WindowShape /\ window \in Windows
        /\ OnTheWay(toClient') \subseteq OnTheWay(toClient)
        /\ expected' = expected
    BY DEF Before, Inductive, TypeOK, ClientTypeOK, ByClient, ClientStep
  <1> USE <1>0, Numbers
  <1>1. CASE ReadsChunk
    <2>1. window.end = 0 /\ window.current = nread + 1 /\ nread + 1 \in 1 .. Len(File)
      BY <1>1, ReadsBeforeEnd
    <2>2. /\ nread' = nread + 1 /\ window'.lower = window.lower
          /\ window'.upper = window.upper /\ window'.end = window.end
          /\ window'.current = window.current + 1
      BY <1>1, WindowFields DEF ReadsChunk
    <2> QED BY <2>1, <2>2 DEF WindowShape
  <1>2. CASE UNCHANGED <<window, nread>>
    BY <1>2 DEF WindowShape
  <1>3. CASE UNCHANGED nread /\ MovesWindow
    <2>1. ASSUME NEW m \in OnTheWay(toClient), m.flag = "RR",
                 window.end = m.seq, window' = [window EXCEPT !.end = -1]
          PROVE  WindowShape'
      <3>1. m.seq >= 1 /\ m.seq <= expected /\ m.seq \in Nat
        BY <2>1 DEF WindowShape, AckNeverAhead
      <3>2. expected > Len(File) /\ nread = Len(File)
        BY <2>1, <3>1 DEF WindowShape
      <3>3. /\ window'.lower = window.lower /\ window'.upper = window.upper
            /\ window'.end = -1 /\ window'.current = window.current
        BY <2>1, WindowFields
      <3> QED BY <1>3, <3>2, <3>3 DEF WindowShape
    <2>2. ASSUME NEW m \in OnTheWay(toClient), m.flag = "RR", window' = Slid(m.seq)
          PROVE  WindowShape'
      <3>1. m.seq >= 1 /\ m.seq \in Nat
        BY <2>2 DEF WindowShape
      <3>2. /\ window'.lower = m.seq
            /\ window'.upper = window.upper + (m.seq - window.lower)
            /\ window'.end = window.end /\ window'.current = window.current
        BY <2>2, WindowFields
      <3> QED BY <1>3, <3>1, <3>2 DEF WindowShape
    <2>3. CASE nread = Len(File) /\ window' = [window EXCEPT !.end = window.current]
      <3>1. /\ window'.lower = window.lower /\ window'.upper = window.upper
            /\ window'.end = window.current /\ window'.current = window.current
        BY <2>3, WindowFields
      <3> QED BY <1>3, <2>3, <3>1 DEF WindowShape
    <2>4. CASE window.end = -1 /\ window' = [window EXCEPT !.current = @ + 1]
      <3>1. /\ window'.lower = window.lower /\ window'.upper = window.upper
            /\ window'.end = window.end /\ window'.current = window.current + 1
        BY <2>4, WindowFields
      <3> QED BY <1>3, <2>4, <3>1 DEF WindowShape
    <2> QED BY <1>3, <2>1, <2>2, <2>3, <2>4 DEF MovesWindow
  <1> QED BY <1>1, <1>2, <1>3 DEF ByClient, ClientStep

\* It sends no chunk that it has not read, but for a lower past the file.
LEMMA ClientOnlyRead ==
    ASSUME Before, ByClient
    PROVE  OnlyWhatWasRead'
  <1>0. /\ TypeOK /\ AckNeverAhead /\ WindowShape /\ OnlyWhatWasRead
        /\ OnTheWay(toClient') \subseteq OnTheWay(toClient)
        /\ expected' = expected
    BY DEF Before, Inductive, ByClient, ClientStep
  <1> USE <1>0, Numbers
  <1>1. CASE ReadsChunk
    <2>1. window.current = nread + 1 /\ nread + 1 \in 1 .. Len(File) /\ nread' = nread + 1
      BY <1>1, ReadsBeforeEnd DEF ReadsChunk
    <2>2. ASSUME NEW m \in Data' PROVE m.seq <= nread'
      <3>1. \/ m \in Data
            \/ m = Packet("DATA", window.current, File[nread + 1])
        BY <1>1, <2>2 DEF ReadsChunk, Data, Noise
      <3>2. CASE m \in Data
        BY <2>1, <3>2 DEF OnlyWhatWasRead, Data
      <3>3. CASE m = Packet("DATA", window.current, File[nread + 1])
        BY <2>1, <3>3 DEF Packet
      <3> QED BY <3>1, <3>2, <3>3
    <2>3. \A m \in OnTheWay(toClient') : m.flag = "SREJ" => m.seq <= nread'
      BY <2>1 DEF OnlyWhatWasRead
    <2> QED BY <2>2, <2>3 DEF OnlyWhatWasRead
  <1>2. CASE /\ UNCHANGED nread
             /\ OnTheWay(toServer') \subseteq
                  OnTheWay(toServer) \cup Resends \cup ClientSignals \cup Noise
    <2>1. ASSUME NEW m \in Data'
          PROVE  m.seq <= nread \/ (nread = Len(File) /\ m.seq <= expected)
      <3>1. m \in Data \/ m \in Resends
        BY <1>2, <2>1 DEF Data, Noise, ClientSignals
      <3>2. CASE m \in Data
        BY <3>2 DEF OnlyWhatWasRead
      <3>3. CASE m \in Resends /\ m.seq = window.lower /\ (Closed \/ window.end # 0)
        <4>1. CASE window.end # 0
          BY <3>3, <4>1 DEF WindowShape, AckNeverAhead
        <4>2. CASE window.end = 0 /\ Closed
          BY <3>3, <4>2 DEF WindowShape, Closed
        <4> QED BY <3>3, <4>1, <4>2
      <3>4. CASE m \in Resends /\ AskedFor(m.seq)
        BY <3>4 DEF OnlyWhatWasRead, AskedFor
      <3> QED BY <3>1, <3>2, <3>3, <3>4 DEF Resends
    <2>2. \A m \in OnTheWay(toClient') : m.flag = "SREJ" => m.seq <= nread'
      BY <1>2 DEF OnlyWhatWasRead
    <2> QED BY <1>2, <2>1, <2>2 DEF OnlyWhatWasRead
  <1> QED BY <1>1, <1>2 DEF ByClient, ClientStep

\* A chunk put into a zeroed slot is what the slot holds.
LEMMA FreshSlot ==
    ASSUME NEW queue \in [Slots -> Bytes], NEW i \in Slots, NEW buf \in Bytes
    PROVE  LET after == add_element(remove_element(queue, i), i, buf)
           IN  /\ after[i] = buf
               /\ \A j \in Slots \ {i} : after[j] = queue[j]
  <1> DEFINE empty == remove_element(queue, i)
             none  == SubSeq(<<>>, Len(buf) + 1, 0)
  <1>1. empty \in [Slots -> Bytes] /\ empty[i] = <<>>
        /\ \A j \in Slots \ {i} : empty[j] = queue[j]
    BY EmptySeq DEF remove_element, Bytes
  <1>2. Len(buf) \in Nat /\ buf \in Seq(Nat)
    BY LenProperties DEF Bytes
  <1>3. none = <<>>
    BY <1>2
  <1>4. buf \o none = buf
    BY <1>2, <1>3
  <1>5. Len(<<>>) = 0
    OBVIOUS
  <1> QED BY <1>1, <1>4, <1>5 DEF add_element

\* Its slots hold the last chunks read.
LEMMA ClientSlots ==
    ASSUME Before, ByClient
    PROVE  SlotsHoldLast'
  <1>0. TypeOK /\ SlotsHoldLast /\ cqueue \in [Slots -> Bytes]
    BY DEF Before, Inductive, TypeOK, ClientTypeOK
  <1> USE <1>0, Numbers
  <1>1. CASE ReadsChunk
    <2> DEFINE n == nread + 1
               i == SlotOf(n)
    <2>1. /\ n \in 1 .. Len(File) /\ nread' = n
          /\ cqueue' = add_element(remove_element(cqueue, i), i, File[n])
      BY <1>1, ReadsBeforeEnd DEF ReadsChunk
    <2>2. i \in Slots /\ File[n] \in Bytes
      BY <2>1, SlotOfType, RcopyAssumption, ElementOfSeq
    <2>3. cqueue'[i] = File[n] /\ \A j \in Slots \ {i} : cqueue'[j] = cqueue[j]
      BY <2>1, <2>2, FreshSlot
    <2> HIDE DEF i
    <2>4. ASSUME NEW k \in 1 .. n, k > n - WindowSize
          PROVE  cqueue'[SlotOf(k)] = File[k]
      <3>1. CASE k = n
        BY <2>3, <3>1 DEF i
      <3>2. CASE k # n
        <4>1. k \in 1 .. nread /\ k > nread - WindowSize
          BY <2>1, <2>4, <3>2
        <4>2. SlotOf(k) # SlotOf(n)
          <5>1. k \in Int /\ n \in Int /\ k - n < WindowSize /\ n - k < WindowSize
            BY <2>1, <2>4
          <5> QED BY <3>2, <5>1, SlotOfInjective
        <4>3. SlotOf(k) \in Slots
          BY <4>1, SlotOfType
        <4>4. cqueue[SlotOf(k)] = File[k]
          BY <4>1 DEF SlotsHoldLast
        <4> QED BY <2>3, <4>2, <4>3, <4>4 DEF i
      <3> QED BY <3>1, <3>2
    <2> QED BY <2>1, <2>4 DEF SlotsHoldLast
  <1>2. CASE UNCHANGED <<nread, cqueue>>
    BY <1>2 DEF SlotsHoldLast
  <1> QED BY <1>1, <1>2 DEF ByClient, ClientStep

\* It reads and sends within the window of the server.
LEMMA ClientWithinWindow ==
    ASSUME Before, ByClient
    PROVE  ReadWithinWindow' /\ InReceiverWindow'
  <1>0. /\ TypeOK /\ AckNeverAhead /\ WindowShape /\ ReadWithinWindow
        /\ InReceiverWindow /\ expected' = expected
        /\ OnTheWay(toClient') \subseteq OnTheWay(toClient)
    BY DEF Before, Inductive, ByClient, ClientStep
  <1> USE <1>0, Numbers
  <1>1. CASE ReadsChunk
    <2> SUFFICES ASSUME ~overrun'
                 PROVE  /\ nread' < expected + WindowSize
                        /\ \A m \in OnTheWay(toClient') :
                             m.flag = "SREJ" => m.seq < expected + WindowSize
                        /\ \A m \in Data' : m.seq < expected + WindowSize
      BY DEF ReadWithinWindow, InReceiverWindow
    <2>1. ~overrun /\ ~Closed
      BY <1>1 DEF ReadsChunk
    <2>2. window.current = nread + 1 /\ nread' = nread + 1
      BY <1>1, ReadsBeforeEnd DEF ReadsChunk
    <2>3. nread' < expected + WindowSize
      BY <2>1, <2>2 DEF WindowShape, AckNeverAhead, Closed
    <2>4. ASSUME NEW m \in Data' PROVE m.seq < expected + WindowSize
      <3>1. m \in Data \/ m = Packet("DATA", window.current, File[nread + 1])
        BY <1>1, <2>4 DEF ReadsChunk, Data, Noise
      <3>2. CASE m \in Data
        BY <2>1, <3>2 DEF InReceiverWindow
      <3>3. CASE m = Packet("DATA", window.current, File[nread + 1])
        BY <2>2, <2>3, <3>3 DEF Packet
      <3> QED BY <3>1, <3>2, <3>3
    <2> QED BY <2>1, <2>3, <2>4 DEF ReadWithinWindow
  <1>2. CASE /\ UNCHANGED <<nread, overrun>>
             /\ OnTheWay(toServer') \subseteq
                  OnTheWay(toServer) \cup Resends \cup ClientSignals \cup Noise
    <2>1. ASSUME ~overrun, NEW m \in Data' PROVE m.seq < expected + WindowSize
      <3>1. m \in Data \/ m \in Resends
        BY <1>2, <2>1 DEF Data, Noise, ClientSignals
      <3>2. CASE m \in Data
        BY <2>1, <3>2 DEF InReceiverWindow
      <3>3. CASE m.seq = window.lower
        BY <3>3 DEF AckNeverAhead
      <3>4. CASE AskedFor(m.seq)
        BY <2>1, <3>4 DEF ReadWithinWindow, AskedFor
      <3> QED BY <3>1, <3>2, <3>3, <3>4 DEF Resends
    <2> QED BY <1>2, <2>1 DEF ReadWithinWindow, InReceiverWindow
  <1> QED BY <1>1, <1>2 DEF ByClient, ClientStep

\* What it sends under a number that the server still takes is that chunk.
LEMMA ClientFaithful ==
    ASSUME Before, ByClient
    PROVE  DataFaithful'
  <1>0. /\ TypeOK /\ AckNeverAhead /\ WindowShape /\ ReadWithinWindow
        /\ OnlyWhatWasRead /\ SlotsHoldLast /\ DataFaithful
        /\ expected' = expected
    BY DEF Before, Inductive, ByClient
  <1> USE <1>0, Numbers
  <1>1. CASE ReadsChunk
    <2>1. window.current = nread + 1 /\ (~overrun' => ~overrun)
      BY <1>1, ReadsBeforeEnd DEF ReadsChunk
    <2>2. ASSUME ~overrun', NEW m \in Data', m.seq \in expected .. Len(File)
          PROVE  m.data \in {File[m.seq], UpToNul(File[m.seq])}
      <3>1. m \in Data \/ m = Packet("DATA", window.current, File[nread + 1])
        BY <1>1, <2>2 DEF ReadsChunk, Data, Noise
      <3>2. CASE m \in Data
        BY <2>1, <2>2, <3>2 DEF DataFaithful
      <3>3. CASE m = Packet("DATA", window.current, File[nread + 1])
        BY <2>1, <3>3 DEF Packet
      <3> QED BY <3>1, <3>2, <3>3
    <2> QED BY <2>2 DEF DataFaithful
  <1>2. CASE /\ UNCHANGED <<nread, overrun>>
             /\ OnTheWay(toServer') \subseteq
                  OnTheWay(toServer) \cup Resends \cup ClientSignals \cup Noise
    <2>1. ASSUME ~overrun, NEW m \in Data', m.seq \in expected .. Len(File)
          PROVE  m.data \in {File[m.seq], UpToNul(File[m.seq])}
      <3>1. m \in Data \/ m \in Resends
        BY <1>2, <2>1 DEF Data, Noise, ClientSignals
      <3>2. CASE m \in Data
        BY <2>1, <3>2 DEF DataFaithful
      <3>3. CASE m \in Resends
        <4>1. m.seq <= nread
          <5>1. CASE AskedFor(m.seq)
            BY <5>1 DEF OnlyWhatWasRead, AskedFor
          <5>2. CASE window.end # 0
            BY <2>1, <5>2 DEF WindowShape
          <5>3. CASE m.seq = window.lower /\ window.end = 0 /\ Closed
            BY <5>3 DEF WindowShape, Closed
          <5> QED BY <3>3, <5>1, <5>2, <5>3 DEF Resends
        <4>2. m.seq \in 1 .. nread /\ m.seq > nread - WindowSize
          BY <2>1, <4>1 DEF ReadWithinWindow
        <4>3. cqueue[SlotOf(m.seq)] = File[m.seq]
          BY <4>2 DEF SlotsHoldLast
        <4> QED BY <3>3, <4>3 DEF Resends
      <3> QED BY <3>1, <3>2, <3>3
    <2> QED BY <1>2, <2>1 DEF DataFaithful
  <1> QED BY <1>1, <1>2 DEF ByClient, ClientStep

\* It speaks of the file and reports what the server has told it.
LEMMA ClientFile ==
    ASSUME Before, ByClient
    PROVE  FileState' /\ CloseOnlyWhenComplete'
  <1>0. /\ TypeOK /\ FileState /\ CloseOnlyWhenComplete /\ WindowShape
        /\ UNCHANGED <<sstate, fd, expected>>
        /\ OnTheWay(toClient') \subseteq OnTheWay(toClient)
    BY DEF Before, Inductive, ByClient, ClientStep
  <1>1. WindowShape'
    BY ClientWindowShape
  <1>2. window'.end = -1 => expected' > Len(File)
    BY <1>1 DEF WindowShape
  <1>3. ASSUME NEW m \in OnTheWay(toServer'), m.flag = "EoF"
        PROVE  expected > Len(File)
    <2>1. CASE m \in OnTheWay(toServer)
      BY <1>0, <1>3, <2>1 DEF FileState
    <2>2. CASE m \in Noise \cup Resends
                    \cup {Packet("DATA", window.current, File[nread + 1])}
      BY <1>3, <2>2 DEF Noise, Resends, Packet
    <2>3. CASE m \in ClientSignals
      BY <1>0, <1>3, <2>3 DEF ClientSignals, WindowShape
    <2> QED BY <2>1, <2>2, <2>3 DEF ByClient, ClientStep, ReadsChunk
  <1>4. outcome' = "saved" =>
          expected' > Len(File) /\ fd' # "open" /\ fd' # "none"
    <2>1. CASE outcome' = outcome
      BY <1>0, <2>1 DEF CloseOnlyWhenComplete, FileState
    <2>2. CASE Reports
      BY <1>0, <2>2 DEF Reports, FileState
    <2> QED BY <2>1, <2>2 DEF ByClient, ClientStep
  <1>5. FileState'
    BY <1>0, <1>3, <1>4 DEF FileState
  <1> QED BY <1>0, <1>2, <1>4, <1>5 DEF CloseOnlyWhenComplete

\* It takes its steps before it has reported.
LEMMA ClientRuns ==
    ASSUME RunsUntilReport, RcopyNext
    PROVE  outcome = "running" /\ RunsUntilReport'
  <1> USE DEF RunsUntilReport, GoTo, Exit
  <1>1. CASE Filename \/ FilenameTimeout
    BY <1>1 DEF Filename, FilenameFirst, FilenameGarbled, FilenameAgain,
                FilenameAnswered, FilenameTimeout
  <1>2. CASE GetData
    BY <1>2 DEF GetData, GetNothing, GetUnknown, GetFnameRes, GetFopenErr,
                GetRR, GetSREJ, GetEoF, Crash
  <1>3. CASE SendData
    BY <1>3 DEF SendData, SendChunk, ReachEndOfFile, ReadError, Crash
  <1>4. CASE WindowStatus \/ WindowGivesUp \/ WindowResends \/ WindowSendsEoF
    BY <1>4 DEF WindowStatus, WindowOpen, WindowAnswered, WindowGivesUp,
                WindowResends, WindowSendsEoF, Crash
  <1> QED BY <1>1, <1>2, <1>3, <1>4 DEF RcopyNext, RcopyTimeout

\* A step of the client keeps the invariant.
LEMMA ClientInductive ==
    ASSUME Before, RcopyNext, UNCHANGED serverVars
    PROVE  Inductive' /\ ByClient
  <1>1. ByClient
    BY RcopyNextEffect DEF ByClient, Before, Inductive, serverVars, recvVars
  <1>2. RunsUntilReport'
    BY ClientRuns DEF Before, Inductive
  <1> QED BY <1>1, <1>2, ClientWindowShape, ClientOnlyRead, ClientSlots,
             ClientWithinWindow, ClientFaithful, ClientFile
          DEF Inductive

\* A step of the server keeps the numbers it shares with the client.
LEMMA ServerNumbers ==
    ASSUME Before, ByServer
    PROVE  expected' \in Nat \ {0} /\ expected <= expected'
  <1>1. CASE Accepts
    BY <1>1, Numbers DEF Before, Accepts
  <1>2. CASE UNCHANGED expected
    BY <1>2, Numbers DEF Before
  <1> QED BY <1>1, <1>2 DEF ByServer, ServerStep, ClosesFile, OpensFile, MovesOn

\* server.c asks only for what the client has read, within the window.
LEMMA ServerAsks ==
    ASSUME Before, ByServer
    PROVE  /\ WindowShape' /\ OnlyWhatWasRead' /\ SlotsHoldLast'
           /\ ReadWithinWindow' /\ InReceiverWindow' /\ DataFaithful'
  <1>0. /\ TypeOK /\ WindowShape /\ OnlyWhatWasRead /\ SlotsHoldLast
        /\ ReadWithinWindow /\ InReceiverWindow /\ DataFaithful
        /\ expected' \in Nat /\ expected <= expected' /\ expected' # 0
        /\ UNCHANGED <<window, nread, cqueue, overrun>>
        /\ Data' \subseteq Data /\ \A m \in Data : m \in OnTheWay(toServer)
    BY ServerNumbers DEF Before, Inductive, ByServer, ServerStep, Data
  <1> USE <1>0, Numbers
  <1>1. ASSUME NEW m \in OnTheWay(toClient'), m.flag = "RR" PROVE m.seq >= 1
    <2>1. m \in OnTheWay(toClient) \/ m.seq = expected'
      BY <1>1 DEF ByServer, ServerStep, Answers, Noise
    <2> QED BY <1>1, <2>1 DEF WindowShape
  <1>2. WindowShape'
    BY <1>1 DEF WindowShape
  <1>3. ASSUME NEW m \in OnTheWay(toClient'), m.flag = "SREJ"
        PROVE  m.seq <= nread /\ (~overrun => m.seq < expected' + WindowSize)
    <2>1. CASE m \in OnTheWay(toClient)
      BY <1>3, <2>1 DEF OnlyWhatWasRead, ReadWithinWindow
    <2>2. CASE m \notin OnTheWay(toClient)
      <3>1. m \in Messages /\ \E d \in Data : d.seq > expected /\ m.seq < d.seq
        BY <1>3, <2>2 DEF ByServer, ServerStep, Answers, Noise
      <3>2. PICK d \in Data : d.seq > expected /\ m.seq < d.seq
        BY <3>1
      <3>3. m.seq \in Nat /\ d.seq \in Nat
        BY <3>1 DEF Messages
      <3>4. d.seq <= nread
        BY <3>2, <3>3 DEF OnlyWhatWasRead
      <3>5. ~overrun => d.seq < expected + WindowSize
        BY DEF InReceiverWindow
      <3> QED BY <3>2, <3>3, <3>4, <3>5
    <2> QED BY <2>1, <2>2
  <1>4. OnlyWhatWasRead'
    <2>1. \A m \in Data' :
            m.seq <= nread \/ (nread = Len(File) /\ m.seq <= expected')
      BY DEF OnlyWhatWasRead
    <2> QED BY <1>3, <2>1 DEF OnlyWhatWasRead
  <1>5. ReadWithinWindow'
    BY <1>3 DEF ReadWithinWindow
  <1>6. InReceiverWindow'
    BY DEF InReceiverWindow
  <1>7. DataFaithful'
    BY DEF DataFaithful
  <1>8. SlotsHoldLast'
    BY DEF SlotsHoldLast
  <1> QED BY <1>2, <1>4, <1>5, <1>6, <1>7, <1>8

\* It closes and speaks of a file that is complete.
LEMMA ServerFile ==
    ASSUME Before, ByServer
    PROVE  FileState' /\ CloseOnlyWhenComplete'
  <1>0. /\ TypeOK /\ FileState /\ CloseOnlyWhenComplete
        /\ expected' \in Nat /\ expected <= expected'
        /\ UNCHANGED <<window, outcome>>
        /\ fd \in Descriptors
    BY ServerNumbers DEF Before, Inductive, ByServer, TypeOK, ServerTypeOK
  <1> USE <1>0, Numbers
  <1>1. expected > Len(File) => expected' > Len(File)
    OBVIOUS
  <1>2. \A m \in OnTheWay(toServer') : m.flag = "EoF" => expected' > Len(File)
    BY <1>1 DEF FileState, ByServer, ServerStep
  <1>3. ASSUME fd \in {"closed", "failed"} PROVE fd' = fd
    BY <1>3 DEF ByServer, ServerStep, Accepts, ClosesFile, OpensFile, MovesOn,
                CloseFd, FileState
  <1>4. ClosesFile => expected > Len(File) /\ fd' \in {"closed", "failed"}
    BY DEF ClosesFile, CloseFd, FileState, Descriptors
  <1>5. ASSUME NEW m \in OnTheWay(toClient')
        PROVE  /\ m.flag = "EoF" => expected' > Len(File) /\ fd' \in {"closed", "failed"}
               /\ m.flag = "FOPEN_ERR" => fd' = "failed"
    <2>1. CASE m \in OnTheWay(toClient)
      BY <1>1, <1>3, <2>1 DEF FileState
    <2>2. CASE m \in Answers
      BY <1>1, <1>4, <2>2 DEF Answers
    <2>3. CASE m \in Noise
      BY <2>3 DEF Noise
    <2> QED BY <2>1, <2>2, <2>3 DEF ByServer, ServerStep
  <1>6. outcome = "saved" => fd' # "none" /\ fd' # "open"
    BY <1>3 DEF FileState, CloseOnlyWhenComplete, Descriptors
  <1>7. /\ sstate' \in {"FILENAME", "CONNECTION"} => fd' = "none"
        /\ sstate' = "WAIT_DATA" => fd' # "none"
        /\ sstate' = "WAIT_DATA" /\ fd' = "closed" => expected' > Len(File)
    <2>1. CASE UNCHANGED <<sstate, fd>>
      BY <1>1, <2>1 DEF FileState, CloseOnlyWhenComplete
    <2>2. CASE ClosesFile
      BY <1>1, <1>4, <2>2 DEF ClosesFile
    <2>3. CASE OpensFile
      BY <2>3 DEF OpensFile
    <2>4. CASE MovesOn
      BY <2>4 DEF MovesOn, FileState
    <2> QED BY <2>1, <2>2, <2>3, <2>4 DEF ByServer, ServerStep, Accepts
  <1>8. FileState'
    BY <1>2, <1>5, <1>6, <1>7 DEF FileState
  <1>9. CloseOnlyWhenComplete'
    BY <1>1, <1>6, <1>7 DEF CloseOnlyWhenComplete
  <1> QED BY <1>8, <1>9

\* A step of the server keeps the invariant.
LEMMA ServerInductive ==
    ASSUME Before, ServerNext, UNCHANGED rcopyVars
    PROVE  Inductive' /\ ByServer
  <1>1. ByServer
    BY ServerNextEffect DEF ByServer, Before, rcopyVars, windowVars
  <1>2. RunsUntilReport'
    BY <1>1 DEF Before, Inductive, RunsUntilReport, ByServer
  <1> QED BY <1>1, <1>2, ServerAsks, ServerFile DEF Inductive

\* So does a step that leaves both alone and puts nothing on the way.
LEMMA NetworkInductive ==
    ASSUME Before, UNCHANGED <<rcopyVars, serverVars>>,
           OnTheWay(toServer') \subseteq OnTheWay(toServer),
           OnTheWay(toClient') \subseteq OnTheWay(toClient)
    PROVE  Inductive'
  <1>1. UNCHANGED <<cstate, window, cqueue, nread, outcome, overrun,
                    sstate, fd, expected>>
    BY DEF rcopyVars, windowVars, serverVars, recvVars
  <1>2. Data' \subseteq Data
    BY DEF Data
  <1>3. WindowShape' /\ OnlyWhatWasRead' /\ SlotsHoldLast' /\ ReadWithinWindow'
    BY <1>1, <1>2 DEF Before, Inductive, WindowShape, OnlyWhatWasRead,
                      SlotsHoldLast, ReadWithinWindow
  <1>4. InReceiverWindow' /\ DataFaithful'
    BY <1>1, <1>2 DEF Before, Inductive, InReceiverWindow, DataFaithful
  <1>5. FileState' /\ RunsUntilReport' /\ CloseOnlyWhenComplete'
    BY <1>1 DEF Before, Inductive, FileState, RunsUntilReport,
                CloseOnlyWhenComplete
  <1> QED BY <1>3, <1>4, <1>5 DEF Inductive

\* A late arrival puts nothing new on the way.
LEMMA LateArrivalEffect ==
    ASSUME TypeOK, LateArrival
    PROVE  /\ OnTheWay(toServer') \subseteq OnTheWay(toServer)
           /\ OnTheWay(toClient') \subseteq OnTheWay(toClient)
  BY OvertakenType DEF TypeOK, NetworkTypeOK, LateArrival

\* The invariant holds at first.
LEMMA InitInductive == Init => Inductive
  <1> SUFFICES ASSUME Init PROVE Inductive
    OBVIOUS
  <1> USE DEF Init, RcopyInit, ServerInit
  <1>1. Len(File) \in Nat /\ WindowSize \in Nat \ {0}
    BY RcopyAssumption, LenProperties, SizesPositive
  <1>2. OnTheWay(toServer) = {}
    BY EmptySockets
  <1>3. \A m \in OnTheWay(toClient) : m.flag \in {"SETUP_RES", "CRC_ERROR"}
    BY SetupAnswersType
  <1>4. WindowShape /\ OnlyWhatWasRead /\ SlotsHoldLast /\ ReadWithinWindow
    BY <1>1, <1>2, <1>3 DEF WindowShape, OnlyWhatWasRead, SlotsHoldLast,
                            ReadWithinWindow, FirstUpper, Data
  <1>5. InReceiverWindow /\ DataFaithful
    BY <1>2 DEF InReceiverWindow, DataFaithful, Data
  <1>6. FileState /\ RunsUntilReport /\ CloseOnlyWhenComplete
    BY <1>2, <1>3 DEF FileState, RunsUntilReport, CloseOnlyWhenComplete
  <1> QED BY <1>4, <1>5, <1>6 DEF Inductive

\* Every step keeps it.
LEMMA NextInductive == Before /\ [Next]_vars => Before'
  <1> SUFFICES ASSUME Before, [Next]_vars PROVE Before'
    OBVIOUS
  <1>1. TypeOK' /\ AckNeverAhead'
    BY NextType, NextAck DEF Before
  <1>2. CASE RcopyNext /\ UNCHANGED serverVars
    BY <1>1, <1>2, ClientInductive DEF Before
  <1>3. CASE ServerNext /\ UNCHANGED rcopyVars
    BY <1>1, <1>3, ServerInductive DEF Before
  <1>4. CASE LateArrival /\ UNCHANGED <<rcopyVars, serverVars>>
    BY <1>1, <1>4, LateArrivalEffect, NetworkInductive DEF Before
  <1>5. CASE UNCHANGED vars
    BY <1>1, <1>5, NetworkInductive DEF Before, vars, networkVars
  <1> QED BY <1>2, <1>3, <1>4, <1>5 DEF Next

\* The invariant of TransferInvariant holds in every transfer.
THEOREM InductiveInvariant == Spec => []Inductive
  <1>1. Init => Before
    BY InitType, InitAck, InitInductive DEF Before
  <1>2. Before /\ [Next]_vars => Before'
    BY NextInductive
  <1>3. Before => Inductive
    BY DEF Before
  <1> QED BY <1>1, <1>2, <1>3, PTL DEF Spec

\* As long as send_data of rcopy.c keeps to its window, no DATA packet is more
\* than a window ahead of expected_seq of server.c, so that no two chunks its
\* get_data buffers share a slot: for every window, file and network.
THEOREM WindowRespected == Spec => []InReceiverWindow
  <1>1. Inductive => InReceiverWindow
    BY DEF Inductive
  <1> QED BY <1>1, InductiveInvariant, PTL

\* As long as send_data keeps to its window, window_status and the SREJ case of
\* get_data never send a reused slot under a number the server still takes.
THEOREM ResendsFaithful == Spec => []DataFaithful
  <1>1. Inductive => DataFaithful
    BY DEF Inductive
  <1> QED BY <1>1, InductiveInvariant, PTL

\* The client can answer each SREJ that matters from the slot it looks up.
THEOREM SrejAlwaysAnswerable == Spec => []SrejAnswerable
  <1>1. Before => SrejAnswerable
    <2> SUFFICES ASSUME Before, ~overrun, NEW m \in OnTheWay(toClient),
                        m.flag = "SREJ", m.seq >= expected
                 PROVE  m.seq <= Len(File) /\ cqueue[SlotOf(m.seq)] = File[m.seq]
      BY DEF SrejAnswerable
    <2>1. TypeOK /\ OnlyWhatWasRead /\ ReadWithinWindow /\ SlotsHoldLast
      BY DEF Before, Inductive
    <2>2. m.seq \in 1 .. nread /\ m.seq > nread - WindowSize /\ m.seq <= Len(File)
      BY <2>1, Numbers DEF OnlyWhatWasRead, ReadWithinWindow
    <2> QED BY <2>1, <2>2 DEF SlotsHoldLast
  <1>2. Init => Before
    BY InitType, InitAck, InitInductive DEF Before
  <1>3. Before /\ [Next]_vars => Before'
    BY NextInductive
  <1> QED BY <1>1, <1>2, <1>3, PTL DEF Spec

\* The EoF handshake closes the file and reports success only once every chunk
\* has been taken, whatever is lost, late, duplicated or garbled.
THEOREM CloseSafe == Spec => []CloseOnlyWhenComplete
  <1>1. Inductive => CloseOnlyWhenComplete
    BY DEF Inductive
  <1> QED BY <1>1, InductiveInvariant, PTL

\* A step of the client that leaves end at 0 counts a failed attempt only
\* below the limit.
LEMMA ClientTries ==
    ASSUME Before, TriesBounded, RcopyNext
    PROVE  TriesBounded'
  <1>0. retryCount \in Nat /\ WINDOW_TRIES \in Nat /\ window \in Windows
    BY RcopyAssumption DEF Before, TypeOK, ClientTypeOK
  <1> SUFFICES ASSUME window'.end = 0 PROVE retryCount' <= WINDOW_TRIES
    BY DEF TriesBounded
  <1> USE DEF GoTo, Exit, windowVars
  <1>1. CASE Filename \/ FilenameTimeout
    BY <1>0, <1>1 DEF Filename, FilenameFirst, FilenameGarbled, FilenameAgain,
         FilenameAnswered, FilenameTimeout, SendFname, TriesBounded
  <1>2. CASE GetData
    <2>1. UNCHANGED retryCount
      BY <1>2 DEF GetData, GetNothing, GetUnknown, GetFnameRes, GetFopenErr,
                  GetRR, GetSREJ, GetEoF
    <2>2. [window EXCEPT !.end = -1].end = -1
      BY <1>0, WindowFields
    <2>3. \A rr : Slid(rr).end = window.end
      BY <1>0, WindowFields
    <2>4. CASE GetRR
      <3>1. \/ window' = [window EXCEPT !.end = -1]
            \/ \E rr : window' = Slid(rr)
        BY <2>4 DEF GetRR
      <3>2. window'.end = -1 \/ window'.end = window.end
        BY <2>2, <2>3, <3>1
      <3> QED BY <2>1, <3>2 DEF TriesBounded
    <2>5. CASE UNCHANGED window
      BY <2>1, <2>5 DEF TriesBounded
    <2> QED BY <1>2, <2>4, <2>5 DEF GetData, GetNothing, GetUnknown,
                  GetFnameRes, GetFopenErr, GetSREJ, GetEoF
  <1>3. CASE SendData
    <2>1. UNCHANGED retryCount
      BY <1>3 DEF SendData, SendChunk, ReachEndOfFile, ReadError
    <2>2. [window EXCEPT !.current = @ + 1].end = window.end
      BY <1>0, WindowFields
    <2>3. window.end = 0 \/ ReachEndOfFile
      BY <1>3, <2>2 DEF SendData, SendChunk, ReadError
    <2>4. [window EXCEPT !.end = window.current].end = window.current
      BY <1>0, WindowFields
    <2>5. window.current # 0
      <3>1. nread \in Nat /\ window.current \in Nat /\ nread < window.current
        BY Numbers DEF Before, Inductive, WindowShape
      <3> QED BY <3>1
    <2> QED BY <2>1, <2>3, <2>4, <2>5 DEF TriesBounded, ReachEndOfFile
  <1>4. CASE WindowStatus \/ WindowGivesUp \/ WindowResends \/ WindowSendsEoF
    <2>1. [window EXCEPT !.current = @ + 1].end = window.end
      BY <1>0, WindowFields
    <2>2. window.end = 0
      BY <1>4, <2>1 DEF WindowStatus, WindowOpen, WindowAnswered,
                        WindowGivesUp, WindowResends, WindowSendsEoF
    <2>3. retryCount <= WINDOW_TRIES
      BY <2>2 DEF TriesBounded
    <2>4. CASE WindowResends
      <3>1. retryCount # WINDOW_TRIES /\ retryCount' = retryCount + 1
        BY <2>2, <2>4 DEF WindowResends, OutOfTries
      <3> QED BY <1>0, <2>3, <3>1
    <2>5. CASE WindowAnswered
      BY <1>0, <2>5 DEF WindowAnswered, RetryAfterAnswer
    <2>6. CASE WindowOpen \/ WindowGivesUp
      BY <2>3, <2>6 DEF WindowOpen, WindowGivesUp
    <2>7. ~WindowSendsEoF
      BY <2>2 DEF WindowSendsEoF
    <2> QED BY <1>4, <2>4, <2>5, <2>6, <2>7 DEF WindowStatus
  <1> QED BY <1>1, <1>2, <1>3, <1>4 DEF RcopyNext, RcopyTimeout

\* Up to the end of the file, the count of failed attempts of window_status is
\* never past the limit that it is compared with by ==.
THEOREM TriesSafe == Spec => []TriesBounded
  <1>1. Init => Before /\ TriesBounded
    <2>1. Init => retryCount = 0 /\ WINDOW_TRIES \in Nat
      BY RcopyAssumption DEF Init, RcopyInit
    <2> QED BY <2>1, InitType, InitAck, InitInductive DEF Before, TriesBounded
  <1>2. Before /\ TriesBounded /\ [Next]_vars => TriesBounded'
    <2> SUFFICES ASSUME Before, TriesBounded, [Next]_vars PROVE TriesBounded'
      OBVIOUS
    <2>1. CASE RcopyNext
      BY <2>1, ClientTries
    <2>2. CASE UNCHANGED rcopyVars
      BY <2>2 DEF rcopyVars, windowVars, TriesBounded
    <2> QED BY <2>1, <2>2 DEF Next, vars
  <1>3. Before /\ [Next]_vars => Before'
    BY NextInductive
  <1> QED BY <1>1, <1>2, <1>3, PTL DEF Spec

(***************************************************************************)
(* Transfer implements WindowedCopy.                                       *)
(***************************************************************************)

\* The descriptor and the state of process_client, as the copy sees them.
FileOfCopy == IF sstate = "DONE" /\ fd # "failed" THEN "gone" ELSE fd

\* A step of the client is a step of the copy.
LEMMA ClientCopies ==
    ASSUME Before, ByClient, outcome = "running"
    PROVE  [Copy!Next]_(Copy!copyVars)
  <1>0. /\ TypeOK /\ AckNeverAhead /\ WindowShape /\ FileState
        /\ CloseOnlyWhenComplete /\ window \in Windows /\ fd \in Descriptors
        /\ UNCHANGED <<sstate, fd, expected>>
    BY DEF Before, Inductive, ByClient, TypeOK, ClientTypeOK, ServerTypeOK
  <1> USE <1>0, Numbers
  <1>1. Copy!Running
    BY DEF Copy!Running
  <1>2. CASE ReadsChunk /\ UNCHANGED outcome
    <2>1. window.current = nread + 1 /\ window'.lower = window.lower
      BY <1>2, ReadsBeforeEnd, WindowFields DEF ReadsChunk
    <2>2. Closed <=> ~(nread < window.lower - 1 + WindowSize)
      BY <2>1 DEF Closed, WindowShape
    <2>3. Copy!Send
      BY <1>1, <1>2, <2>1, <2>2 DEF Copy!Send, ReadsChunk
    <2> QED BY <2>3 DEF Copy!Next
  <1>3. CASE UNCHANGED <<window, outcome, nread, overrun>>
    BY <1>3 DEF Copy!copyVars
  <1>4. CASE UNCHANGED <<nread, overrun, outcome>> /\ MovesWindow
    <2>1. CASE window'.lower = window.lower
      BY <1>4, <2>1 DEF Copy!copyVars
    <2>2. CASE window'.lower # window.lower
      <3>1. PICK m \in OnTheWay(toClient) : m.flag = "RR" /\ window'.lower = m.seq
        <4>1. \A e : [window EXCEPT !.end = e].lower = window.lower
          BY WindowFields
        <4>2. \A rr : Slid(rr).lower = rr
          BY WindowFields
        <4>3. [window EXCEPT !.current = @ + 1].lower = window.lower
          BY WindowFields
        <4>4. PICK m \in OnTheWay(toClient) : m.flag = "RR" /\ window' = Slid(m.seq)
          BY <1>4, <2>2, <4>1, <4>3 DEF MovesWindow
        <4> QED BY <4>2, <4>4
      <3>2. m.seq \in 1 .. expected
        BY <3>1 DEF AckNeverAhead, WindowShape
      <3>3. Copy!Acknowledge
        BY <1>1, <1>4, <3>1, <3>2 DEF Copy!Acknowledge
      <3> QED BY <3>3 DEF Copy!Next
    <2> QED BY <2>1, <2>2
  <1>5. CASE UNCHANGED <<nread, overrun, window>> /\ Reports
    <2>1. CASE outcome' = "saved" /\ \E m \in OnTheWay(toClient) : m.flag = "EoF"
      <3>1. expected > Len(File) /\ fd \in {"closed", "failed"}
        BY <2>1 DEF FileState
      <3>2. Copy!Save
        BY <1>1, <1>5, <2>1, <3>1 DEF Copy!Save
      <3> QED BY <3>2 DEF Copy!Next
    <2>2. CASE /\ outcome' = "open error"
               /\ \E m \in OnTheWay(toClient) : m.flag = "FOPEN_ERR"
      <3>1. fd = "failed"
        BY <2>2 DEF FileState
      <3>2. Copy!ReportOpenError
        BY <1>1, <1>5, <2>2, <3>1 DEF Copy!ReportOpenError
      <3> QED BY <3>2 DEF Copy!Next
    <2>3. CASE outcome' \in {"no response", "crash"}
      <3>1. Copy!Fail
        BY <1>1, <1>5, <2>3 DEF Copy!Fail
      <3> QED BY <3>1 DEF Copy!Next
    <2> QED BY <1>5, <2>1, <2>2, <2>3 DEF Reports
  <1> QED BY <1>2, <1>3, <1>4, <1>5 DEF ByClient, ClientStep

\* A step of the server is a step of the copy.
LEMMA ServerCopies ==
    ASSUME Before, ByServer
    PROVE  [Copy!Next]_(Copy!copyVars)
  <1>0. /\ TypeOK /\ OnlyWhatWasRead /\ FileState /\ fd \in Descriptors
        /\ sstate \in ServerStates
        /\ UNCHANGED <<window, nread, overrun, outcome>>
    BY DEF Before, Inductive, ByServer, TypeOK, ServerTypeOK
  <1> USE <1>0, Numbers
  <1>1. CASE UNCHANGED <<sstate, fd, expected>>
    BY <1>1 DEF Copy!copyVars
  <1>2. CASE Accepts
    <2>1. PICK d \in Data : d.seq = expected
      BY <1>2 DEF Accepts
    <2>2. expected - 1 < nread \/ nread = Len(File)
      BY <2>1 DEF OnlyWhatWasRead
    <2>3. fd \in {"open", "failed", "closed"} /\ sstate = "WAIT_DATA"
      BY <1>2 DEF Accepts, FileState, Descriptors
    <2>4. expected' - 1 \in (expected - 1) + 1 .. (expected - 1) + 1 + WindowSize
      BY <1>2 DEF Accepts
    <2>5. Copy!Take
      BY <1>2, <2>2, <2>3, <2>4 DEF Copy!Take, Accepts
    <2> QED BY <2>5 DEF Copy!Next
  <1>3. CASE ClosesFile
    <2>1. expected > Len(File) /\ sstate = "WAIT_DATA" /\ UNCHANGED <<sstate, expected>>
      BY <1>3 DEF ClosesFile, FileState
    <2>2. CASE fd = "open"
      <3>1. Copy!Close
        BY <1>3, <2>1, <2>2 DEF Copy!Close, ClosesFile, CloseFd
      <3> QED BY <3>1 DEF Copy!Next
    <2>3. CASE fd # "open"
      BY <1>3, <2>1, <2>3 DEF Copy!copyVars, ClosesFile, CloseFd
    <2> QED BY <2>2, <2>3
  <1>4. CASE OpensFile
    <2>1. Copy!Open
      BY <1>4 DEF Copy!Open, OpensFile, FileState
    <2> QED BY <2>1 DEF Copy!Next
  <1>5. CASE MovesOn
    <2>1. CASE UNCHANGED FileOfCopy
      BY <1>5, <2>1 DEF Copy!copyVars, MovesOn, FileOfCopy
    <2>2. CASE ~UNCHANGED FileOfCopy
      <3>1. /\ sstate' = "DONE" /\ sstate # "DONE" /\ fd # "failed"
            /\ fd' # "failed" /\ UNCHANGED expected
        BY <1>5, <2>2 DEF MovesOn, FileOfCopy, CloseFd
      <3>2. Copy!Leave
        BY <3>1 DEF Copy!Leave, Descriptors
      <3> QED BY <3>2 DEF Copy!Next
    <2> QED BY <2>1, <2>2
  <1> QED BY <1>1, <1>2, <1>3, <1>4, <1>5 DEF ByServer, ServerStep

\* A transfer begins as a copy begins.
LEMMA InitCopies == Init => Copy!Init
  <1> SUFFICES ASSUME Init PROVE Copy!Init
    OBVIOUS
  <1>1. window.lower = 1
    BY DEF Init, RcopyInit
  <1> QED BY <1>1 DEF Init, RcopyInit, ServerInit, Copy!Init

\* Every step of a transfer is a step of the copy or leaves it alone.
LEMMA NextCopies == Before /\ [Next]_vars => [Copy!Next]_(Copy!copyVars)
  <1> SUFFICES ASSUME Before, [Next]_vars PROVE [Copy!Next]_(Copy!copyVars)
    OBVIOUS
  <1>1. CASE RcopyNext /\ UNCHANGED serverVars
    BY <1>1, ClientInductive, ClientRuns, ClientCopies DEF Before, Inductive
  <1>2. CASE ServerNext /\ UNCHANGED rcopyVars
    BY <1>2, ServerInductive, ServerCopies
  <1>3. CASE UNCHANGED <<rcopyVars, serverVars>>
    <2>1. UNCHANGED <<nread, expected, window, overrun, sstate, fd, outcome>>
      BY <1>3 DEF rcopyVars, windowVars, serverVars, recvVars
    <2> QED BY <2>1 DEF Copy!copyVars
  <1> QED BY <1>1, <1>2, <1>3 DEF Next, vars

\* rcopy.c and server.c, on a network that drops, garbles, delays and
\* duplicates, copy the file as WindowedCopy says: whatever the file, the
\* window, the tries and the number of faults.
THEOREM CopyImplemented == Spec => ImplementsCopy
  <1>1. Init => Before
    BY InitType, InitAck, InitInductive DEF Before
  <1>2. Before /\ [Next]_vars => Before'
    BY NextInductive
  <1>3. Init => Copy!Init
    BY InitCopies
  <1>4. Before /\ [Next]_vars => [Copy!Next]_(Copy!copyVars)
    BY NextCopies
  <1> QED BY <1>1, <1>2, <1>3, <1>4, PTL DEF Spec, ImplementsCopy, Copy!Spec
===============================================================================
