------------------------------- MODULE Server --------------------------------
(***************************************************************************)
(* The process that server.c forks for a client, from its state FILENAME   *)
(* on: it has sent SETUP_RES from a socket of its own.  One action per     *)
(* packet handled, with get_data and handle_srej as parts of the action.   *)
(***************************************************************************)
EXTENDS Network, Queue

CONSTANTS
    Opens,      \* the results open() of the output file may have
    Patient     \* whether the server quits only after its client is gone

ASSUME ServerAssumption == Opens \in (SUBSET BOOLEAN) \ {{}} /\ Patient \in BOOLEAN

VARIABLES
    sstate,     \* the state of process_client
    fd,         \* the descriptor of the output file
    written,    \* the arguments of the successful calls of write, in order
    expected,   \* the static expected_seq
    srejTotal,  \* srej.total
    rejects,    \* srej.rejects
    squeue      \* the chunks received out of order, by slot

recvVars   == <<written, expected, srejTotal, rejects, squeue>>
serverVars == <<sstate, fd, recvVars>>

ServerStates == {"FILENAME", "WAIT_DATA", "CONNECTION", "DONE"}

\* "failed" is the -1 of open: every write to it fails, unnoticed.
Descriptors == {"none", "open", "failed", "closed"}

\* process_client allocates queue and rejects when it enters WAIT_DATA; nobody
\* looks at them before.
ServerInit ==
    /\ sstate = "FILENAME"
    /\ fd = "none"
    /\ written = <<>>
    /\ expected = 1
    /\ srejTotal = 0
    /\ rejects = [i \in Slots |-> 0]
    /\ squeue = init_queue

----------------------------------------------------------------------------

\* A packet taken from the socket.
ServerRecv(m) ==
    /\ Readable(toServer)
    /\ m = Head(toServer.inbox)
    /\ toServer' = Received(toServer)

\* select returns 0 after LONG_TIME seconds.
LongTimeout ==
    /\ ~Readable(toServer)
    /\ Patient => ~toClient.open

\* write(fd, bytes); what it returns is ignored.
Write(chunks) ==
    written' = IF fd = "open" THEN written \o chunks ELSE written

\* close(fd), which does nothing to the -1 of a failed open.
CloseFd == fd' = IF fd = "open" THEN "closed" ELSE fd

\* Mutant: the RR names the chunk after the one expected.
AcknowledgeOneMore(e) == SendToClient(Packet("RR", e + 1, <<>>))

\* The RR names the first chunk not received in order.
AcknowledgeUpTo(e) == SendToClient(Packet("RR", e, <<>>))

----------------------------------------------------------------------------

\* Mutant: the result of open is not looked at.
OpenAnswerBlind(ok) == "FNAME_RES"

OpenAnswer(ok) == IF ok THEN "FNAME_RES" ELSE "FOPEN_ERR"

\* filename(): FNAME opens the output file; the answer says whether it did,
\* and the next state is the same.
FilenameOpens ==
    /\ sstate = "FILENAME"
    /\ \E m \in OnTheWay(toServer) : ServerRecv(m) /\ m.flag = "FNAME"
    /\ \E ok \in Opens :
         /\ fd' = IF ok THEN "open" ELSE "failed"
         /\ SendToClient(Signal(OpenAnswer(ok)))
    /\ sstate' = "WAIT_DATA"
    /\ UNCHANGED recvVars

\* Any other flag returns to CONNECTION.
FilenameOther ==
    /\ sstate = "FILENAME"
    /\ \E m \in OnTheWay(toServer) :
         /\ ServerRecv(m)
         /\ m.flag # "FNAME"
         /\ sstate' = IF m.flag = "CRC_ERROR" THEN "FILENAME" ELSE "CONNECTION"
    /\ UNCHANGED <<fd, recvVars, toClient, faults>>

\* connection() again: SETUP_RES from a new socket; the old one stays open and
\* nobody reads it any more.
Reconnect ==
    /\ sstate = "CONNECTION"
    /\ toServer' = NewSocket(toServer.name + 1)
    /\ SendToClient(Signal("SETUP_RES"))
    /\ sstate' = "FILENAME"
    /\ UNCHANGED <<fd, recvVars>>

\* Mutant: wait_data() goes on waiting.
GivingUpOnlyBefore == {"FILENAME"}

\* The states that end when select returns 0.
GivingUp == {"FILENAME", "WAIT_DATA"}

\* Nothing for LONG_TIME, in filename() or in wait_data().
GiveUp ==
    /\ sstate \in GivingUp
    /\ LongTimeout
    /\ sstate' = "DONE"
    /\ CloseFd
    /\ toServer' = ClosedSocket
    /\ UNCHANGED <<recvVars, toClient, faults>>

----------------------------------------------------------------------------

\* wait_data(): FNAME again; its answer does not say whether open succeeded.
FnameAgain ==
    /\ sstate = "WAIT_DATA"
    /\ \E m \in OnTheWay(toServer) : ServerRecv(m) /\ m.flag = "FNAME"
    /\ SendToClient(Signal("FNAME_RES"))
    /\ UNCHANGED serverVars

\* EoF closes the file the first time and is acknowledged every time.
CloseFile ==
    /\ sstate = "WAIT_DATA"
    /\ \E m \in OnTheWay(toServer) : ServerRecv(m) /\ m.flag = "EoF"
    /\ CloseFd
    /\ SendToClient(Signal("EoF"))
    /\ UNCHANGED <<sstate, recvVars>>

ClientTerminated ==
    /\ sstate = "WAIT_DATA"
    /\ Readable(toServer)
    /\ Head(toServer.inbox).flag = "TERMINATE"
    /\ sstate' = "DONE"
    /\ toServer' = ClosedSocket
    /\ UNCHANGED <<fd, recvVars, toClient, faults>>

\* A packet that fails the checksum.
IgnorePacket ==
    /\ sstate = "WAIT_DATA"
    /\ \E m \in OnTheWay(toServer) :
         /\ ServerRecv(m)
         /\ m.flag \notin {"FNAME", "DATA", "EoF", "TERMINATE"}
    /\ UNCHANGED <<serverVars, toClient, faults>>

----------------------------------------------------------------------------

\* get_data(): a DATA packet in state WAIT_DATA.
DataArrives(m) ==
    /\ sstate = "WAIT_DATA"
    /\ ServerRecv(m)
    /\ m.flag = "DATA"
    /\ UNCHANGED <<sstate, fd>>

\* The expected packet, with no SREJ outstanding by the count kept.
InOrder(m) ==
    /\ m.seq = expected
    /\ srejTotal = 0
    /\ Write(<<m.data>>)
    /\ expected' = expected + 1
    /\ AcknowledgeUpTo(expected + 1)
    /\ UNCHANGED <<srejTotal, rejects, squeue>>

\* How many chunks handle_srej finds buffered in a row from sequence number e.
RunLength(e) ==
    CHOOSE n \in 0 .. WindowSize :
        /\ \A j \in 0 .. n - 1 : ~IsNull(squeue, SlotOf(e + j))
        /\ n = WindowSize \/ IsNull(squeue, SlotOf(e + n))

\* Mutant: the chunks written stay in their slots.
NotEmptied(slots) == squeue

Emptied(slots) == [i \in Slots |-> IF i \in slots THEN <<>> ELSE squeue[i]]

\* Mutant: every SREJ is forgotten.
AllHandled(slots) == [i \in Slots |-> 0]

\* The SREJs for the chunks taken are forgotten.
Handled(slots) == [i \in Slots |-> IF i \in slots THEN 0 ELSE rejects[i]]

\* The expected packet otherwise: handle_srej() takes it and each buffered
\* chunk after it off the count, whether it had been SREJed or not.
FillsGap(m) ==
    /\ m.seq = expected
    /\ srejTotal # 0
    /\ LET next   == expected + 1
           n      == RunLength(next)
           run    == [j \in 1 .. n |-> UpToNul(squeue[SlotOf(next + j - 1)])]
           slots  == {SlotOf(next + j - 1) : j \in 1 .. n}
       IN  /\ Write(<<m.data>> \o run)
           /\ squeue' = Emptied(slots)
           /\ rejects' = Handled(slots \cup {SlotOf(expected)})
           /\ srejTotal' = srejTotal - 1 - n
           /\ expected' = next + n
           /\ AcknowledgeUpTo(next + n)

\* Mutant: a duplicate is dropped without an answer.
DuplicateIgnored(m) ==
    /\ m.seq < expected
    /\ UNCHANGED <<recvVars, toClient, faults>>

\* Mutant: a duplicate is acknowledged by its own number.
DuplicateEchoed(m) ==
    /\ m.seq < expected
    /\ AcknowledgeUpTo(m.seq + 1)
    /\ UNCHANGED recvVars

\* A packet received before: acknowledge again what is written.
Duplicate(m) ==
    /\ m.seq < expected
    /\ AcknowledgeUpTo(expected)
    /\ UNCHANGED recvVars

\* Mutant: the table of SREJs sent is not consulted.
MissingAgain(queue, seq) ==
    {k \in expected .. seq - 1 : IsNullMisaligned(queue, SlotOf(k))}

\* The sequence numbers below seq that get_data SREJs: those it has not SREJed
\* by its table (which the loop itself may overwrite when it runs over more
\* than a window) and whose slot, looked up with the wrong width, is empty.
Missing(queue, seq) ==
    {k \in expected .. seq - 1 :
        /\ rejects[SlotOf(k)] # k \/ k - WindowSize >= expected
        /\ IsNullMisaligned(queue, SlotOf(k))}

\* A packet ahead of the expected one: buffer it, unless its slot is taken,
\* and SREJ what is missing before it.
OutOfOrder(m) ==
    /\ m.seq > expected
    /\ IF IsNull(squeue, SlotOf(m.seq))
       THEN LET queue   == add_element(squeue, SlotOf(m.seq), m.data)
                missing == Missing(queue, m.seq)
            IN  /\ squeue' = queue
                /\ srejTotal' = srejTotal + Cardinality(missing)
                /\ rejects' = [i \in Slots |->
                     LET ks == {k \in missing : SlotOf(k) = i}
                     IN  IF ks = {} THEN rejects[i]
                         ELSE CHOOSE k \in ks : \A l \in ks : l <= k]
                /\ Transmit(toClient,
                            [k \in missing |->
                                FromServer(Packet("SREJ", k, <<>>))],
                            toClient')
       ELSE UNCHANGED <<squeue, srejTotal, rejects, toClient, faults>>
    /\ UNCHANGED <<written, expected>>

ReceiveData ==
    \E m \in OnTheWay(toServer) :
        /\ DataArrives(m)
        /\ InOrder(m) \/ FillsGap(m) \/ Duplicate(m) \/ OutOfOrder(m)

WaitData ==
    \/ FnameAgain \/ CloseFile \/ ClientTerminated \/ IgnorePacket
    \/ ReceiveData

ServerNext ==
    FilenameOpens \/ FilenameOther \/ Reconnect \/ GiveUp \/ WaitData
==============================================================================
