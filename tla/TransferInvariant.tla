-------------------------- MODULE TransferInvariant --------------------------
(***************************************************************************)
(* The inductive invariant behind the safety properties of Transfer: what  *)
(* holds between the two windows and the packets on their way.  It is      *)
(* model-checked here and proved in TransferSafety.                        *)
(***************************************************************************)
EXTENDS Transfer

\* The Window of rcopy.c: as wide as the buffer, current just past what was
\* read, and an end that is set only at the end of the file.
WindowShape ==
    /\ window.lower >= 1
    /\ window.upper = window.lower + WindowSize - 1
    /\ nread < window.current
    /\ window.end = 0 => window.current = nread + 1
    /\ window.end # 0 => nread = Len(File)
    /\ window.end \in {0, -1} \/ window.end > Len(File)
    /\ window.end = -1 => expected > Len(File)
    /\ \A m \in OnTheWay(toClient) : m.flag = "RR" => m.seq >= 1

\* Whatever DATA carries and SREJ asks for was read before, but for the resend
\* of a lower that is already past the file.
OnlyWhatWasRead ==
    /\ \A m \in Data :
         \/ m.seq <= nread
         \/ nread = Len(File) /\ m.seq <= expected
    /\ \A m \in OnTheWay(toClient) : m.flag = "SREJ" => m.seq <= nread

\* The slots of the client hold the last chunks read.
SlotsHoldLast ==
    \A k \in 1 .. nread :
        k > nread - WindowSize => cqueue[SlotOf(k)] = File[k]

\* Nothing was read that is more than a window ahead of the server.
ReadWithinWindow ==
    ~overrun =>
        /\ nread < expected + WindowSize
        /\ \A m \in OnTheWay(toClient) :
             m.flag = "SREJ" => m.seq < expected + WindowSize

\* The descriptor follows the state of process_client, and every message that
\* speaks of it is true.
FileState ==
    /\ sstate \in {"FILENAME", "CONNECTION"} => fd = "none"
    /\ sstate = "WAIT_DATA" => fd # "none"
    /\ \A m \in OnTheWay(toServer) : m.flag = "EoF" => expected > Len(File)
    /\ \A m \in OnTheWay(toClient) :
         /\ m.flag = "EoF" => expected > Len(File) /\ fd \in {"closed", "failed"}
         /\ m.flag = "FOPEN_ERR" => fd = "failed"
    /\ outcome = "saved" => fd # "none"

\* The client reports when it ends, never before.
RunsUntilReport ==
    cstate \notin {"START", "DONE", "CRASHED"} => outcome = "running"

\* All of it: every conjunct is kept by every step of either program and of
\* the network, given the others.
Inductive ==
    /\ WindowShape
    /\ OnlyWhatWasRead
    /\ SlotsHoldLast
    /\ ReadWithinWindow
    /\ InReceiverWindow
    /\ DataFaithful
    /\ FileState
    /\ RunsUntilReport
    /\ CloseOnlyWhenComplete

----------------------------------------------------------------------------

\* Behind BlameTakesLosses, on a network that keeps the order.
Running == cstate \notin {"START", "DONE", "CRASHED"}

\* The server answers such a packet when it takes it, whatever its state.
Answerable(m) ==
    \/ m.flag \in {"FNAME", "EoF"}
    \/ m.flag = "DATA" /\ m.seq <= expected

\* An answer waits at the client, or the server has yet to send it.
AnswerDue ==
    \/ Readable(toClient)
    \/ \E i \in DOMAIN toServer.inbox : Answerable(toServer.inbox[i])

Due == IF AnswerDue THEN 1 ELSE 0

\* While the client runs, it and one server process hold one socket each, the
\* one that the other's remote names, and the server does not look for another
\* client.
Linked ==
    Running =>
        /\ toClient.open /\ toClient.remote = 0 /\ toClient.late = {}
        /\ \A i \in DOMAIN toClient.inbox : toClient.inbox[i].from = 0
        /\ toServer.open /\ toServer.name = 0 /\ toServer.late = {}
        /\ sstate \in {"FILENAME", "WAIT_DATA"}
        /\ \A i \in DOMAIN toServer.inbox :
             /\ toServer.inbox[i].flag # "TERMINATE"
             /\ sstate = "FILENAME" =>
                  toServer.inbox[i].flag \in {"FNAME", "CRC_ERROR"}

\* Once the answer to SETUP is read, an answer comes from wait_data() of the
\* server, and the client leaves filename() only with one.
Introduced ==
    /\ cstate = "FILENAME" /\ fnameRetry = 0 =>
         Len(toClient.inbox) = 1 /\ toServer.inbox = <<>>
    /\ cstate = "FILENAME_WAIT" => fnameRetry > 0
    /\ Running /\ Readable(toClient) =>
         sstate = "WAIT_DATA" \/ (cstate = "FILENAME" /\ fnameRetry = 0)
    /\ Running /\ cstate \notin {"FILENAME", "FILENAME_WAIT"} => sstate = "WAIT_DATA"

\* Of the tries that the client counts, each was lost, or its answer was, but
\* the one whose answer is due.  The count starts at 0 when the client comes to
\* wait, and stays while it waits.
TriesPaid ==
    /\ cstate = "FILENAME" => fnameRetry <= faults
    /\ cstate = "FILENAME_WAIT" => fnameRetry <= faults + Due
    /\ cstate = "WINDOW" => retryCount <= faults + Due
    /\ Running /\ cstate # "WINDOW" => retryCount = 0
    /\ retryCount > 0 => Closed \/ window.end # 0

\* The server answers within the second, and has not quit.
StillAnswers == Timely /\ (Patient \/ sstate # "DONE")

\* The three, as long as it does.
TriesAccounted == StillAnswers => Linked /\ Introduced /\ TriesPaid

----------------------------------------------------------------------------

\* Behind OutputIntact.  In a text file no byte is NUL, so a chunk is what
\* strlen makes of it.
TextOnly == \A k \in DOMAIN File : \A j \in DOMAIN File[k] : File[k][j] # 0

\* When srej.total says that no SREJ is outstanding, the chunk after the one
\* expected is not buffered: get_data of server.c, which then does not call
\* handle_srej, overlooks nothing.
NextSeen == srejTotal = 0 => IsNull(squeue, SlotOf(expected + 1))

\* Whatever the server has buffered is a chunk of the file, in its slot and
\* less than a window past the one expected.
BufferedRight ==
    \A i \in Slots : squeue[i] # <<>> =>
        \E k \in expected + 1 .. expected + WindowSize - 1 :
            k <= Len(File) /\ SlotOf(k) = i /\ squeue[i] = File[k]

\* As long as the output file is open, what is written is what was expected.
WrittenToExpected ==
    /\ fd = "none" => expected = 1 /\ written = <<>>
    /\ fd = "open" => Len(written) = expected - 1

\* While nothing is overlooked the buffer is right, and so is the output.
OutputHeld == BufferedRight /\ WrittenToExpected /\ OutputIntact

\* However many packets are lost: as long as send_data keeps to its window and
\* srej.total overlooks nothing, the server writes every chunk of the file as
\* it is and where it belongs.  The count is all that can go wrong in get_data
\* and handle_srej of server.c.
IntactWhileSeen == [](overrun \/ NextSeen) => [](overrun \/ OutputIntact)

----------------------------------------------------------------------------

\* Behind WindowKept, on a network that keeps the order.  The states in which
\* the client has not seen an answer to FNAME.
Introducing == {"FILENAME", "FILENAME_WAIT"}

Holds(socket, flag) ==
    \E i \in DOMAIN socket.inbox : socket.inbox[i].flag = flag

\* Until FNAME is answered, one FNAME or one answer is on the way, and nothing
\* else; the select before the next FNAME has found both sockets empty.
OneName ==
    cstate \in Introducing =>
        /\ window.current = 1 /\ window.upper = FirstUpper
        /\ \A i \in DOMAIN toServer.inbox :
             toServer.inbox[i].flag \in {"FNAME", "CRC_ERROR"}
        /\ Len(toServer.inbox) + Len(toClient.inbox) <=
             IF cstate = "FILENAME" /\ fnameRetry > 0 THEN 0 ELSE 1
        /\ cstate = "FILENAME_WAIT" => fnameRetry > 0
        /\ fnameRetry = 0 => toServer.inbox = <<>>
        /\ Readable(toClient) => fnameRetry = 0 \/ sstate # "FILENAME"

\* From then on no FNAME is on the way, and no FNAME_RES but the first answer,
\* which finds the window as it was at first.
NameAnswered ==
    cstate \notin Introducing =>
        /\ sstate # "FILENAME"
        /\ ~Holds(toServer, "FNAME")
        /\ Holds(toClient, "FNAME_RES") =>
             /\ cstate = "GET_DATA"
             /\ window.current = 1 /\ window.upper = FirstUpper
             /\ toServer.inbox = <<>> /\ Len(toClient.inbox) = 1

\* send_data is called with the window open.
SendsInWindow == cstate = "SEND_DATA" => ~Closed

\* All of it, where the server answers within the second.
NamedOnce ==
    Timely /\ Running =>
        /\ toServer.late = {} /\ toClient.late = {}
        /\ sstate # "CONNECTION"
        /\ OneName /\ NameAnswered /\ SendsInWindow

\* Behind SrejOnce: an SREJ that is on its way for a chunk still missing is in
\* the table of server.c.
SrejRecorded ==
    ~overrun =>
        \A i \in DOMAIN toClient.inbox :
            LET m == toClient.inbox[i]
            IN  m.flag = "SREJ" /\ m.seq >= expected => rejects[SlotOf(m.seq)] = m.seq

----------------------------------------------------------------------------

\* Behind OneLossIntact, on a network that keeps the order.  A chunk that
\* waits in the server's buffer for one before it.
Buffered(q) ==
    q \in expected + 1 .. expected + WindowSize - 1 /\ squeue[SlotOf(q)] # <<>>

\* The server has the chunk, or will have it with the first n packets.
Known(q, n) ==
    \/ q < expected
    \/ Buffered(q)
    \/ \E i \in 1 .. n : toServer.inbox[i].flag = "DATA" /\ toServer.inbox[i].seq = q

\* Whatever was read before k or after k is known, in order: each chunk on its
\* way finds those before it known, but for k.
KnownBut(k) ==
    /\ Running /\ sstate # "DONE" =>
         \A q \in 1 .. nread : q = k \/ Known(q, Len(toServer.inbox))
    /\ \A i \in DOMAIN toServer.inbox :
         toServer.inbox[i].flag = "DATA" =>
           \A q \in 1 .. toServer.inbox[i].seq - 1 : q = k \/ Known(q, i - 1)

\* handle_srej has not been called, and get_data has sent no SREJ.
Untouched == squeue = init_queue /\ srejTotal = 0 /\ \A i \in Slots : rejects[i] = 0

\* What is buffered waits for k, without a gap, and srej.total says so.
WaitsFor(k) ==
    /\ \A b \in expected + 1 .. expected + WindowSize - 1 : Buffered(b) =>
         /\ k = expected /\ srejTotal > 0
         /\ \A q \in expected + 1 .. b : Buffered(q)
    /\ k >= expected => Untouched \/ \E b \in expected + 1 .. expected + WindowSize - 1 : Buffered(b)

\* As long as one packet at most is lost, at most one chunk is.
OneGap ==
    Timely =>
        /\ toServer.late = {}
        /\ sstate \in {"FILENAME", "CONNECTION"} => ~Holds(toServer, "DATA")
        /\ sstate = "DONE" => toServer.inbox = <<>> /\ ~toServer.open
        /\ faults = 0 => KnownBut(0) /\ Untouched
        /\ faults = 1 => \E k \in 0 .. nread : KnownBut(k) /\ WaitsFor(k)

\* A text file arrives as it is when one packet at most is lost, whichever it
\* is: the count of get_data and handle_srej of server.c is right as long as
\* nothing is missing twice.
OneLossIntact == Timely /\ faults <= 1 => OutputIntact

\* A second loss may make the count wrong; the output survives it when the
\* window is no wider than the buffer size.
TwoLossesIntact == Timely /\ faults <= 2 /\ WindowSize <= BufSize => OutputIntact
===============================================================================
