------------------------------ MODULE Transfer ------------------------------
(***************************************************************************)
(* One file transfer: the client of Rcopy and the server process of Server *)
(* joined by the sockets of Network, from the moment the client hears the  *)
(* answer to its SETUP.                                                    *)
(***************************************************************************)
EXTENDS Rcopy, Server

vars == <<rcopyVars, serverVars, networkVars>>

\* SETUP_RES has reached the client, with the fates it may have met.
SetupAnswers ==
    {[FreshSocket EXCEPT !.inbox = <<Signal("SETUP_RES")>>]}
      \cup (IF "flipped" \in Fates
            THEN {[FreshSocket EXCEPT !.inbox = <<Garbled>>]} ELSE {})
      \cup (IF "twice" \in Fates
            THEN {[FreshSocket EXCEPT !.inbox = <<Signal("SETUP_RES")>>,
                                      !.late  = {Signal("SETUP_RES")}]} ELSE {})

Init ==
    /\ RcopyInit
    /\ ServerInit
    /\ toServer = FreshSocket
    /\ toClient \in SetupAnswers
    /\ faults = 0

Next ==
    \/ RcopyNext /\ UNCHANGED serverVars
    \/ ServerNext /\ UNCHANGED rcopyVars
    \/ LateArrival /\ UNCHANGED <<rcopyVars, serverVars>>

Spec == Init /\ [][Next]_vars

\* The scheduler runs both processes, select returns once its time is over,
\* and a delayed datagram arrives.
FairSpec ==
    /\ Spec
    /\ WF_vars(RcopyNext /\ UNCHANGED serverVars)
    /\ WF_vars(ServerNext /\ UNCHANGED rcopyVars)
    /\ WF_vars(LateArrival /\ UNCHANGED <<rcopyVars, serverVars>>)

----------------------------------------------------------------------------

ClientTypeOK ==
    /\ cstate \in ClientStates
    /\ fnameRetry \in 0 .. MAX_TRIES + 1
    /\ cstate # "DONE" => fnameRetry <= MAX_TRIES
    /\ retryCount \in Nat
    /\ window \in Windows
    /\ cqueue \in [Slots -> Bytes]
    /\ nread \in 0 .. Len(File)
    /\ outcome \in Outcomes
    /\ overrun \in BOOLEAN
    /\ timeouts \in 0 .. MaxTimeouts

ServerTypeOK ==
    /\ sstate \in ServerStates
    /\ fd \in Descriptors
    /\ written \in Seq(Bytes)
    /\ expected \in Nat \ {0}
    /\ srejTotal \in Int
    /\ rejects \in [Slots -> Nat]
    /\ squeue \in [Slots -> Bytes]

NetworkTypeOK ==
    /\ toServer \in Sockets
    /\ toClient \in Sockets
    /\ faults \in 0 .. MaxFaults

\* Every variable keeps its range.  Not by construction alone: processSelect
\* must stop filename() after MAX_TRIES tries, and the buffers must keep the
\* slots they were allocated with.
TypeOK == ClientTypeOK /\ ServerTypeOK /\ NetworkTypeOK

Data == {m \in OnTheWay(toServer) : m.flag = "DATA"}

\* The client never slides its window past a chunk that the server has not
\* taken, and no RR on its way tells it to: what get_data of rcopy.c makes
\* lower is at most the expected_seq of server.c, whatever is lost or late.
AckNeverAhead ==
    /\ window.lower <= expected
    /\ \A m \in OnTheWay(toClient) : m.flag = "RR" => m.seq <= expected

\* As long as send_data never ran over the window, every DATA packet on its
\* way that the server would still take carries the chunk of its number: the
\* slot that window_status or an SREJ reads again has not been reused.  Packets
\* on the way alone are judged: a resend may be cut at the first NUL of its
\* chunk, and what handle_srej writes of a chunk with a NUL is not looked at.
DataFaithful ==
    ~overrun =>
        \A m \in Data : m.seq \in expected .. Len(File) =>
            m.data \in {File[m.seq], UpToNul(File[m.seq])}

\* As long as send_data never ran over the window, no DATA packet is more
\* than a window ahead of the server: two chunks that get_data of server.c
\* buffers never meet in one slot.
InReceiverWindow ==
    ~overrun => \A m \in Data : m.seq < expected + WindowSize

\* The client can answer every SREJ that still matters: the slot that its
\* get_data looks up holds the chunk asked for.
SrejAnswerable ==
    ~overrun =>
        \A m \in OnTheWay(toClient) :
            m.flag = "SREJ" /\ m.seq >= expected =>
                /\ m.seq <= Len(File)
                /\ cqueue[SlotOf(m.seq)] = File[m.seq]

\* The EoF handshake never closes a file too early: the client holds the last
\* RR, the server closes, and the client reports success only once every
\* chunk has been received in order.
CloseOnlyWhenComplete ==
    /\ window.end = -1 => expected > Len(File)
    /\ sstate = "WAIT_DATA" /\ fd = "closed" => expected > Len(File)
    /\ outcome = "saved" => expected > Len(File) /\ fd # "open"

\* A client that reports success has its whole file written, unless the open
\* failed: no chunk counted by expected_seq of server.c is left unwritten by a
\* close that came before it, whatever is lost, late or doubled.
SavedWhole == outcome = "saved" /\ fd # "failed" => Len(written) >= Len(File)

\* As long as send_data never ran over the window, get_data of server.c does
\* not ask twice for the same chunk, however often the chunks behind it arrive:
\* no two SREJs for it wait at the client.
SrejOnce ==
    ~overrun =>
        \A i, j \in DOMAIN toClient.inbox :
            /\ toClient.inbox[i].flag = "SREJ"
            /\ toClient.inbox[i] = toClient.inbox[j]
            => i = j

\* On a network that keeps the order, lower never goes back: later RRs carry
\* higher numbers even when they answer duplicates.
WindowNeverRetreats == [][window'.lower >= window.lower]_vars

\* When the server answers within the second, the client never sends with its
\* window closed: FNAME is sent again only when neither it nor its answer is
\* on the way, so a second FNAME_RES, which makes get_data of rcopy.c send a
\* chunk without a look at the window, does not come.
WindowKept == Timely => ~overrun

\* The server writes every chunk of the file as it is and where it belongs.
\* With text chunks it takes two losses to break this when the window is wider
\* than the buffer size, and three otherwise (see README).
OutputIntact ==
    \A k \in DOMAIN written : k <= Len(File) => written[k] = File[k]

\* The server writes no more chunks than the file has.
NoExtra == Len(written) <= Len(File)

\* A client that reports success has not written to a failed open: FOPEN_ERR
\* reaches it even if FNAME or its answer has to be sent again.
OpenFailureReported == outcome = "saved" => fd # "failed"

\* When the server lives and answers within the second, the client blames it
\* only after as many losses as it has tries: every answer resets retryCount.
BlameTakesLosses ==
    Timely /\ Patient /\ outcome = "no response" =>
        faults >= IF MAX_TRIES < WINDOW_TRIES THEN MAX_TRIES ELSE WINDOW_TRIES

\* Until the end of the file is read, the count of failed attempts stays within
\* its limit, so the == of window_status cannot miss it: a client whose server
\* is gone gives up.  At the end of the file it may not: the branches there
\* count without a limit and EoFs close the window.
TriesBounded == window.end = 0 => retryCount <= WINDOW_TRIES

\* The transfer as a windowed copy: the chunks read, the chunks taken in order,
\* the chunks below lower, and the descriptor with what its process made of it.
Copy == INSTANCE WindowedCopy WITH
    Total  <- Len(File),
    sent   <- nread,
    taken  <- expected - 1,
    acked  <- window.lower - 1,
    inside <- ~overrun,
    file   <- IF sstate = "DONE" /\ fd # "failed" THEN "gone" ELSE fd,
    report <- outcome

\* Every step of rcopy.c, of server.c and of the network is a step of the copy
\* or none: acknowledgements, the close and the report keep their promises
\* through every loss, delay, retry and crash.
ImplementsCopy == Copy!Spec

\* With fewer losses than tries the server gets the whole file, unless the
\* client starts over because the answer to SETUP was garbled.
Delivered == <>(cstate = "START" \/ expected > Len(File))

\* The server process does not outlive its client for ever: it quits, in the
\* end, whether TERMINATE arrives or not.
ServerEnds == (~toClient.open) ~> (sstate = "DONE")
============================================================================
