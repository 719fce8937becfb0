-------------------------------- MODULE Rcopy --------------------------------
(***************************************************************************)
(* The client, rcopy.c, from its state FILENAME on: it has sent SETUP and  *)
(* select has just reported an answer on its socket.  One action per call  *)
(* of a state function, with the state names of the source; FILENAME_WAIT  *)
(* is the select inside the processSelect that ends filename().            *)
(***************************************************************************)
EXTENDS Network, Queue

CONSTANTS
    File,           \* the chunks that read() returns, one per call, then 0
    ReadFails,      \* whether read() may return -1
    MAX_TRIES,      \* 10 in srej.h
    WINDOW_TRIES,   \* the literal 10 of window_status
    Timely,         \* whether the server answers within the client's second
    MaxTimeouts     \* bound: selects of the client that time out

\* read() fills the buffer except at the end of the file.
ASSUME RcopyAssumption ==
    /\ File \in Seq(Bytes)
    /\ \A k \in DOMAIN File : Len(File[k]) \in 1 .. BufSize
    /\ \A k \in 1 .. Len(File) - 1 : Len(File[k]) = BufSize
    /\ MAX_TRIES \in Nat \ {0}
    /\ WINDOW_TRIES \in Nat
    /\ MaxTimeouts \in Nat
    /\ ReadFails \in BOOLEAN
    /\ Timely \in BOOLEAN

VARIABLES
    cstate,     \* the state of run_client
    fnameRetry, \* the static retryCount of filename()
    retryCount, \* the static retryCount of window_status()
    window,     \* the Window: lower, current, upper and end
    cqueue,     \* the chunks sent, by slot
    nread,      \* chunks read from the file so far
    outcome,    \* how the run ended, as far as its user can tell
    overrun,    \* history: send_data has sent with the window closed
    timeouts    \* selects that timed out, against MaxTimeouts

windowVars == <<fnameRetry, retryCount, window, cqueue, nread, overrun>>
rcopyVars  == <<cstate, windowVars, outcome, timeouts>>

ClientStates == {"FILENAME", "FILENAME_WAIT", "GET_DATA", "SEND_DATA",
                 "WINDOW", "START", "DONE", "CRASHED"}

\* end is 0 until the end of the file is read, then the number after the last
\* chunk, and -1 once that number is acknowledged.
Windows == [lower : Nat, current : Nat, upper : Int, end : Int]

\* What the user sees: a silent exit, one of the messages, or a core dump.
Outcomes == {"running", "saved", "no response", "open error", "crash"}

\* Mutant: the window starts one chunk too wide.
FirstUpperTooHigh == WindowSize + 1

\* The window starts with as many chunks as there are slots.
FirstUpper == WindowSize

\* run_client before its loop.
RcopyInit ==
    /\ cstate = "FILENAME"
    /\ fnameRetry = 0
    /\ retryCount = 0
    /\ window = [lower |-> 1, current |-> 1, upper |-> FirstUpper, end |-> 0]
    /\ cqueue = init_queue
    /\ nread = 0
    /\ outcome = "running"
    /\ overrun = FALSE
    /\ timeouts = 0

----------------------------------------------------------------------------

GoTo(state) == cstate' = state /\ UNCHANGED outcome

\* The loop ends, the process dies or start_state starts over: the socket is
\* closed and, here, the run is over.
Exit(state, how) ==
    /\ cstate' = state
    /\ outcome' = how
    /\ toClient' = ClosedSocket

Crash == Exit("CRASHED", "crash")

\* Mutant: select does not wait.
TimesOutAtOnce ==
    /\ ~Readable(toClient)
    /\ timeouts < MaxTimeouts
    /\ timeouts' = timeouts + 1

\* select returns 0 after SHORT_TIME seconds.
TimesOut ==
    /\ ~Readable(toClient)
    /\ Timely => ~Readable(toServer)
    /\ timeouts < MaxTimeouts
    /\ timeouts' = timeouts + 1

\* A packet taken from the socket in some state.
ClientRecv(m) ==
    /\ Readable(toClient)
    /\ m = Head(toClient.inbox)
    /\ toClient' = Received(toClient)

\* window_status and the SREJ case of get_data send a chunk again from its
\* slot, up to its first NUL; strlen of a NULL pointer ends the process.
CanResend(seq) == ~IsNull(cqueue, SlotOf(seq))

Resend(me, seq) ==
    SendToServer(me, Packet("DATA", seq, UpToNul(cqueue[SlotOf(seq)])))

----------------------------------------------------------------------------

\* filename(): sends FNAME and counts the try; processSelect gives up when the
\* tries are used up and otherwise waits for an answer.
SendFname(me) ==
    /\ SendToServer(me, Signal("FNAME"))
    /\ fnameRetry' = fnameRetry + 1
    /\ UNCHANGED <<retryCount, window, cqueue, nread, overrun>>

\* Mutant: one try too many.
TriesUsedUpLate(retry) == retry > MAX_TRIES + 1

\* processSelect gives up without waiting.
TriesUsedUp(retry) == retry > MAX_TRIES

\* The answer to SETUP, whatever its flag.
FilenameFirst ==
    /\ cstate = "FILENAME"
    /\ fnameRetry = 0
    /\ \E m \in OnTheWay(toClient) : ClientRecv(m) /\ m.flag # "CRC_ERROR"
    /\ SendFname(toClient')
    /\ GoTo("FILENAME_WAIT")

\* An answer that fails the checksum: start over, with another server process.
FilenameGarbled ==
    /\ cstate = "FILENAME"
    /\ fnameRetry = 0
    /\ Readable(toClient)
    /\ Head(toClient.inbox).flag = "CRC_ERROR"
    /\ Exit("START", "running")
    /\ UNCHANGED <<windowVars, toServer, faults>>

FilenameAgain ==
    /\ cstate = "FILENAME"
    /\ fnameRetry > 0
    /\ SendFname(toClient)
    /\ IF TriesUsedUp(fnameRetry')
       THEN Exit("DONE", "no response")
       ELSE /\ GoTo("FILENAME_WAIT")
            /\ UNCHANGED toClient

FilenameAnswered ==
    /\ cstate = "FILENAME_WAIT"
    /\ Readable(toClient)
    /\ fnameRetry' = 0
    /\ GoTo("GET_DATA")
    /\ UNCHANGED <<retryCount, window, cqueue, nread, overrun, networkVars>>

FilenameTimeout ==
    /\ cstate = "FILENAME_WAIT"
    /\ TimesOut
    /\ GoTo("FILENAME")
    /\ UNCHANGED <<windowVars, networkVars>>

----------------------------------------------------------------------------

\* get_data(): nothing to read, so see what the window allows.
GetNothing ==
    /\ cstate = "GET_DATA"
    /\ ~Readable(toClient)
    /\ GoTo("WINDOW")
    /\ UNCHANGED <<windowVars, networkVars>>

\* A packet that fails the checksum (the return of that branch is missing) or
\* whose flag get_data does not know.
GetUnknown ==
    /\ cstate = "GET_DATA"
    /\ \E m \in OnTheWay(toClient) :
         /\ ClientRecv(m)
         /\ m.flag \notin {"FNAME_RES", "FOPEN_ERR", "RR", "SREJ", "EoF"}
    /\ GoTo("WINDOW")
    /\ UNCHANGED <<windowVars, toServer, faults>>

GetFnameRes ==
    /\ cstate = "GET_DATA"
    /\ \E m \in OnTheWay(toClient) : ClientRecv(m) /\ m.flag = "FNAME_RES"
    /\ GoTo("SEND_DATA")
    /\ UNCHANGED <<windowVars, toServer, faults>>

GetFopenErr ==
    /\ cstate = "GET_DATA"
    /\ Readable(toClient)
    /\ Head(toClient.inbox).flag = "FOPEN_ERR"
    /\ Exit("DONE", "open error")
    /\ UNCHANGED <<windowVars, toServer, faults>>

\* Mutant: at the end of the file any RR is taken for the last.
AnyRRIsLast(rr) == window.end # 0

AcknowledgesAll(rr) == window.end = rr

\* Mutant: upper is set to a whole window past the number acknowledged.
SlidTooFar(rr) == [window EXCEPT !.upper = rr + WindowSize, !.lower = rr]

\* upper moves as far as lower does.
Slid(rr) == [window EXCEPT !.upper = @ + (rr - window.lower), !.lower = rr]

\* The RR that acknowledges the whole file leaves lower and upper alone.
GetRR ==
    /\ cstate = "GET_DATA"
    /\ \E m \in OnTheWay(toClient) :
         /\ ClientRecv(m)
         /\ m.flag = "RR"
         /\ IF AcknowledgesAll(m.seq)
            THEN /\ window' = [window EXCEPT !.end = -1]
                 /\ GoTo("WINDOW")
            ELSE /\ window' = Slid(m.seq)
                 /\ GoTo("GET_DATA")
    /\ UNCHANGED <<fnameRetry, retryCount, cqueue, nread, overrun, toServer, faults>>

GetSREJ ==
    /\ cstate = "GET_DATA"
    /\ Readable(toClient)
    /\ LET m == Head(toClient.inbox)
       IN  /\ m.flag = "SREJ"
           /\ IF CanResend(m.seq)
              THEN /\ toClient' = Received(toClient)
                   /\ Resend(toClient', m.seq)
                   /\ GoTo("GET_DATA")
              ELSE /\ Crash
                   /\ UNCHANGED <<toServer, faults>>
    /\ UNCHANGED windowVars

\* The server has closed the file: tell it that the client terminates.
GetEoF ==
    /\ cstate = "GET_DATA"
    /\ Readable(toClient)
    /\ Head(toClient.inbox).flag = "EoF"
    /\ SendToServer(Received(toClient), Signal("TERMINATE"))
    /\ Exit("DONE", "saved")
    /\ UNCHANGED windowVars

----------------------------------------------------------------------------

\* send_data(): the next chunk goes into its slot and out, whatever the window.
SendChunk ==
    /\ cstate = "SEND_DATA"
    /\ nread < Len(File)
    /\ LET chunk == File[nread + 1]
           i     == SlotOf(window.current)
       IN  /\ cqueue' = add_element(remove_element(cqueue, i), i, chunk)
           /\ SendToServer(toClient, Packet("DATA", window.current, chunk))
    /\ window' = [window EXCEPT !.current = @ + 1]
    /\ nread' = nread + 1
    /\ overrun' = (overrun \/ window.current > window.upper)
    /\ GoTo("GET_DATA")
    /\ UNCHANGED <<fnameRetry, retryCount, toClient>>

\* read() returns 0.
ReachEndOfFile ==
    /\ cstate = "SEND_DATA"
    /\ nread = Len(File)
    /\ window' = [window EXCEPT !.end = window.current]
    /\ GoTo("GET_DATA")
    /\ UNCHANGED <<fnameRetry, retryCount, cqueue, nread, overrun, networkVars>>

\* read() returns -1, which send_buf takes for a length.
ReadError ==
    /\ cstate = "SEND_DATA"
    /\ ReadFails
    /\ Crash
    /\ UNCHANGED <<windowVars, toServer, faults>>

----------------------------------------------------------------------------

\* Mutant: the window closes one chunk late.
ClosedLate == window.current > window.upper + 1

Closed == window.current > window.upper

\* window_status(): the window is open and the file is not at its end.
WindowOpen ==
    /\ cstate = "WINDOW"
    /\ ~Closed
    /\ window.end = 0
    /\ GoTo("SEND_DATA")
    /\ UNCHANGED <<windowVars, networkVars>>

\* Mutant: an answer leaves the count of failed attempts as it is.
RetryKept == retryCount

RetryAfterAnswer == 0

\* An answer within the second.
WindowAnswered ==
    /\ cstate = "WINDOW"
    /\ Closed \/ window.end # 0
    /\ Readable(toClient)
    /\ retryCount' = RetryAfterAnswer
    /\ GoTo("GET_DATA")
    /\ UNCHANGED <<fnameRetry, window, cqueue, nread, overrun, networkVars>>

\* Mutant: one try too many.
OutOfTriesLate == retryCount = WINDOW_TRIES + 1

OutOfTries == retryCount = WINDOW_TRIES

\* Closed for a second too often: give up.
WindowGivesUp ==
    /\ cstate = "WINDOW"
    /\ Closed
    /\ OutOfTries
    /\ TimesOut
    /\ Exit("DONE", "no response")
    /\ UNCHANGED <<windowVars, toServer, faults>>

\* Closed for a second, or at the end of the file with RRs outstanding: send
\* the lowest chunk not acknowledged again.
WindowResends ==
    /\ cstate = "WINDOW"
    /\ IF Closed THEN ~OutOfTries ELSE window.end \notin {0, -1}
    /\ TimesOut
    /\ retryCount' = retryCount + 1
    /\ IF CanResend(window.lower)
       THEN /\ Resend(toClient, window.lower)
            /\ GoTo("WINDOW")
            /\ UNCHANGED toClient
       ELSE /\ Crash
            /\ UNCHANGED <<toServer, faults>>
    /\ UNCHANGED <<fnameRetry, window, cqueue, nread, overrun>>

\* The whole file is acknowledged: ask the server to close it.
WindowSendsEoF ==
    /\ cstate = "WINDOW"
    /\ ~Closed
    /\ window.end = -1
    /\ TimesOut
    /\ retryCount' = retryCount + 1
    /\ SendToServer(toClient, Signal("EoF"))
    /\ window' = [window EXCEPT !.current = @ + 1]
    /\ GoTo("WINDOW")
    /\ UNCHANGED <<fnameRetry, cqueue, nread, overrun, toClient>>

----------------------------------------------------------------------------

Filename ==
    FilenameFirst \/ FilenameGarbled \/ FilenameAgain \/ FilenameAnswered

GetData ==
    \/ GetNothing \/ GetUnknown \/ GetFnameRes \/ GetFopenErr
    \/ GetRR \/ GetSREJ \/ GetEoF

SendData == SendChunk \/ ReachEndOfFile \/ ReadError

WindowStatus == WindowOpen \/ WindowAnswered

\* The steps that wait out a whole select.
RcopyTimeout ==
    \/ FilenameTimeout \/ WindowGivesUp \/ WindowResends \/ WindowSendsEoF

RcopyNext ==
    \/ (Filename \/ GetData \/ SendData \/ WindowStatus) /\ UNCHANGED timeouts
    \/ RcopyTimeout
==============================================================================
