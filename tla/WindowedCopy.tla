----------------------------- MODULE WindowedCopy -----------------------------
(***************************************************************************)
(* What a transfer promises, without packets: a client copies the Total    *)
(* chunks of a file to a server through a window, and reports how it went. *)
(* Transfer implements this specification (see its operator Copy).         *)
(***************************************************************************)
EXTENDS Integers

CONSTANTS
    Total,          \* chunks of the file
    WindowSize      \* chunks that may be sent and not acknowledged

VARIABLES
    sent,       \* chunks the client has read and sent
    taken,      \* chunks the server has accepted in order
    acked,      \* chunks the client knows to be taken
    inside,     \* whether every chunk was sent with the window open
    file,       \* the output file, as the server holds it
    report      \* what the client says of the transfer

copyVars == <<sent, taken, acked, inside, file, report>>

Init ==
    /\ sent = 0
    /\ taken = 0
    /\ acked = 0
    /\ inside = TRUE
    /\ file = "none"
    /\ report = "running"

Running == report = "running"

\* Chunks go out one by one.  Some answers make the client send although the
\* window is closed; inside remembers it.
Send ==
    /\ Running
    /\ sent < Total
    /\ sent' = sent + 1
    /\ inside' = (inside /\ sent < acked + WindowSize)
    /\ UNCHANGED <<taken, acked, file, report>>

Open ==
    /\ file = "none"
    /\ file' \in {"open", "failed"}
    /\ UNCHANGED <<sent, taken, acked, inside, report>>

\* A chunk that was sent is accepted, with those that seem to wait for it: the
\* server does not promise that they do.  Once all are sent it may count on: a
\* client that lost the last RR sends what its buffer holds under a number that
\* no chunk has.
Take ==
    /\ file \in {"open", "failed", "closed"}
    /\ taken < sent \/ sent = Total
    /\ taken' \in taken + 1 .. taken + 1 + WindowSize
    /\ UNCHANGED <<sent, acked, inside, file, report>>

\* An acknowledgement is never ahead of the server; an old one may come late.
Acknowledge ==
    /\ Running
    /\ acked' \in 0 .. taken
    /\ UNCHANGED <<sent, taken, inside, file, report>>

\* The file is closed only with everything taken ...
Close ==
    /\ file = "open"
    /\ taken >= Total
    /\ file' = "closed"
    /\ UNCHANGED <<sent, taken, acked, inside, report>>

\* ... unless the server gives its client up, or leaves after closing.
Leave ==
    /\ file \in {"none", "open", "closed"}
    /\ file' = "gone"
    /\ UNCHANGED <<sent, taken, acked, inside, report>>

\* The client reports success only of a file that is complete and not open.
Save ==
    /\ Running
    /\ taken >= Total
    /\ file \in {"closed", "failed", "gone"}
    /\ report' = "saved"
    /\ UNCHANGED <<sent, taken, acked, inside, file>>

\* It blames open only when open has failed.
ReportOpenError ==
    /\ Running
    /\ file = "failed"
    /\ report' = "open error"
    /\ UNCHANGED <<sent, taken, acked, inside, file>>

Fail ==
    /\ Running
    /\ report' \in {"no response", "crash"}
    /\ UNCHANGED <<sent, taken, acked, inside, file>>

Next ==
    \/ Send \/ Open \/ Take \/ Acknowledge \/ Close \/ Leave
    \/ Save \/ ReportOpenError \/ Fail

Spec == Init /\ [][Next]_copyVars
===============================================================================
