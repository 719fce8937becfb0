# Verification of the selective-reject file copy

`rcopy` copies a file to a `server` over UDP with a sliding window: every chunk
is acknowledged by an RR that names the next chunk wanted, and a chunk that is
missing is asked for by an SREJ. Both programs send through `sendtoErr` of
libcpe464, which drops packets and flips bits on purpose. This directory holds
TLA+ modules of the programs, configurations that check small instances with
TLC, and proofs for TLAPS.

## 1. The system

| component | state it keeps | operations | what makes it correct |
| --- | --- | --- | --- |
| rcopy, connecting (`rcopy.c` 116-161, `srej.c` 82-102) | socket, `retryCount` of `connection_setup` | SETUP, wait a second, start over with a new socket; first FNAME to whoever answered | one child serves the client; it gives up after its tries and not before; it does not go on for ever |
| rcopy, transferring (`rcopy.c` 135-266) | `Window` (lower, current, upper, end), queue of chunks sent, two static `retryCount`s, position in the file | `filename`, `get_data`, `send_data`, `window_status`: one call per step of the loop of `run_client` | resends the right chunk, slides only over what was taken, ends only when the file is complete |
| server, listening (`server.c` 29-104, `udp_server`) | bound socket, its port, children | `sendErr_init` and `bind` in `main`, fork for a packet that passes the checksum, then `waitpid` | a child for each SETUP, no child for ever |
| server process (`server.c` 106-313) | `fd`, `expected_seq`, `srej.total`, `srej.rejects`, queue of chunks out of order | `filename`, `wait_data`, `get_data`, `handle_srej`, one packet per step | writes every chunk once, in order; acknowledges only what it wrote |
| window buffers (`queue.c`) | slots of `buf_size+1` bytes | add, get, remove | a slot that was removed is empty, a chunk that was added is found |
| packets (`srej.c` 21-80, `checksum.c`) | none | build and take apart a packet with its checksum | what is sent is what is received, a packet with a flipped byte is refused |
| sockets (`networks.c`) | none | select, sendtoErr, recvfrom | none of its own |
| error injection (`PacketManager.cpp`, `MsgEvents/`, `network-hooks.c`, `SettingsManager.cpp`) | two lists of events, error rate, message number, random state | read the environment, `sendErr_init`, `bind`, `sendto_Err` | the environment has precedence, lists are obeyed |

The client and the processes of the server share nothing but packets. A client
talks to the bound socket until an answer comes; `recvfrom` then overwrites its
idea of the remote end, so from there on it talks to the child that answered, or
to whichever socket of that child it heard last.
Each child owns a copy of everything the server had at the `fork`, the state of
the random generator included.

What is hard here: packets lost, flipped, delayed or duplicated at any point;
timeouts that race with answers; a window whose slots are reused; counts of
tries shared by branches; the handshakes at both ends of the transfer; children
of tries that the client has abandoned. PROJECT.json lists these places line by
line under "hazards".

## 2. The modules

| module | models | state and actions |
| --- | --- | --- |
| `Queue` | `queue.c` | A queue is a function from slots to the bytes put there since it was zeroed. `get_element` returns NULL when all bytes are zero: `IsNull`. `IsNullMisaligned` is the call with the width `buf_size` instead of `buf_size+1` (`server.c` 281), which reads bytes of neighbouring slots. `UpToNul` is `strlen` of a slot. |
| `Network` | the sockets of a transfer, `send_buf`/`recv_buf`, what `sendtoErr` and UDP do | `inbox` is what `recvfrom` will return in order; `late` holds delayed and duplicate packets, which `LateArrival` delivers whenever it likes. A flipped packet arrives as `CRC_ERROR` (justified by `Checksum`). Each packet carries the name of the socket it was sent from, and `remote` is the address that `recvfrom` left in the `Connection` (`safeRecv`, `networks.c` 115). |
| `Rcopy` | the client from state FILENAME on | One action per branch of a state function. `FILENAME_WAIT` is the select inside `processSelect` at the end of `filename()`. The history variable `overrun` records that `send_data` has run with the window closed. |
| `Server` | a server process from FILENAME on | One action per packet handled; `get_data` and `handle_srej` are inside it. The `while` loop of `handle_srej` is the operator `RunLength` and the `for` loop that sends SREJs is the set `Missing`. A packet other than FNAME in `filename()` goes back to `connection()`: a socket with the next name, from which SETUP_RES is sent again, while the old one stays open and unread. |
| `Transfer` | `Rcopy` and `Server` joined by `Network` | `Next` interleaves the two processes and late arrivals. The properties of a transfer are here, and `Copy == INSTANCE WindowedCopy WITH ...`, the refinement mapping. |
| `WindowedCopy` | the abstract specification of a transfer, without packets | Numbers of chunks sent, taken and acknowledged, the output file, the report. It says when the file may be closed and what may be reported. |
| `TransferInvariant` | the inductive invariant of `Transfer` | `WindowShape`, `OnlyWhatWasRead`, `SlotsHoldLast`, `ReadWithinWindow`, `FileState`, `RunsUntilReport`: how the windows, the buffers, the descriptor and the packets fit together. The other invariants of the proofs are here too: `TriesAccounted` (`Linked`, `Introduced`, `TriesPaid`), of the tries that the client counts; `OutputHeld` and `NextSeen`, of the server's buffer and its count; `NamedOnce`, of FNAME and its answer; `SrejRecorded`, of the table of SREJs; `OneGap` (`KnownBut`, `WaitsFor`), of the one chunk that is missing after one loss. |
| `Setup` | START, CONNECTION and the first FILENAME of several clients; `process_server`; the children's CONNECTION and FILENAME | A packet carries its `peer`: the client, and whether the socket it was sent from or to is still open. Closing that socket (`Left`) changes all packets and children of it. `luck` is the fate of the first packet of every child, the same for all of them (`Injector`, `ChildrenShareLuck`). Zombies do not count against the processes there may be (`Free`). `Handover` says that it ends in the state in which `Transfer` begins. |
| `SetupInvariant` | the inductive invariant of `Setup` | Where the SETUP of a socket is (`OneServer`), who sent what a socket holds (`Answers`), what children and delayed packets look like. `Accounts` is a second invariant, of the tries that a client counts. |
| `Checksum` | one packet through `createHeader`, `errorFlipBits`, `retrieveHeader`, with bytes and 16-bit words scaled down to `Base` | `SendBuf`, `SendtoErr`, `RecvBuf`. |
| `Injector` | `SettingsManager`, `sendErr_init`, `bindMod`, `sendto_Err`, `fork` | `LoadEnv` reads the environment before `main`, `SendErrInit` and `Bind` are what a program asks for, the random sequence is chosen in `Start`; `Send` consumes draws as `processEvents` does; `Fork` copies the place in it. |
| `MCTransfer`, `MCSetup`, `MCChecksum`, `MCInjector` | values for TLC | files, packets and settings to try |
| `PartsProofs`, `TransferProofs`, `TransferSafety`, `OrderProofs`, `OutputProofs`, `InjectorProofs`, `SetupProofs`, `ChecksumProofs` | theorems and proofs | see section 5 |

How the levels meet: `Setup` shows that a client which hears an answer is served
by exactly one child, which waits in `filename()` with an empty socket, and that
is the `Init` of `Transfer`. `Transfer` in turn implements `WindowedCopy`.
`Checksum` shows that a packet arrives as it was sent or not at all, and
`Network` builds on that. `Injector` shows that forked children share their
misfortunes, and `Setup` builds on that.

`WindowedCopy` promises less than one would like, because the code does: an RR
that comes late may take `acked` back (`Acknowledge`); `Take` may go past what
was sent once the whole file is sent (the finding `EndOfFile`) and takes waiting
chunks on trust (`RunLength` does not look whether they are of this window); and
`inside` is only remembered, since `send_data` may run with the window closed.
What it does promise: until the whole file is sent nothing is taken before it is
sent, nothing is acknowledged before it is taken, the file is closed and success
is reported only when everything was taken, success is not reported while the
file is open, and `open` is blamed only if it failed.

Abstractions. A chunk is a short sequence of numbers with 0 for the NUL byte;
file names, lengths and the numbers of control packets are left out because no
receiver uses them (the `sending_seq` of the server is ignored by the client).
Sequence numbers are unbounded. `late` is a set: two delayed copies of one packet
with the same contents are one. `write` succeeds unless `open` failed. Both
retry limits are constants, since `MAX_TRIES` and the literal 10 of
`window_status` are independent in the code.

## 3. The runs

| run | instance | what it shows |
| --- | --- | --- |
| `Lossy` | 2 slots, 3 chunks (one begins with NUL, the last is short), 2 packets dropped or flipped, at most 3 timeouts, answers that may come after them, `open` and `read` that may fail, a server that may quit at any time | `TypeOK`, `AckNeverAhead`, `DataFaithful`, `InReceiverWindow`, `CloseOnlyWhenComplete`, `SavedWhole`, `TriesBounded`, `WindowNeverRetreats`; `Inductive`, the invariant of the proofs; `ImplementsCopy`, the refinement |
| `Reordered` | the same file, 2 packets delayed or duplicated | `AckNeverAhead`, `DataFaithful`, `CloseOnlyWhenComplete` and `ImplementsCopy` do not need an orderly network, even when a late SETUP_RES turns the client to a socket nobody reads |
| `InTime` | 3 slots, chunks of up to 3 bytes, 9 chunks of text, 3 packets dropped or flipped, `open` and `read` that may fail, a server that may quit but answers in time until it does | `SrejAnswerable`, `SrejOnce`, `WindowKept`; `OneLossIntact`, `TwoLossesIntact`, `IntactWhileSeen`; `SrejRecorded`, `NamedOnce` and `OneGap`, invariants of the proofs |
| `Live` | 2 slots, 3 chunks, 2 faults against 3 tries, fairness | `Delivered`, `ServerEnds`, `BlameTakesLosses`; `TriesAccounted`, the invariant of its proof |
| `Connect` | 2 clients, 3 children, 2 tries, packets dropped, flipped or late: as many as it has tries for one client and none for the other, first answers that arrive or are all dropped, a lookup that may fail, fairness | `TypeOK`, `Handover`, `NoResponseTakesLosses`, `ClientEnds`, `OrphansEnd`; `Inductive` and `Accounts`, the invariants of the proofs |
| `OneByteFlipped` | bytes of two bits, headers of 7 bytes, data of 0 to 3 bytes that fit and 4 that do not, any byte behind the packet in either buffer | `RoundTrip`, `FlipCaught` |
| `Injection` | lists for drop and flip that are unset, empty, -1, two numbers, a number before a word; rate, seed, debug and port that are unset, empty or numbers; programs that bind no port, port 0 or a port; every sequence of 5 draws; 2 children | `EnvironmentWins`, `DropListObeyed`, `ChildrenShareLuck` |
| `NarrowSlots` | 2 slots, chunks of 1 byte, 9 of them, 2 packets dropped | violation of `OutputIntact` |
| `EndOfFile` | 3 slots, 4 chunks, nothing lost | violation of `NoExtra` |
| `OpenLost` | 1 packet dropped | violation of `OpenFailureReported` |
| `Promises` | a port and a list of drops that are unset or empty, packets to flip that are unset, empty or listed, programs that ask for no drops | violation of `SomePromiseKept`, that is of `EmptyUndefines` and of `FlipListObeyed` at once |
| `Livelock` | 1 client, 2 tries, no fault but a first answer that is always flipped, fairness | violation of `ClientEnds` |

Why the bounds are enough. The file has more chunks than there are slots, so
every slot is reused; in `InTime` it is three windows long, so the table
`rejects` and the count `srej.total` carry over from one window to the next, and
three losses are enough to make the count wrong: `OutputIntact` itself is violated
on the instance of `InTime`, which is why the run asks for it with fewer losses
or as long as the count overlooks nothing. `MaxFaults` bounds packets
hit, not their kind or place. `MaxTimeouts` bounds selects that time out: it is
at least the number of losses plus what the handshake at the end can add, and
the tries are below it, so giving up happens. `Lossy` and `Reordered` leave
`Timely` FALSE: any select may time out although an answer is on its way.
`Live` stays below the number of tries (2 losses of 3), so that a client with
such a server never gives up: of `BlameTakesLosses` the run shows only that there
is no blame, and the boundary is in the theorem (`BlameIsPaid`). In `Connect`
losses are counted by client. One client may lose as many packets as it has
tries (2), and there are behaviours in which it gives up by these losses alone;
the other loses none, so it may not give up whatever happens to the first,
unless the children share the bad luck of dropping their first answer, which
is above any number of tries. A client that starts over leaves a
child behind, and with 3 processes a second client competes with such an orphan
for the third. In `OneByteFlipped` two-bit bytes make the sum carry twice with a
handful of words, as 1500 bytes do for 16-bit words. The safety properties of
`Transfer`, `Setup` and `Checksum` that are proved hold beyond these bounds. Deadlock is not
checked: the programs end, and all of them may have ended.

## 4. Properties

`DataFaithful`, `InReceiverWindow`, `SrejAnswerable` and `SrejOnce` hold as long as
`overrun` is FALSE. The code can send with the window closed: each `FNAME_RES`
leads to `send_data` without a look at the window (`rcopy.c` 176-177), and a
client that sent FNAME twice gets two. A chunk then takes a slot that is not
acknowledged. `CloseOnlyWhenComplete`, `SavedWhole`, `AckNeverAhead` and
`ImplementsCopy` hold even so. Where the server answers within the second
(`Timely`) it does not happen: `WindowKept`.

`OutputIntact`, that the server writes each chunk of a text file as it is and where
it belongs, is false (finding `NarrowSlots`). What is true of it is said in three
ways: whatever is lost, it holds as long as the count `srej.total` overlooks no
buffered chunk (`IntactWhileSeen`); with one loss it holds for every window
(`OneLossIntact`); with two it holds when the window is no wider than the buffer
size (`TwoLossesIntact`). `SavedWhole` says nothing of the contents, but holds
whatever is lost: a file that is reported saved has all its chunks written.

`TriesBounded` is about the `==` of `window_status`: up to the end of the file
the count cannot jump over the limit. At the end of the file it is not true: the
branches that send EoF and outstanding chunks count without a limit, and EoF
advances `current`, which may close the window with the count past 10. Such a
client sends a packet a second for ever to a server that is gone. A client in
the situation of `EndOfFile` may also go on for ever with a server that lives:
the RR for the stale chunk jumps past `end`, so no RR equals it any more. `Live`
avoids both (the server is there and answers); `Delivered` asks for the file at
the server, not for the end of the client.

Fairness (`FairSpec`). The scheduler runs every process that can run, select
returns when its time is over, and a delayed datagram arrives: weak fairness of
each process and of late arrivals. Nothing is assumed of packets: losses are
bounded by `MaxFaults` instead. `Timely` says that the server answers within
the second that the client waits, `Patient` that it does not quit after
`LONG_TIME` while its client lives (the client sends at least once a second).
Both are properties of the hosts, not of the code, and only the runs about
giving up and about liveness assume the first. `Lossy` drops the second.

What the violations show, each against a sentence of the repository quoted in
PROJECT.json:

* `NarrowSlots`: two causes. `handle_srej` decrements `srej->total` for each
  buffered chunk it writes, SREJed or not: chunk 2 lost (3 is buffered, total
  goes 1, 0, -1), chunk 4 lost (5 is buffered, total is 0), so 4 is written
  without looking at the buffer, and 5 stays in its slot. That does no harm until
  an SREJ brings `handle_srej` back. Here the second cause brings it: `get_data`
  looks slots up with the width `buf_size`, and with more slots than bytes in a
  chunk it can read only the zero byte between two slots, so 5 is SREJed although
  it is in its slot; the second 5 makes `handle_srej` write 6 and then the slot
  of 7, which still holds 5. With a window no wider than the buffer size it
  takes a third loss: with 3 slots, the loss of 6 makes `handle_srej` run over 6,
  7 and the slot of 8, which holds 5.
* `EndOfFile`: `read` returns 0 when all RRs have been taken; `end` equals
  `lower` but no RR will come to say so, and the "outstanding RRs" branch sends
  the slot of `lower`, the chunk of a window ago. If the file has fewer
  chunks than slots that slot is empty and `strlen(NULL)` ends the client.
* `OpenLost`: `FOPEN_ERR` is sent once; FNAME again is answered with
  `FNAME_RES`.
* `Promises`: two promises of `SettingsManager.h`, broken in one trace (the
  property is their disjunction). `EmptyUndefines`: the header says that an empty parameter undefines a
  variable, and `testRandError.sh` clears its lists that way. `loadEnvData`
  asks whether `parser2ListLong` returned less than 0, which it never does, so
  an empty list makes random events the program did not ask for, and `bindMod`
  takes an empty port for port 0. `FlipListObeyed`: the header promises the event
  for the messages of a list, for `CPE464_OVERRIDE_ERR_FLIP` as for the drops.
  `loadEnvData_ErrFlip` has a TODO there and registers nothing, and the program's
  own random flips are kept out as well: a listed packet goes out as it was.
  `EnvironmentWins` says of such a list only that no random flips take its place.
* `Livelock`: an answer with a wrong checksum resets the count of tries, and
  the next child garbles its first answer in the same way. Every orphan ends
  and is waited for, so the processes of the server never run out: nothing but
  the shared random state keeps the client from its file.

Read in the code and modelled, without a run of its own: `strlen` cuts a
buffered chunk at a NUL byte (`UpToNul`; one loss damages a binary file); if all
children drop their first answer no retry helps (`luck`); buffer sizes from 1494
to 1500 pass `check_args` and overrun the packet (`SendBuf`); a rate of 0 still
errs when `drand48` returns 0.0 (`Happens`).

A comment that the code does not bear out: `checksum.c` (lines 37-40) says that
for an odd length `in_cksum` "will go off the end of your data by one byte", and
asks the caller to zero the byte behind the packet. Neither `send_buf` nor
`recv_buf` does so: the sender's buffer may hold an earlier packet there, and
`data_buf` is not initialised. If the comment were right, the two ends would sum
different bytes and odd packets be refused at random. But the code (lines 70-79)
adds the last byte of an odd packet by itself and reads nothing behind it
(`Summed`). So `in_cksum` of the model is given a memory that goes on behind the
packet with any byte, another one at either end, and `RoundTrip` says that the
packet is taken all the same; with the function that the comment describes
(`GoesOffTheEnd`, the mutant of the run) it is violated. It is the comment that is
wrong, not the program, so no run expects a violation.

## 5. Proofs

Everything below is proved for every value of the constants, from the named
assumptions of the modules (`SizesPositive`, `NetworkAssumption`,
`RcopyAssumption`, `ServerAssumption`, `SetupAssumption`, `InjectorAssumption`,
`ChecksumAssumption`).

`TransferProofs`, for every file, window size, buffer size, retry limit, bound
and set of fates:

* `TypeCorrect`: `Spec => []TypeOK`. The type is inductive with the conjunct
  that a client which is not DONE has a try left (`cstate # "DONE" =>
  fnameRetry <= MAX_TRIES`); without it the bound `MAX_TRIES + 1` is not.
* `AckSafe`: `Spec => []AckNeverAhead`. `AckNeverAhead` is inductive relative
  to `TypeOK`: `lower` comes from an RR, an RR from `expected`, and `expected`
  never decreases. The second conjunct, about RRs in flight, is the
  strengthening that the first one needs. The proof splits by who can put an RR
  on the way: `AcknowledgeUpTo` only; everything else transmits packets with
  other flags, and a flip or a delay makes no RR.

`TransferSafety` proves `Spec => []Inductive` (`InductiveInvariant`) with the
conjunction of `TransferInvariant`. None of the properties is inductive alone.
`DataFaithful` needs `SlotsHoldLast` (a resend reads the slot of a chunk that
was read less than a window ago), which needs `WindowShape` (`current` is just
past what was read, so the slot of a new chunk is that of the oldest one);
`InReceiverWindow` needs `ReadWithinWindow`, hence `AckNeverAhead`;
`CloseOnlyWhenComplete` needs `FileState`, because EoF, its echo and the
descriptor vouch for each other. The proof has one lemma per part of the loop
of `run_client` and per reaction of the server, and `OnlyWhatWasRead` has the
exception that `EndOfFile` shows. From it follow `WindowRespected`,
`ResendsFaithful`, `SrejAlwaysAnswerable` and `CloseSafe`; `TriesSafe` needs
`WindowShape` besides (until the end of the file every branch that counts is
followed by the test). `CopyImplemented` is the refinement,
`Spec => ImplementsCopy`: the initial states map to the initial state of
`WindowedCopy`, and under the invariant every action maps to one of its actions
or to a stutter.

`OrderProofs`, for every file, window, bound and number of faults, when `Fates`
holds only drops and flips (`KeepsOrder`): `WindowAdvances`,
`Spec => WindowNeverRetreats`. `get_data` of `rcopy.c` assigns the number of
any RR to `lower` without a comparison, so this is a fact about the server and
the network. The invariant is `RRsInOrder`: the RRs that wait at the client are
sorted and none is below `lower`. A new RR goes behind them and names
`expected`, which is at least all of theirs by `AckNeverAhead`; the client takes
the first. With a late or a doubled packet it is false, and `WindowedCopy` says
so.

On the same network, `BlameIsPaid`, `Spec => []BlameTakesLosses`: with a server
that lives (`Patient`) and answers in time (`Timely`), the client reports "no
response" only after as many losses as the smaller of its two limits. The
invariant is `TriesAccounted` (`AccountKept`), which holds as long as the server
answers in time and has not quit (`StillAnswers`). `TriesPaid` says that the count
is at most the losses so far, and one more while an answer is due (`AnswerDue`: it
waits at the client, or a packet that the server answers waits at the server).
A select that times out finds nothing due, so the next try is paid for; the
packet of that try arrives or is a loss itself. Two things make the packet one
that the server answers: `window_status` resends `lower`, which is never ahead
of `expected` (`AckNeverAhead`), and the server is the one that the client
speaks to, in `wait_data()` (`Linked`, `Introduced`): a packet that reached the
server in `filename()` would send it back to `connection()` instead, and there
is no answer from there. That is why the order matters. With late and doubled
packets it happens (DATA overtakes FNAME, or an old SETUP_RES turns the client
to a socket that nobody reads), and the client counts tries that no loss has
paid for.

`OutputProofs` is about what the server writes and asks for, for every file,
window, buffer size and number of faults. `TextOnly` says that no byte of the
file is NUL, the restriction that `UpToNul` makes necessary.

* `SeenOutputIntact`: `TextOnly => (Spec => IntactWhileSeen)`. The invariant is
  `OutputHeld`: what is buffered is a chunk of the file, in its slot and less than
  a window past the one expected (`BufferedRight`), and what is written is as long
  as what was expected (`WrittenToExpected`). The one step that can break it is
  the expected packet with a count of 0 while the chunk after it is buffered;
  `NextSeen` says that this is not the case, and is the premise, not a
  consequence. So the count is all that can go wrong, whatever is lost, late or
  doubled.
* `NothingAskedTwice`: `KeepsOrder => (Spec => []SrejOnce)`, by the invariant
  `SrejRecorded` (`AskedIsRecorded`): an SREJ on its way for a chunk still missing
  is in the table `rejects`. `get_data` writes a slot of the table only for a
  chunk of that slot, two chunks that the server may miss at once never share a
  slot (`InReceiverWindow`), and `handle_srej` clears the slots of what it takes.
  The wrong width does not matter here: it decides whether a slot looks empty,
  not whether the table is consulted.
* `WindowIsKept`: `KeepsOrder => (Spec => []WindowKept)`, by `NamedOnce`
  (`NameOnlyOnce`): until an answer to FNAME is read, FNAME or the answer is on
  the way, one of them, once (`OneName`); after that, neither, but for the first
  answer, which finds the window open (`NameAnswered`). With `Timely`, what the
  other theorems say while `overrun` is FALSE holds throughout.
* `OneLossArrives`: `KeepsOrder /\ TextOnly => (Spec => []OneLossIntact)`, by
  `OneGap` (`OneChunkMissing`). As long as nothing is lost, every chunk that was
  read is taken or on its way, in order (`KnownBut(0)`), and nothing is ever
  buffered (`Untouched`). After one loss all but one chunk `k` are (`KnownBut(k)`):
  the packet that was lost carried `k`, or no chunk at all. What is buffered
  waits for `k` without a gap, and the count is above 0 (`WaitsFor(k)`). When the
  first chunk behind `k` arrives, `k` is asked for in spite of the wrong width
  (lemma `LooksEmpty`: the bytes read end before the slot behind, where the new
  chunk is, or begin after the chunk in the first slot), and no other chunk is,
  since `k` alone is missing (`AsksForMissing`). When `k` comes, `handle_srej` finds all that was buffered
  and leaves the buffer empty (`FillsGapWaits`); that the count is wrong from then
  on does no harm, since nothing is missing any more. So `NextSeen` holds as long
  as there is one loss (`GapSeen`), and the output follows as in
  `SeenOutputIntact`.
* `SavedIsWhole`: `Spec => []SavedWhole`, with no hypothesis. While the file is
  open what is written is what was expected, and it is closed with everything
  expected or by a server that quits (`Counted`); `CloseOnlyWhenComplete` says
  which of the two a client that reports success has seen. With `OneLossArrives`
  it gives `SavedAsItIs`: after one loss at most, a text file that is reported
  saved is on the server, chunk by chunk.

`InjectorProofs`, for every environment, program, set of children and random
sequence: `SharedLuck` (`[]ChildrenShareLuck`; the fates of a process are a
function of its places in the sequence, and two children start at the same
place, since the parent of children never sends), `ListsObeyed`
(`[]DropListObeyed`; the listed event is among the constant ones, and the n-th
message is counted as n), `Precedence` (`[]EnvironmentWins`).

`SetupProofs`, for every number of clients and children, every retry limit and
every fate: `TypeCorrect` (`Spec => []TypeOK`), and under `Patient` `SetupSound`
(`Spec => []Inductive`) and from it `OneChildServes` (`Spec => []Handover`): a
child that quits on a live client leaves it alone, whatever else holds. The argument: a socket
sends one SETUP, so that packet is in one place (`OneServer`: on its way, at the
listener, or with the child that it became), and whatever the socket receives
comes from that child (`Answers`). Closing a socket takes packets and children
of it out of both at once (lemma `Leaving`). `Timely` and fairness are not used:
no race between a timeout and a late answer breaks the handover.

`GivingUpTakesLosses` (`Spec => []NoResponseTakesLosses`) needs neither: a child
that quits has answered before, and an answer that is there ends the wait. It
follows from `AccountsSound` (`Spec => []Accounts`): a client that waits has
counted at most one try more than packets of its own or to it were hit (`faults`
counts by client, so the losses of another client pay for nothing), and that one
only as long as there is hope (`Hope`: its SETUP waits at the listener, a child
is about to answer it, or the answer is there). Each step of the server or of a child moves
the hope on or costs a fault; a late packet is a fault that was counted when it
was sent; and starting over closes the socket, which takes only the hopes of
that client.

`ChecksumProofs`, for every even number of values of a byte, every flag and
number, and every packet of at most `Word` bytes (16-bit words: 65,536; the code
has 1,500), odd ones included, with any data that `send_buf` has room for and
any byte behind the packet in either buffer: `PacketsArrive`
(`Spec => []RoundTrip`) and `FlipsAreCaught` (`Spec => []FlipCaught`). Lemma `NothingBehind`
takes the byte behind out of the argument: contrary to the comment of
`checksum.c` 37-40 nothing is summed but the packet. The sum of
`in_cksum` is a recursive function; what is needed of it is proved from its
definition by a least counterexample (lemma `UpTo`), since the induction theorems
of the library cannot be used: the sum has a value (`SumExists`), it stays below
`Word * Word`, so that two folds are enough (`SumBound`, `Folding`), and changing
one byte changes it by the weight of that byte times the difference
(`OneByteChanged`). Inverting a byte is a difference of `Base - 1 - 2 * b`, which
is odd because `Base` is even, so it is not 0, and it is less than `Base`; times
1 or `Base` it is not a multiple of `Word - 1` (`NoMultiple`), which is what two
sums with the same fold differ by. The words of a packet that was not hit sum
to a positive multiple of `Word - 1`, which is what `in_cksum` takes for right
(`RightSum`), because the checksum is the complement of the rest (`HeaderRight`);
those of one that was hit do not (`FlipWrong`). With an odd `Base` the middle value
of a byte would be its own inverse and the theorem false.

The proofs about `Transfer` rest on `PartsProofs`: what `Transmit` leaves in a
socket (nothing but what was there, the packets sent, and `Garbled`), and that the
queue operations and the arithmetic of slots keep their types.

Model-checked only: `TwoLossesIntact`, for which the invariant would have to say
where two missing chunks can be and what `srej.total` is after each of the
orders in which they are filled; and liveness (`Delivered`, `ServerEnds`,
`ClientEnds`, `OrphansEnd`), which is out of the prover's reach. The properties of
the findings are false and have nothing to prove. Hypotheses: the theorems of
`OrderProofs`, and those of `OutputProofs` about SREJs, names and one loss, have
`KeepsOrder`, which the runs `Lossy`, `Live` and `InTime` satisfy;
`SeenOutputIntact`, `OneLossArrives`, `OneChunkMissing` and `SavedAsItIs` have
`TextOnly`, which `InTime` satisfies; `SetupSound` and `OneChildServes` have
`Patient`, which `Connect` satisfies. `Timely` is never a hypothesis but part of the
properties that need it. The other theorems have no hypothesis but the named
assumptions.

## 6. Not modelled

The argument tests of the two `main`s, apart from the buffer size (they print
and exit); `dbg_print` and `printType` print, and `recv_Mod`, `recvfrom_Mod` and
`selectMod` add messages to what they wrap; `send_Err`, `check_index` and
`terminate` have no caller. `CPE464_AUTOGRADER` is only printed. Failing calls
that end the process (`socket`, `bind`, `fork`, `select`) are left out; a failed
send goes unnoticed in the code (`safeSend` compares with `==`) and is a lost
packet here. Sequence numbers do not wrap. A SETUP duplicated by UDP, which
forks two children for one socket, is not in `Setup`: two servers of one client
that open the same output file would have to be in `Transfer` as well.
`testRandError.sh` and the build files are not part of the program.

## 7. Order of the work, and what could follow

The modules were written bottom up: `Queue`, `Network`, `Rcopy`, `Server`,
`Transfer`, then `Checksum`, `Injector` and `Setup`, then the abstract
`WindowedCopy`, and the proofs in the same order. What could follow:

1. Duplicated SETUPs in `Setup`, and two server processes in `Transfer`.
2. `TwoLossesIntact` as a theorem: the invariant `OneGap` for two missing chunks,
   with the values that `srej.total` may have.
