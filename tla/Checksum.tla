------------------------------ MODULE Checksum ------------------------------
(***************************************************************************)
(* One packet from send_buf to recv_buf: the header of srej.h, in_cksum of *)
(* libcpe464 and the byte that errorFlipBits inverts on the way.  Network  *)
(* takes from here that a flipped packet arrives as CRC_ERROR and any      *)
(* other as it was sent.                                                   *)
(***************************************************************************)
EXTENDS Integers, Sequences

CONSTANTS
    Base,       \* values of a byte: 256
    MAX_LEN,    \* size of a packet buffer: 1500 in srej.h
    SeqNums,    \* sequence numbers to send
    FlagValues, \* flags to send
    MaxData     \* bound: length of the data

\* A byte has an even number of values, and the words of a packet are too few
\* for their sum to carry out of two words.
ASSUME ChecksumAssumption ==
    /\ Base \in Nat \ {0} /\ Base % 2 = 0
    /\ MAX_LEN \in 0 .. Base * Base /\ MaxData \in Nat
    /\ SeqNums \subseteq 0 .. Base * Base * Base * Base - 1
    /\ FlagValues \subseteq 1 .. Base - 1

VARIABLES
    sent,       \* the arguments of send_buf
    packet,     \* the bytes of the packet buffer, then of the datagram
    flipped,    \* whether sendtoErr has inverted a byte
    stage,      \* how far the packet is
    received    \* what recv_buf delivers: at most one message

vars == <<sent, packet, flipped, stage, received>>

Byte == 0 .. Base - 1
Word == Base * Base

SizeOfHeader == 7

\* The buffer sizes that check_args of rcopy.c lets pass.
BufferSizeAccepted(n) == n <= MAX_LEN

Lengths == {n \in 0 .. MaxData : BufferSizeAccepted(n)}

Contents == [seq : SeqNums, flag : FlagValues,
             data : UNION {[1 .. n -> Byte] : n \in Lengths}]

----------------------------------------------------------------------------

\* Mutant: the odd byte at the end is not mopped up.
EvenWeight(bytes, i) ==
    IF i = Len(bytes) /\ i % 2 = 1 THEN 0 ELSE IF i % 2 = 1 THEN 1 ELSE Base

\* The place of byte i in its two-byte word, on a little-endian host; an odd
\* byte at the end is a word by itself.
Weight(bytes, i) == IF i % 2 = 1 THEN 1 ELSE Base

SumOfWords(bytes) ==
    LET sum[i \in 0 .. Len(bytes)] ==
            IF i = 0 THEN 0 ELSE sum[i - 1] + Weight(bytes, i) * bytes[i]
    IN  sum[Len(bytes)]

\* The carries are added back, twice, and the complement is taken.
Folded(sum) ==
    LET once == (sum \div Word) + (sum % Word)
    IN  (once + (once \div Word)) % Word

\* Mutant: whole words only, as the comment over in_cksum has it: an odd packet
\* is summed with the byte behind it.
GoesOffTheEnd(len) == len + (len % 2)

\* The last word of an odd packet is its last byte alone, mopped up by itself:
\* the code reads no byte behind the packet, whatever that comment says.
Summed(len) == len

\* The checksum of the first len bytes of a memory that goes on behind them.
in_cksum(memory, len) ==
    Word - 1 - Folded(SumOfWords(SubSeq(memory, 1, Summed(len))))

\* htonl and ntohl: the most significant byte goes first.
Htonl(n) ==
    <<n \div (Word * Base), (n \div Word) % Base, (n \div Base) % Base, n % Base>>

Ntohl(bytes) ==
    bytes[1] * Base * Word + bytes[2] * Word + bytes[3] * Base + bytes[4]

\* The checksum as the host stores it.
Stored(checksum) == <<checksum % Base, checksum \div Base>>

\* createHeader zeroes the checksum field before it sums.  Behind the packet
\* the buffer holds what was there before: nothing zeroes that byte.
createHeader(m, behind) ==
    LET zeroed   == Htonl(m.seq) \o <<0, 0>> \o <<m.flag>> \o m.data
        checksum == in_cksum(zeroed \o <<behind>>, Len(zeroed))
    IN  Htonl(m.seq) \o Stored(checksum) \o <<m.flag>> \o m.data

\* retrieveHeader sums the whole packet, its checksum included.
SumIsRight(memory, len) == in_cksum(memory, len) = 0

\* No message is CRC_ERROR.
retrieveHeader(memory, len) ==
    IF SumIsRight(memory, len)
    THEN {[seq |-> Ntohl(memory), flag |-> memory[7],
           data |-> SubSeq(memory, SizeOfHeader + 1, len)]}
    ELSE {}

----------------------------------------------------------------------------

Init ==
    /\ sent \in Contents
    /\ packet = <<>>
    /\ flipped = FALSE
    /\ stage = "send_buf"
    /\ received = {}

\* send_buf fills the buffer of MAX_LEN bytes on its caller's stack.  Data
\* that does not fit behind the header runs over its end: the process may die
\* or send the packet from where it now lies.
SendBuf ==
    /\ stage = "send_buf"
    /\ \E behind \in Byte : packet' = createHeader(sent, behind)
    /\ \/ stage' = "sendtoErr"
       \/ SizeOfHeader + Len(sent.data) > MAX_LEN /\ stage' = "overrun"
    /\ UNCHANGED <<sent, flipped, received>>

\* sendtoErr with no event, or with the one that inverts a byte.
SendtoErr ==
    /\ stage = "sendtoErr"
    /\ \/ UNCHANGED <<packet, flipped>>
       \/ /\ \E i \in DOMAIN packet :
               packet' = [packet EXCEPT ![i] = Base - 1 - @]
          /\ flipped' = TRUE
    /\ stage' = "recv_buf"
    /\ UNCHANGED <<sent, received>>

\* recvfrom takes at most MAX_LEN bytes of a datagram.  data_buf was not
\* cleared, and what is behind the datagram is whatever lay on the stack.
RecvBuf ==
    /\ stage = "recv_buf"
    /\ LET recv_len == IF Len(packet) > MAX_LEN THEN MAX_LEN ELSE Len(packet)
       IN  \E behind \in Byte :
             received' = retrieveHeader(SubSeq(packet, 1, recv_len) \o <<behind>>,
                                        recv_len)
    /\ stage' = "done"
    /\ UNCHANGED <<sent, packet, flipped>>

Next == SendBuf \/ SendtoErr \/ RecvBuf

Spec == Init /\ [][Next]_vars

----------------------------------------------------------------------------

\* The data that fits in the buffer behind the header.
Fits == SizeOfHeader + Len(sent.data) <= MAX_LEN

\* Two ends that share no memory agree on every packet: one that nobody
\* touched is taken, with the flag, number and data it was sent with, of even
\* or of odd length and whatever lies behind it in either buffer.  checksum.c
\* says that in_cksum "will go off the end of your data by one byte" for an odd
\* length, and asks for a zero there that send_buf and recv_buf never write:
\* were the comment right, odd packets would be refused.  The code mops the
\* last byte up by itself, and they are not.
RoundTrip == stage = "done" /\ ~flipped /\ Fits => received = {sent}

\* A packet with one inverted byte, wherever it is (in the checksum itself,
\* or in the odd byte at the end), is never taken for another packet.
FlipCaught == stage = "done" /\ flipped /\ Fits => received = {}
=============================================================================
