-------------------------------- MODULE Queue --------------------------------
(***************************************************************************)
(* The window buffers of queue.c.  In memory a queue is WindowSize slots   *)
(* of BufSize+1 bytes, all zero at first; here a queue is a function from  *)
(* slot numbers to the bytes put in the slot since it was last zeroed (the *)
(* rest of the slot, and at least its last byte, is zero).                 *)
(***************************************************************************)
EXTENDS Integers, Sequences

CONSTANTS
    WindowSize,     \* number of slots: the window-size argument of rcopy
    BufSize         \* bytes in a full chunk: the buffer-size argument of rcopy

\* check_args of rcopy.c tests neither; zero divides by zero (see README).
ASSUME SizesPositive == WindowSize \in Nat \ {0} /\ BufSize \in Nat \ {0}

Slots == 0 .. WindowSize - 1

Bytes == Seq(Nat)

\* Slot of a sequence number.
SlotOf(seq) == seq % WindowSize

init_queue == [i \in Slots |-> <<>>]

\* Copies the bytes of buf over the first bytes of the slot, and no others.
add_element(queue, i, buf) ==
    [queue EXCEPT ![i] = buf \o SubSeq(@, Len(buf) + 1, Len(@))]

\* Mutant: the slot is not zeroed, so a shorter chunk leaves a tail of the old.
SlotNotZeroed(queue, i) == queue

remove_element(queue, i) == [queue EXCEPT ![i] = <<>>]

\* get_element with the slot width BufSize+1: NULL when all the bytes of the
\* slot are zero, so a buffered chunk of NUL bytes looks like an empty slot.
IsNull(queue, i) == \A j \in DOMAIN queue[i] : queue[i][j] = 0

\* Byte at offset p of the whole buffer, whose slots are BufSize+1 bytes wide.
ByteAt(queue, p) ==
    LET slot == queue[p \div (BufSize + 1)]
        j    == (p % (BufSize + 1)) + 1
    IN  IF j \in DOMAIN slot THEN slot[j] ELSE 0

\* get_element called with the width BufSize, as get_data of server.c does
\* before it sends an SREJ: it reads BufSize bytes at i * BufSize, which is
\* not where slot i starts unless i = 0.
IsNullMisaligned(queue, i) ==
    \A p \in i * BufSize .. i * BufSize + BufSize - 1 : ByteAt(queue, p) = 0

\* The bytes that remain when a slot is taken as a C string: send_buf and
\* write are given strlen of the slot, so the first NUL ends the chunk.
UpToNul(bytes) ==
    LET nuls == {j \in DOMAIN bytes : bytes[j] = 0}
    IN  IF nuls = {} THEN bytes
        ELSE SubSeq(bytes, 1, (CHOOSE j \in nuls : \A k \in nuls : j <= k) - 1)
==============================================================================
