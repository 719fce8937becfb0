---------------------------- MODULE OutputProofs ----------------------------
(***************************************************************************)
(* What the server writes and asks for, and when the client sends, for     *)
(* every text file and window; at the end, one loss at most (the gap).     *)
(***************************************************************************)
EXTENDS TransferSafety, OrderProofs

\* Text is what strlen makes of it.
LEMMA UpToNulText ==
    ASSUME NEW bytes \in Bytes, \A j \in DOMAIN bytes : bytes[j] # 0
    PROVE  UpToNul(bytes) = bytes
  BY DEF UpToNul

\* A chunk of a text file is not empty and has no NUL byte.
LEMMA TextChunk ==
    ASSUME TextOnly, NEW k \in Nat, k \in 1 .. Len(File)
    PROVE  /\ File[k] \in Bytes
           /\ 1 \in DOMAIN File[k]
           /\ \A j \in DOMAIN File[k] : File[k][j] # 0
           /\ UpToNul(File[k]) = File[k]
  <1>1. DOMAIN File = 1 .. Len(File)
    BY RcopyAssumption, LenProperties
  <1>2. File[k] \in Bytes /\ Len(File[k]) \in 1 .. BufSize
    BY <1>1, RcopyAssumption, ElementOfSeq
  <1>3. DOMAIN File[k] = 1 .. Len(File[k])
    BY <1>2, LenProperties DEF Bytes
  <1>4. \A j \in DOMAIN File[k] : File[k][j] # 0
    BY <1>1 DEF TextOnly
  <1>5. 1 \in DOMAIN File[k]
    <2>1. Len(File[k]) \in Int /\ Len(File[k]) >= 1
      BY <1>2, SizesPositive
    <2> QED BY <1>3, <2>1
  <1> QED BY <1>2, <1>4, <1>5, UpToNulText

\* A chunk added to an empty slot is what the slot holds.
LEMMA EmptySlot ==
    ASSUME NEW queue \in [Slots -> Bytes], NEW i \in Slots, NEW buf \in Bytes,
           queue[i] = <<>>
    PROVE  LET after == add_element(queue, i, buf)
           IN  /\ after \in [Slots -> Bytes]
               /\ after[i] = buf
               /\ \A j \in Slots \ {i} : after[j] = queue[j]
  <1>1. remove_element(queue, i) = queue
    BY DEF remove_element
  <1>2. add_element(queue, i, buf) \in [Slots -> Bytes]
    BY QueueType
  <1>3. LET after == add_element(remove_element(queue, i), i, buf)
        IN  /\ after[i] = buf
            /\ \A j \in Slots \ {i} : after[j] = queue[j]
    BY FreshSlot
  <1> QED BY <1>1, <1>2, <1>3

(***************************************************************************)
(* The buffer of the server.                                               *)
(***************************************************************************)

\* What holds as long as the window is kept.
Kept == Before /\ ~overrun /\ TextOnly /\ OutputHeld

\* A slot that looks empty is empty; one that is not holds a chunk of the file.
LEMMA SlotContents ==
    ASSUME TypeOK, TextOnly, BufferedRight, NEW i \in Slots
    PROVE  /\ IsNull(squeue, i) <=> squeue[i] = <<>>
           /\ ~IsNull(squeue, i) =>
                \E k \in expected + 1 .. expected + WindowSize - 1 :
                  k \in 1 .. Len(File) /\ SlotOf(k) = i /\ squeue[i] = File[k]
  <1>1. expected \in Nat /\ WindowSize \in Nat /\ Len(File) \in Nat
    BY Numbers
  <1>2. squeue[i] = <<>> => IsNull(squeue, i)
    BY DEF IsNull
  <1>3. ASSUME squeue[i] # <<>>
        PROVE  /\ ~IsNull(squeue, i)
               /\ \E k \in expected + 1 .. expected + WindowSize - 1 :
                    k \in 1 .. Len(File) /\ SlotOf(k) = i /\ squeue[i] = File[k]
    <2>1. PICK k \in expected + 1 .. expected + WindowSize - 1 :
            k <= Len(File) /\ SlotOf(k) = i /\ squeue[i] = File[k]
      BY <1>3 DEF BufferedRight
    <2>2. k \in Nat /\ k \in 1 .. Len(File)
      BY <1>1, <2>1
    <2>3. 1 \in DOMAIN squeue[i] /\ squeue[i][1] # 0
      BY <2>1, <2>2, TextChunk
    <2> QED BY <2>1, <2>2, <2>3 DEF IsNull
  <1> QED BY <1>2, <1>3

\* The chunks that handle_srej finds in a row are those that follow, and they
\* end within the window.
LEMMA RunContents ==
    ASSUME TypeOK, TextOnly, BufferedRight
    PROVE  LET n == RunLength(expected + 1)
           IN  /\ n \in 0 .. WindowSize - 1
               /\ IsNull(squeue, SlotOf(expected + 1 + n))
               /\ \A j \in 1 .. n :
                    /\ expected + j \in 1 .. Len(File)
                    /\ squeue[SlotOf(expected + j)] = File[expected + j]
  <1> DEFINE n == RunLength(expected + 1)
  <1>0. /\ expected \in Nat \ {0} /\ expected + 1 \in Int
        /\ WindowSize \in Nat \ {0} /\ Len(File) \in Nat
        /\ squeue \in [Slots -> Bytes]
    BY Numbers DEF TypeOK, ServerTypeOK
  <1>1. /\ n \in 0 .. WindowSize
        /\ \A j \in 0 .. n - 1 : ~IsNull(squeue, SlotOf(expected + 1 + j))
        /\ n = WindowSize \/ IsNull(squeue, SlotOf(expected + 1 + n))
    BY <1>0, RunLengthType
  <1> HIDE DEF n
  <1>2. ASSUME NEW j \in 1 .. n
        PROVE  /\ j < WindowSize
               /\ expected + j \in 1 .. Len(File)
               /\ squeue[SlotOf(expected + j)] = File[expected + j]
    <2>1. j - 1 \in 0 .. n - 1 /\ expected + 1 + (j - 1) = expected + j
          /\ expected + j \in Int /\ j \in Int /\ j <= WindowSize /\ j >= 1
      BY <1>0, <1>1
    <2>2. ~IsNull(squeue, SlotOf(expected + j))
      BY <1>1, <2>1
    <2>3. SlotOf(expected + j) \in Slots
      BY <2>1, SlotOfType
    <2>4. PICK k \in expected + 1 .. expected + WindowSize - 1 :
            /\ k \in 1 .. Len(File) /\ SlotOf(k) = SlotOf(expected + j)
            /\ squeue[SlotOf(expected + j)] = File[k]
      BY <2>2, <2>3, SlotContents
    <2>5. /\ k \in Int /\ k - (expected + j) < WindowSize
          /\ (expected + j) - k < WindowSize
      BY <1>0, <2>1, <2>4
    <2>6. k = expected + j
      BY <2>1, <2>4, <2>5, SlotOfInjective
    <2>7. k < expected + WindowSize
      BY <1>0, <2>4
    <2> QED BY <1>0, <2>1, <2>4, <2>6, <2>7
  <1>3. n # WindowSize
    <2>1. n = WindowSize => n \in 1 .. n
      BY <1>0
    <2> QED BY <1>0, <1>2, <2>1
  <1>4. n \in 0 .. WindowSize - 1 /\ IsNull(squeue, SlotOf(expected + 1 + n))
    BY <1>0, <1>1, <1>3
  <1> QED BY <1>2, <1>4 DEF n

\* A packet that the server would still take carries the chunk of its number;
\* one ahead of the expected packet is less than a window ahead.
LEMMA ArrivingChunk ==
    ASSUME Before, ~overrun, TextOnly, NEW m \in Data, m.seq >= expected
    PROVE  /\ m.seq \in 1 .. Len(File) => m.data = File[m.seq]
           /\ m.seq > expected => /\ m.seq \in 1 .. Len(File)
                                  /\ m.seq < expected + WindowSize
  <1>1. /\ TypeOK /\ DataFaithful /\ InReceiverWindow /\ OnlyWhatWasRead
    BY DEF Before, Inductive
  <1>2. /\ m.seq \in Nat /\ expected \in Nat \ {0} /\ Len(File) \in Nat
        /\ nread \in 0 .. Len(File)
    BY <1>1, Numbers DEF Data
  <1>3. ASSUME m.seq \in 1 .. Len(File) PROVE m.data = File[m.seq]
    <2>1. m.data \in {File[m.seq], UpToNul(File[m.seq])}
      BY <1>1, <1>2, <1>3 DEF DataFaithful
    <2> QED BY <1>3, <2>1, TextChunk
  <1>4. ASSUME m.seq > expected
        PROVE  m.seq \in 1 .. Len(File) /\ m.seq < expected + WindowSize
    BY <1>1, <1>2, <1>4 DEF OnlyWhatWasRead, InReceiverWindow
  <1> QED BY <1>3, <1>4

\* Writing the chunks that follow keeps the output what it should be.
LEMMA WriteHeld ==
    ASSUME TypeOK, FileState, WrittenToExpected, OutputIntact,
           sstate = "WAIT_DATA", UNCHANGED fd,
           NEW chunks \in Seq(Bytes), Write(chunks),
           expected' = expected + Len(chunks),
           \A j \in 1 .. Len(chunks) :
               expected - 1 + j <= Len(File) =>
                   chunks[j] = File[expected - 1 + j]
    PROVE  WrittenToExpected' /\ OutputIntact'
  <1>1. written \in Seq(Bytes) /\ expected \in Nat /\ Len(File) \in Nat
    BY Numbers DEF TypeOK, ServerTypeOK
  <1>2. fd # "none"
    BY DEF FileState
  <1>3. CASE fd = "open"
    <2> DEFINE after == written \o chunks
    <2>1. written' = after /\ Len(written) = expected - 1
      BY <1>3 DEF Write, WrittenToExpected
    <2>2. /\ Len(chunks) \in Nat /\ DOMAIN after = 1 .. Len(after)
          /\ Len(after) = Len(written) + Len(chunks)
          /\ \A k \in 1 .. Len(written) : after[k] = written[k]
          /\ \A k \in Len(written) + 1 .. Len(after) :
               after[k] = chunks[k - Len(written)]
      BY <1>1, ConcatProperties, LenProperties
    <2>3. DOMAIN written = 1 .. Len(written)
      BY <1>1, LenProperties
    <2> HIDE DEF after
    <2>4. ASSUME NEW k \in DOMAIN after, k <= Len(File) PROVE after[k] = File[k]
      <3>1. CASE k \in 1 .. Len(written)
        BY <2>2, <2>3, <2>4, <3>1 DEF OutputIntact
      <3>2. CASE k \notin 1 .. Len(written)
        <4> DEFINE j == k - (expected - 1)
        <4>1. /\ j \in 1 .. Len(chunks) /\ expected - 1 + j = k
              /\ k \in Len(written) + 1 .. Len(after)
              /\ k - Len(written) = j
          BY <1>1, <2>1, <2>2, <3>2
        <4>2. chunks[j] = File[k]
          BY <2>4, <4>1
        <4> QED BY <2>2, <4>1, <4>2
      <3> QED BY <3>1, <3>2
    <2>5. OutputIntact'
      BY <2>1, <2>4 DEF OutputIntact
    <2>6. Len(after) = expected' - 1
      BY <1>1, <2>1, <2>2
    <2> QED BY <1>2, <2>1, <2>5, <2>6 DEF WrittenToExpected
  <1>4. CASE fd # "open"
    <2>1. written' = written
      BY <1>4 DEF Write
    <2> QED BY <1>2, <1>4, <2>1 DEF WrittenToExpected, OutputIntact
  <1> QED BY <1>3, <1>4

(***************************************************************************)
(* get_data and handle_srej keep the output.                               *)
(***************************************************************************)

\* The packet expected, when no SREJ is outstanding.
LEMMA InOrderHolds ==
    ASSUME Kept, NextSeen, NEW m \in Data, sstate = "WAIT_DATA", UNCHANGED fd,
           InOrder(m)
    PROVE  OutputHeld'
  <1>0. /\ Before /\ ~overrun /\ TextOnly /\ TypeOK /\ FileState
        /\ WrittenToExpected /\ OutputIntact /\ BufferedRight
    BY DEF Kept, Before, Inductive, OutputHeld
  <1>1. /\ expected \in Nat \ {0} /\ WindowSize \in Nat \ {0}
        /\ Len(File) \in Nat /\ m \in Messages
    BY <1>0, Numbers DEF Data
  <1>2. /\ m.seq = expected /\ srejTotal = 0 /\ Write(<<m.data>>)
        /\ expected' = expected + 1 /\ squeue' = squeue
    BY DEF InOrder
  <1>3. WrittenToExpected' /\ OutputIntact'
    <2> DEFINE chunks == <<m.data>>
    <2>1. /\ chunks \in Seq(Bytes) /\ Len(chunks) = 1 /\ chunks[1] = m.data
      BY <1>1 DEF Messages, Bytes
    <2>2. expected <= Len(File) => m.data = File[expected]
      BY <1>0, <1>1, <1>2, ArrivingChunk
    <2>3. \A j \in 1 .. Len(chunks) :
            expected - 1 + j <= Len(File) => chunks[j] = File[expected - 1 + j]
      BY <1>1, <2>1, <2>2
    <2>4. expected' = expected + Len(chunks) /\ Write(chunks)
      BY <1>2, <2>1
    <2> HIDE DEF chunks
    <2> QED BY <1>0, <2>1, <2>3, <2>4, WriteHeld
  <1>4. BufferedRight'
    <2> SUFFICES ASSUME NEW i \in Slots, squeue[i] # <<>>
                 PROVE  \E k \in expected + 2 .. expected + WindowSize :
                          k <= Len(File) /\ SlotOf(k) = i /\ squeue[i] = File[k]
      <3>1. expected' + 1 = expected + 2 /\ expected' + WindowSize - 1 = expected + WindowSize
        BY <1>1, <1>2
      <3> QED BY <1>2, <3>1 DEF BufferedRight
    <2>1. PICK k \in expected + 1 .. expected + WindowSize - 1 :
            k <= Len(File) /\ SlotOf(k) = i /\ squeue[i] = File[k]
      BY <1>0 DEF BufferedRight
    <2>2. k # expected + 1
      <3>1. IsNull(squeue, SlotOf(expected + 1))
        BY <1>2 DEF NextSeen
      <3>2. ~IsNull(squeue, i)
        BY <1>0, SlotContents
      <3> QED BY <2>1, <3>1, <3>2
    <2>3. k \in expected + 2 .. expected + WindowSize
      BY <1>1, <2>1, <2>2
    <2> QED BY <2>1, <2>3
  <1> QED BY <1>3, <1>4 DEF OutputHeld

\* The packet expected, with the chunks that handle_srej finds behind it.
LEMMA FillsGapHolds ==
    ASSUME Kept, NEW m \in Data, sstate = "WAIT_DATA", UNCHANGED fd, FillsGap(m)
    PROVE  OutputHeld'
  <1> DEFINE next  == expected + 1
             n     == RunLength(next)
             run   == [j \in 1 .. n |-> UpToNul(squeue[SlotOf(next + j - 1)])]
             slots == {SlotOf(next + j - 1) : j \in 1 .. n}
             chunks == <<m.data>> \o run
  <1>0. /\ Before /\ ~overrun /\ TextOnly /\ TypeOK /\ FileState
        /\ WrittenToExpected /\ OutputIntact /\ BufferedRight
    BY DEF Kept, Before, Inductive, OutputHeld
  <1>1. /\ expected \in Nat \ {0} /\ WindowSize \in Nat \ {0}
        /\ Len(File) \in Nat /\ m \in Messages /\ squeue \in [Slots -> Bytes]
    BY <1>0, Numbers DEF Data, TypeOK, ServerTypeOK
  <1>2. /\ m.seq = expected /\ Write(chunks) /\ expected' = next + n
        /\ squeue' = Emptied(slots)
    BY DEF FillsGap
  <1>3. /\ n \in 0 .. WindowSize - 1
        /\ IsNull(squeue, SlotOf(expected + 1 + n))
        /\ \A j \in 1 .. n :
             /\ expected + j \in 1 .. Len(File)
             /\ squeue[SlotOf(expected + j)] = File[expected + j]
    BY <1>0, RunContents
  <1> HIDE DEF n
  <1>4. \A j \in 1 .. n : next + j - 1 = expected + j /\ expected + j \in Nat
    BY <1>1, <1>3
  <1>5. ASSUME NEW j \in 1 .. n
        PROVE  run[j] = File[expected + j] /\ run[j] \in Bytes
    <2>1. run[j] = UpToNul(File[expected + j])
      BY <1>3, <1>4
    <2> QED BY <1>0, <1>3, <1>4, <2>1, TextChunk
  <1>6. run \in Seq(Bytes) /\ Len(run) = n /\ n \in Nat
    <2>1. n \in Nat /\ run \in [1 .. n -> Bytes]
      <3>1. n \in Nat
        BY <1>1, <1>3
      <3> QED BY <1>5, <3>1
    <2> HIDE DEF run
    <2> QED BY <2>1
  <1>7. WrittenToExpected' /\ OutputIntact'
    <2>1. <<m.data>> \in Seq(Bytes) /\ Len(<<m.data>>) = 1
      BY <1>1 DEF Messages, Bytes
    <2> HIDE DEF run
    <2>2. /\ chunks \in Seq(Bytes) /\ Len(chunks) = 1 + n
          /\ chunks[1] = m.data
          /\ \A j \in 2 .. 1 + n : chunks[j] = run[j - 1]
      BY <1>6, <2>1, ConcatProperties
    <2>3. expected <= Len(File) => m.data = File[expected]
      BY <1>0, <1>1, <1>2, ArrivingChunk
    <2>4. ASSUME NEW j \in 1 .. Len(chunks), expected - 1 + j <= Len(File)
          PROVE  chunks[j] = File[expected - 1 + j]
      <3>1. CASE j = 1
        BY <1>1, <2>2, <2>3, <2>4, <3>1
      <3>2. CASE j # 1
        <4>1. /\ j \in 2 .. 1 + n /\ j - 1 \in 1 .. n
              /\ expected + (j - 1) = expected - 1 + j
          BY <1>1, <1>6, <2>2, <3>2
        <4> QED BY <1>5, <2>2, <4>1
      <3> QED BY <3>1, <3>2
    <2>5. expected' = expected + Len(chunks)
      BY <1>1, <1>2, <1>6, <2>2
    <2>6. Write(chunks)
      BY <1>2
    <2> HIDE DEF chunks
    <2> QED BY <1>0, <2>2, <2>4, <2>5, <2>6, WriteHeld
  <1>8. BufferedRight'
    <2> SUFFICES ASSUME NEW i \in Slots, squeue'[i] # <<>>
                 PROVE  \E k \in expected' + 1 .. expected' + WindowSize - 1 :
                          k <= Len(File) /\ SlotOf(k) = i /\ squeue'[i] = File[k]
      BY DEF BufferedRight
    <2>1. i \notin slots /\ squeue'[i] = squeue[i]
      BY <1>2 DEF Emptied
    <2>2. PICK k \in expected + 1 .. expected + WindowSize - 1 :
            k <= Len(File) /\ SlotOf(k) = i /\ squeue[i] = File[k]
      BY <1>0, <2>1 DEF BufferedRight
    <2>3. k \in Int /\ k - expected \in Int /\ expected + (k - expected) = k
          /\ k > expected
      BY <1>1, <2>2
    <2>4. k - expected \notin 1 .. n
      <3> SUFFICES ASSUME k - expected \in 1 .. n PROVE FALSE
        OBVIOUS
      <3>1. SlotOf(next + (k - expected) - 1) = i
        BY <1>4, <2>2, <2>3
      <3> QED BY <2>1, <3>1
    <2>5. k # expected + 1 + n
      <3>1. ~IsNull(squeue, i)
        BY <1>0, <2>1, SlotContents
      <3> QED BY <1>3, <2>2, <3>1
    <2>6. k \in expected' + 1 .. expected' + WindowSize - 1
      BY <1>1, <1>2, <1>6, <2>2, <2>3, <2>4, <2>5
    <2> QED BY <2>1, <2>2, <2>6
  <1> QED BY <1>7, <1>8 DEF OutputHeld

\* A packet ahead of the one expected goes into an empty slot.
LEMMA OutOfOrderHolds ==
    ASSUME Kept, NEW m \in Data, UNCHANGED fd, OutOfOrder(m)
    PROVE  OutputHeld'
  <1>0. /\ Before /\ ~overrun /\ TextOnly /\ TypeOK
        /\ WrittenToExpected /\ OutputIntact /\ BufferedRight
    BY DEF Kept, Before, OutputHeld
  <1>1. /\ expected \in Nat \ {0} /\ WindowSize \in Nat \ {0}
        /\ Len(File) \in Nat /\ m \in Messages /\ squeue \in [Slots -> Bytes]
        /\ m.seq \in Nat
    BY <1>0, Numbers DEF Data, TypeOK, ServerTypeOK
  <1>2. m.seq > expected /\ UNCHANGED <<written, expected>>
    BY DEF OutOfOrder
  <1>3. /\ m.seq \in 1 .. Len(File) /\ m.seq < expected + WindowSize
        /\ m.data = File[m.seq]
    BY <1>0, <1>1, <1>2, ArrivingChunk
  <1>4. WrittenToExpected' /\ OutputIntact'
    BY <1>0, <1>2 DEF WrittenToExpected, OutputIntact
  <1>5. CASE UNCHANGED squeue
    BY <1>0, <1>2, <1>4, <1>5 DEF OutputHeld, BufferedRight
  <1>6. CASE /\ IsNull(squeue, SlotOf(m.seq))
             /\ squeue' = add_element(squeue, SlotOf(m.seq), m.data)
    <2>1. SlotOf(m.seq) \in Slots /\ File[m.seq] \in Bytes
      BY <1>0, <1>1, <1>3, SlotOfType, TextChunk
    <2>2. squeue[SlotOf(m.seq)] = <<>>
      BY <1>0, <1>6, <2>1, SlotContents
    <2>3. /\ squeue'[SlotOf(m.seq)] = File[m.seq]
          /\ \A j \in Slots \ {SlotOf(m.seq)} : squeue'[j] = squeue[j]
      BY <1>1, <1>3, <1>6, <2>1, <2>2, EmptySlot
    <2>4. m.seq \in expected + 1 .. expected + WindowSize - 1
      BY <1>1, <1>2, <1>3
    <2>5. BufferedRight'
      BY <1>0, <1>2, <1>3, <2>3, <2>4 DEF BufferedRight
    <2> QED BY <1>4, <2>5 DEF OutputHeld
  <1> QED BY <1>5, <1>6 DEF OutOfOrder

\* All that the server does.
LEMMA ServerHolds ==
    ASSUME Kept, NextSeen, ServerNext
    PROVE  OutputHeld'
  <1>0. TypeOK /\ FileState /\ OutputHeld
    BY DEF Kept, Before, Inductive
  <1> USE DEF recvVars, serverVars
  <1>1. CASE UNCHANGED <<recvVars, fd>>
    BY <1>0, <1>1 DEF OutputHeld, BufferedRight, WrittenToExpected, OutputIntact
  <1>2. CASE FilenameOpens
    <2>1. fd = "none" /\ fd' \in {"open", "failed"} /\ UNCHANGED recvVars
      BY <1>0, <1>2 DEF FilenameOpens, FileState
    <2>2. expected = 1 /\ Len(written) = 0
      BY <1>0, <2>1 DEF OutputHeld, WrittenToExpected
    <2> QED BY <1>0, <2>1, <2>2
            DEF OutputHeld, BufferedRight, WrittenToExpected, OutputIntact
  <1>3. CASE GiveUp \/ CloseFile
    <2>1. (fd' = IF fd = "open" THEN "closed" ELSE fd) /\ UNCHANGED recvVars
      BY <1>3 DEF GiveUp, CloseFile, CloseFd
    <2> QED BY <1>0, <2>1
            DEF OutputHeld, BufferedRight, WrittenToExpected, OutputIntact
  <1>4. CASE ReceiveData
    <2>1. PICK m \in OnTheWay(toServer) :
            /\ DataArrives(m)
            /\ InOrder(m) \/ FillsGap(m) \/ Duplicate(m) \/ OutOfOrder(m)
      BY <1>4 DEF ReceiveData
    <2>2. m \in Data /\ sstate = "WAIT_DATA" /\ UNCHANGED fd
      BY <2>1 DEF DataArrives, Data
    <2>3. CASE Duplicate(m)
      BY <1>1, <2>2, <2>3 DEF Duplicate
    <2> QED BY <2>1, <2>2, <2>3, InOrderHolds, FillsGapHolds, OutOfOrderHolds
  <1> QED BY <1>1, <1>2, <1>3, <1>4
          DEF ServerNext, WaitData, FilenameOther, Reconnect, FnameAgain,
              ClientTerminated, IgnorePacket

\* send_data does not forget that it has run over its window.
LEMMA OverrunStays ==
    ASSUME overrun \in BOOLEAN, [Next]_vars, overrun
    PROVE  overrun'
  <1>1. CASE RcopyNext
    <2> USE <1>1 DEF windowVars
    <2>1. CASE SendChunk
      BY <2>1 DEF SendChunk
    <2>2. CASE UNCHANGED overrun
      BY <2>2
    <2> QED BY <2>1, <2>2
            DEF RcopyNext, RcopyTimeout, Filename, GetData, SendData,
                WindowStatus, FilenameFirst, FilenameGarbled, FilenameAgain,
                FilenameAnswered, FilenameTimeout, SendFname, GetNothing,
                GetUnknown, GetFnameRes, GetFopenErr, GetRR, GetSREJ, GetEoF,
                ReachEndOfFile, ReadError, WindowOpen, WindowAnswered,
                WindowGivesUp, WindowResends, WindowSendsEoF
  <1>2. CASE UNCHANGED overrun
    BY <1>2
  <1> QED BY <1>1, <1>2 DEF Next, vars, rcopyVars, windowVars

\* What has been written is right as long as the window is kept.
Writes == Before /\ (~overrun => OutputHeld)

LEMMA InitWrites == Init => Writes
  <1> SUFFICES ASSUME Init PROVE OutputHeld
    BY InitType, InitAck, InitInductive DEF Writes, Before
  <1>1. fd = "none" /\ expected = 1 /\ written = <<>> /\ squeue = init_queue
    BY DEF Init, ServerInit
  <1>2. DOMAIN written = {}
    BY <1>1
  <1> QED BY <1>1, <1>2 DEF OutputHeld, BufferedRight, WrittenToExpected,
                            OutputIntact, init_queue

LEMMA NextWrites ==
    ASSUME TextOnly, Writes, overrun \/ NextSeen, [Next]_vars
    PROVE  Writes'
  <1>1. Before' /\ Before
    BY NextInductive DEF Writes
  <1> SUFFICES ASSUME ~overrun' PROVE OutputHeld'
    BY <1>1 DEF Writes
  <1>2. ~overrun
    BY <1>1, OverrunStays DEF Before, TypeOK, ClientTypeOK
  <1>3. Kept /\ NextSeen
    BY <1>1, <1>2 DEF Kept, Writes
  <1>4. CASE ServerNext
    BY <1>3, <1>4, ServerHolds
  <1>5. CASE UNCHANGED serverVars
    BY <1>3, <1>5 DEF Kept, serverVars, recvVars, OutputHeld, BufferedRight,
                      WrittenToExpected, OutputIntact
  <1> QED BY <1>4, <1>5 DEF Next, vars

\* Whatever is lost, delayed or doubled: as long as send_data keeps to its
\* window and srej.total overlooks nothing, get_data and handle_srej of server.c
\* write every chunk of a text file as it is and where it belongs.
THEOREM SeenOutputIntact == TextOnly => (Spec => IntactWhileSeen)
  <1> SUFFICES ASSUME TextOnly PROVE Spec => IntactWhileSeen
    OBVIOUS
  <1>1. Init => Writes
    BY InitWrites
  <1>2. Writes /\ (overrun \/ NextSeen) /\ [Next]_vars => Writes'
    BY NextWrites
  <1>3. Writes => overrun \/ OutputIntact
    BY DEF Writes, OutputHeld
  <1> QED BY <1>1, <1>2, <1>3, PTL DEF Spec, IntactWhileSeen

(***************************************************************************)
(* An orderly network, packet by packet.                                   *)
(***************************************************************************)

\* One packet, sent: it waits behind the others, or it met a fate, or nobody
\* listens.
SentTo(socket, m, socketAfter) ==
    /\ SameEnds(socket, socketAfter)
    /\ \/ socketAfter.inbox = socket.inbox /\ (faults' > faults \/ ~socket.open)
       \/ socketAfter.inbox = Append(socket.inbox, m)
       \/ /\ faults' > faults
          /\ \E n \in Noise : socketAfter.inbox = Append(socket.inbox, n)

LEMMA TransmitSends ==
    ASSUME KeepsOrder, NEW socket \in Sockets, NEW m \in Messages,
           NEW socketAfter, faults \in 0 .. MaxFaults,
           Transmit(socket, <<m>>, socketAfter)
    PROVE  SentTo(socket, m, socketAfter) /\ faults' >= faults
  <1> DEFINE q == socket.inbox
  <1>0. q \in Seq(Messages) /\ faults \in Nat
    BY DEF Sockets
  <1>1. CASE ~socket.open /\ socketAfter = socket /\ UNCHANGED faults
    BY <1>0, <1>1 DEF SentTo, SameEnds
  <1>2. ASSUME NEW fate \in [{1} -> Fates \cup {"sent"}],
               faults' = faults + Cardinality(Hit(fate)),
               NEW order \in Increasing(Arriving(fate)),
               socketAfter = Fed(socket, <<m>>, fate, order)
        PROVE  SentTo(socket, m, socketAfter) /\ faults' >= faults
    <2> DEFINE new == [i \in DOMAIN order |-> Arrives(<<m>>[order[i]], fate[order[i]])]
    <2>1. fate[1] \in {"dropped", "flipped", "sent"} /\ DOMAIN fate = {1}
      BY DEF KeepsOrder
    <2>2. Delayed(fate) = {}
      BY <2>1 DEF Delayed
    <2>3. socketAfter.inbox = q \o new /\ SameEnds(socket, socketAfter)
      <3>1. socket.late \cup {<<m>>[k] : k \in Delayed(fate)} = socket.late
        BY <2>2
      <3> QED BY <1>2, <3>1 DEF Fed, Sockets, SameEnds
    <2>4. Cardinality({}) = 0 /\ Cardinality({1}) = 1
      BY FS_EmptySet, FS_Singleton
    <2>5. CASE fate[1] = "dropped"
      <3>1. Arriving(fate) = {} /\ Hit(fate) = {1}
        BY <2>1, <2>5 DEF Arriving, Hit
      <3>2. DOMAIN order = {}
        <4>1. order \in [1 .. 0 -> {}]
          BY <2>4, <3>1 DEF Increasing
        <4> QED BY <4>1
      <3>3. new = <<>>
        BY <3>2
      <3>4. q \o <<>> = q
        BY <1>0
      <3>5. faults' > faults /\ faults' >= faults
        BY <1>0, <1>2, <2>4, <3>1
      <3> QED BY <1>0, <2>3, <3>3, <3>4, <3>5 DEF SentTo
    <2>6. CASE fate[1] # "dropped"
      <3>1. Arriving(fate) = {1}
        BY <2>1, <2>6 DEF Arriving
      <3>2. order \in [1 .. 1 -> {1}]
        BY <2>4, <3>1 DEF Increasing
      <3> DEFINE n == Arrives(m, fate[1])
      <3>3. DOMAIN order = 1 .. 1 /\ \A i \in 1 .. 1 : i = 1 /\ order[i] = 1
        BY <3>2
      <3>4. <<m>>[1] = m
        OBVIOUS
      <3>5. \A i \in 1 .. 1 : Arrives(<<m>>[order[i]], fate[order[i]]) = n
        BY <3>3, <3>4
      <3>6. new = [i \in 1 .. 1 |-> n]
        BY <3>3, <3>5
      <3>7. [i \in 1 .. 1 |-> n] = <<n>>
        OBVIOUS
      <3>8. n \in Messages
        BY ArrivesType
      <3>9. socketAfter.inbox = Append(q, n)
        <4> HIDE DEF n, q
        <4>1. q \o <<n>> = Append(q, n)
          BY <1>0, <3>8
        <4> QED BY <2>3, <3>6, <3>7, <4>1
      <3>10. CASE fate[1] = "sent"
        <4>1. n = m
          BY <3>10 DEF Arrives
        <4>2. Hit(fate) = {}
          BY <2>1, <3>10 DEF Hit
        <4> QED BY <1>0, <1>2, <2>3, <2>4, <3>9, <4>1, <4>2 DEF SentTo
      <3>11. CASE fate[1] = "flipped"
        <4>1. n \in Noise
          <5>1. <<>> \in Seq(Nat) /\ m.from \in Nat
            BY EmptySeq DEF Messages
          <5> QED BY <3>11, <5>1
                  DEF Arrives, Garbled, Signal, Packet, Messages, Flags, Noise
        <4>2. Hit(fate) = {1}
          BY <2>1, <3>11 DEF Hit
        <4>3. faults' > faults /\ faults' >= faults
          BY <1>0, <1>2, <2>4, <4>2
        <4> HIDE DEF n, q
        <4> QED BY <1>0, <2>3, <3>9, <4>1, <4>3 DEF SentTo, q
      <3> QED BY <2>1, <2>6, <3>10, <3>11
    <2> QED BY <2>5, <2>6
  <1>3. DOMAIN <<m>> = {1}
    <2>1. 1 .. 1 = {1}
      OBVIOUS
    <2> QED BY <2>1
  <1> QED BY <1>1, <1>2, <1>3 DEF Transmit

\* Two messages that after has behind before are of different packets of sent.
Apart(before, after, sent) ==
    \A i, j \in Len(before) + 1 .. Len(after) :
        \E k, l \in DOMAIN sent :
          /\ after[i] \in {sent[k]} \cup Noise
          /\ after[j] \in {sent[l]} \cup Noise
          /\ i # j => k # l

\* Of several packets no two that arrive are the same one.
LEMMA TransmitApart ==
    ASSUME KeepsOrder, NEW socket \in Sockets, NEW S \in SUBSET Int, IsFiniteSet(S),
           NEW ms \in [S -> Messages], NEW socketAfter,
           faults \in 0 .. MaxFaults,
           Transmit(socket, ms, socketAfter)
    PROVE  Apart(socket.inbox, socketAfter.inbox, ms)
  <1> DEFINE q == socket.inbox
  <1>0. q \in Seq(Messages) /\ Len(q) \in Nat /\ DOMAIN ms = S
    BY LenProperties DEF Sockets
  <1>1. CASE socketAfter = socket
    BY <1>0, <1>1 DEF Apart
  <1>2. ASSUME NEW fate \in [S -> Fates \cup {"sent"}],
               NEW order \in Increasing(Arriving(fate)),
               socketAfter = Fed(socket, ms, fate, order)
        PROVE  Apart(q, socketAfter.inbox, ms)
    <2> SUFFICES ASSUME NEW i \in Len(q) + 1 .. Len(socketAfter.inbox),
                        NEW j \in Len(q) + 1 .. Len(socketAfter.inbox)
                 PROVE  \E k, l \in DOMAIN ms :
                          /\ socketAfter.inbox[i] \in {ms[k]} \cup Noise
                          /\ socketAfter.inbox[j] \in {ms[l]} \cup Noise
                          /\ i # j => k # l
      BY DEF Apart
    <2> DEFINE n   == Cardinality(Arriving(fate))
               new == [x \in DOMAIN order |-> Arrives(ms[order[x]], fate[order[x]])]
    <2>1. Arriving(fate) \subseteq S
      BY DEF Arriving
    <2>2. n \in Nat
      BY <2>1, FS_Subset, FS_CardinalityType
    <2>3. /\ order \in [1 .. n -> S]
          /\ \A x, y \in 1 .. n : x < y => order[x] < order[y]
      BY <2>1 DEF Increasing
    <2> HIDE DEF n
    <2>4. new \in [1 .. n -> Messages]
      BY <2>3, ArrivesType
    <2>5. new \in Seq(Messages) /\ Len(new) = n
      <3> HIDE DEF new
      <3> QED BY <2>2, <2>4, SeqDef, LenProperties
    <2>6. socketAfter.inbox = q \o new
      BY <1>2 DEF Fed, Sockets
    <2>7. /\ Len(q \o new) = Len(q) + n
          /\ \A x \in Len(q) + 1 .. Len(q) + n : (q \o new)[x] = new[x - Len(q)]
      <3> HIDE DEF new, q
      <3>1. /\ Len(q \o new) = Len(q) + n
            /\ \A x \in 1 .. Len(q) + n :
                 (q \o new)[x] = IF x <= Len(q) THEN q[x] ELSE new[x - Len(q)]
        BY <1>0, <2>5, ConcatProperties
      <3> QED BY <1>0, <2>2, <3>1
    <2> DEFINE x == i - Len(q)
               y == j - Len(q)
    <2>8. /\ x \in 1 .. n /\ y \in 1 .. n /\ (i # j => x # y)
          /\ socketAfter.inbox[i] = new[x] /\ socketAfter.inbox[j] = new[y]
      <3>1. i \in Len(q) + 1 .. Len(q) + n /\ j \in Len(q) + 1 .. Len(q) + n
        BY <2>6, <2>7
      <3>2. x \in 1 .. n /\ y \in 1 .. n /\ (i # j => x # y)
        BY <1>0, <2>2, <3>1
      <3> QED BY <2>6, <2>7, <3>1, <3>2
    <2> HIDE DEF x, y
    <2>9. order[x] \in S /\ order[y] \in S /\ (i # j => order[x] # order[y])
      <3>1. order[x] \in S /\ order[y] \in S
        BY <2>3, <2>8
      <3>2. x # y => order[x] # order[y]
        <4>1. x < y \/ y < x \/ x = y
          BY <2>2, <2>8
        <4>2. order[x] \in Int /\ order[y] \in Int
          BY <3>1
        <4> QED BY <2>3, <2>8, <4>1, <4>2
      <3> QED BY <2>8, <3>1, <3>2
    <2>10. /\ new[x] \in {ms[order[x]]} \cup Noise
           /\ new[y] \in {ms[order[y]]} \cup Noise
      BY <2>3, <2>8, <2>9, ArrivesType
    <2> HIDE DEF new
    <2> QED BY <1>0, <2>8, <2>9, <2>10
  <1>3. (socketAfter = socket) \/
          \E fate \in [S -> Fates \cup {"sent"}] :
            \E order \in Increasing(Arriving(fate)) :
              socketAfter = Fed(socket, ms, fate, order)
    BY <1>0 DEF Transmit
  <1> QED BY <1>1, <1>2, <1>3

(***************************************************************************)
(* No chunk is asked for twice.                                            *)
(***************************************************************************)

\* The server adds to the client's socket nothing with this flag.
AddsNo(flag) ==
    /\ toClient'.late = toClient.late
    /\ Longer(toClient.inbox, toClient'.inbox, {n \in Messages : n.flag # flag})

\* The flags that a program writes into a packet.
Meant == Flags \ {"CRC_ERROR"}

\* The table of SREJs keeps what is still missing.
TableStays ==
    /\ expected' \in Nat /\ expected' >= expected
    /\ \A seq \in Nat : seq >= expected' /\ seq < expected + WindowSize =>
         rejects'[SlotOf(seq)] = rejects[SlotOf(seq)]

\* One packet with another flag.
LEMMA SendsOther ==
    ASSUME KeepsOrder, TypeOK, toServer' \in Sockets, NEW flag \in Meant,
           NEW p \in Messages, p.flag # flag, SendToClient(p)
    PROVE  AddsNo(flag)
  <1> DEFINE m == FromServer(p)
             q == toClient.inbox
             S == {n \in Messages : n.flag # flag}
  <1>1. m \in S
    BY FromServerType
  <1>2. toClient \in Sockets /\ faults \in 0 .. MaxFaults
    BY DEF TypeOK, NetworkTypeOK
  <1>3. SentTo(toClient, m, toClient')
    <2>1. Transmit(toClient, <<m>>, toClient')
      BY DEF SendToClient
    <2> HIDE DEF m
    <2> QED BY <1>1, <1>2, <2>1, TransmitSends
  <1>4. Noise \subseteq S
    BY DEF Noise, Meant
  <1>5. toClient'.inbox = q \/ \E n \in S : toClient'.inbox = Append(q, n)
    BY <1>1, <1>3, <1>4 DEF SentTo
  <1>6. q \in Seq(Messages) /\ Len(q) \in Nat
    BY <1>2, InboxType
  <1>7. toClient'.late = toClient.late
    BY <1>3 DEF SentTo, SameEnds
  <1> HIDE DEF q, m, S
  <1>8. ASSUME NEW n \in S PROVE Longer(q, Append(q, n), S)
    <2>1. Len(Append(q, n)) = Len(q) + 1
      BY <1>6, <1>8, AppendProperties DEF S
    <2>2. \A i \in 1 .. Len(q) : Append(q, n)[i] = q[i]
      BY <1>6, <1>8, AppendProperties DEF S
    <2>3. Append(q, n)[Len(q) + 1] = n
      BY <1>6, <1>8, AppendProperties DEF S
    <2> QED BY <1>6, <2>1, <2>2, <2>3 DEF Longer
  <1>9. Longer(q, q, S)
    BY <1>6 DEF Longer
  <1> QED BY <1>5, <1>7, <1>8, <1>9 DEF AddsNo, q, S

\* Nothing sent.
LEMMA SendsNothing ==
    ASSUME TypeOK, NEW flag, UNCHANGED toClient
    PROVE  AddsNo(flag)
  <1>1. Len(toClient.inbox) \in Nat
    BY InboxType DEF TypeOK, NetworkTypeOK
  <1> QED BY <1>1 DEF AddsNo, Longer

\* The slots that handle_srej clears are those of the chunks it takes.
LEMMA FillsGapTable ==
    ASSUME TypeOK, expected' \in Nat, NEW m, FillsGap(m)
    PROVE  TableStays
  <1> DEFINE next  == expected + 1
             n     == RunLength(next)
             slots == {SlotOf(next + j - 1) : j \in 1 .. n}
  <1>1. /\ expected \in Nat \ {0} /\ WindowSize \in Nat \ {0}
        /\ squeue \in [Slots -> Bytes]
    BY Numbers DEF TypeOK, ServerTypeOK
  <1>2. n \in Nat
    <2>1. expected + 1 \in Int
      BY <1>1
    <2> QED BY <1>1, <2>1, RunLengthType
  <1>3. /\ expected' = next + n
        /\ rejects' = [i \in Slots |->
             IF i \in slots \cup {SlotOf(expected)} THEN 0 ELSE rejects[i]]
    BY DEF FillsGap, Handled
  <1> HIDE DEF n
  <1>4. ASSUME NEW seq \in Nat, seq >= expected', seq < expected + WindowSize
        PROVE  rejects'[SlotOf(seq)] = rejects[SlotOf(seq)]
    <2>1. SlotOf(seq) \in Slots
      BY SlotOfType
    <2>2. ASSUME NEW k \in Int, k >= expected, k <= expected + n,
                 SlotOf(k) = SlotOf(seq)
          PROVE  FALSE
      <3>1. k < seq /\ seq - k < WindowSize /\ k - seq < WindowSize
        BY <1>1, <1>2, <1>3, <1>4, <2>2
      <3> QED BY <2>2, <3>1, SlotOfInjective
    <2>3. SlotOf(seq) # SlotOf(expected)
      BY <1>1, <1>2, <2>2
    <2>4. SlotOf(seq) \notin slots
      <3>1. ASSUME NEW j \in 1 .. n PROVE SlotOf(next + j - 1) # SlotOf(seq)
        <4>1. /\ next + j - 1 \in Int /\ next + j - 1 >= expected
              /\ next + j - 1 <= expected + n
          BY <1>1, <1>2
        <4> QED BY <2>2, <4>1
      <3> QED BY <3>1
    <2> QED BY <1>3, <2>1, <2>3, <2>4
  <1>5. expected' >= expected
    BY <1>1, <1>2, <1>3
  <1> QED BY <1>4, <1>5 DEF TableStays

\* Every step of the server, but for a packet ahead of the one expected that
\* finds its slot empty, adds no SREJ and keeps the table.
LEMMA ServerTable ==
    ASSUME KeepsOrder, TypeOK, ServerNext
    PROVE  \/ AddsNo("SREJ") /\ TableStays
           \/ \E m \in Data : OutOfOrder(m) /\ IsNull(squeue, SlotOf(m.seq))
  <1>0. /\ toServer' \in Sockets /\ expected' \in Nat /\ expected \in Nat
        /\ expected + 1 \in Nat
    BY ServerNextType, Numbers DEF ServerTypeOK, NetworkTypeOK
  <1> USE DEF recvVars, serverVars
  <1>1. UNCHANGED <<expected, rejects>> => TableStays
    BY <1>0 DEF TableStays
  <1>2. ASSUME NEW flag \in Flags \ {"SREJ"}, SendToClient(Signal(flag))
        PROVE  AddsNo("SREJ")
    <2>1. Signal(flag) \in Messages /\ Signal(flag).flag = flag
      BY PacketType DEF Signal, Packet
    <2> QED BY <1>0, <1>2, <2>1, SendsOther DEF Meant, Flags
  <1>3. ASSUME NEW e \in Nat, AcknowledgeUpTo(e) PROVE AddsNo("SREJ")
    <2>1. Packet("RR", e, <<>>) \in Messages /\ Packet("RR", e, <<>>).flag = "RR"
      BY EmptySeq, PacketType DEF Flags, Bytes, Packet
    <2> QED BY <1>0, <1>3, <2>1, SendsOther DEF AcknowledgeUpTo, Meant, Flags
  <1>4. CASE FilenameOpens
    <2>1. PICK ok \in Opens : SendToClient(Signal(OpenAnswer(ok)))
      BY <1>4 DEF FilenameOpens
    <2>2. OpenAnswer(ok) \in Flags \ {"SREJ"}
      BY DEF OpenAnswer, Flags
    <2> QED BY <1>1, <1>2, <1>4, <2>1, <2>2 DEF FilenameOpens
  <1>5. CASE Reconnect \/ FnameAgain \/ CloseFile
    <2>1. {"SETUP_RES", "FNAME_RES", "EoF"} \subseteq Flags \ {"SREJ"}
      BY DEF Flags
    <2> QED BY <1>1, <1>2, <1>5, <2>1 DEF Reconnect, FnameAgain, CloseFile
  <1>6. CASE FilenameOther \/ GiveUp \/ ClientTerminated \/ IgnorePacket
    BY <1>1, <1>6, SendsNothing
       DEF FilenameOther, GiveUp, ClientTerminated, IgnorePacket
  <1>7. CASE ReceiveData
    <2>1. PICK m \in OnTheWay(toServer) :
            /\ DataArrives(m)
            /\ InOrder(m) \/ FillsGap(m) \/ Duplicate(m) \/ OutOfOrder(m)
      BY <1>7 DEF ReceiveData
    <2>2. m \in Data
      BY <2>1 DEF DataArrives, Data
    <2>3. CASE InOrder(m)
      <3>1. AddsNo("SREJ")
        BY <1>0, <1>3, <2>3 DEF InOrder
      <3>2. expected' = expected + 1 /\ rejects' = rejects
        BY <2>3 DEF InOrder
      <3> QED BY <1>0, <3>1, <3>2 DEF TableStays
    <2>4. CASE FillsGap(m)
      <3>1. AcknowledgeUpTo(expected')
        BY <2>4 DEF FillsGap
      <3> QED BY <1>0, <1>3, <2>4, <3>1, FillsGapTable
    <2>5. CASE Duplicate(m)
      BY <1>0, <1>1, <1>3, <2>5 DEF Duplicate
    <2>6. CASE OutOfOrder(m)
      BY <1>1, <2>2, <2>6, SendsNothing DEF OutOfOrder
    <2> QED BY <2>1, <2>3, <2>4, <2>5, <2>6
  <1> QED BY <1>4, <1>5, <1>6, <1>7 DEF ServerNext, WaitData

\* Each SREJ that waits is recorded and waits alone.
Recorded == SrejRecorded /\ SrejOnce

\* Nothing more is asked, and the table keeps what matters: what waits is what
\* waited, or what waited but for the first.
LEMMA RecordedStays ==
    ASSUME Before, Recorded, TableStays, NEW d \in {0, 1},
           \A i \in DOMAIN toClient'.inbox :
             toClient'.inbox[i].flag = "SREJ" =>
               /\ i \in Int /\ i + d \in DOMAIN toClient.inbox
               /\ toClient'.inbox[i] = toClient.inbox[i + d]
    PROVE  overrun \/ Recorded'
  <1> SUFFICES ASSUME ~overrun PROVE Recorded'
    OBVIOUS
  <1> DEFINE q == toClient.inbox
             r == toClient'.inbox
  <1>1. /\ toClient \in Sockets /\ expected \in Nat
        /\ \A n \in OnTheWay(toClient) :
             n.flag = "SREJ" => n.seq < expected + WindowSize
    BY Numbers DEF Before, Inductive, ReadWithinWindow, TypeOK, NetworkTypeOK
  <1>2. \A i \in DOMAIN q : q[i] \in OnTheWay(toClient) /\ q[i].seq \in Nat
    <2>1. \A i \in DOMAIN q : q[i] \in OnTheWay(toClient)
      BY DEF OnTheWay
    <2>2. \A n \in OnTheWay(toClient) : n.seq \in Nat
      BY <1>1, OnTheWayType DEF Messages
    <2> QED BY <2>1, <2>2
  <1>3. /\ \A i \in DOMAIN q : q[i].flag = "SREJ" /\ q[i].seq >= expected =>
             rejects[SlotOf(q[i].seq)] = q[i].seq
        /\ \A i, j \in DOMAIN q : q[i].flag = "SREJ" /\ q[i] = q[j] => i = j
    BY DEF Recorded, SrejRecorded, SrejOnce
  <1>4. \A i \in DOMAIN r : r[i].flag = "SREJ" =>
          i \in Int /\ i + d \in DOMAIN q /\ r[i] = q[i + d]
    OBVIOUS
  <1>5. /\ expected' \in Nat /\ expected' >= expected
        /\ \A seq \in Nat : seq >= expected' /\ seq < expected + WindowSize =>
             rejects'[SlotOf(seq)] = rejects[SlotOf(seq)]
    BY DEF TableStays
  <1> HIDE DEF q, r
  <1>6. ASSUME NEW i \in DOMAIN r, r[i].flag = "SREJ", r[i].seq >= expected'
        PROVE  rejects'[SlotOf(r[i].seq)] = r[i].seq
    <2>1. i + d \in DOMAIN q /\ r[i] = q[i + d]
      BY <1>4, <1>6
    <2> DEFINE seq == r[i].seq
    <2>2. seq \in Nat /\ seq < expected + WindowSize
      BY <1>1, <1>2, <1>6, <2>1
    <2>3. rejects[SlotOf(seq)] = seq
      <3>1. seq >= expected
        BY <1>1, <1>5, <1>6, <2>2
      <3> QED BY <1>3, <1>6, <2>1, <3>1
    <2> HIDE DEF seq
    <2>4. rejects'[SlotOf(seq)] = rejects[SlotOf(seq)]
      BY <1>5, <1>6, <2>2 DEF seq
    <2> QED BY <2>3, <2>4 DEF seq
  <1>7. ASSUME NEW i \in DOMAIN r, NEW j \in DOMAIN r,
               r[i].flag = "SREJ", r[i] = r[j]
        PROVE  i = j
    <2>1. /\ i \in Int /\ i + d \in DOMAIN q /\ r[i] = q[i + d]
          /\ j \in Int /\ j + d \in DOMAIN q /\ r[j] = q[j + d]
      BY <1>4, <1>7
    <2>2. i + d = j + d
      BY <1>3, <1>7, <2>1
    <2>3. d \in Int
      OBVIOUS
    <2> QED BY <2>1, <2>2, <2>3
  <1>8. SrejRecorded'
    BY <1>6 DEF SrejRecorded, r
  <1>9. SrejOnce'
    BY <1>7 DEF SrejOnce, r
  <1> QED BY <1>8, <1>9 DEF Recorded

\* The client takes packets from the front of its socket, or all of them.
LEMMA ClientTakes ==
    ASSUME toClient \in Sockets, TakesFront
    PROVE  \E d \in {0, 1} :
             \A i \in DOMAIN toClient'.inbox :
               /\ i \in Int /\ i + d \in DOMAIN toClient.inbox
               /\ toClient'.inbox[i] = toClient.inbox[i + d]
  <1> DEFINE q == toClient.inbox
             r == toClient'.inbox
  <1>1. Len(q) \in Nat /\ DOMAIN q = 1 .. Len(q)
    BY InboxType
  <1>2. CASE r = q
    <2> HIDE DEF q
    <2>1. \A i \in DOMAIN r : i \in Int /\ i + 0 \in DOMAIN q /\ r[i] = q[i + 0]
      BY <1>1, <1>2
    <2> QED BY <2>1 DEF q
  <1>3. CASE Readable(toClient) /\ toClient' = Received(toClient)
    <2>1. /\ DOMAIN r = 1 .. Len(q) - 1
          /\ \A i \in 1 .. Len(q) - 1 : r[i] = q[i + 1]
      BY <1>3, ReceivedInOrder
    <2> HIDE DEF q, r
    <2>2. \A i \in DOMAIN r : i \in Int /\ i + 1 \in DOMAIN q /\ r[i] = q[i + 1]
      BY <1>1, <2>1
    <2> QED BY <2>2 DEF q, r
  <1>4. CASE toClient' = ClosedSocket
    <2>1. DOMAIN r = {}
      BY <1>4 DEF ClosedSocket, EmptySocket
    <2> QED BY <2>1
  <1> QED BY <1>2, <1>3, <1>4 DEF TakesFront

\* What get_data asks for is what it then has in its table: everything missing
\* is less than a window ahead, so every chunk has an entry of its own.
LEMMA AsksMissing ==
    ASSUME Before, ~overrun, NEW m \in Data,
           OutOfOrder(m), IsNull(squeue, SlotOf(m.seq))
    PROVE  \E missing \in SUBSET Int :
             /\ IsFiniteSet(missing)
             /\ \A k \in missing : /\ k >= expected /\ k < expected + WindowSize
                                   /\ rejects[SlotOf(k)] # k
                                   /\ rejects'[SlotOf(k)] = k
             /\ \A k \in Int :
                  /\ k >= expected /\ k < expected + WindowSize /\ k \notin missing
                  => rejects'[SlotOf(k)] = rejects[SlotOf(k)]
             /\ Transmit(toClient,
                         [k \in missing |-> FromServer(Packet("SREJ", k, <<>>))],
                         toClient')
  <1> DEFINE queue   == add_element(squeue, SlotOf(m.seq), m.data)
             missing == Missing(queue, m.seq)
             of(i)   == {k \in missing : SlotOf(k) = i}
  <1>1. /\ expected \in Nat \ {0} /\ WindowSize \in Nat \ {0}
        /\ m.seq \in Nat /\ m.seq > expected /\ m.seq < expected + WindowSize
    <2>1. m \in Messages
      BY OnTheWayType DEF Before, TypeOK, NetworkTypeOK, Data
    <2> QED BY <2>1, Numbers
            DEF Before, TypeOK, Inductive, InReceiverWindow, Messages, OutOfOrder
  <1>2. /\ rejects' = [i \in Slots |->
             IF of(i) = {} THEN rejects[i]
             ELSE CHOOSE k \in of(i) : \A l \in of(i) : l <= k]
        /\ Transmit(toClient,
                    [k \in missing |-> FromServer(Packet("SREJ", k, <<>>))],
                    toClient')
    BY DEF OutOfOrder
  <1>3. missing \subseteq expected .. m.seq - 1 /\ IsFiniteSet(missing)
    <2> HIDE DEF queue
    <2> QED BY <1>1, MissingType
  <1>4. ASSUME NEW k \in missing
        PROVE  /\ k \in Int /\ k >= expected /\ k < expected + WindowSize
               /\ rejects[SlotOf(k)] # k
    <2>1. k \in Int /\ k >= expected /\ k < expected + WindowSize
      <3> HIDE DEF missing
      <3> QED BY <1>1, <1>3, <1>4
    <2>2. rejects[SlotOf(k)] # k \/ k - WindowSize >= expected
      <3> HIDE DEF queue
      <3> QED BY DEF Missing
    <2> HIDE DEF missing
    <2> QED BY <1>1, <2>1, <2>2
  <1> HIDE DEF missing
  <1>5. ASSUME NEW k \in Int, k >= expected, k < expected + WindowSize
        PROVE  /\ SlotOf(k) \in Slots
               /\ of(SlotOf(k)) = IF k \in missing THEN {k} ELSE {}
    <2>1. ASSUME NEW l \in missing, SlotOf(l) = SlotOf(k) PROVE l = k
      <3>1. l \in Int /\ l >= expected /\ l < expected + WindowSize
        BY <1>4
      <3>2. k - l < WindowSize /\ l - k < WindowSize
        BY <1>1, <1>5, <3>1
      <3> QED BY <2>1, <3>1, <3>2, SlotOfInjective
    <2> QED BY <1>5, <2>1, SlotOfType
  <1>6. ASSUME NEW k \in missing PROVE rejects'[SlotOf(k)] = k
    <2>1. k \in Int /\ SlotOf(k) \in Slots /\ of(SlotOf(k)) = {k}
      BY <1>4, <1>5
    <2> HIDE DEF of
    <2>2. rejects'[SlotOf(k)] = CHOOSE l \in {k} : \A n \in {k} : n <= l
      BY <1>2, <2>1
    <2>3. PICK l \in {k} : \A n \in {k} : n <= l
      BY <2>1
    <2> QED BY <2>2, <2>3
  <1>7. ASSUME NEW k \in Int, k >= expected, k < expected + WindowSize,
               k \notin missing
        PROVE  rejects'[SlotOf(k)] = rejects[SlotOf(k)]
    <2>1. SlotOf(k) \in Slots /\ of(SlotOf(k)) = {}
      BY <1>5, <1>7
    <2> HIDE DEF of
    <2> QED BY <1>2, <2>1
  <1>8. missing \in SUBSET Int
    BY <1>4
  <1> QED BY <1>2, <1>3, <1>4, <1>6, <1>7, <1>8

\* Asking records what is asked for, and asks for nothing that is recorded.
LEMMA AsksOnce ==
    ASSUME KeepsOrder, Before, Recorded, ~overrun,
           toClient' \in Sockets, toServer' \in Sockets,
           NEW m \in Data, OutOfOrder(m), IsNull(squeue, SlotOf(m.seq))
    PROVE  Recorded'
  <1> DEFINE q == toClient.inbox
             r == toClient'.inbox
             srej(k) == FromServer(Packet("SREJ", k, <<>>))
  <1>0. /\ toClient \in Sockets /\ faults \in 0 .. MaxFaults /\ TypeOK
        /\ expected \in Nat \ {0} /\ expected' = expected
    BY Numbers DEF Before, TypeOK, NetworkTypeOK, OutOfOrder
  <1> DEFINE ms(S) == [k \in S |-> srej(k)]
  <1> HIDE DEF srej
  <1>1. PICK missing \in SUBSET Int :
             /\ IsFiniteSet(missing)
             /\ \A k \in missing : /\ k >= expected /\ k < expected + WindowSize
                                   /\ rejects[SlotOf(k)] # k
                                   /\ rejects'[SlotOf(k)] = k
             /\ \A k \in Int :
                  /\ k >= expected /\ k < expected + WindowSize /\ k \notin missing
                  => rejects'[SlotOf(k)] = rejects[SlotOf(k)]
             /\ Transmit(toClient, ms(missing), toClient')
    BY AsksMissing DEF srej
  <1> HIDE DEF ms
  <1>2. /\ Len(q) \in Nat /\ DOMAIN q = 1 .. Len(q)
        /\ Len(r) \in Nat /\ DOMAIN r = 1 .. Len(r)
        /\ \A i \in DOMAIN q : q[i].seq \in Nat
        /\ \A i \in DOMAIN q : q[i].flag = "SREJ" => q[i].seq < expected + WindowSize
    <2>1. /\ Len(q) \in Nat /\ DOMAIN q = 1 .. Len(q)
          /\ \A i \in DOMAIN q : q[i] \in Messages
      BY <1>0, InboxType
    <2>2. Len(r) \in Nat /\ DOMAIN r = 1 .. Len(r)
      BY InboxType
    <2>3. \A i \in DOMAIN q : q[i].flag = "SREJ" => q[i].seq < expected + WindowSize
      BY DEF Before, Inductive, ReadWithinWindow, OnTheWay
    <2> QED BY <2>1, <2>2, <2>3 DEF Messages
  <1>3. /\ \A i \in DOMAIN q : q[i].flag = "SREJ" /\ q[i].seq >= expected =>
             rejects[SlotOf(q[i].seq)] = q[i].seq
        /\ \A i, j \in DOMAIN q : q[i].flag = "SREJ" /\ q[i] = q[j] => i = j
    BY DEF Recorded, SrejRecorded, SrejOnce
  <1>4. ASSUME NEW k \in missing
        PROVE  srej(k) \in Messages /\ srej(k).seq = k
    <2>1. Packet("SREJ", k, <<>>) \in Messages
      <3>1. k \in Nat
        <4>1. k \in Int /\ k >= expected
          BY <1>1
        <4> QED BY <1>0, <4>1
      <3> QED BY <3>1, EmptySeq, PacketType DEF Flags, Bytes
    <2>2. srej(k) \in Messages
      BY <2>1, FromServerType DEF srej
    <2>3. srej(k).seq = k
      BY DEF srej, FromServer, Packet
    <2> QED BY <2>2, <2>3
  <1>5. PICK sent \in [missing -> Messages] :
          /\ \A k \in missing : sent[k].seq = k
          /\ Transmit(toClient, sent, toClient')
    <2>1. ms(missing) \in [missing -> Messages]
      BY <1>4 DEF ms
    <2>2. \A k \in missing : ms(missing)[k].seq = k
      BY <1>4 DEF ms
    <2> QED BY <1>1, <2>1, <2>2
  <1>6. /\ IsFiniteSet(missing) /\ Transmit(toClient, sent, toClient')
        /\ toClient \in Sockets /\ faults \in 0 .. MaxFaults
        /\ missing \in SUBSET Int /\ sent \in [missing -> Messages]
    BY <1>0, <1>1, <1>5
  <1>7. \A i \in DOMAIN q : i <= Len(r) /\ r[i] = q[i]
    <2>1. Longer(q, r, Heard({sent[k] : k \in missing}))
      BY <1>6, TransmitInOrder
    <2> HIDE DEF q, r
    <2> QED BY <1>2, <2>1 DEF Longer
  <1>8. ASSUME NEW i \in Len(q) + 1 .. Len(r), NEW j \in Len(q) + 1 .. Len(r)
        PROVE  \E k, l \in missing :
                 /\ r[i] \in {sent[k]} \cup Noise
                 /\ r[j] \in {sent[l]} \cup Noise
                 /\ i # j => k # l
    <2>1. Apart(q, r, sent)
      BY <1>6, TransmitApart
    <2> HIDE DEF q, r
    <2> QED BY <1>6, <2>1 DEF Apart
  <1> HIDE DEF q, r
  <1>9. \A i \in DOMAIN r : i \in DOMAIN q \/ i \in Len(q) + 1 .. Len(r)
    BY <1>2
  <1>10. \A n \in Noise : n.flag # "SREJ"
    BY DEF Noise
  <1>11. ASSUME NEW i \in Len(q) + 1 .. Len(r), r[i].flag = "SREJ"
         PROVE  r[i].seq \in missing
    <2>1. PICK k \in missing : r[i] \in {sent[k]} \cup Noise
      BY <1>8
    <2> QED BY <1>5, <1>10, <1>11, <2>1
  <1>12. ASSUME NEW i \in DOMAIN q, q[i].flag = "SREJ", q[i].seq \in missing
         PROVE  FALSE
    BY <1>0, <1>1, <1>3, <1>12
  <1>13. ASSUME NEW i \in DOMAIN r, r[i].flag = "SREJ", r[i].seq >= expected
         PROVE  rejects'[SlotOf(r[i].seq)] = r[i].seq
    <2>1. CASE i \in DOMAIN q
      <3>1. r[i] = q[i] /\ q[i].seq \in Nat /\ q[i].seq < expected + WindowSize
        BY <1>2, <1>7, <1>13, <2>1
      <3>2. q[i].seq \notin missing
        BY <1>12, <1>13, <2>1, <3>1
      <3>3. rejects'[SlotOf(q[i].seq)] = rejects[SlotOf(q[i].seq)]
        BY <1>1, <1>13, <3>1, <3>2
      <3> QED BY <1>3, <1>13, <2>1, <3>1, <3>3
    <2>2. CASE i \in Len(q) + 1 .. Len(r)
      BY <1>1, <1>11, <1>13, <2>2
    <2> QED BY <1>9, <2>1, <2>2
  <1>14. ASSUME NEW i \in DOMAIN r, NEW j \in DOMAIN r,
                r[i].flag = "SREJ", r[i] = r[j]
         PROVE  i = j
    <2>1. CASE i \in DOMAIN q /\ j \in DOMAIN q
      BY <1>3, <1>7, <1>14, <2>1
    <2>2. CASE i \in DOMAIN q /\ j \in Len(q) + 1 .. Len(r)
      BY <1>7, <1>11, <1>12, <1>14, <2>2
    <2>3. CASE i \in Len(q) + 1 .. Len(r) /\ j \in DOMAIN q
      BY <1>7, <1>11, <1>12, <1>14, <2>3
    <2>4. CASE i \in Len(q) + 1 .. Len(r) /\ j \in Len(q) + 1 .. Len(r)
      <3> SUFFICES ASSUME i # j PROVE FALSE
        OBVIOUS
      <3>1. PICK k \in missing, l \in missing :
              /\ r[i] \in {sent[k]} \cup Noise
              /\ r[j] \in {sent[l]} \cup Noise
              /\ k # l
        BY <1>8, <2>4
      <3> QED BY <1>5, <1>10, <1>14, <3>1
    <2> QED BY <1>9, <2>1, <2>2, <2>3, <2>4
  <1>15. SrejRecorded'
    BY <1>0, <1>13 DEF SrejRecorded, r
  <1>16. SrejOnce'
    BY <1>14 DEF SrejOnce, r
  <1> QED BY <1>15, <1>16 DEF Recorded

\* What holds before a step.
Asking == Before /\ RRsInOrder /\ Recorded

LEMMA InitAsking ==
    ASSUME KeepsOrder
    PROVE  Init => Asking
  <1> SUFFICES ASSUME Init PROVE Asking
    OBVIOUS
  <1>1. Before /\ RRsInOrder
    BY InitType, InitAck, InitInductive, InitInOrder DEF Before
  <1>2. \A i \in DOMAIN toClient.inbox : toClient.inbox[i].flag # "SREJ"
    BY SetupAnswersType DEF Init, OnTheWay
  <1> QED BY <1>1, <1>2 DEF Asking, Recorded, SrejRecorded, SrejOnce

LEMMA NextAsking ==
    ASSUME KeepsOrder, Asking, [Next]_vars
    PROVE  Asking'
  <1>1. /\ Before /\ Before' /\ RRsInOrder /\ RRsInOrder' /\ Recorded
        /\ TypeOK /\ toClient \in Sockets
        /\ toClient' \in Sockets /\ toServer' \in Sockets
        /\ expected \in Nat
    BY NextInductive, NextInOrder, Numbers
       DEF Asking, Orderly, Before, TypeOK, NetworkTypeOK
  <1> SUFFICES Recorded'
    BY <1>1 DEF Asking
  <1>2. CASE overrun
    <2>1. overrun'
      BY <1>1, <1>2, OverrunStays DEF TypeOK, ClientTypeOK
    <2> QED BY <2>1 DEF Recorded, SrejRecorded, SrejOnce
  <1>3. ASSUME ~overrun, UNCHANGED <<expected, rejects>>,
               NEW d \in {0, 1},
               \A i \in DOMAIN toClient'.inbox :
                 /\ i \in Int /\ i + d \in DOMAIN toClient.inbox
                 /\ toClient'.inbox[i] = toClient.inbox[i + d]
        PROVE  Recorded'
    <2>1. TableStays
      BY <1>1, <1>3 DEF TableStays
    <2> QED BY <1>1, <1>3, <2>1, RecordedStays
  <1>4. CASE ~overrun /\ RcopyNext /\ UNCHANGED serverVars
    <2>1. TakesFront /\ UNCHANGED <<expected, rejects>>
      BY <1>1, <1>4, RcopyNextFront DEF serverVars, recvVars
    <2> QED BY <1>1, <1>3, <1>4, <2>1, ClientTakes
  <1>5. CASE ~overrun /\ ServerNext
    <2>1. CASE AddsNo("SREJ") /\ TableStays
      <3> DEFINE q == toClient.inbox
                 r == toClient'.inbox
      <3>1. /\ \A i \in 1 .. Len(q) : r[i] = q[i]
            /\ \A i \in Len(q) + 1 .. Len(r) : r[i].flag # "SREJ"
        BY <2>1 DEF AddsNo, Longer
      <3>2. /\ Len(q) \in Nat /\ DOMAIN q = 1 .. Len(q)
            /\ Len(r) \in Nat /\ DOMAIN r = 1 .. Len(r)
        BY <1>1, InboxType
      <3> HIDE DEF q, r
      <3>3. \A i \in DOMAIN r : r[i].flag = "SREJ" =>
              i \in Int /\ i + 0 \in DOMAIN q /\ r[i] = q[i + 0]
        BY <3>1, <3>2
      <3> QED BY <1>1, <1>5, <2>1, <3>3, RecordedStays DEF q, r
    <2>2. CASE \E m \in Data : OutOfOrder(m) /\ IsNull(squeue, SlotOf(m.seq))
      BY <1>1, <1>5, <2>2, AsksOnce
    <2> QED BY <1>1, <1>5, <2>1, <2>2, ServerTable
  <1>6. CASE ~overrun /\ UNCHANGED <<toClient, expected, rejects>>
    <2>1. Len(toClient.inbox) \in Nat /\ DOMAIN toClient.inbox = 1 .. Len(toClient.inbox)
      BY <1>1, InboxType
    <2>2. \A i \in DOMAIN toClient.inbox : i \in Int /\ i + 0 = i
      BY <2>1
    <2> QED BY <1>3, <1>6, <2>2
  <1>7. LateArrival => UNCHANGED toClient
    BY <1>1 DEF LateArrival, Overtaken, RRsInOrder
  <1> QED BY <1>2, <1>4, <1>5, <1>6, <1>7
          DEF Next, vars, networkVars, serverVars, recvVars

\* However many packets are dropped or flipped: as long as send_data keeps to
\* its window, get_data of server.c asks no second time for a chunk while the
\* first SREJ for it still waits at the client.  Its table srej.rejects forgets
\* no chunk that is still missing: two chunks of one slot are never missing at
\* once, and handle_srej clears the slots of what it takes and no others.
THEOREM NothingAskedTwice == KeepsOrder => (Spec => []SrejOnce)
  <1> SUFFICES ASSUME KeepsOrder PROVE Spec => []SrejOnce
    OBVIOUS
  <1>1. Init => Asking
    BY InitAsking
  <1>2. Asking /\ [Next]_vars => Asking'
    BY NextAsking
  <1>3. Asking => SrejOnce
    BY DEF Asking, Recorded
  <1> QED BY <1>1, <1>2, <1>3, PTL DEF Spec

(***************************************************************************)
(* send_data keeps to its window.                                          *)
(***************************************************************************)

\* One packet more, or none; a flip changes its flag.
AddsOne(socket, socketAfter, flag) ==
    /\ socketAfter.late = socket.late
    /\ Len(socketAfter.inbox) <= Len(socket.inbox) + 1
    /\ Longer(socket.inbox, socketAfter.inbox,
              {n \in Messages : n.flag \in {flag, "CRC_ERROR"}})

LEMMA SentOne ==
    ASSUME NEW socket \in Sockets, NEW m \in Messages, NEW socketAfter,
           SentTo(socket, m, socketAfter)
    PROVE  AddsOne(socket, socketAfter, m.flag)
  <1> DEFINE q == socket.inbox
             S == {n \in Messages : n.flag \in {m.flag, "CRC_ERROR"}}
  <1>1. q \in Seq(Messages) /\ Len(q) \in Nat
    BY InboxType
  <1>2. m \in S /\ Noise \subseteq S
    BY DEF Noise
  <1>3. /\ socketAfter.late = socket.late
        /\ socketAfter.inbox = q \/ \E n \in S : socketAfter.inbox = Append(q, n)
    BY <1>2 DEF SentTo, SameEnds
  <1> HIDE DEF q, S
  <1>4. ASSUME NEW n \in S
        PROVE  Len(Append(q, n)) = Len(q) + 1 /\ Longer(q, Append(q, n), S)
    <2>1. Len(Append(q, n)) = Len(q) + 1
      BY <1>1, <1>4, AppendProperties DEF S
    <2>2. \A i \in 1 .. Len(q) : Append(q, n)[i] = q[i]
      BY <1>1, <1>4, AppendProperties DEF S
    <2>3. Append(q, n)[Len(q) + 1] = n
      BY <1>1, <1>4, AppendProperties DEF S
    <2> QED BY <1>1, <2>1, <2>2, <2>3 DEF Longer
  <1>5. Len(q) <= Len(q) + 1 /\ Longer(q, q, S)
    BY <1>1 DEF Longer
  <1>6. Len(socketAfter.inbox) <= Len(q) + 1 /\ Longer(q, socketAfter.inbox, S)
    <2>1. CASE socketAfter.inbox = q
      BY <1>5, <2>1
    <2>2. ASSUME NEW n \in S, socketAfter.inbox = Append(q, n)
          PROVE  Len(socketAfter.inbox) <= Len(q) + 1 /\ Longer(q, socketAfter.inbox, S)
      BY <1>1, <1>4, <2>2
    <2> QED BY <1>3, <2>1, <2>2
  <1> QED BY <1>3, <1>6 DEF AddsOne, q, S

\* What the client sends.
LEMMA ClientAdds ==
    ASSUME KeepsOrder, TypeOK, NEW me, NEW m \in Messages, SendToServer(me, m)
    PROVE  AddsOne(toServer, toServer', m.flag)
  <1>1. toServer \in Sockets /\ faults \in 0 .. MaxFaults
    BY DEF TypeOK, NetworkTypeOK
  <1>2. CASE Transmit(toServer, <<m>>, toServer')
    BY <1>1, <1>2, TransmitSends, SentOne
  <1>3. CASE UNCHANGED toServer
    <2>1. Len(toServer.inbox) \in Nat
      BY <1>1, InboxType
    <2> QED BY <1>3, <2>1 DEF AddsOne, Longer
  <1> QED BY <1>2, <1>3 DEF SendToServer

\* What the server sends.
LEMMA ServerAdds ==
    ASSUME KeepsOrder, TypeOK, toServer' \in Sockets, NEW m \in Messages,
           SendToClient(m)
    PROVE  AddsOne(toClient, toClient', m.flag)
  <1>1. toClient \in Sockets /\ faults \in 0 .. MaxFaults
    BY DEF TypeOK, NetworkTypeOK
  <1> DEFINE n == FromServer(m)
  <1>2. n \in Messages /\ n.flag = m.flag
    BY FromServerType
  <1>3. Transmit(toClient, <<n>>, toClient')
    BY DEF SendToClient
  <1> HIDE DEF n
  <1>4. AddsOne(toClient, toClient', n.flag)
    BY <1>1, <1>2, <1>3, TransmitSends, SentOne
  <1> QED BY <1>2, <1>4

\* The packets of a socket that one may be added to.
LEMMA AddedOne ==
    ASSUME NEW socket \in Sockets, NEW socketAfter \in Sockets, NEW flag,
           AddsOne(socket, socketAfter, flag)
    PROVE  /\ Len(socketAfter.inbox) <= Len(socket.inbox) + 1
           /\ \A i \in DOMAIN socketAfter.inbox :
                \/ socketAfter.inbox[i].flag \in {flag, "CRC_ERROR"}
                \/ /\ i \in DOMAIN socket.inbox
                   /\ socketAfter.inbox[i] = socket.inbox[i]
  <1> DEFINE q == socket.inbox
             r == socketAfter.inbox
  <1>1. /\ Len(q) \in Nat /\ DOMAIN q = 1 .. Len(q)
        /\ Len(r) \in Nat /\ DOMAIN r = 1 .. Len(r)
    BY InboxType
  <1>2. /\ Len(r) <= Len(q) + 1
        /\ \A i \in 1 .. Len(q) : r[i] = q[i]
        /\ \A i \in Len(q) + 1 .. Len(r) : r[i].flag \in {flag, "CRC_ERROR"}
    BY DEF AddsOne, Longer
  <1> HIDE DEF q, r
  <1> QED BY <1>1, <1>2 DEF q, r

\* The packets of a socket after recvfrom.
LEMMA FrontTaken ==
    ASSUME NEW socket \in Sockets, Readable(socket)
    PROVE  /\ Len(socket.inbox) \in Nat \ {0}
           /\ 1 \in DOMAIN socket.inbox /\ Head(socket.inbox) = socket.inbox[1]
           /\ Len(Received(socket).inbox) = Len(socket.inbox) - 1
           /\ \A i \in DOMAIN Received(socket).inbox :
                /\ i + 1 \in DOMAIN socket.inbox
                /\ Received(socket).inbox[i] = socket.inbox[i + 1]
  <1> DEFINE q == socket.inbox
             r == Received(socket).inbox
  <1>1. /\ Len(q) \in Nat /\ 1 \in DOMAIN q /\ Head(q) = q[1]
        /\ DOMAIN q = 1 .. Len(q) /\ DOMAIN r = 1 .. Len(q) - 1
        /\ \A i \in 1 .. Len(q) - 1 : r[i] = q[i + 1]
    BY ReceivedInOrder
  <1>2. r = Tail(q) /\ q \in Seq(Messages) /\ q # <<>>
    BY DEF Received, Readable, Sockets
  <1> HIDE DEF q, r
  <1>3. Len(q) \in Nat \ {0} /\ Len(r) = Len(q) - 1
    BY <1>2, HeadTailProperties, LenProperties, EmptySeq
  <1> QED BY <1>1, <1>3 DEF q, r

\* The length of what waits.
LEMMA Lengths ==
    ASSUME TypeOK
    PROVE  /\ toServer \in Sockets /\ toClient \in Sockets
           /\ Len(toServer.inbox) \in Nat /\ Len(toClient.inbox) \in Nat
           /\ DOMAIN toServer.inbox = 1 .. Len(toServer.inbox)
           /\ DOMAIN toClient.inbox = 1 .. Len(toClient.inbox)
           /\ toServer.inbox = <<>> <=> Len(toServer.inbox) = 0
           /\ toClient.inbox = <<>> <=> Len(toClient.inbox) = 0
           /\ Readable(toServer) <=> Len(toServer.inbox) > 0
           /\ Readable(toClient) <=> Len(toClient.inbox) > 0
  <1>1. toServer \in Sockets /\ toClient \in Sockets
    BY DEF TypeOK, NetworkTypeOK
  <1>2. /\ toServer.inbox \in Seq(Messages) /\ Len(toServer.inbox) \in Nat
        /\ toClient.inbox \in Seq(Messages) /\ Len(toClient.inbox) \in Nat
    BY <1>1, InboxType
  <1> QED BY <1>1, <1>2, InboxType, EmptySeq

LEMMA OneOfTwo ==
    ASSUME NEW a \in Nat, NEW b \in Nat, a + b <= 1, b > 0
    PROVE  a = 0 /\ b = 1
  OBVIOUS

\* Nothing, or one FNAME, or one answer, waits before and after a step that
\* does not end the introduction.
LEMMA StillIntroducing ==
    ASSUME NamedOnce, Timely, Running, cstate \in Introducing,
           UNCHANGED window,
           toServer'.late = toServer.late, toClient'.late = toClient.late,
           sstate' # "CONNECTION", cstate' \in Introducing,
           cstate' = "FILENAME_WAIT" => fnameRetry' > 0,
           fnameRetry' = 0 => toServer'.inbox = <<>>,
           \A i \in DOMAIN toServer'.inbox :
             toServer'.inbox[i].flag \in {"FNAME", "CRC_ERROR"},
           Len(toServer'.inbox) + Len(toClient'.inbox) <=
             IF cstate' = "FILENAME" /\ fnameRetry' > 0 THEN 0 ELSE 1,
           Readable(toClient') => fnameRetry' = 0 \/ sstate' # "FILENAME"
    PROVE  NamedOnce'
  <1>1. /\ toServer.late = {} /\ toClient.late = {}
        /\ window.current = 1 /\ window.upper = FirstUpper
    BY DEF NamedOnce, OneName
  <1>2. toServer'.late = {} /\ toClient'.late = {}
    BY <1>1
  <1>3. OneName'
    BY <1>1 DEF OneName, FirstUpper
  <1>4. NameAnswered'
    BY DEF NameAnswered
  <1>5. SendsInWindow'
    BY DEF SendsInWindow, Introducing
  <1> QED BY <1>2, <1>3, <1>4, <1>5 DEF NamedOnce

\* The client before it has seen an answer to FNAME.
LEMMA ClientIntroduces ==
    ASSUME KeepsOrder, TypeOK, TypeOK', Timely, Running, NamedOnce,
           Filename \/ FilenameTimeout, Running', UNCHANGED serverVars
    PROVE  NamedOnce'
  <1> USE DEF GoTo, Exit
  <1> DEFINE qs == toServer.inbox
             qc == toClient.inbox
             rs == toServer'.inbox
             rc == toClient'.inbox
  <1>0. /\ toServer \in Sockets /\ toClient \in Sockets
        /\ toServer' \in Sockets /\ toClient' \in Sockets
        /\ fnameRetry \in Nat /\ sstate' = sstate
    BY DEF TypeOK, NetworkTypeOK, ClientTypeOK, serverVars
  <1>1. UNCHANGED <<window, overrun>>
    BY DEF Filename, FilenameFirst, FilenameGarbled, FilenameAgain,
           FilenameAnswered, FilenameTimeout, SendFname, windowVars
  <1>2. /\ cstate \in Introducing /\ sstate # "CONNECTION"
        /\ toServer.late = {} /\ toClient.late = {}
        /\ window.current = 1 /\ window.upper = FirstUpper
        /\ \A i \in DOMAIN qs : qs[i].flag \in {"FNAME", "CRC_ERROR"}
        /\ Len(qs) + Len(qc) <= IF cstate = "FILENAME" /\ fnameRetry > 0 THEN 0 ELSE 1
        /\ cstate = "FILENAME_WAIT" => fnameRetry > 0
        /\ fnameRetry = 0 => qs = <<>>
        /\ Readable(toClient) => fnameRetry = 0 \/ sstate # "FILENAME"
    <2>1. cstate \in Introducing
      BY DEF Filename, FilenameFirst, FilenameGarbled, FilenameAgain,
             FilenameAnswered, FilenameTimeout, Introducing
    <2> QED BY <2>1 DEF NamedOnce, OneName
  <1>3. /\ Len(qs) \in Nat /\ Len(qc) \in Nat
        /\ qs = <<>> <=> Len(qs) = 0
        /\ Readable(toClient) <=> Len(qc) > 0
        /\ Readable(toServer) <=> Len(qs) > 0
        /\ Len(rs) \in Nat /\ Len(rc) \in Nat
        /\ rs = <<>> <=> Len(rs) = 0
        /\ Readable(toClient)' <=> Len(rc) > 0
    <2>2. Len(rs) \in Nat /\ Len(rc) \in Nat /\ rs \in Seq(Messages)
      BY <1>0, InboxType
    <2>3. Readable(toClient)' <=> Len(rc) > 0
      BY <1>0, InboxType DEF Readable
    <2> QED BY <2>2, <2>3, Lengths, EmptySeq
  <1>4. ASSUME NEW me, SendToServer(me, Signal("FNAME")),
               Len(qs) = 0, fnameRetry' > 0,
               \/ UNCHANGED toClient /\ Len(qc) = 0
               \/ toClient'.late = toClient.late /\ Len(rc) = 0,
               cstate' = "FILENAME_WAIT"
        PROVE  NamedOnce'
    <2>1. Signal("FNAME") \in Messages /\ Signal("FNAME").flag = "FNAME"
      BY PacketType DEF Flags, Signal, Packet
    <2>2. AddsOne(toServer, toServer', "FNAME")
      BY <1>4, <2>1, ClientAdds
    <2>3. Len(rs) <= 1 /\ \A i \in DOMAIN rs : rs[i].flag \in {"FNAME", "CRC_ERROR"}
      <3>1. DOMAIN qs = {}
        BY <1>3, <1>4
      <3> QED BY <1>0, <1>3, <1>4, <2>2, <3>1, AddedOne
    <2>4. toServer'.late = toServer.late /\ toClient'.late = toClient.late
      BY <1>4, <2>2 DEF AddsOne
    <2>5. Len(rc) = 0
      BY <1>4
    <2> HIDE DEF rs, rc, qs, qc
    <2>6. Len(rs) + Len(rc) <= 1 /\ ~Readable(toClient)'
      BY <1>3, <2>3, <2>5
    <2>7. ~Readable(toClient')
      BY <2>6 DEF Readable
    <2>8. fnameRetry' # 0
      BY <1>4
    <2> QED BY <1>1, <1>2, <1>0, <1>4, <2>3, <2>4, <2>6, <2>7, <2>8,
               StillIntroducing DEF Introducing, rs, rc
  <1>5. CASE FilenameFirst
    <2>1. /\ Readable(toClient) /\ toClient' = Received(toClient)
          /\ SendToServer(toClient', Signal("FNAME"))
          /\ fnameRetry = 0 /\ fnameRetry' = fnameRetry + 1
          /\ cstate = "FILENAME" /\ cstate' = "FILENAME_WAIT"
      BY <1>5 DEF FilenameFirst, ClientRecv, SendFname
    <2>2. Len(qs) = 0 /\ Len(qc) = 1 /\ fnameRetry' > 0
      <3>1. Len(qs) = 0 /\ Len(qc) > 0
        BY <1>2, <1>3, <2>1
      <3>2. Len(qs) + Len(qc) <= 1
        <4> HIDE DEF qs, qc
        <4> QED BY <1>2, <2>1
      <3> HIDE DEF qs, qc, rs, rc
      <3>3. Len(qc) = 1
        BY <1>3, <3>1, <3>2, OneOfTwo
      <3> QED BY <2>1, <3>1, <3>3
    <2>3. toClient'.late = toClient.late /\ Len(rc) = 0
      <3>1. Len(rc) = Len(qc) - 1
        BY <1>0, <2>1, FrontTaken
      <3> QED BY <1>0, <2>1, <2>2, <3>1, ReceivedEnds
    <2> QED BY <1>4, <2>1, <2>2, <2>3
  <1>6. CASE FilenameAgain
    <2>1. /\ SendToServer(toClient, Signal("FNAME"))
          /\ fnameRetry > 0 /\ fnameRetry' = fnameRetry + 1
          /\ cstate = "FILENAME" /\ cstate' = "FILENAME_WAIT"
          /\ UNCHANGED toClient
      BY <1>6 DEF FilenameAgain, SendFname, Running
    <2>2. Len(qs) = 0 /\ Len(qc) = 0 /\ fnameRetry' > 0
      <3> HIDE DEF qs, qc
      <3> QED BY <1>0, <1>2, <1>3, <2>1
    <2> QED BY <1>4, <2>1, <2>2
  <1>7. CASE FilenameAnswered
    <2>1. /\ cstate = "FILENAME_WAIT" /\ Readable(toClient)
          /\ cstate' = "GET_DATA" /\ UNCHANGED <<toServer, toClient>>
      BY <1>7 DEF FilenameAnswered, networkVars
    <2>2. Len(qs) = 0 /\ Len(qc) = 1 /\ sstate # "FILENAME"
      <3>1. Len(qs) + Len(qc) <= 1 /\ Len(qc) > 0
        BY <1>2, <1>3, <2>1
      <3>2. fnameRetry # 0
        BY <1>0, <1>2, <2>1
      <3>3. sstate # "FILENAME"
        BY <1>2, <2>1, <3>2
      <3> HIDE DEF qs, qc, rs, rc
      <3>4. Len(qs) = 0 /\ Len(qc) = 1
        BY <1>3, <3>1, OneOfTwo
      <3> QED BY <3>3, <3>4
    <2>3. toServer'.inbox = <<>> /\ Len(toClient'.inbox) = 1
      BY <1>3, <2>1, <2>2
    <2>4. NameAnswered'
      BY <1>0, <1>1, <1>2, <2>1, <2>2, <2>3 DEF NameAnswered, Holds, FirstUpper
    <2>5. OneName' /\ SendsInWindow'
      BY <2>1 DEF OneName, SendsInWindow, Introducing
    <2> QED BY <1>0, <1>2, <2>1, <2>4, <2>5 DEF NamedOnce
  <1>8. CASE FilenameTimeout
    <2>1. /\ cstate = "FILENAME_WAIT" /\ ~Readable(toClient) /\ ~Readable(toServer)
          /\ cstate' = "FILENAME" /\ UNCHANGED <<toServer, toClient, fnameRetry>>
      BY <1>8 DEF FilenameTimeout, networkVars, windowVars, TimesOut
    <2>2. Len(qs) = 0 /\ Len(qc) = 0 /\ fnameRetry > 0
      <3> HIDE DEF qs, qc
      <3> QED BY <1>2, <1>3, <2>1
    <2>3. Len(toServer'.inbox) + Len(toClient'.inbox) <= 0 /\ fnameRetry' # 0
      BY <1>0, <2>1, <2>2
    <2> QED BY <1>0, <1>1, <1>2, <2>1, <2>3, StillIntroducing DEF Introducing
  <1>9. ~FilenameGarbled
    BY DEF FilenameGarbled, Running
  <1> QED BY <1>5, <1>6, <1>7, <1>8, <1>9 DEF Filename

\* What the client sends once FNAME is answered.
Speaks ==
    \/ UNCHANGED toServer
    \/ \E flag \in {"DATA", "EoF"} : AddsOne(toServer, toServer', flag)

LEMMA ClientResendsData ==
    ASSUME KeepsOrder, TypeOK, NEW me, NEW seq \in Nat, Resend(me, seq)
    PROVE  Speaks
  <1> DEFINE m == Packet("DATA", seq, UpToNul(cqueue[SlotOf(seq)]))
  <1>1. UpToNul(cqueue[SlotOf(seq)]) \in Bytes
    <2>1. SlotOf(seq) \in Slots
      BY SlotOfType
    <2> QED BY <2>1, UpToNulType DEF TypeOK, ClientTypeOK
  <1>2. m \in Messages /\ m.flag = "DATA"
    BY <1>1, PacketType DEF Flags, Packet
  <1>3. SendToServer(me, m)
    BY DEF Resend
  <1> HIDE DEF m
  <1> QED BY <1>2, <1>3, ClientAdds DEF Speaks

LEMMA ClientSendsChunk ==
    ASSUME KeepsOrder, TypeOK, SendChunk
    PROVE  Speaks
  <1> DEFINE m == Packet("DATA", window.current, File[nread + 1])
  <1>1. nread + 1 \in 1 .. Len(File)
    <2>1. Len(File) \in Nat
      BY RcopyAssumption, LenProperties
    <2>2. nread \in 0 .. Len(File) /\ nread < Len(File)
      BY DEF SendChunk, TypeOK, ClientTypeOK
    <2> QED BY <2>1, <2>2
  <1>2. File[nread + 1] \in Bytes
    BY <1>1, RcopyAssumption, ElementOfSeq
  <1>3. window.current \in Nat
    BY WindowsType DEF TypeOK, ClientTypeOK
  <1>4. m \in Messages /\ m.flag = "DATA"
    BY <1>2, <1>3, PacketType DEF Flags, Packet
  <1>5. SendToServer(toClient, m)
    BY DEF SendChunk
  <1> HIDE DEF m
  <1> QED BY <1>4, <1>5, ClientAdds DEF Speaks

\* The states after filename().
Transferring == {"GET_DATA", "SEND_DATA", "WINDOW"}

\* What a step of the client does to the sockets and to its window, once FNAME
\* is answered.
GoesOn ==
    /\ cstate \in Transferring /\ cstate' \in Transferring
    /\ Speaks
    /\ \/ cstate = "GET_DATA" /\ ~Readable(toClient) /\ UNCHANGED toClient
       \/ cstate = "GET_DATA" /\ Readable(toClient) /\ toClient' = Received(toClient)
       \/ cstate # "GET_DATA" /\ UNCHANGED toClient
    /\ cstate' = "SEND_DATA" =>
         /\ UNCHANGED window
         /\ \/ ~Closed
            \/ /\ cstate = "GET_DATA" /\ Readable(toClient)
               /\ Head(toClient.inbox).flag = "FNAME_RES"
    /\ overrun' = overrun \/ (cstate = "SEND_DATA" /\ overrun' = (overrun \/ Closed))

LEMMA ClientGoesOn ==
    ASSUME KeepsOrder, TypeOK, RcopyNext, ~Filename, ~FilenameTimeout, Running'
    PROVE  GoesOn
  <1> USE DEF GoTo, Exit, Crash, Running, windowVars, networkVars, Transferring
  <1>0. toClient \in Sockets /\ window.lower \in Nat
    BY WindowsType DEF TypeOK, NetworkTypeOK, ClientTypeOK
  <1>1. CASE GetNothing \/ GetUnknown \/ GetFnameRes \/ GetRR
    <2>1. UNCHANGED <<toServer, overrun>>
      BY <1>1 DEF GetNothing, GetUnknown, GetFnameRes, GetRR
    <2>2. /\ cstate = "GET_DATA" /\ cstate' \in Transferring
          /\ \/ ~Readable(toClient) /\ UNCHANGED toClient
             \/ Readable(toClient) /\ toClient' = Received(toClient)
      BY <1>1 DEF GetNothing, GetUnknown, GetFnameRes, GetRR, ClientRecv
    <2>3. cstate' = "SEND_DATA" =>
            /\ UNCHANGED window /\ Readable(toClient)
            /\ Head(toClient.inbox).flag = "FNAME_RES"
      BY <1>1 DEF GetNothing, GetUnknown, GetFnameRes, GetRR, ClientRecv
    <2> QED BY <2>1, <2>2, <2>3 DEF GoesOn, Speaks
  <1>2. CASE GetSREJ
    <2> DEFINE m == Head(toClient.inbox)
    <2>1. /\ cstate = "GET_DATA" /\ cstate' = "GET_DATA"
          /\ Readable(toClient) /\ toClient' = Received(toClient)
          /\ Resend(toClient', m.seq) /\ UNCHANGED overrun
      BY <1>2 DEF GetSREJ
    <2>2. m.seq \in Nat
      BY <1>0, <2>1, ReceivedType DEF Messages
    <2>3. Speaks
      <3> HIDE DEF m
      <3> QED BY <2>1, <2>2, ClientResendsData
    <2> QED BY <2>1, <2>3 DEF GoesOn
  <1>3. CASE SendChunk
    <2>1. /\ cstate = "SEND_DATA" /\ cstate' = "GET_DATA" /\ UNCHANGED toClient
          /\ overrun' = (overrun \/ Closed)
      BY <1>3 DEF SendChunk, Closed
    <2> QED BY <1>3, <2>1, ClientSendsChunk DEF GoesOn
  <1>4. CASE ReachEndOfFile \/ WindowAnswered
    <2>1. /\ cstate \in {"SEND_DATA", "WINDOW"} /\ cstate' = "GET_DATA"
          /\ UNCHANGED <<toServer, toClient, overrun>>
      BY <1>4 DEF ReachEndOfFile, WindowAnswered
    <2> QED BY <2>1 DEF GoesOn, Speaks
  <1>5. CASE WindowOpen
    <2>1. /\ cstate = "WINDOW" /\ cstate' = "SEND_DATA" /\ ~Closed
          /\ UNCHANGED <<toServer, toClient, overrun, window>>
      BY <1>5 DEF WindowOpen
    <2> QED BY <2>1 DEF GoesOn, Speaks
  <1>6. CASE WindowResends
    <2>1. /\ cstate = "WINDOW" /\ cstate' = "WINDOW" /\ UNCHANGED <<toClient, overrun>>
          /\ Resend(toClient, window.lower)
      BY <1>6 DEF WindowResends
    <2> QED BY <1>0, <2>1, ClientResendsData DEF GoesOn
  <1>7. CASE WindowSendsEoF
    <2>1. /\ cstate = "WINDOW" /\ cstate' = "WINDOW" /\ UNCHANGED <<toClient, overrun>>
          /\ SendToServer(toClient, Signal("EoF"))
      BY <1>7 DEF WindowSendsEoF
    <2>2. Signal("EoF") \in Messages /\ Signal("EoF").flag = "EoF"
      BY PacketType DEF Flags, Signal, Packet
    <2>3. Speaks
      BY <2>1, <2>2, ClientAdds DEF Speaks
    <2> QED BY <2>1, <2>3 DEF GoesOn
  <1>8. ~GetFopenErr /\ ~GetEoF /\ ~ReadError /\ ~WindowGivesUp
    BY DEF GetFopenErr, GetEoF, ReadError, WindowGivesUp
  <1> QED BY <1>1, <1>2, <1>3, <1>4, <1>5, <1>6, <1>7, <1>8
          DEF RcopyNext, RcopyTimeout, GetData, SendData, WindowStatus

\* Once FNAME is answered, the client sends no FNAME and takes the answer
\* before anything else.
LEMMA ClientKeepsNamed ==
    ASSUME KeepsOrder, TypeOK, TypeOK', Timely, Running, NamedOnce, GoesOn,
           UNCHANGED sstate
    PROVE  NamedOnce' /\ overrun' = overrun
  <1> DEFINE qc == toClient.inbox
             rc == toClient'.inbox
  <1>0. /\ toServer \in Sockets /\ toClient \in Sockets
        /\ toServer' \in Sockets /\ toClient' \in Sockets
        /\ overrun \in BOOLEAN
    BY DEF TypeOK, NetworkTypeOK, ClientTypeOK
  <1>1. /\ cstate \notin Introducing /\ cstate' \notin Introducing
        /\ cstate \in Transferring /\ cstate' \in Transferring
    BY DEF GoesOn, Transferring, Introducing
  <1>2. /\ toServer.late = {} /\ toClient.late = {} /\ sstate # "CONNECTION"
        /\ sstate # "FILENAME"
        /\ ~Holds(toServer, "FNAME")
        /\ Holds(toClient, "FNAME_RES") =>
             /\ cstate = "GET_DATA"
             /\ window.current = 1 /\ window.upper = FirstUpper
             /\ toServer.inbox = <<>> /\ Len(toClient.inbox) = 1
        /\ cstate = "SEND_DATA" => ~Closed
    BY <1>1 DEF NamedOnce, NameAnswered, SendsInWindow
  <1>3. toServer'.late = {} /\ ~Holds(toServer', "FNAME")
    <2>1. CASE UNCHANGED toServer
      BY <1>2, <2>1
    <2>2. ASSUME NEW flag \in {"DATA", "EoF"}, AddsOne(toServer, toServer', flag)
          PROVE  toServer'.late = {} /\ ~Holds(toServer', "FNAME")
      <3>1. toServer'.late = toServer.late
        BY <2>2 DEF AddsOne
      <3>2. \A i \in DOMAIN toServer'.inbox :
              \/ toServer'.inbox[i].flag \in {flag, "CRC_ERROR"}
              \/ /\ i \in DOMAIN toServer.inbox
                 /\ toServer'.inbox[i] = toServer.inbox[i]
        BY <1>0, <2>2, AddedOne
      <3> QED BY <1>2, <3>1, <3>2 DEF Holds
    <2> QED BY <2>1, <2>2 DEF GoesOn, Speaks
  <1>4. toClient'.late = {} /\ ~Holds(toClient', "FNAME_RES")
    <2>1. CASE cstate = "GET_DATA" /\ ~Readable(toClient) /\ UNCHANGED toClient
      <3>1. DOMAIN qc = {}
        BY <1>0, <2>1, InboxType DEF Readable
      <3> QED BY <1>2, <2>1, <3>1 DEF Holds
    <2>2. CASE Readable(toClient) /\ toClient' = Received(toClient)
      <3>1. \A i \in DOMAIN rc : i + 1 \in DOMAIN qc /\ rc[i] = qc[i + 1]
        BY <1>0, <2>2, FrontTaken
      <3>2. DOMAIN qc = 1 .. Len(qc) /\ DOMAIN rc = 1 .. Len(rc) /\ Len(rc) \in Nat
        BY <1>0, InboxType
      <3> HIDE DEF qc, rc
      <3>3. ASSUME NEW i \in DOMAIN rc, rc[i].flag = "FNAME_RES" PROVE FALSE
        <4>1. Holds(toClient, "FNAME_RES")
          BY <3>1, <3>3 DEF Holds, qc
        <4>2. Len(qc) = 1
          BY <1>2, <4>1 DEF qc
        <4> QED BY <3>1, <3>2, <3>3, <4>2
      <3>4. toClient'.late = {}
        BY <1>0, <1>2, <2>2, ReceivedEnds
      <3> QED BY <3>3, <3>4 DEF Holds, rc
    <2>3. CASE cstate # "GET_DATA" /\ UNCHANGED toClient
      BY <1>2, <2>3
    <2> QED BY <2>1, <2>2, <2>3 DEF GoesOn
  <1>5. cstate' = "SEND_DATA" => ~Closed'
    <2> SUFFICES ASSUME cstate' = "SEND_DATA" PROVE ~Closed'
      OBVIOUS
    <2>1. Closed' = Closed
      BY DEF GoesOn, Closed
    <2>2. CASE Readable(toClient) /\ Head(toClient.inbox).flag = "FNAME_RES"
      <3>1. Holds(toClient, "FNAME_RES")
        BY <1>0, <2>2, FrontTaken DEF Holds
      <3> QED BY <1>2, <2>1, <3>1, SizesPositive DEF Closed, FirstUpper
    <2> QED BY <2>1, <2>2 DEF GoesOn
  <1>6. NameAnswered' /\ OneName' /\ SendsInWindow'
    BY <1>1, <1>2, <1>3, <1>4, <1>5 DEF NameAnswered, OneName, SendsInWindow
  <1>7. overrun' = overrun
    BY <1>0, <1>2 DEF GoesOn
  <1> QED BY <1>2, <1>3, <1>4, <1>6, <1>7 DEF NamedOnce

\* get_data of the server sends no FNAME_RES.
LEMMA DataAnswers ==
    ASSUME KeepsOrder, TypeOK, ReceiveData
    PROVE  AddsNo("FNAME_RES")
  <1>0. /\ toServer' \in Sockets /\ toClient \in Sockets /\ faults \in 0 .. MaxFaults
        /\ expected' \in Nat /\ expected \in Nat \ {0}
    BY ServerNextType, Numbers
       DEF ServerNext, WaitData, ServerTypeOK, NetworkTypeOK, TypeOK
  <1>1. PICK m \in OnTheWay(toServer) :
          InOrder(m) \/ FillsGap(m) \/ Duplicate(m) \/ OutOfOrder(m)
    BY DEF ReceiveData
  <1>2. CASE InOrder(m) \/ FillsGap(m) \/ Duplicate(m)
    <2>1. AcknowledgeUpTo(expected')
      BY <1>2 DEF InOrder, FillsGap, Duplicate, recvVars
    <2> DEFINE p == Packet("RR", expected', <<>>)
    <2>2. p \in Messages /\ p.flag # "FNAME_RES"
      BY <1>0, EmptySeq, PacketType DEF Flags, Bytes, Packet
    <2>3. SendToClient(p)
      BY <2>1 DEF AcknowledgeUpTo
    <2> HIDE DEF p
    <2> QED BY <1>0, <2>2, <2>3, SendsOther DEF Meant, Flags
  <1>3. CASE OutOfOrder(m) /\ IsNull(squeue, SlotOf(m.seq))
    <2> DEFINE missing == Missing(add_element(squeue, SlotOf(m.seq), m.data), m.seq)
               srejs   == [k \in missing |-> FromServer(Packet("SREJ", k, <<>>))]
    <2>1. m.seq \in Nat
      BY OnTheWayType DEF TypeOK, NetworkTypeOK, Messages
    <2>2. Transmit(toClient, srejs, toClient')
      BY <1>3 DEF OutOfOrder
    <2>3. missing \subseteq expected .. m.seq - 1 /\ IsFiniteSet(missing)
      BY <1>0, <2>1, MissingType
    <2> HIDE DEF missing
    <2>4. ASSUME NEW k \in missing
          PROVE  srejs[k] \in Messages /\ srejs[k].flag = "SREJ"
      <3>1. k \in Nat
        BY <1>0, <2>1, <2>3
      <3>2. Packet("SREJ", k, <<>>) \in Messages
        BY <3>1, EmptySeq, PacketType DEF Flags, Bytes
      <3>3. Packet("SREJ", k, <<>>).flag = "SREJ"
        BY DEF Packet
      <3> QED BY <1>0, <3>2, <3>3, FromServerType
    <2>5. PICK sent \in [missing -> Messages] :
            /\ \A k \in missing : sent[k].flag = "SREJ"
            /\ Transmit(toClient, sent, toClient')
      <3>1. srejs \in [missing -> Messages]
        BY <2>4
      <3> HIDE DEF srejs
      <3> QED BY <2>2, <2>4, <3>1
    <2>6. /\ toClient'.late = toClient.late
          /\ Longer(toClient.inbox, toClient'.inbox, Heard({sent[k] : k \in missing}))
      <3>1. /\ IsFiniteSet(missing) /\ Transmit(toClient, sent, toClient')
            /\ toClient \in Sockets /\ faults \in 0 .. MaxFaults
            /\ sent \in [missing -> Messages]
        BY <1>0, <2>3, <2>5
      <3>2. /\ SameEnds(toClient, toClient')
            /\ Longer(toClient.inbox, toClient'.inbox, Heard({sent[k] : k \in missing}))
        BY <3>1, TransmitInOrder
      <3> QED BY <3>2 DEF SameEnds
    <2>7. Heard({sent[k] : k \in missing}) \subseteq
            {n \in Messages : n.flag # "FNAME_RES"}
      BY <2>5 DEF Heard, Noise
    <2> QED BY <2>6, <2>7 DEF AddsNo, Longer
  <1>4. CASE OutOfOrder(m) /\ ~IsNull(squeue, SlotOf(m.seq))
    BY <1>4, SendsNothing DEF OutOfOrder
  <1> QED BY <1>1, <1>2, <1>3, <1>4

\* The server process ends.
Quits == toServer' = ClosedSocket /\ UNCHANGED toClient /\ sstate' = "DONE"

\* It handles a packet, other than to start over.
Handles ==
    /\ Readable(toServer) /\ toServer' = Received(toServer)
    /\ Head(toServer.inbox).flag = "FNAME" =>
         sstate' = "WAIT_DATA" /\ \E flag : AddsOne(toClient, toClient', flag)
    /\ Head(toServer.inbox).flag = "CRC_ERROR" => UNCHANGED <<toClient, sstate>>
    /\ Head(toServer.inbox).flag # "FNAME" /\ sstate # "FILENAME" =>
         AddsNo("FNAME_RES") /\ UNCHANGED sstate

LEMMA ServerTakes ==
    ASSUME KeepsOrder, TypeOK, ServerNext, sstate # "CONNECTION"
    PROVE  Quits \/ Handles
  <1> USE DEF ServerRecv, serverVars
  <1>0. toServer' \in Sockets
    BY ServerNextType DEF NetworkTypeOK
  <1>1. ASSUME NEW flag \in Flags, SendToClient(Signal(flag))
        PROVE  /\ AddsOne(toClient, toClient', flag)
               /\ flag # "FNAME_RES" => AddsNo("FNAME_RES")
    <2>1. Signal(flag) \in Messages /\ Signal(flag).flag = flag
      BY PacketType DEF Signal, Packet
    <2> QED BY <1>0, <1>1, <2>1, ServerAdds, SendsOther DEF Meant, Flags
  <1>2. CASE FilenameOpens
    <2>1. PICK ok \in Opens : SendToClient(Signal(OpenAnswer(ok)))
      BY <1>2 DEF FilenameOpens
    <2>2. OpenAnswer(ok) \in Flags
      BY DEF OpenAnswer, Flags
    <2>3. \E flag : AddsOne(toClient, toClient', flag)
      BY <1>1, <2>1, <2>2
    <2> QED BY <1>2, <2>3 DEF FilenameOpens, Handles
  <1>3. CASE FilenameOther
    BY <1>3 DEF FilenameOther, Handles
  <1>4. CASE GiveUp \/ ClientTerminated
    BY <1>4 DEF GiveUp, ClientTerminated, Quits
  <1>5. CASE FnameAgain
    <2>1. AddsOne(toClient, toClient', "FNAME_RES")
      BY <1>1, <1>5 DEF FnameAgain, Flags
    <2> QED BY <1>5, <2>1 DEF FnameAgain, Handles
  <1>6. CASE CloseFile
    <2>1. AddsNo("FNAME_RES")
      BY <1>1, <1>6 DEF CloseFile, Flags
    <2> QED BY <1>6, <2>1 DEF CloseFile, Handles
  <1>7. CASE IgnorePacket
    BY <1>7, SendsNothing DEF IgnorePacket, Handles
  <1>8. CASE ReceiveData
    <2>1. /\ Readable(toServer) /\ toServer' = Received(toServer)
          /\ Head(toServer.inbox).flag = "DATA" /\ UNCHANGED sstate
      BY <1>8 DEF ReceiveData, DataArrives
    <2> QED BY <1>8, <2>1, DataAnswers DEF Handles
  <1>9. ~Reconnect
    BY DEF Reconnect
  <1> QED BY <1>2, <1>3, <1>4, <1>5, <1>6, <1>7, <1>8, <1>9
          DEF ServerNext, WaitData

\* The server answers the one FNAME once.
LEMMA ServerKeepsNamed ==
    ASSUME KeepsOrder, TypeOK, TypeOK', Timely, Running, NamedOnce, Quits \/ Handles,
           UNCHANGED <<cstate, window, fnameRetry>>
    PROVE  NamedOnce'
  <1> DEFINE qs == toServer.inbox
             qc == toClient.inbox
             rs == toServer'.inbox
             rc == toClient'.inbox
             f  == Head(toServer.inbox).flag
  <1>0. /\ toServer \in Sockets /\ toClient \in Sockets
        /\ toServer' \in Sockets /\ toClient' \in Sockets /\ fnameRetry \in Nat
    BY DEF TypeOK, NetworkTypeOK, ClientTypeOK
  <1>1. toServer.late = {} /\ toClient.late = {} /\ sstate # "CONNECTION"
    BY DEF NamedOnce
  <1>2. /\ Len(qs) \in Nat /\ Len(qc) \in Nat
        /\ qs = <<>> <=> Len(qs) = 0
        /\ Readable(toClient) <=> Len(qc) > 0
        /\ Readable(toServer) <=> Len(qs) > 0
        /\ Len(rs) \in Nat /\ Len(rc) \in Nat
        /\ rs = <<>> <=> Len(rs) = 0
    <2>1. Len(rs) \in Nat /\ Len(rc) \in Nat /\ rs \in Seq(Messages)
      BY <1>0, InboxType
    <2> QED BY <2>1, Lengths, EmptySeq
  <1>3. CASE cstate \in Introducing
    <2>1. /\ \A i \in DOMAIN qs : qs[i].flag \in {"FNAME", "CRC_ERROR"}
          /\ Len(qs) + Len(qc) <=
               IF cstate = "FILENAME" /\ fnameRetry > 0 THEN 0 ELSE 1
          /\ cstate = "FILENAME_WAIT" => fnameRetry > 0
          /\ fnameRetry = 0 => qs = <<>>
          /\ Readable(toClient) => fnameRetry = 0 \/ sstate # "FILENAME"
      BY <1>3 DEF NamedOnce, OneName
    <2>2. CASE Quits
      <3>1. rs = <<>> /\ toServer'.late = {} /\ DOMAIN rs = {}
        BY <2>2 DEF Quits, ClosedSocket, EmptySocket
      <3>2. Len(rs) = 0 /\ Len(rc) = Len(qc) /\ UNCHANGED toClient /\ sstate' = "DONE"
        BY <1>2, <2>2, <3>1 DEF Quits
      <3>3. Len(rs) + Len(rc) <= IF cstate' = "FILENAME" /\ fnameRetry' > 0 THEN 0 ELSE 1
        <4> HIDE DEF qs, qc, rs, rc
        <4> QED BY <1>2, <2>1, <3>2
      <3> QED BY <1>1, <1>3, <2>1, <3>1, <3>2, <3>3, StillIntroducing
    <2>3. CASE Handles
      <3>0. Readable(toServer) /\ toServer' = Received(toServer)
        BY <2>3 DEF Handles
      <3>1. /\ Len(rs) = Len(qs) - 1 /\ toServer'.late = {}
            /\ \A i \in DOMAIN rs : i + 1 \in DOMAIN qs /\ rs[i] = qs[i + 1]
            /\ f \in {"FNAME", "CRC_ERROR"}
        <4>1. 1 \in DOMAIN qs /\ Head(qs) = qs[1]
          BY <1>0, <3>0, FrontTaken
        <4> QED BY <1>0, <1>1, <2>1, <3>0, <4>1, FrontTaken, ReceivedEnds
      <3>2. \A i \in DOMAIN rs : rs[i].flag \in {"FNAME", "CRC_ERROR"}
        BY <2>1, <3>1
      <3>3. /\ Len(qs) = 1 /\ Len(qc) = 0 /\ fnameRetry > 0
            /\ cstate = "FILENAME_WAIT"
        <4>1. Len(qs) > 0 /\ fnameRetry # 0
          BY <1>2, <2>1, <3>0
        <4>2. ~(cstate = "FILENAME" /\ fnameRetry > 0)
          <5> HIDE DEF qs, qc
          <5> QED BY <1>2, <2>1, <4>1
        <4>3. Len(qc) + Len(qs) <= 1
          <5> HIDE DEF qs, qc
          <5> QED BY <1>2, <2>1, <4>2
        <4>4. Len(qc) = 0 /\ Len(qs) = 1
          <5> HIDE DEF qs, qc
          <5> QED BY <1>2, <4>1, <4>3, OneOfTwo
        <4>5. fnameRetry > 0
          BY <1>0, <4>1
        <4> QED BY <1>3, <4>2, <4>4, <4>5 DEF Introducing
      <3>4. /\ toClient'.late = {} /\ Len(rc) <= 1 /\ sstate' # "CONNECTION"
            /\ Readable(toClient') => sstate' # "FILENAME"
        <4>1. CASE f = "FNAME"
          <5>1. PICK flag : AddsOne(toClient, toClient', flag)
            BY <2>3, <4>1 DEF Handles
          <5>2. Len(rc) <= Len(qc) + 1 /\ toClient'.late = toClient.late
            BY <5>1 DEF AddsOne
          <5>3. Len(rc) <= 1
            <6> HIDE DEF rc, qc
            <6> QED BY <1>2, <3>3, <5>2
          <5> QED BY <1>1, <2>3, <4>1, <5>2, <5>3 DEF Handles
        <4>2. CASE f = "CRC_ERROR"
          <5>1. UNCHANGED <<toClient, sstate>>
            BY <2>3, <4>2 DEF Handles
          <5>2. Len(rc) <= 1 /\ ~Readable(toClient')
            BY <1>2, <3>3, <5>1
          <5> QED BY <1>1, <5>1, <5>2
        <4> QED BY <3>1, <4>1, <4>2
      <3>5. Len(rs) + Len(rc) <= 1
        <4>1. Len(rs) = 0
          BY <3>1, <3>3
        <4> HIDE DEF rs, rc
        <4> QED BY <1>2, <3>4, <4>1
      <3> QED BY <1>0, <1>1, <1>3, <3>1, <3>2, <3>3, <3>4, <3>5, StillIntroducing
    <2> QED BY <2>2, <2>3
  <1>4. CASE cstate \notin Introducing
    <2>1. /\ sstate # "FILENAME" /\ ~Holds(toServer, "FNAME")
          /\ Holds(toClient, "FNAME_RES") =>
               /\ cstate = "GET_DATA"
               /\ window.current = 1 /\ window.upper = FirstUpper
               /\ toServer.inbox = <<>> /\ Len(toClient.inbox) = 1
          /\ cstate = "SEND_DATA" => ~Closed
      BY <1>4 DEF NamedOnce, NameAnswered, SendsInWindow
    <2>2. CASE Quits
      <3>1. /\ rs = <<>> /\ toServer'.late = {} /\ DOMAIN rs = {}
            /\ UNCHANGED toClient /\ sstate' = "DONE"
        BY <2>2 DEF Quits, ClosedSocket, EmptySocket
      <3>2. NameAnswered' /\ OneName' /\ SendsInWindow'
        BY <1>4, <2>1, <3>1
           DEF NameAnswered, OneName, SendsInWindow, Holds, Closed, FirstUpper
      <3> QED BY <1>1, <3>1, <3>2 DEF NamedOnce
    <2>3. CASE Handles
      <3>1. /\ toServer'.late = {} /\ f # "FNAME" /\ qs # <<>>
            /\ \A i \in DOMAIN rs : i + 1 \in DOMAIN qs /\ rs[i] = qs[i + 1]
        <4>1. Readable(toServer) /\ toServer' = Received(toServer)
          BY <2>3 DEF Handles
        <4>2. 1 \in DOMAIN qs /\ Head(qs) = qs[1]
          BY <1>0, <4>1, FrontTaken
        <4> QED BY <1>0, <1>1, <2>1, <4>1, <4>2, FrontTaken, ReceivedEnds
                DEF Holds, Readable
      <3>2. ~Holds(toServer', "FNAME")
        BY <2>1, <3>1 DEF Holds
      <3>3. AddsNo("FNAME_RES") /\ UNCHANGED sstate
        BY <2>1, <2>3, <3>1 DEF Handles
      <3>4. ~Holds(toClient', "FNAME_RES")
        <4>1. /\ DOMAIN qc = 1 .. Len(qc) /\ Len(qc) \in Nat
              /\ DOMAIN rc = 1 .. Len(rc) /\ Len(rc) \in Nat
          BY <1>0, InboxType
        <4>2. /\ \A i \in 1 .. Len(qc) : rc[i] = qc[i]
              /\ \A i \in Len(qc) + 1 .. Len(rc) : rc[i].flag # "FNAME_RES"
          BY <3>3 DEF AddsNo, Longer
        <4>3. \A i \in DOMAIN qc : qc[i].flag # "FNAME_RES"
          BY <2>1, <3>1 DEF Holds
        <4> HIDE DEF qc, rc
        <4>4. \A i \in DOMAIN rc : rc[i].flag # "FNAME_RES"
          BY <4>1, <4>2, <4>3
        <4> QED BY <4>4 DEF Holds, rc
      <3>5. toClient'.late = {}
        BY <1>1, <3>3 DEF AddsNo
      <3>6. NameAnswered' /\ OneName' /\ SendsInWindow'
        BY <1>4, <2>1, <3>2, <3>3, <3>4
           DEF NameAnswered, OneName, SendsInWindow, Closed
      <3> QED BY <1>1, <3>1, <3>3, <3>5, <3>6 DEF NamedOnce
    <2> QED BY <2>2, <2>3
  <1> QED BY <1>3, <1>4

\* What holds before a step.
Named == TypeOK /\ (Timely => NamedOnce /\ ~overrun)

\* SETUP_RES is all that is on the way.
LEMMA InitNamed ==
    ASSUME KeepsOrder
    PROVE  Init => Named
  <1> SUFFICES ASSUME Init PROVE NamedOnce /\ ~overrun
    BY InitType DEF Named
  <1>1. /\ cstate = "FILENAME" /\ fnameRetry = 0 /\ sstate = "FILENAME" /\ ~overrun
        /\ window.current = 1 /\ window.upper = FirstUpper
        /\ toServer = FreshSocket /\ toClient \in SetupAnswers
    BY DEF Init, RcopyInit, ServerInit
  <1>2. toServer.inbox = <<>> /\ toServer.late = {} /\ DOMAIN toServer.inbox = {}
    BY <1>1 DEF FreshSocket, NewSocket, EmptySocket
  <1>3. toClient.late = {} /\ Len(toClient.inbox) = 1
    <2>1. /\ FreshSocket.late = {} /\ "twice" \notin Fates
      BY DEF FreshSocket, NewSocket, EmptySocket, KeepsOrder
    <2>2. \E m : toClient.inbox = <<m>>
      BY <1>1 DEF SetupAnswers, FreshSocket, NewSocket, EmptySocket
    <2>3. toClient.late = {}
      BY <1>1, <2>1 DEF SetupAnswers, FreshSocket, NewSocket, EmptySocket
    <2> QED BY <2>2, <2>3
  <1>4. Len(toServer.inbox) = 0
    BY <1>2, EmptySeq
  <1>5. Len(toServer.inbox) + Len(toClient.inbox) <= 1
    BY <1>3, <1>4
  <1>6. OneName
    BY <1>1, <1>2, <1>5 DEF OneName
  <1>7. NameAnswered /\ SendsInWindow /\ sstate # "CONNECTION"
    BY <1>1 DEF NameAnswered, SendsInWindow, Introducing
  <1> QED BY <1>1, <1>2, <1>3, <1>6, <1>7 DEF NamedOnce

LEMMA NextNamed ==
    ASSUME KeepsOrder, Named, [Next]_vars
    PROVE  Named'
  <1>1. TypeOK /\ TypeOK'
    BY NextType DEF Named
  <1> SUFFICES ASSUME Timely PROVE NamedOnce' /\ ~overrun'
    BY <1>1 DEF Named
  <1>2. NamedOnce /\ ~overrun /\ overrun \in BOOLEAN /\ overrun' \in BOOLEAN
    BY <1>1 DEF Named, TypeOK, ClientTypeOK
  <1>3. CASE RcopyNext /\ UNCHANGED serverVars
    <2>1. Running
      BY <1>3 DEF Running, RcopyNext, RcopyTimeout, Filename, GetData, SendData,
                WindowStatus, FilenameFirst, FilenameGarbled, FilenameAgain,
                FilenameAnswered, FilenameTimeout, GetNothing,
                GetUnknown, GetFnameRes, GetFopenErr, GetRR, GetSREJ, GetEoF,
                SendChunk, ReachEndOfFile, ReadError, WindowOpen, WindowAnswered,
                WindowGivesUp, WindowResends, WindowSendsEoF
    <2>2. CASE (Filename \/ FilenameTimeout) /\ Running'
      <3>1. UNCHANGED overrun
        BY <2>2 DEF Filename, FilenameFirst, FilenameGarbled, FilenameAgain,
               FilenameAnswered, FilenameTimeout, SendFname, windowVars
      <3> QED BY <1>1, <1>2, <1>3, <2>1, <2>2, <3>1, ClientIntroduces
    <2>3. CASE ~Filename /\ ~FilenameTimeout /\ Running'
      <3>1. GoesOn /\ UNCHANGED sstate
        BY <1>1, <1>3, <2>3, ClientGoesOn DEF serverVars
      <3> QED BY <1>1, <1>2, <2>1, <3>1, ClientKeepsNamed
    <2>4. CASE ~Running'
      <3>1. NamedOnce'
        BY <2>4 DEF NamedOnce
      <3>2. ~SendChunk
        BY <2>4 DEF SendChunk, GoTo, Running
      <3>3. overrun' = overrun
        BY <1>3, <3>2
            DEF RcopyNext, RcopyTimeout, Filename, GetData, SendData,
                WindowStatus, FilenameFirst, FilenameGarbled, FilenameAgain,
                FilenameAnswered, FilenameTimeout, SendFname, GetNothing,
                GetUnknown, GetFnameRes, GetFopenErr, GetRR, GetSREJ, GetEoF,
                ReachEndOfFile, ReadError, WindowOpen, WindowAnswered,
                WindowGivesUp, WindowResends, WindowSendsEoF, windowVars
      <3> QED BY <1>2, <3>1, <3>3
    <2> QED BY <2>2, <2>3, <2>4
  <1>4. CASE ServerNext /\ UNCHANGED rcopyVars
    <2>1. UNCHANGED <<cstate, window, fnameRetry, overrun>>
      BY <1>4 DEF rcopyVars, windowVars
    <2>2. CASE ~Running
      BY <1>2, <2>1, <2>2 DEF Running, NamedOnce
    <2>3. CASE Running
      <3>1. sstate # "CONNECTION"
        BY <1>2, <2>3 DEF NamedOnce
      <3>2. Quits \/ Handles
        BY <1>1, <1>4, <3>1, ServerTakes
      <3> QED BY <1>1, <1>2, <2>1, <2>3, <3>2, ServerKeepsNamed
    <2> QED BY <2>2, <2>3
  <1>5. CASE LateArrival /\ UNCHANGED <<rcopyVars, serverVars>>
    <2>1. UNCHANGED <<cstate, overrun>>
      BY <1>5 DEF rcopyVars, windowVars
    <2>2. Running => FALSE
      BY <1>2, <1>5 DEF NamedOnce, LateArrival, Overtaken
    <2> QED BY <1>2, <2>1, <2>2 DEF NamedOnce, Running
  <1>6. CASE UNCHANGED vars
    <2>1. UNCHANGED <<cstate, fnameRetry, window, overrun, sstate, toServer, toClient>>
      BY <1>6 DEF vars, rcopyVars, windowVars, serverVars, networkVars
    <2> QED BY <1>2, <2>1
            DEF NamedOnce, Running, OneName, NameAnswered, SendsInWindow, Closed
  <1> QED BY <1>3, <1>4, <1>5, <1>6 DEF Next

\* On a network that keeps the order, with a server that answers within the
\* second, send_data of rcopy.c never sends a chunk beyond its window, although
\* get_data calls it for every FNAME_RES without a look at the window: filename()
\* sends FNAME again only once the first and its answer are lost.
THEOREM WindowIsKept == KeepsOrder => (Spec => []WindowKept)
  <1> SUFFICES ASSUME KeepsOrder PROVE Spec => []WindowKept
    OBVIOUS
  <1>1. Init => Named
    BY InitNamed
  <1>2. Named /\ [Next]_vars => Named'
    BY NextNamed
  <1>3. Named => WindowKept
    BY DEF Named, WindowKept
  <1> QED BY <1>1, <1>2, <1>3, PTL DEF Spec

(***************************************************************************)
(* What the server knows of.                                               *)
(***************************************************************************)

\* With nothing missing, nothing is missing but any one chunk.
LEMMA NothingMissing ==
    ASSUME NEW k \in Nat, KnownBut(0)
    PROVE  KnownBut(k)
  <1>1. \A n \in Int : \A q \in 1 .. n : q # 0
    OBVIOUS
  <1> QED BY <1>1 DEF KnownBut

\* A buffer that was never used waits for nothing.
LEMMA NothingWaits ==
    ASSUME TypeOK, Untouched, NEW k \in Nat
    PROVE  WaitsFor(k) /\ \A b \in Int : ~Buffered(b)
  <1>1. \A b \in Int : ~Buffered(b)
    BY SlotOfType DEF Untouched, Buffered, init_queue
  <1>2. expected \in Int /\ WindowSize \in Int
    BY Numbers
  <1> QED BY <1>1, <1>2 DEF WaitsFor

\* Known, of the step that follows.
KnownAfter(x, n) ==
    \/ x < expected'
    \/ /\ x \in expected' + 1 .. expected' + WindowSize - 1
       /\ squeue'[SlotOf(x)] # <<>>
    \/ \E i \in 1 .. n : toServer'.inbox[i].flag = "DATA" /\ toServer'.inbox[i].seq = x

LEMMA KnownNext ==
    ASSUME NEW k,
           (Running /\ sstate # "DONE")' =>
             \A x \in 1 .. nread' : x = k \/ KnownAfter(x, Len(toServer'.inbox)),
           \A i \in DOMAIN toServer'.inbox :
             toServer'.inbox[i].flag = "DATA" =>
               \A x \in 1 .. toServer'.inbox[i].seq - 1 : x = k \/ KnownAfter(x, i - 1)
    PROVE  KnownBut(k)'
  BY DEF KnownBut, Known, Buffered, KnownAfter

\* A packet sent leaves what was known, and makes itself known.
LEMMA ClientKeepsKnown ==
    ASSUME TypeOK, NetworkTypeOK', NEW k \in Nat, KnownBut(k),
           Running, sstate # "DONE", UNCHANGED <<sstate, expected, squeue>>,
           nread' \in {nread, nread + 1},
           \/ toServer'.inbox = toServer.inbox
           \/ \E m \in Messages :
                /\ toServer'.inbox = Append(toServer.inbox, m)
                /\ m.flag = "DATA" => m.seq <= nread + 1 \/ m.seq <= expected,
           nread' = nread + 1 =>
             \/ k = nread + 1
             \/ \E m \in Messages :
                  /\ toServer'.inbox = Append(toServer.inbox, m)
                  /\ m.flag = "DATA" /\ m.seq = nread + 1
    PROVE  KnownBut(k)'
  <1> DEFINE q == toServer.inbox
             r == toServer'.inbox
  <1>0. /\ expected \in Nat /\ nread \in Nat /\ WindowSize \in Nat
    BY Numbers
  <1>1. /\ Len(q) \in Nat /\ DOMAIN q = 1 .. Len(q) /\ q \in Seq(Messages)
        /\ Len(r) \in Nat /\ DOMAIN r = 1 .. Len(r)
        /\ \A i \in DOMAIN q : q[i] \in Messages
        /\ \A i \in DOMAIN r : r[i] \in Messages
    BY InboxType DEF TypeOK, NetworkTypeOK
  <1>2. \A m \in Messages : r = Append(q, m) =>
          /\ Len(r) = Len(q) + 1 /\ r[Len(q) + 1] = m
          /\ \A i \in 1 .. Len(q) : r[i] = q[i]
    BY <1>1, AppendProperties
  <1>3. Len(r) >= Len(q) /\ \A i \in 1 .. Len(q) : r[i] = q[i]
    BY <1>1, <1>2
  <1>4. ASSUME NEW x, NEW j \in Nat, NEW l \in Nat, j <= Len(q), j <= l,
               Known(x, j)
        PROVE  KnownAfter(x, l)
    <2>1. \A i \in 1 .. j : i \in 1 .. l /\ r[i] = q[i]
      <3> HIDE DEF q, r
      <3> QED BY <1>1, <1>3, <1>4
    <2>2. CASE \E i \in 1 .. j : q[i].flag = "DATA" /\ q[i].seq = x
      BY <2>1, <2>2 DEF KnownAfter
    <2>3. CASE x < expected \/ Buffered(x)
      BY <2>3 DEF KnownAfter, Buffered
    <2> QED BY <1>4, <2>2, <2>3 DEF Known
  <1>5. \A x \in 1 .. nread : x = k \/ Known(x, Len(q))
    BY DEF KnownBut
  <1>6. ASSUME NEW x \in 1 .. nread', x # k PROVE KnownAfter(x, Len(r))
    <2>1. CASE x \in 1 .. nread
      <3> HIDE DEF q, r
      <3> QED BY <1>1, <1>3, <1>4, <1>5, <1>6, <2>1
    <2>2. CASE x \notin 1 .. nread
      <3>1. nread' = nread + 1 /\ x = nread + 1
        BY <1>0, <1>6, <2>2
      <3>2. PICK m \in Messages : r = Append(q, m) /\ m.flag = "DATA" /\ m.seq = nread + 1
        BY <1>6, <3>1
      <3>3. r[Len(q) + 1] = m /\ Len(q) + 1 \in 1 .. Len(r)
        <4> HIDE DEF q, r
        <4> QED BY <1>1, <1>2, <3>2
      <3> QED BY <3>1, <3>2, <3>3 DEF KnownAfter
    <2> QED BY <2>1, <2>2
  <1>7. ASSUME NEW i \in DOMAIN r, r[i].flag = "DATA", NEW x \in 1 .. r[i].seq - 1, x # k
        PROVE  KnownAfter(x, i - 1)
    <2>1. CASE i \in DOMAIN q
      <3>1. r[i] = q[i] /\ i - 1 \in Nat /\ i - 1 <= Len(q)
        <4> HIDE DEF q, r
        <4> QED BY <1>1, <1>3, <2>1
      <3>2. Known(x, i - 1)
        BY <1>7, <2>1, <3>1 DEF KnownBut
      <3> QED BY <1>4, <3>1, <3>2
    <2>2. CASE i \notin DOMAIN q
      <3>1. PICK m \in Messages :
              /\ r = Append(q, m)
              /\ m.flag = "DATA" => m.seq <= nread + 1 \/ m.seq <= expected
        BY <1>1, <1>7, <2>2
      <3> HIDE DEF q, r
      <3>2. i = Len(q) + 1 /\ r[i] = m
        BY <1>1, <1>2, <2>2, <3>1
      <3>3. m.seq \in Nat /\ i - 1 = Len(q)
        BY <1>1, <3>2 DEF Messages
      <3>4. x \in 1 .. nread \/ x < expected
        BY <1>0, <1>7, <3>1, <3>2, <3>3
      <3>5. x < expected => Known(x, Len(q))
        BY DEF Known
      <3>6. Known(x, Len(q))
        BY <1>5, <1>7, <3>4, <3>5
      <3> QED BY <1>1, <1>4, <3>3, <3>6
    <2> QED BY <2>1, <2>2
  <1> QED BY <1>6, <1>7, KnownNext

\* A packet that the server takes leaves what was known.
LEMMA ServerKeepsKnown ==
    ASSUME TypeOK, NetworkTypeOK', NEW k \in Nat, KnownBut(k),
           Readable(toServer), toServer' = Received(toServer),
           sstate # "DONE", UNCHANGED <<cstate, nread>>,
           expected' \in Nat, expected' >= expected,
           \A x \in Int : Buffered(x) => KnownAfter(x, 0),
           Head(toServer.inbox).flag = "DATA" =>
             KnownAfter(Head(toServer.inbox).seq, 0)
    PROVE  KnownBut(k)'
  <1> DEFINE q == toServer.inbox
             r == toServer'.inbox
  <1>0. /\ expected \in Nat /\ nread \in Nat
    BY Numbers
  <1>1. /\ Len(q) \in Nat \ {0} /\ 1 \in DOMAIN q /\ Head(q) = q[1]
        /\ Len(r) = Len(q) - 1 /\ DOMAIN q = 1 .. Len(q)
        /\ \A i \in DOMAIN r : i + 1 \in DOMAIN q /\ r[i] = q[i + 1]
        /\ DOMAIN r = 1 .. Len(r)
        /\ \A i \in DOMAIN q : q[i] \in Messages
    BY FrontTaken, InboxType DEF TypeOK, NetworkTypeOK
  <1>2. ASSUME NEW x \in Int, NEW j \in Nat, j <= Len(q), Known(x, j),
               NEW l \in Nat, l >= j - 1
        PROVE  KnownAfter(x, l)
    <2>0. ASSUME KnownAfter(x, 0) PROVE KnownAfter(x, l)
      <3>1. 1 .. 0 = {}
        OBVIOUS
      <3> QED BY <2>0, <3>1 DEF KnownAfter
    <2>1. CASE x < expected
      <3>1. x < expected'
        BY <1>0, <2>1
      <3> QED BY <3>1 DEF KnownAfter
    <2>2. CASE Buffered(x)
      BY <2>0, <2>2
    <2>3. CASE \E i \in 1 .. j : q[i].flag = "DATA" /\ q[i].seq = x
      <3>1. PICK i \in 1 .. j : q[i].flag = "DATA" /\ q[i].seq = x
        BY <2>3
      <3>2. CASE i = 1
        BY <1>1, <2>0, <3>1, <3>2
      <3>3. CASE i # 1
        <4>1. i - 1 \in DOMAIN r /\ i - 1 \in 1 .. l /\ i - 1 + 1 = i
          <5> HIDE DEF q, r
          <5> QED BY <1>1, <1>2, <3>1, <3>3
        <4>2. r[i - 1] = q[i]
          <5> HIDE DEF q, r
          <5> QED BY <1>1, <4>1
        <4> QED BY <3>1, <4>1, <4>2 DEF KnownAfter
      <3> QED BY <3>2, <3>3
    <2> QED BY <1>2, <2>1, <2>2, <2>3 DEF Known
  <1>3. ASSUME Running', NEW x \in 1 .. nread, x # k PROVE KnownAfter(x, Len(r))
    <2>1. Running
      BY <1>3 DEF Running
    <2>2. Known(x, Len(q))
      BY <1>3, <2>1 DEF KnownBut
    <2>3. x \in Int /\ Len(r) \in Nat /\ Len(r) >= Len(q) - 1
      <3> HIDE DEF q, r
      <3> QED BY <1>0, <1>1
    <2> HIDE DEF q, r
    <2> QED BY <1>1, <1>2, <2>2, <2>3
  <1>4. ASSUME NEW i \in DOMAIN r, r[i].flag = "DATA", NEW x \in 1 .. r[i].seq - 1, x # k
        PROVE  KnownAfter(x, i - 1)
    <2>1. i + 1 \in DOMAIN q /\ r[i] = q[i + 1] /\ i + 1 - 1 = i
          /\ i \in Nat /\ i - 1 \in Nat /\ i <= Len(q)
      <3> HIDE DEF q, r
      <3> QED BY <1>1
    <2>2. Known(x, i)
      BY <1>4, <2>1 DEF KnownBut
    <2>3. x \in Int
      BY <1>1, <1>4, <2>1 DEF Messages
    <2> QED BY <1>2, <2>1, <2>2, <2>3
  <1> QED BY <1>3, <1>4, KnownNext

(***************************************************************************)
(* What the client sends.                                                  *)
(***************************************************************************)

\* A packet goes to the server, or nowhere.
Sending(me, m) ==
    \/ /\ toServer.open /\ me.remote = toServer.name
       /\ SentTo(toServer, m, toServer') /\ faults' >= faults
    \/ /\ ~toServer.open \/ me.remote # toServer.name
       /\ UNCHANGED <<toServer, faults>>

LEMMA ClientSending ==
    ASSUME KeepsOrder, TypeOK, NEW me, NEW m \in Messages, SendToServer(me, m)
    PROVE  Sending(me, m)
  <1>0. toServer \in Sockets /\ faults \in 0 .. MaxFaults
    BY DEF TypeOK, NetworkTypeOK
  <1>1. CASE me.remote = toServer.name /\ Transmit(toServer, <<m>>, toServer')
    <2>1. SentTo(toServer, m, toServer') /\ faults' >= faults
      BY <1>0, <1>1, TransmitSends
    <2>2. ~toServer.open => UNCHANGED <<toServer, faults>>
      BY <1>1 DEF Transmit
    <2> QED BY <1>1, <2>1, <2>2 DEF Sending
  <1>2. CASE me.remote # toServer.name /\ UNCHANGED <<toServer, faults>>
    BY <1>2 DEF Sending
  <1> QED BY <1>1, <1>2 DEF SendToServer

\* It sends what it has read, or the next chunk, which it has just read.
Feeds ==
    \/ UNCHANGED <<toServer, faults, nread>>
    \/ /\ UNCHANGED nread
       /\ \E m \in Messages :
            /\ \E me : Sending(me, m)
            /\ m.flag = "DATA" =>
                 cstate \notin Introducing /\ (m.seq <= nread \/ m.seq <= expected)
    \/ /\ cstate \notin Introducing /\ nread' = nread + 1
       /\ \E m \in Messages :
            Sending(toClient, m) /\ m.flag = "DATA" /\ m.seq = nread + 1

LEMMA ClientFeeds ==
    ASSUME KeepsOrder, Before, RcopyNext
    PROVE  Feeds
  <1>0. TypeOK /\ RunsUntilReport /\ toClient \in Sockets /\ cqueue \in [Slots -> Bytes]
        /\ window.lower \in Nat /\ window.lower <= expected
    BY Numbers DEF Before, Inductive, TypeOK, ClientTypeOK, NetworkTypeOK, AckNeverAhead
  <1>1. ASSUME NEW me, NEW flag \in Flags \ {"DATA"}, SendToServer(me, Signal(flag)),
               UNCHANGED nread
        PROVE  Feeds
    <2>1. Signal(flag) \in Messages /\ Signal(flag).flag = flag
      BY PacketType DEF Signal, Packet
    <2>2. Sending(me, Signal(flag))
      BY <1>0, <1>1, <2>1, ClientSending
    <2> QED BY <1>1, <2>1, <2>2 DEF Feeds
  <1>2. ASSUME NEW me, NEW seq \in Nat, Resend(me, seq), UNCHANGED nread,
               cstate \notin Introducing, seq <= nread \/ seq <= expected
        PROVE  Feeds
    <2> DEFINE m == Packet("DATA", seq, UpToNul(cqueue[SlotOf(seq)]))
    <2>1. UpToNul(cqueue[SlotOf(seq)]) \in Bytes
      <3>1. SlotOf(seq) \in Slots
        BY SlotOfType
      <3> QED BY <1>0, <3>1, UpToNulType
    <2>2. m \in Messages /\ m.flag = "DATA" /\ m.seq = seq
      BY <2>1, PacketType DEF Packet, Flags
    <2>3. Sending(me, m)
      BY <1>0, <1>2, <2>2, ClientSending DEF Resend
    <2> HIDE DEF m
    <2> QED BY <1>2, <2>2, <2>3 DEF Feeds
  <1>3. CASE UNCHANGED <<toServer, faults, nread>>
    BY <1>3 DEF Feeds
  <1>4. CASE Filename \/ FilenameTimeout
    <2>1. \/ UNCHANGED <<toServer, faults, nread>>
          \/ UNCHANGED nread /\ \E me : SendToServer(me, Signal("FNAME"))
      BY <1>4 DEF Filename, FilenameFirst, FilenameGarbled, FilenameAgain,
                  FilenameAnswered, FilenameTimeout, SendFname, networkVars, windowVars
    <2> QED BY <1>1, <1>3, <2>1 DEF Flags
  <1>5. CASE GetSREJ
    <2> DEFINE m == Head(toClient.inbox)
    <2>1. m \in Messages /\ m \in OnTheWay(toClient) /\ m.flag = "SREJ" /\ UNCHANGED nread
      BY <1>0, <1>5, ReceivedType DEF GetSREJ, windowVars
    <2>2. m.seq \in Nat /\ m.seq <= nread
      BY <2>1 DEF Messages, Before, Inductive, OnlyWhatWasRead
    <2>3. UNCHANGED <<toServer, faults>> \/ Resend(toClient', m.seq)
      BY <1>5 DEF GetSREJ
    <2>4. cstate \notin Introducing
      BY <1>5 DEF GetSREJ, Introducing
    <2> HIDE DEF m
    <2> QED BY <1>2, <1>3, <2>1, <2>2, <2>3, <2>4
  <1>6. CASE GetEoF
    BY <1>1, <1>6 DEF GetEoF, windowVars, Flags
  <1>7. CASE SendChunk
    <2> DEFINE m == Packet("DATA", window.current, File[nread + 1])
    <2>1. cstate = "SEND_DATA" /\ outcome = "running" /\ nread < Len(File) /\ nread' = nread + 1
      BY <1>0, <1>7 DEF SendChunk, RunsUntilReport
    <2>2. window.current = nread + 1 /\ nread + 1 \in 1 .. Len(File)
      <3>1. ClientStep
        BY <1>0, RcopyNextEffect
      <3>2. nread' # nread
        BY <1>0, <2>1, Numbers
      <3>3. ReadsChunk
        BY <3>1, <3>2 DEF ClientStep
      <3> QED BY <3>3, ReadsBeforeEnd
    <2>3. File[nread + 1] \in Bytes /\ window.current \in Nat
      <3>1. window.current \in Nat /\ File \in Seq(Bytes) /\ nread + 1 \in DOMAIN File
        BY <1>0, <2>2, Numbers, RcopyAssumption
      <3> QED BY <3>1
    <2>4. m \in Messages /\ m.flag = "DATA" /\ m.seq = nread + 1
      <3>1. m \in Messages
        BY <2>3, PacketType DEF Flags
      <3>2. m.flag = "DATA" /\ m.seq = window.current
        BY DEF Packet
      <3> QED BY <2>2, <3>1, <3>2
    <2>5. SendToServer(toClient, m)
      BY <1>7 DEF SendChunk
    <2>6. Sending(toClient, m)
      BY <1>0, <2>4, <2>5, ClientSending
    <2> HIDE DEF m
    <2> QED BY <2>1, <2>4, <2>6 DEF Feeds, Introducing
  <1>8. CASE WindowResends
    <2>1. UNCHANGED nread /\ cstate \notin Introducing
      BY <1>8 DEF WindowResends, Introducing
    <2>2. UNCHANGED <<toServer, faults>> \/ Resend(toClient, window.lower)
      BY <1>8 DEF WindowResends
    <2> QED BY <1>0, <1>2, <1>3, <2>1, <2>2
  <1>9. CASE WindowSendsEoF
    BY <1>1, <1>9 DEF WindowSendsEoF, Flags
  <1>10. CASE \/ GetNothing \/ GetUnknown \/ GetFnameRes \/ GetFopenErr \/ GetRR
              \/ ReachEndOfFile \/ ReadError \/ WindowStatus \/ WindowGivesUp
    BY <1>3, <1>10
       DEF GetNothing, GetUnknown, GetFnameRes, GetFopenErr, GetRR, ReachEndOfFile,
           ReadError, WindowStatus, WindowOpen, WindowAnswered, WindowGivesUp,
           windowVars, networkVars
  <1> QED BY <1>4, <1>5, <1>6, <1>7, <1>8, <1>9, <1>10
          DEF RcopyNext, RcopyTimeout, GetData, SendData

\* A packet that the client sends arrives, or is the one packet lost, and then
\* its chunk is the one chunk that may be missing.
LEMMA ClientKeepsGap ==
    ASSUME KeepsOrder, Timely, TypeOK, TypeOK', Running, NamedOnce, OneGap, Feeds,
           sstate # "DONE" => Linked,
           UNCHANGED serverVars
    PROVE  OneGap'
  <1>0. /\ expected \in Nat \ {0} /\ nread \in Nat /\ nread' \in Nat
        /\ faults \in Nat /\ faults' \in Nat
        /\ toServer \in Sockets /\ toServer' \in Sockets /\ NetworkTypeOK'
    BY Numbers DEF TypeOK, ClientTypeOK, NetworkTypeOK
  <1>1. UNCHANGED <<sstate, expected, squeue, srejTotal, rejects>>
    BY DEF serverVars, recvVars
  <1>2. \A k : WaitsFor(k) => WaitsFor(k)'
    BY <1>1 DEF WaitsFor, Untouched, Buffered
  <1>3. Untouched' = Untouched
    BY <1>1 DEF Untouched
  <1>4. ASSUME toServer' = toServer, faults' = faults,
               nread' = nread \/ (nread' = nread + 1 /\ sstate = "DONE")
        PROVE  OneGap'
    <2>1. \A k : KnownBut(k) => KnownBut(k)'
      BY <1>1, <1>4 DEF KnownBut, Known, Buffered
    <2>2. \A k \in 0 .. nread : k \in 0 .. nread'
      BY <1>0, <1>4
    <2> QED BY <1>1, <1>2, <1>3, <1>4, <2>1, <2>2 DEF OneGap, Holds
  <1>5. ASSUME NEW m \in Messages, toServer.open,
               SentTo(toServer, m, toServer'), faults' >= faults,
               m.flag = "DATA" =>
                 cstate \notin Introducing /\ (m.seq <= nread + 1 \/ m.seq <= expected),
               \/ nread' = nread
               \/ nread' = nread + 1 /\ m.flag = "DATA" /\ m.seq = nread + 1
        PROVE  OneGap'
    <2> DEFINE q == toServer.inbox
               r == toServer'.inbox
    <2>1. sstate \notin {"DONE", "CONNECTION"} /\ (cstate \notin Introducing => sstate # "FILENAME")
      BY <1>5 DEF OneGap, NamedOnce, NameAnswered
    <2>2. \/ r = Append(q, m)
          \/ faults' > faults /\ (r = q \/ \E n \in Noise : r = Append(q, n))
      BY <1>5 DEF SentTo
    <2>3. \/ r = q
          \/ \E n \in Messages : r = Append(q, n) /\ (n.flag # "DATA" \/ n = m)
      BY <2>2 DEF Noise
    <2>4. toServer'.late = {}
      BY <1>5 DEF SentTo, SameEnds, OneGap
    <2>5. sstate' \in {"FILENAME", "CONNECTION"} => ~Holds(toServer', "DATA")
      <3> SUFFICES ASSUME sstate = "FILENAME" PROVE ~Holds(toServer', "DATA")
        BY <1>1, <2>1
      <3>1. ~Holds(toServer, "DATA") /\ m.flag # "DATA"
        BY <1>5, <2>1 DEF OneGap
      <3>2. CASE r = q
        BY <3>1, <3>2 DEF Holds
      <3>3. ASSUME NEW n \in Messages, r = Append(q, n), n.flag # "DATA"
            PROVE  ~Holds(toServer', "DATA")
        <4>1. q \in Seq(Messages) /\ Len(q) \in Nat /\ DOMAIN q = 1 .. Len(q)
          BY <1>0, InboxType
        <4>2. DOMAIN r = 1 .. Len(q) + 1 /\ r[Len(q) + 1] = n
              /\ \A i \in 1 .. Len(q) : r[i] = q[i]
          BY <3>3, <4>1, AppendProperties
        <4>3. \A i \in DOMAIN r : i \in DOMAIN q \/ i = Len(q) + 1
          <5> HIDE DEF q, r
          <5> QED BY <4>1, <4>2
        <4> QED BY <3>1, <3>3, <4>1, <4>2, <4>3 DEF Holds
      <3> QED BY <2>3, <3>1, <3>2, <3>3
    <2>6. ASSUME NEW k \in Nat, KnownBut(k), k = nread' \/ nread' = nread \/ r = Append(q, m)
          PROVE  KnownBut(k)'
      <3>1. \/ toServer'.inbox = toServer.inbox
            \/ \E n \in Messages :
                 /\ toServer'.inbox = Append(toServer.inbox, n)
                 /\ n.flag = "DATA" => n.seq <= nread + 1 \/ n.seq <= expected
        BY <1>5, <2>3
      <3>2. nread' = nread + 1 =>
              \/ k = nread + 1
              \/ \E n \in Messages :
                   /\ toServer'.inbox = Append(toServer.inbox, n)
                   /\ n.flag = "DATA" /\ n.seq = nread + 1
        <4>1. nread + 1 # nread
          BY <1>0
        <4> QED BY <1>5, <2>6, <4>1
      <3>3. nread' \in {nread, nread + 1}
        BY <1>5
      <3> HIDE DEF q, r
      <3> QED BY <1>0, <1>1, <2>1, <2>6, <3>1, <3>2, <3>3, ClientKeepsKnown
    <2>7. faults' = 0 => KnownBut(0)' /\ Untouched'
      <3> SUFFICES ASSUME faults' = 0 PROVE KnownBut(0)' /\ Untouched'
        OBVIOUS
      <3>1. faults = 0 /\ ~(faults' > faults)
        BY <1>0, <1>5
      <3> QED BY <1>3, <2>2, <2>6, <3>1 DEF OneGap
    <2>8. faults' = 1 => \E k \in 0 .. nread' : KnownBut(k)' /\ WaitsFor(k)'
      <3> SUFFICES ASSUME faults' = 1
                   PROVE  \E k \in 0 .. nread' : KnownBut(k)' /\ WaitsFor(k)'
        OBVIOUS
      <3>1. CASE faults = 0
        <4>1. KnownBut(0) /\ Untouched
          BY <3>1 DEF OneGap
        <4>2. PICK k \in Nat : k = nread' /\ k \in 0 .. nread'
          BY <1>0
        <4>3. KnownBut(k) /\ WaitsFor(k)
          BY <4>1, NothingMissing, NothingWaits
        <4> QED BY <1>2, <2>6, <4>2, <4>3
      <3>2. CASE faults # 0
        <4>1. faults = 1 /\ ~(faults' > faults)
          BY <1>0, <1>5, <3>2
        <4>2. PICK k \in 0 .. nread : KnownBut(k) /\ WaitsFor(k)
          BY <4>1 DEF OneGap
        <4>3. k \in Nat /\ k \in 0 .. nread'
          BY <1>0, <1>5
        <4> QED BY <1>2, <2>2, <2>6, <4>1, <4>2, <4>3
      <3> QED BY <3>1, <3>2
    <2> QED BY <1>1, <2>1, <2>4, <2>5, <2>7, <2>8 DEF OneGap
  <1>6. CASE UNCHANGED <<toServer, faults, nread>>
    BY <1>4, <1>6
  <1>7. ASSUME NEW me, NEW m \in Messages, Sending(me, m), UNCHANGED nread,
               m.flag = "DATA" =>
                 cstate \notin Introducing /\ (m.seq <= nread \/ m.seq <= expected)
        PROVE  OneGap'
    <2>1. m.seq <= nread => m.seq <= nread + 1
      BY <1>0 DEF Messages
    <2> QED BY <1>4, <1>5, <1>7, <2>1 DEF Sending
  <1>8. ASSUME NEW m \in Messages, Sending(toClient, m), m.flag = "DATA",
               m.seq = nread + 1, cstate \notin Introducing, nread' = nread + 1
        PROVE  OneGap'
    <2>1. m.seq <= nread + 1
      BY <1>0, <1>8
    <2>2. sstate # "DONE" => toServer.open /\ toClient.remote = toServer.name
      BY DEF Linked
    <2> QED BY <1>4, <1>5, <1>8, <2>1, <2>2 DEF Sending
  <1> QED BY <1>6, <1>7, <1>8 DEF Feeds

(***************************************************************************)
(* The slot of the chunk that is missing.                                  *)
(***************************************************************************)

\* get_data of server.c looks a slot up with the wrong width, and so a little
\* too far to the front: it does not see the chunk in the slot behind, nor, of
\* one in the first slot, more than the byte after the chunk.
LEMMA LooksEmpty ==
    ASSUME NEW queue \in [Slots -> Bytes], NEW i \in Slots, NEW s \in Slots,
           s # i, s = i + 1 \/ s = 0, Len(queue[s]) <= BufSize,
           \A j \in Slots \ {s} : queue[j] = <<>>
    PROVE  IsNullMisaligned(queue, i)
  <1> DEFINE w == BufSize + 1
  <1>0. /\ BufSize \in Nat /\ BufSize >= 1 /\ w \in Nat /\ w > 0 /\ i \in Nat
        /\ i < WindowSize /\ i * BufSize \in Nat /\ s \in Nat
        /\ WindowSize \in Nat
    BY SizesPositive DEF Slots
  <1> SUFFICES ASSUME NEW p \in i * BufSize .. i * BufSize + BufSize - 1
               PROVE  ByteAt(queue, p) = 0
    BY DEF IsNullMisaligned
  <1> DEFINE d == p \div w
             b == p % w
  <1>1. /\ p \in Int /\ p >= i * BufSize /\ p <= i * BufSize + BufSize - 1
        /\ d \in Int /\ b \in Nat /\ b < w /\ p >= 0
    BY <1>0
  <1>2. p = w * d + b
    BY <1>0, <1>1, Division
  <1> HIDE DEF d, b
  <1>3. w * d = BufSize * d + d
    BY <1>0, <1>1
  <1>4. d >= 0
    <2> SUFFICES ASSUME d < 0 PROVE FALSE
      BY <1>1
    <2>1. w * (-d) >= w
      BY <1>0, <1>1, PositiveMultiple
    <2>2. w * (-d) = -(w * d)
      BY <1>0, <1>1
    <2>3. w * d \in Int
      BY <1>0, <1>1
    <2> QED BY <1>0, <1>1, <1>2, <2>1, <2>2, <2>3
  <1>5. d <= i
    <2> SUFFICES ASSUME d > i PROVE FALSE
      BY <1>0, <1>1
    <2>1. BufSize * (d - i) >= BufSize
      <3>1. d - i \in Int /\ d - i > 0
        BY <1>0, <1>1
      <3> QED BY <1>0, <3>1, PositiveMultiple
    <2>2. BufSize * (d - i) = BufSize * d - i * BufSize
      BY <1>0, <1>1
    <2>3. BufSize * d \in Int
      BY <1>0, <1>1
    <2> QED BY <1>0, <1>1, <1>2, <1>3, <1>4, <2>1, <2>2, <2>3
  <1>6. d \in Slots /\ d # i + 1
    BY <1>0, <1>1, <1>4, <1>5 DEF Slots
  <1>7. CASE d # s
    <2>1. queue[d] = <<>>
      BY <1>6, <1>7
    <2>2. b + 1 \notin DOMAIN queue[d]
      BY <2>1
    <2> QED BY <2>2 DEF ByteAt, d, b
  <1>8. CASE d = s
    <2>1. s = 0 /\ i > 0
      BY <1>0, <1>6, <1>8
    <2>2. i * BufSize >= BufSize
      <3>1. BufSize * i >= BufSize
        BY <1>0, <2>1, PositiveMultiple
      <3> QED BY <1>0, <3>1
    <2>3. b = p /\ b + 1 > BufSize
      <3>1. w * d = 0
        BY <1>0, <1>8, <2>1
      <3> QED BY <1>0, <1>1, <1>2, <2>2, <3>1
    <2>4. DOMAIN queue[d] = 1 .. Len(queue[d]) /\ Len(queue[d]) \in Nat
      <3>1. queue[d] \in Seq(Nat)
        BY <1>6 DEF Bytes
      <3> QED BY <3>1, LenProperties
    <2>5. b + 1 \notin DOMAIN queue[d]
      <3>1. Len(queue[d]) <= BufSize
        BY <1>8
      <3> QED BY <1>0, <1>1, <2>3, <2>4, <3>1
    <2> QED BY <2>5 DEF ByteAt, d, b
  <1> QED BY <1>7, <1>8

\* When nothing waits, every slot is empty.
LEMMA NothingBuffered ==
    ASSUME TypeOK, BufferedRight,
           \A b \in expected + 1 .. expected + WindowSize - 1 : ~Buffered(b)
    PROVE  \A i \in Slots : squeue[i] = <<>>
  BY DEF BufferedRight, Buffered

(***************************************************************************)
(* What get_data and handle_srej of the server leave waiting.              *)
(***************************************************************************)

\* Whatever the packet taken comes behind is there, but for the one missing.
LEMMA FrontKnown ==
    ASSUME TypeOK, NEW k, KnownBut(k), Readable(toServer),
           Head(toServer.inbox).flag = "DATA",
           NEW x \in 1 .. Head(toServer.inbox).seq - 1
    PROVE  x = k \/ x < expected \/ Buffered(x)
  <1> DEFINE q == toServer.inbox
  <1>1. 1 \in DOMAIN q /\ Head(q) = q[1]
    BY FrontTaken DEF TypeOK, NetworkTypeOK
  <1>2. x = k \/ Known(x, 1 - 1)
    BY <1>1 DEF KnownBut
  <1>3. 1 .. 1 - 1 = {}
    OBVIOUS
  <1> QED BY <1>2, <1>3 DEF Known

\* After the packet m, what waited waits or is taken, and so does or is m.
LeavesWaiting(k, m) ==
    /\ WaitsFor(k)'
    /\ \A x \in Int : Buffered(x) => KnownAfter(x, 0)
    /\ KnownAfter(m.seq, 0)

LEMMA InOrderWaits ==
    ASSUME Kept, NEW m \in Data, NEW k \in Nat, WaitsFor(k), InOrder(m)
    PROVE  LeavesWaiting(k, m)
  <1>0. /\ TypeOK /\ BufferedRight /\ expected \in Nat /\ WindowSize \in Nat
    BY Numbers DEF Kept, Before, OutputHeld
  <1>1. /\ m.seq = expected /\ srejTotal = 0 /\ expected' = expected + 1
        /\ UNCHANGED <<srejTotal, rejects, squeue>>
    BY DEF InOrder
  <1>2. \A b \in expected + 1 .. expected + WindowSize - 1 : ~Buffered(b)
    BY <1>1 DEF WaitsFor
  <1>3. \A i \in Slots : squeue'[i] = <<>>
    BY <1>0, <1>1, <1>2, NothingBuffered
  <1>4. \A b \in Int : squeue'[SlotOf(b)] = <<>>
    BY <1>3, SlotOfType
  <1>5. \A b \in expected' + 1 .. expected' + WindowSize - 1 : squeue'[SlotOf(b)] = <<>>
    BY <1>0, <1>1, <1>4
  <1>6. k >= expected' => k >= expected
    BY <1>0, <1>1
  <1>7. k >= expected' => Untouched'
    BY <1>1, <1>2, <1>6 DEF WaitsFor, Untouched
  <1>8. WaitsFor(k)'
    BY <1>5, <1>7 DEF WaitsFor, Buffered
  <1>9. KnownAfter(m.seq, 0)
    BY <1>0, <1>1 DEF KnownAfter
  <1>10. \A x \in Int : ~Buffered(x)
    BY <1>2 DEF Buffered
  <1> QED BY <1>8, <1>9, <1>10 DEF LeavesWaiting

\* handle_srej writes all that waited.
LEMMA FillsGapWaits ==
    ASSUME Kept, NEW m \in Data, NEW k \in Nat, WaitsFor(k), FillsGap(m)
    PROVE  LeavesWaiting(k, m)
  <1> DEFINE next  == expected + 1
             n     == RunLength(next)
             slots == {SlotOf(next + j - 1) : j \in 1 .. n}
  <1>0. /\ TypeOK /\ BufferedRight /\ TextOnly
        /\ expected \in Nat /\ WindowSize \in Nat
    BY Numbers DEF Kept, Before, OutputHeld
  <1>1. /\ m.seq = expected /\ srejTotal # 0 /\ expected' = next + n
        /\ squeue' = Emptied(slots)
    BY DEF FillsGap
  <1>2. n \in 0 .. WindowSize - 1 /\ IsNull(squeue, SlotOf(expected + 1 + n))
    BY <1>0, RunContents
  <1>3. n \in Nat /\ expected' \in Nat /\ expected' > expected
    <2> HIDE DEF n
    <2> QED BY <1>0, <1>1, <1>2
  <1> HIDE DEF n
  <1>4. ASSUME NEW b \in expected + 1 .. expected + WindowSize - 1, Buffered(b)
        PROVE  b <= expected + n
    <2> SUFFICES ASSUME b > expected + n PROVE FALSE
      BY <1>0, <1>3
    <2>1. expected + 1 + n \in expected + 1 .. b
      BY <1>0, <1>3
    <2>2. squeue[SlotOf(expected + 1 + n)] # <<>>
      BY <1>4, <2>1 DEF WaitsFor, Buffered
    <2>3. SlotOf(expected + 1 + n) \in Slots
      BY <1>0, <1>3, SlotOfType
    <2> QED BY <1>0, <1>2, <2>2, <2>3, SlotContents
  <1>5. ASSUME NEW i \in Slots PROVE squeue'[i] = <<>>
    <2> SUFFICES ASSUME i \notin slots, squeue[i] # <<>> PROVE FALSE
      BY <1>1 DEF Emptied
    <2>1. PICK b \in expected + 1 .. expected + WindowSize - 1 : SlotOf(b) = i
      BY <1>0 DEF BufferedRight
    <2>2. Buffered(b)
      BY <2>1 DEF Buffered
    <2>3. b <= expected + n
      BY <1>4, <2>2
    <2>4. b - expected \in 1 .. n /\ next + (b - expected) - 1 = b
      <3> HIDE DEF slots
      <3> QED BY <1>0, <1>3, <2>1, <2>3
    <2> QED BY <2>1, <2>4
  <1>6. \A b \in Int : squeue'[SlotOf(b)] = <<>>
    BY <1>5, SlotOfType
  <1>7. ~(k >= expected')
    <2> SUFFICES ASSUME k >= expected' PROVE FALSE
      OBVIOUS
    <2>1. k >= expected /\ k # expected
      BY <1>0, <1>3
    <2>2. PICK b \in expected + 1 .. expected + WindowSize - 1 : Buffered(b)
      BY <1>1, <2>1 DEF WaitsFor, Untouched
    <2> QED BY <2>1, <2>2 DEF WaitsFor
  <1>8. \A b \in expected' + 1 .. expected' + WindowSize - 1 : squeue'[SlotOf(b)] = <<>>
    BY <1>0, <1>3, <1>6
  <1>9. WaitsFor(k)'
    BY <1>7, <1>8 DEF WaitsFor, Buffered
  <1>10. ASSUME NEW x \in Int, Buffered(x) PROVE KnownAfter(x, 0)
    <2>1. x \in expected + 1 .. expected + WindowSize - 1
      BY <1>10 DEF Buffered
    <2>2. x < expected'
      BY <1>0, <1>1, <1>3, <1>4, <1>10, <2>1
    <2> QED BY <2>2 DEF KnownAfter
  <1>11. KnownAfter(m.seq, 0)
    BY <1>1, <1>3 DEF KnownAfter
  <1> QED BY <1>9, <1>10, <1>11 DEF LeavesWaiting

\* The next chunk goes into the next slot, or the first one.
LEMMA NextSlot ==
    ASSUME NEW k \in Nat
    PROVE  SlotOf(k + 1) = SlotOf(k) + 1 \/ SlotOf(k + 1) = 0
  <1> DEFINE d == k \div WindowSize
             e == (k + 1) \div WindowSize
             r == k % WindowSize
             t == (k + 1) % WindowSize
  <1>1. WindowSize \in Int /\ WindowSize > 0
    BY SizesPositive
  <1>2. /\ d \in Int /\ e \in Int /\ r \in Int /\ t \in Int
        /\ r >= 0 /\ t >= 0 /\ r < WindowSize /\ t < WindowSize
    BY <1>1
  <1>3. k = WindowSize * d + r /\ k + 1 = WindowSize * e + t
    <2>1. k \in Int /\ k + 1 \in Int
      OBVIOUS
    <2> QED BY <1>1, <2>1, Division
  <1> HIDE DEF d, e, r, t
  <1>4. /\ WindowSize * (e - d) = WindowSize * e - WindowSize * d
        /\ WindowSize * (d - e) = WindowSize * d - WindowSize * e
        /\ WindowSize * e \in Int /\ WindowSize * d \in Int
    BY <1>1, <1>2
  <1>5. e > d => WindowSize * (e - d) >= WindowSize
    BY <1>1, <1>2, PositiveMultiple
  <1>6. e < d => WindowSize * (d - e) >= WindowSize
    BY <1>1, <1>2, PositiveMultiple
  <1>7. ~(e < d)
    <2> SUFFICES ASSUME e < d PROVE FALSE
      OBVIOUS
    <2> QED BY <1>1, <1>2, <1>3, <1>4, <1>6
  <1>8. e > d => t = 0
    <2> SUFFICES ASSUME e > d PROVE t = 0
      OBVIOUS
    <2> QED BY <1>1, <1>2, <1>3, <1>4, <1>5
  <1>9. e = d => t = r + 1
    BY <1>1, <1>2, <1>3, <1>4
  <1>10. t = r + 1 \/ t = 0
    BY <1>2, <1>7, <1>8, <1>9
  <1> QED BY <1>10 DEF SlotOf, r, t

\* The chunk before the first that waits is asked for.
LEMMA AsksForMissing ==
    ASSUME Kept, NEW m \in Data, Untouched, m.seq = expected + 1, OutOfOrder(m)
    PROVE  /\ IsNull(squeue, SlotOf(m.seq))
           /\ srejTotal' \in Int /\ srejTotal' > 0
  <1> DEFINE s       == SlotOf(m.seq)
             queue   == add_element(squeue, s, m.data)
             missing == Missing(queue, m.seq)
  <1>0. /\ TypeOK /\ expected \in Nat \ {0} /\ WindowSize \in Nat \ {0}
        /\ squeue \in [Slots -> Bytes] /\ BufSize \in Nat
        /\ Before /\ ~overrun /\ TextOnly
    BY Numbers, SizesPositive DEF Kept, Before, TypeOK, ServerTypeOK
  <1>1. /\ m.seq \in 1 .. Len(File) /\ m.seq < expected + WindowSize
        /\ m.data = File[m.seq]
    BY <1>0, ArrivingChunk
  <1>2. m.seq \in Int /\ s \in Slots /\ SlotOf(expected) \in Slots
    BY <1>0, SlotOfType
  <1>3. squeue[s] = <<>> /\ IsNull(squeue, s) /\ srejTotal = 0
        /\ rejects[SlotOf(expected)] = 0
    BY <1>2 DEF Untouched, init_queue, IsNull
  <1>4. /\ m.data \in Bytes /\ Len(m.data) <= BufSize
    <2>1. m.seq \in DOMAIN File /\ File[m.seq] \in Bytes
      BY <1>1, RcopyAssumption, TextChunk, LenProperties
    <2>2. Len(File[m.seq]) \in 1 .. BufSize
      BY <2>1, RcopyAssumption
    <2> QED BY <1>0, <1>1, <2>1, <2>2
  <1>5. /\ queue \in [Slots -> Bytes] /\ queue[s] = m.data
        /\ \A j \in Slots \ {s} : queue[j] = <<>>
    <2>1. /\ queue \in [Slots -> Bytes] /\ queue[s] = m.data
          /\ \A j \in Slots \ {s} : queue[j] = squeue[j]
      <3> HIDE DEF s
      <3> QED BY <1>0, <1>2, <1>3, <1>4, EmptySlot
    <2> QED BY <2>1 DEF Untouched, init_queue
  <1>6. s # SlotOf(expected) /\ (s = SlotOf(expected) + 1 \/ s = 0)
    <2>1. m.seq - expected < WindowSize /\ expected - m.seq < WindowSize
          /\ m.seq # expected /\ expected \in Int
      BY <1>0, <1>1
    <2>2. s # SlotOf(expected)
      BY <1>2, <2>1, SlotOfInjective
    <2>3. s = SlotOf(expected) + 1 \/ s = 0
      BY <1>0, NextSlot
    <2> QED BY <2>2, <2>3
  <1>7. IsNullMisaligned(queue, SlotOf(expected))
    <2> HIDE DEF queue, s
    <2> QED BY <1>2, <1>4, <1>5, <1>6, LooksEmpty
  <1>8. expected \in missing
    <2> HIDE DEF queue
    <2>1. expected \in expected .. m.seq - 1
      BY <1>0
    <2> QED BY <1>0, <1>3, <1>7, <2>1 DEF Missing
  <1>9. IsFiniteSet(missing) /\ Cardinality(missing) \in Nat
    <2> HIDE DEF queue
    <2> QED BY <1>0, <1>1, MissingType
  <1>10. Cardinality(missing) # 0
    <2> HIDE DEF missing
    <2> QED BY <1>8, <1>9, FS_EmptySet
  <1>11. srejTotal' = srejTotal + Cardinality(missing)
    BY <1>3 DEF OutOfOrder
  <1> HIDE DEF missing
  <1> QED BY <1>3, <1>9, <1>10, <1>11

\* The number of the SREJs sent grows.
LEMMA TotalGrows ==
    ASSUME TypeOK, NEW m \in Data, OutOfOrder(m)
    PROVE  srejTotal' \in Int /\ srejTotal' >= srejTotal
  <1> DEFINE missing == Missing(add_element(squeue, SlotOf(m.seq), m.data), m.seq)
  <1>1. m.seq \in Nat /\ expected \in Nat \ {0} /\ srejTotal \in Int
    BY Numbers DEF Data, TypeOK, ServerTypeOK
  <1>2. Cardinality(missing) \in Nat
    BY <1>1, MissingType
  <1>3. srejTotal' = srejTotal + Cardinality(missing) \/ srejTotal' = srejTotal
    BY DEF OutOfOrder
  <1> HIDE DEF missing
  <1> QED BY <1>1, <1>2, <1>3

\* What comes ahead of the expected packet waits for it, and nothing else.
LEMMA OutOfOrderWaits ==
    ASSUME Kept, NEW m \in Data, NEW k \in Nat, KnownBut(k), WaitsFor(k), OutOfOrder(m),
           Readable(toServer), m = Head(toServer.inbox)
    PROVE  LeavesWaiting(k, m)
  <1> DEFINE ahead == expected + 1 .. expected + WindowSize - 1
             s     == SlotOf(m.seq)
  <1>0. /\ TypeOK /\ BufferedRight /\ TextOnly /\ Before /\ ~overrun
        /\ expected \in Nat \ {0} /\ WindowSize \in Nat \ {0}
        /\ squeue \in [Slots -> Bytes]
    BY Numbers DEF Kept, Before, OutputHeld, TypeOK, ServerTypeOK
  <1>1. m.seq > expected /\ m.flag = "DATA" /\ expected' = expected
    BY DEF OutOfOrder, Data
  <1>2. /\ m.seq \in 1 .. Len(File) /\ m.seq < expected + WindowSize
        /\ m.data = File[m.seq] /\ m.seq \in Int
    <2>1. m.seq \in Nat
      BY <1>0, Numbers DEF Data
    <2> QED BY <1>0, <1>1, <2>1, ArrivingChunk
  <1>3. m.seq \in ahead /\ s \in Slots
    BY <1>0, <1>1, <1>2, SlotOfType
  <1>4. ASSUME NEW x \in 1 .. m.seq - 1 PROVE x = k \/ x < expected \/ Buffered(x)
    BY <1>0, <1>1, FrontKnown
  <1>5. k = expected
    <2>1. expected \in 1 .. m.seq - 1
      BY <1>0, <1>1, <1>2
    <2>2. ~(expected < expected) /\ ~Buffered(expected)
      BY <1>0 DEF Buffered
    <2> QED BY <1>4, <2>1, <2>2
  <1>6. \A x \in expected + 1 .. m.seq - 1 : Buffered(x)
    <2> SUFFICES ASSUME NEW x \in expected + 1 .. m.seq - 1 PROVE Buffered(x)
      OBVIOUS
    <2>1. x \in 1 .. m.seq - 1 /\ x # expected /\ ~(x < expected)
      BY <1>0, <1>2
    <2> QED BY <1>4, <1>5, <2>1
  <1>7. srejTotal' \in Int /\ srejTotal' > 0
    <2>1. CASE \E b \in ahead : Buffered(b)
      <3>1. srejTotal > 0 /\ srejTotal \in Int
        BY <1>0, <2>1 DEF WaitsFor, TypeOK, ServerTypeOK
      <3> QED BY <1>0, <3>1, TotalGrows
    <2>2. CASE \A b \in ahead : ~Buffered(b)
      <3>1. Untouched
        BY <1>0, <1>5, <2>2 DEF WaitsFor
      <3>2. m.seq = expected + 1
        <4> SUFFICES ASSUME m.seq # expected + 1 PROVE FALSE
          OBVIOUS
        <4>1. expected + 1 \in expected + 1 .. m.seq - 1 /\ expected + 1 \in ahead
          BY <1>0, <1>1, <1>2
        <4> QED BY <1>6, <2>2, <4>1
      <3> QED BY <3>1, <3>2, AsksForMissing
    <2> QED BY <2>1, <2>2
  <1>8. /\ squeue'[s] # <<>>
        /\ \A i \in Slots : i # s => squeue'[i] = squeue[i]
    <2>1. CASE IsNull(squeue, s)
      <3>1. squeue' = add_element(squeue, s, m.data)
        BY <2>1 DEF OutOfOrder
      <3>2. squeue[s] = <<>>
        BY <1>0, <1>3, <2>1, SlotContents
      <3>3. m.data \in Bytes /\ m.data # <<>>
        <4>1. m.data \in Bytes /\ 1 \in DOMAIN m.data
          BY <1>0, <1>2, TextChunk
        <4> QED BY <4>1
      <3> HIDE DEF s
      <3> QED BY <1>0, <1>3, <3>1, <3>2, <3>3, EmptySlot
    <2>2. CASE ~IsNull(squeue, s)
      <3>1. squeue' = squeue
        BY <2>2 DEF OutOfOrder
      <3> QED BY <1>0, <1>3, <2>2, <3>1, SlotContents
    <2> QED BY <2>1, <2>2
  <1>9. ASSUME NEW b \in ahead
        PROVE  squeue'[SlotOf(b)] # <<>> <=> (b = m.seq \/ Buffered(b))
    <2>1. b \in Int /\ SlotOf(b) \in Slots
      BY <1>0, SlotOfType
    <2>2. SlotOf(b) = s => b = m.seq
      <3>1. b - m.seq < WindowSize /\ m.seq - b < WindowSize
        <4>1. b > expected /\ b < expected + WindowSize /\ expected \in Int
          BY <1>0
        <4>2. m.seq \in Int /\ m.seq > expected /\ m.seq < expected + WindowSize
          BY <1>1, <1>2
        <4>3. WindowSize \in Int
          BY <1>0
        <4> HIDE DEF ahead, s
        <4> QED BY <2>1, <4>1, <4>2, <4>3
      <3> QED BY <1>2, <2>1, <3>1, SlotOfInjective
    <2> QED BY <1>8, <2>1, <2>2 DEF Buffered
  <1>10. ASSUME NEW b \in ahead, b = m.seq \/ Buffered(b), NEW x \in expected + 1 .. b
         PROVE  x \in ahead /\ (x = m.seq \/ Buffered(x))
    <2>1. x \in ahead
      BY <1>0
    <2>2. CASE Buffered(b)
      BY <2>1, <2>2 DEF WaitsFor
    <2>3. CASE b = m.seq
      <3>1. x = m.seq \/ x \in expected + 1 .. m.seq - 1
        BY <1>0, <1>2, <2>3
      <3> QED BY <1>6, <2>1, <3>1
    <2> QED BY <1>10, <2>1, <2>2, <2>3
  <1>11. WaitsFor(k)'
    <2>1. ASSUME NEW b \in ahead, squeue'[SlotOf(b)] # <<>>
          PROVE  \A x \in expected + 1 .. b : x \in ahead /\ squeue'[SlotOf(x)] # <<>>
      BY <1>9, <1>10, <2>1
    <2>2. \E b \in ahead : squeue'[SlotOf(b)] # <<>>
      BY <1>3, <1>8
    <2> QED BY <1>1, <1>5, <1>7, <2>1, <2>2 DEF WaitsFor, Buffered
  <1>12. ASSUME NEW x \in Int, Buffered(x) PROVE KnownAfter(x, 0)
    BY <1>1, <1>9, <1>12 DEF KnownAfter, Buffered
  <1>13. KnownAfter(m.seq, 0)
    BY <1>1, <1>3, <1>8 DEF KnownAfter
  <1> QED BY <1>11, <1>12, <1>13 DEF LeavesWaiting

\* Taking a packet that leaves waiting what should.
LEMMA TakenKeepsGap ==
    ASSUME Timely, TypeOK, TypeOK', OneGap, faults <= faults',
           Readable(toServer), toServer' = Received(toServer),
           sstate # "DONE", sstate' # "DONE", UNCHANGED <<cstate, nread>>,
           sstate' \in {"FILENAME", "CONNECTION"} => sstate = "FILENAME",
           expected' >= expected,
           faults = 0 /\ KnownBut(0) /\ Untouched => Untouched',
           \A k \in Nat : faults <= 1 /\ KnownBut(k) /\ WaitsFor(k) =>
             /\ WaitsFor(k)'
             /\ \A x \in Int : Buffered(x) => KnownAfter(x, 0)
             /\ Head(toServer.inbox).flag = "DATA" =>
                  KnownAfter(Head(toServer.inbox).seq, 0)
    PROVE  OneGap'
  <1>0. /\ faults \in Nat /\ faults' \in Nat /\ nread \in Nat /\ expected' \in Nat
        /\ toServer \in Sockets /\ NetworkTypeOK'
    BY Numbers DEF TypeOK, NetworkTypeOK, ServerTypeOK
  <1>1. ASSUME NEW k \in Nat, faults <= 1, KnownBut(k), WaitsFor(k)
        PROVE  KnownBut(k)' /\ WaitsFor(k)'
    BY <1>0, <1>1, ServerKeepsKnown
  <1>2. toServer'.late = {}
    BY <1>0, ReceivedEnds DEF OneGap
  <1>3. sstate' \in {"FILENAME", "CONNECTION"} => ~Holds(toServer', "DATA")
    <2>1. \A i \in DOMAIN toServer'.inbox :
            i + 1 \in DOMAIN toServer.inbox /\ toServer'.inbox[i] = toServer.inbox[i + 1]
      BY <1>0, FrontTaken
    <2> QED BY <2>1 DEF OneGap, Holds
  <1>4. faults' = 0 => KnownBut(0)' /\ Untouched'
    <2> SUFFICES ASSUME faults' = 0 PROVE KnownBut(0)' /\ Untouched'
      OBVIOUS
    <2>1. faults = 0
      BY <1>0
    <2>2. KnownBut(0) /\ Untouched /\ WaitsFor(0)
      BY <2>1, NothingWaits DEF OneGap
    <2> QED BY <1>1, <2>1, <2>2
  <1>5. faults' = 1 => \E k \in 0 .. nread' : KnownBut(k)' /\ WaitsFor(k)'
    <2> SUFFICES ASSUME faults' = 1
                 PROVE  \E k \in 0 .. nread' : KnownBut(k)' /\ WaitsFor(k)'
      OBVIOUS
    <2>1. faults <= 1 /\ faults \in {0, 1}
      BY <1>0
    <2>2. \E k \in 0 .. nread : KnownBut(k) /\ WaitsFor(k)
      <3>1. CASE faults = 0
        <4>1. KnownBut(0) /\ WaitsFor(0)
          BY <3>1, NothingWaits DEF OneGap
        <4> QED BY <1>0, <4>1
      <3>2. CASE faults = 1
        BY <3>2 DEF OneGap
      <3> QED BY <2>1, <3>1, <3>2
    <2> QED BY <1>0, <1>1, <2>1, <2>2
  <1> QED BY <1>2, <1>3, <1>4, <1>5 DEF OneGap

\* get_data of the server.
LEMMA DataKeepsGap ==
    ASSUME Timely, TypeOK, TypeOK', OneGap, faults <= faults',
           faults <= 1 => Kept, ReceiveData, UNCHANGED rcopyVars
    PROVE  OneGap'
  <1>0. expected \in Nat \ {0} /\ WindowSize \in Nat
    BY Numbers
  <1>1. PICK m \in OnTheWay(toServer) :
          /\ DataArrives(m)
          /\ InOrder(m) \/ FillsGap(m) \/ Duplicate(m) \/ OutOfOrder(m)
    BY DEF ReceiveData
  <1>2. /\ m \in Data /\ m.seq \in Nat /\ sstate = "WAIT_DATA" /\ sstate' = sstate
        /\ Readable(toServer) /\ m = Head(toServer.inbox) /\ m.flag = "DATA"
        /\ toServer' = Received(toServer)
    BY <1>1, Numbers DEF DataArrives, Data, ServerRecv
  <1>3. expected' >= expected
    <2>1. CASE FillsGap(m)
      <3> DEFINE n == RunLength(expected + 1)
      <3>1. n \in 0 .. WindowSize
        <4>1. expected + 1 \in Int /\ squeue \in [Slots -> Bytes]
          BY <1>0 DEF TypeOK, ServerTypeOK
        <4> QED BY <4>1, RunLengthType
      <3>2. expected' = expected + 1 + n
        BY <2>1 DEF FillsGap
      <3> HIDE DEF n
      <3> QED BY <1>0, <3>1, <3>2
    <2>2. CASE InOrder(m) \/ Duplicate(m) \/ OutOfOrder(m)
      BY <1>0, <2>2 DEF InOrder, Duplicate, OutOfOrder, recvVars
    <2> QED BY <1>1, <2>1, <2>2
  <1>4. ASSUME NEW k \in Nat, faults <= 1, KnownBut(k), WaitsFor(k)
        PROVE  LeavesWaiting(k, m)
    <2>1. CASE Duplicate(m)
      <3>1. m.seq < expected' /\ UNCHANGED <<expected, squeue, srejTotal, rejects>>
        BY <2>1 DEF Duplicate, recvVars
      <3>2. WaitsFor(k)'
        BY <1>4, <3>1 DEF WaitsFor, Untouched, Buffered
      <3> QED BY <3>1, <3>2 DEF LeavesWaiting, KnownAfter, Buffered
    <2> QED BY <1>1, <1>2, <1>4, <2>1, InOrderWaits, FillsGapWaits, OutOfOrderWaits
  <1>5. ASSUME faults = 0, KnownBut(0), Untouched PROVE Untouched'
    <2>1. \A b \in Int : ~Buffered(b)
      BY <1>5, NothingWaits
    <2>2. ~OutOfOrder(m)
      <3> SUFFICES ASSUME m.seq > expected PROVE FALSE
        BY DEF OutOfOrder
      <3>1. expected \in 1 .. m.seq - 1 /\ expected # 0 /\ ~(expected < expected)
            /\ expected \in Int
        BY <1>0, <1>2
      <3> QED BY <1>2, <1>5, <2>1, <3>1, FrontKnown
    <2>3. ~FillsGap(m)
      BY <1>5 DEF Untouched, FillsGap
    <2>4. UNCHANGED <<squeue, srejTotal, rejects>>
      BY <1>1, <2>2, <2>3 DEF InOrder, Duplicate, recvVars
    <2> QED BY <1>5, <2>4 DEF Untouched
  <1>6. UNCHANGED <<cstate, nread>>
    BY DEF rcopyVars, windowVars
  <1> QED BY <1>2, <1>3, <1>4, <1>5, <1>6, TakenKeepsGap DEF LeavesWaiting

\* All that the server does.
LEMMA ServerKeepsGap ==
    ASSUME Timely, TypeOK, TypeOK', OneGap, faults <= faults', NamedOnce,
           faults <= 1 => Kept, ServerNext, UNCHANGED rcopyVars
    PROVE  OneGap'
  <1>0. /\ expected \in Nat \ {0} /\ faults \in Nat /\ faults' \in Nat /\ nread \in Nat
        /\ UNCHANGED <<cstate, nread>>
    BY Numbers DEF TypeOK, NetworkTypeOK, rcopyVars, windowVars
  <1>1. ASSUME UNCHANGED recvVars
        PROVE  /\ UNCHANGED <<expected, squeue, srejTotal, rejects>>
               /\ \A k : WaitsFor(k) => WaitsFor(k)'
               /\ Untouched => Untouched'
               /\ \A x : Buffered(x) => KnownAfter(x, 0)
    BY <1>1 DEF recvVars, WaitsFor, Untouched, Buffered, KnownAfter
  <1>2. ASSUME UNCHANGED recvVars, toServer'.inbox = <<>>, toServer'.late = {},
               sstate' = "DONE" => ~toServer'.open /\ faults' = faults,
               sstate' = "DONE" \/ ~Running
        PROVE  OneGap'
    <2>1. \A k : KnownBut(k)'
      <3>1. ~(Running /\ sstate # "DONE")'
        BY <1>0, <1>2 DEF Running
      <3>2. DOMAIN toServer'.inbox = {}
        BY <1>2
      <3> QED BY <3>1, <3>2, KnownNext
    <2>2. ~Holds(toServer', "DATA")
      BY <1>2 DEF Holds
    <2>3. faults' = 0 => Untouched'
      BY <1>0, <1>1, <1>2 DEF OneGap
    <2>4. faults' = 1 => \E k \in 0 .. nread' : WaitsFor(k)'
      <3> SUFFICES ASSUME faults' = 1 PROVE \E k \in 0 .. nread : WaitsFor(k)
        BY <1>0, <1>1, <1>2
      <3>1. CASE faults = 0
        <4>1. WaitsFor(0)
          BY <3>1, NothingWaits DEF OneGap
        <4> QED BY <1>0, <4>1
      <3>2. CASE faults = 1
        BY <3>2 DEF OneGap
      <3> QED BY <1>0, <3>1, <3>2
    <2> QED BY <1>2, <2>1, <2>2, <2>3, <2>4 DEF OneGap
  <1>3. ASSUME UNCHANGED recvVars, Readable(toServer), toServer' = Received(toServer),
               sstate \in {"FILENAME", "WAIT_DATA"}, sstate' # "DONE",
               sstate' \in {"FILENAME", "CONNECTION"} => sstate = "FILENAME",
               Head(toServer.inbox).flag # "DATA"
        PROVE  OneGap'
    <2>1. expected' >= expected
      BY <1>0, <1>1, <1>3
    <2> QED BY <1>0, <1>1, <1>3, <2>1, TakenKeepsGap
  <1>4. CASE GiveUp \/ ClientTerminated
    BY <1>2, <1>4 DEF GiveUp, ClientTerminated, ClosedSocket, EmptySocket
  <1>5. CASE Reconnect
    <2>1. ~Running
      BY <1>5 DEF Reconnect, NamedOnce
    <2> QED BY <1>2, <1>5, <2>1 DEF Reconnect, NewSocket, EmptySocket
  <1>6. CASE FilenameOpens \/ FilenameOther
    <2>1. Head(toServer.inbox).flag # "DATA" /\ Readable(toServer)
          /\ toServer' = Received(toServer) /\ sstate = "FILENAME"
          /\ sstate' # "DONE" /\ UNCHANGED recvVars
      <3>1. Readable(toServer) /\ toServer' = Received(toServer) /\ sstate = "FILENAME"
            /\ sstate' # "DONE" /\ UNCHANGED recvVars
        BY <1>6 DEF FilenameOpens, FilenameOther, ServerRecv
      <3>2. 1 \in DOMAIN toServer.inbox /\ Head(toServer.inbox) = toServer.inbox[1]
        BY <3>1, FrontTaken DEF TypeOK, NetworkTypeOK
      <3> QED BY <3>1, <3>2 DEF OneGap, Holds
    <2> QED BY <1>3, <2>1
  <1>7. CASE FnameAgain \/ CloseFile \/ IgnorePacket
    BY <1>3, <1>7 DEF FnameAgain, CloseFile, IgnorePacket, ServerRecv, serverVars
  <1>8. CASE ReceiveData
    BY <1>8, DataKeepsGap
  <1> QED BY <1>4, <1>5, <1>6, <1>7, <1>8 DEF ServerNext, WaitData

(***************************************************************************)
(* The output, with one loss.                                              *)
(***************************************************************************)

\* What holds before a step.
Gapped ==
    /\ Before /\ Named /\ Accounting /\ OneGap
    /\ Timely /\ faults <= 1 => OutputHeld

LEMMA InitGapped ==
    ASSUME KeepsOrder
    PROVE  Init => Gapped
  <1> SUFFICES ASSUME Init PROVE Gapped
    OBVIOUS
  <1>1. Before /\ Named /\ Accounting
    BY InitType, InitAck, InitInductive, InitNamed, InitAccounting DEF Before
  <1>2. OutputHeld
    <2>1. ~overrun
      BY DEF Init, RcopyInit
    <2> QED BY <2>1, InitWrites DEF Writes
  <1>3. /\ toServer = FreshSocket /\ sstate = "FILENAME" /\ faults = 0 /\ nread = 0
        /\ squeue = init_queue /\ srejTotal = 0 /\ rejects = [i \in Slots |-> 0]
    BY DEF Init, RcopyInit, ServerInit
  <1>4. toServer.inbox = <<>> /\ toServer.late = {} /\ DOMAIN toServer.inbox = {}
    BY <1>3 DEF FreshSocket, NewSocket, EmptySocket
  <1>5. ~Holds(toServer, "DATA") /\ Untouched
    BY <1>3, <1>4 DEF Holds, Untouched
  <1>6. KnownBut(0)
    <2>1. 1 .. nread = {}
      BY <1>3
    <2> QED BY <1>4, <2>1 DEF KnownBut
  <1>7. OneGap
    BY <1>3, <1>4, <1>5, <1>6 DEF OneGap
  <1> QED BY <1>1, <1>2, <1>7 DEF Gapped

\* As long as one packet at most is lost, srej.total overlooks nothing.
LEMMA GapSeen ==
    ASSUME TypeOK, BufferedRight, Timely, OneGap, faults <= 1
    PROVE  NextSeen
  <1> SUFFICES ASSUME srejTotal = 0 PROVE squeue[SlotOf(expected + 1)] = <<>>
    BY DEF NextSeen, IsNull
  <1>1. SlotOf(expected + 1) \in Slots /\ faults \in {0, 1}
    <2>1. expected + 1 \in Int /\ faults \in Nat
      BY Numbers DEF TypeOK, NetworkTypeOK
    <2> QED BY <2>1, SlotOfType
  <1>2. CASE faults = 0
    BY <1>1, <1>2 DEF OneGap, Untouched, init_queue
  <1>3. CASE faults = 1
    <2>1. PICK k \in 0 .. nread : WaitsFor(k)
      BY <1>3 DEF OneGap
    <2>2. \A b \in expected + 1 .. expected + WindowSize - 1 : ~Buffered(b)
      BY <2>1 DEF WaitsFor
    <2> QED BY <1>1, <2>2, NothingBuffered
  <1> QED BY <1>1, <1>2, <1>3

LEMMA NextGapped ==
    ASSUME KeepsOrder, TextOnly, Gapped, [Next]_vars
    PROVE  Gapped'
  <1>0. /\ Before /\ Named /\ Accounting /\ OneGap /\ TypeOK
        /\ Before' /\ Named' /\ Accounting' /\ TypeOK'
    BY NextInductive, NextNamed, NextAccounts DEF Gapped, Before
  <1>1. SUFFICES ASSUME Timely
                 PROVE  OneGap' /\ (faults' <= 1 => OutputHeld')
    BY <1>0 DEF Gapped, OneGap
  <1>2. /\ faults \in Nat /\ faults' \in Nat /\ faults <= faults'
        /\ NamedOnce /\ ~overrun /\ ~overrun'
    BY <1>0, <1>1, StepsCountFaults DEF TypeOK, NetworkTypeOK, Named
  <1>3. faults <= 1 => Kept
    BY <1>0, <1>1, <1>2 DEF Gapped, Kept
  <1>4. faults' <= 1 => OutputHeld'
    <2> SUFFICES ASSUME faults' <= 1 PROVE OutputHeld'
      OBVIOUS
    <2>1. faults <= 1
      BY <1>2
    <2>2. Kept /\ BufferedRight
      BY <1>3, <2>1 DEF Kept, OutputHeld
    <2>3. NextSeen
      BY <1>0, <1>1, <2>1, <2>2, GapSeen
    <2>4. Writes
      BY <2>2 DEF Kept, Writes
    <2>5. Writes'
      BY <2>3, <2>4, NextWrites
    <2> QED BY <1>2, <2>5 DEF Writes
  <1>5. OneGap'
    <2>1. CASE RcopyNext /\ UNCHANGED serverVars
      <3>1. Running
        BY <2>1 DEF Running, RcopyNext, RcopyTimeout, Filename, GetData, SendData,
                WindowStatus, FilenameFirst, FilenameGarbled, FilenameAgain,
                FilenameAnswered, FilenameTimeout, GetNothing,
                GetUnknown, GetFnameRes, GetFopenErr, GetRR, GetSREJ, GetEoF,
                SendChunk, ReachEndOfFile, ReadError, WindowOpen, WindowAnswered,
                WindowGivesUp, WindowResends, WindowSendsEoF
      <3>2. Feeds
        BY <1>0, <2>1, ClientFeeds
      <3>3. sstate # "DONE" => Linked
        BY <1>0, <1>1 DEF Accounting, TriesAccounted, StillAnswers
      <3> QED BY <1>0, <1>1, <1>2, <2>1, <3>1, <3>2, <3>3, ClientKeepsGap
    <2>2. CASE ServerNext /\ UNCHANGED rcopyVars
      BY <1>0, <1>1, <1>2, <1>3, <2>2, ServerKeepsGap
    <2>3. CASE (LateArrival /\ UNCHANGED <<rcopyVars, serverVars>>) \/ UNCHANGED vars
      <3>1. UNCHANGED toServer
        BY <1>0, <1>1, <2>3
           DEF LateArrival, Overtaken, OneGap, vars, networkVars
      <3>2. UNCHANGED <<cstate, nread, sstate, expected, squeue, srejTotal, rejects, faults>>
        BY <2>3 DEF LateArrival, vars, rcopyVars, windowVars, serverVars, recvVars,
                    networkVars
      <3> QED BY <1>0, <3>1, <3>2
              DEF OneGap, Holds, KnownBut, Known, Buffered, Untouched, WaitsFor, Running
    <2> QED BY <2>1, <2>2, <2>3 DEF Next
  <1> QED BY <1>4, <1>5

\* On a network that keeps the order, with a server that answers within the
\* second, a text file arrives as it is when one packet of the transfer is lost
\* or garbled, whichever it is and for every file, window and buffer size: no
\* two chunks are missing at once, so get_data of server.c asks for the one that
\* is, in spite of the width it looks slots up with, and handle_srej finds all
\* the others behind it without a gap.
THEOREM OneLossArrives == KeepsOrder /\ TextOnly => (Spec => []OneLossIntact)
  <1> SUFFICES ASSUME KeepsOrder, TextOnly PROVE Spec => []OneLossIntact
    OBVIOUS
  <1>1. Init => Gapped
    BY InitGapped
  <1>2. Gapped /\ [Next]_vars => Gapped'
    BY NextGapped
  <1>3. Gapped => OneLossIntact
    BY DEF Gapped, OneLossIntact, OutputHeld
  <1> QED BY <1>1, <1>2, <1>3, PTL DEF Spec

\* The invariant behind it: whichever packet it is that is lost, at most one
\* chunk that rcopy.c has read is unknown to the server, and what waits in its
\* buffer waits for that one.
THEOREM OneChunkMissing == KeepsOrder /\ TextOnly => (Spec => []OneGap)
  <1> SUFFICES ASSUME KeepsOrder, TextOnly PROVE Spec => []OneGap
    OBVIOUS
  <1>1. Init => Gapped
    BY InitGapped
  <1>2. Gapped /\ [Next]_vars => Gapped'
    BY NextGapped
  <1>3. Gapped => OneGap
    BY DEF Gapped
  <1> QED BY <1>1, <1>2, <1>3, PTL DEF Spec

(***************************************************************************)
(* A file that is reported saved.                                          *)
(***************************************************************************)

\* What is written is counted, and a file that is closed with everything
\* expected has it all.
Counted ==
    /\ WrittenToExpected
    /\ fd = "closed" /\ expected > Len(File) => Len(written) >= Len(File)

\* Writing n chunks more counts n more.
LEMMA WriteCounts ==
    ASSUME TypeOK, FileState, CloseOnlyWhenComplete, Counted,
           sstate = "WAIT_DATA", UNCHANGED fd,
           NEW chunks \in Seq(Bytes), Write(chunks),
           expected' = expected + Len(chunks)
    PROVE  Counted'
  <1>1. /\ written \in Seq(Bytes) /\ expected \in Nat /\ Len(File) \in Nat
        /\ fd # "none"
    BY Numbers DEF TypeOK, ServerTypeOK, FileState
  <1>2. CASE fd = "open"
    <2>1. Len(written \o chunks) = Len(written) + Len(chunks)
      BY <1>1, ConcatProperties
    <2>2. Len(written) = expected - 1 /\ written' = written \o chunks
      BY <1>2 DEF Counted, WrittenToExpected, Write
    <2>3. Len(written) \in Nat /\ Len(chunks) \in Nat
      BY <1>1, LenProperties
    <2>4. Len(written') = expected' - 1
      BY <1>1, <2>1, <2>2, <2>3
    <2> QED BY <1>2, <2>4 DEF Counted, WrittenToExpected
  <1>3. CASE fd # "open"
    <2>1. written' = written
      BY <1>3 DEF Write
    <2>2. fd = "closed" => Len(written) >= Len(File)
      BY <1>1 DEF CloseOnlyWhenComplete, Counted
    <2> QED BY <1>1, <1>3, <2>1, <2>2 DEF Counted, WrittenToExpected
  <1> QED BY <1>2, <1>3

\* The packet expected is one chunk written, and those behind it one each.
LEMMA DataCounts ==
    ASSUME Before, Counted, ReceiveData
    PROVE  Counted'
  <1>0. TypeOK /\ FileState /\ CloseOnlyWhenComplete
    BY DEF Before, Inductive
  <1>1. PICK m \in OnTheWay(toServer) :
          /\ DataArrives(m)
          /\ InOrder(m) \/ FillsGap(m) \/ Duplicate(m) \/ OutOfOrder(m)
    BY DEF ReceiveData
  <1>2. sstate = "WAIT_DATA" /\ UNCHANGED fd /\ m \in Messages /\ m.data \in Bytes
    <2>1. m \in Messages
      BY <1>0 DEF TypeOK, NetworkTypeOK, Sockets, OnTheWay
    <2> QED BY <1>1, <2>1 DEF DataArrives, Messages, Bytes
  <1>3. CASE InOrder(m)
    <2> DEFINE chunks == <<m.data>>
    <2>1. chunks \in Seq(Bytes) /\ Len(chunks) = 1
      BY <1>2
    <2>2. Write(chunks) /\ expected' = expected + Len(chunks)
      BY <1>3, <2>1 DEF InOrder
    <2> HIDE DEF chunks
    <2> QED BY <1>0, <1>2, <2>1, <2>2, WriteCounts
  <1>4. CASE FillsGap(m)
    <2> DEFINE next == expected + 1
               n    == RunLength(next)
               run  == [j \in 1 .. n |-> UpToNul(squeue[SlotOf(next + j - 1)])]
               chunks == <<m.data>> \o run
    <2>1. /\ squeue \in [Slots -> Bytes] /\ expected \in Nat /\ next \in Int
          /\ WindowSize \in Nat
      BY <1>0, Numbers DEF TypeOK, ServerTypeOK
    <2>2. n \in 0 .. WindowSize
      BY <2>1, RunLengthType
    <2>3. Write(chunks) /\ expected' = next + n
      BY <1>4 DEF FillsGap
    <2> HIDE DEF n
    <2>4. run \in Seq(Bytes) /\ Len(run) = n /\ n \in Nat
      <3>1. n \in Nat
        BY <2>1, <2>2
      <3>2. ASSUME NEW j \in 1 .. n
            PROVE  UpToNul(squeue[SlotOf(next + j - 1)]) \in Bytes
        <4>1. next + j - 1 \in Int
          BY <2>1, <3>1
        <4> QED BY <2>1, <4>1, SlotOfType, UpToNulType
      <3>3. run \in [1 .. n -> Bytes]
        BY <3>2
      <3> HIDE DEF run
      <3> QED BY <3>1, <3>3
    <2> HIDE DEF run
    <2>5. chunks \in Seq(Bytes) /\ Len(chunks) = 1 + n
      <3>1. <<m.data>> \in Seq(Bytes) /\ Len(<<m.data>>) = 1
        BY <1>2
      <3> QED BY <2>4, <3>1, ConcatProperties
    <2>6. expected' = expected + Len(chunks)
      BY <2>1, <2>3, <2>4, <2>5
    <2> HIDE DEF chunks
    <2> QED BY <1>0, <1>2, <2>3, <2>5, <2>6, WriteCounts
  <1>5. CASE Duplicate(m) \/ OutOfOrder(m)
    <2>1. UNCHANGED <<written, expected>>
      BY <1>5 DEF Duplicate, OutOfOrder, recvVars
    <2> QED BY <1>2, <2>1 DEF Counted, WrittenToExpected
  <1> QED BY <1>1, <1>3, <1>4, <1>5

LEMMA NextCounted ==
    ASSUME Before, Counted, [Next]_vars
    PROVE  Counted'
  <1>0. /\ TypeOK /\ FileState /\ CloseOnlyWhenComplete
        /\ expected \in Nat /\ Len(File) \in Nat
    BY Numbers DEF Before, Inductive, TypeOK
  <1> USE DEF serverVars, recvVars
  <1>1. CASE UNCHANGED <<written, expected, fd>>
    BY <1>1 DEF Counted, WrittenToExpected
  <1>2. CASE FilenameOpens
    <2>1. fd = "none" /\ fd' \in {"open", "failed"} /\ UNCHANGED <<written, expected>>
      BY <1>0, <1>2 DEF FilenameOpens, FileState
    <2>2. expected = 1 /\ Len(written) = 0
      BY <2>1 DEF Counted, WrittenToExpected
    <2> QED BY <2>1, <2>2 DEF Counted, WrittenToExpected
  <1>3. CASE GiveUp \/ CloseFile
    <2>1. /\ fd' = IF fd = "open" THEN "closed" ELSE fd
          /\ UNCHANGED <<written, expected>>
      BY <1>3 DEF GiveUp, CloseFile, CloseFd
    <2>2. fd = "open" => Len(written) = expected - 1
      BY DEF Counted, WrittenToExpected
    <2> QED BY <1>0, <2>1, <2>2 DEF Counted, WrittenToExpected
  <1>4. CASE ReceiveData
    BY <1>4, DataCounts
  <1> QED BY <1>1, <1>2, <1>3, <1>4
          DEF Next, vars, ServerNext, WaitData, FilenameOther, Reconnect, FnameAgain,
              ClientTerminated, IgnorePacket

\* A file that is reported saved and whose open did not fail is written in
\* full, whatever is lost, late or doubled, and for every file: the EoF
\* handshake lets server.c close the file only with every chunk counted, and
\* every chunk counted while it was open has been written.
THEOREM SavedIsWhole == Spec => []SavedWhole
  <1>1. Init => Before /\ Counted
    <2> SUFFICES ASSUME Init PROVE Counted
      BY InitType, InitAck, InitInductive DEF Before
    <2>1. fd = "none" /\ expected = 1 /\ written = <<>>
      BY DEF Init, ServerInit
    <2> QED BY <2>1 DEF Counted, WrittenToExpected
  <1>2. Before /\ Counted /\ [Next]_vars => (Before /\ Counted)'
    BY NextInductive, NextCounted
  <1>3. Before /\ Counted => SavedWhole
    <2> SUFFICES ASSUME Before, Counted, outcome = "saved", fd # "failed"
                 PROVE  Len(written) >= Len(File)
      BY DEF SavedWhole
    <2>1. fd \in Descriptors /\ fd \notin {"none", "open"} /\ expected > Len(File)
      BY DEF Before, Inductive, FileState, CloseOnlyWhenComplete, TypeOK, ServerTypeOK
    <2> QED BY <2>1 DEF Descriptors, Counted
  <1> QED BY <1>1, <1>2, <1>3, PTL DEF Spec

\* With one loss at most, on an orderly network whose server answers within the
\* second, a text file that is reported saved is on the server, chunk by chunk.
THEOREM SavedAsItIs ==
    KeepsOrder /\ TextOnly =>
      (Spec => [](Timely /\ faults <= 1 /\ outcome = "saved" /\ fd # "failed" =>
                    \A k \in DOMAIN File : k \in DOMAIN written /\ written[k] = File[k]))
  <1> SUFFICES ASSUME KeepsOrder, TextOnly
               PROVE  Spec => [](Timely /\ faults <= 1 /\ outcome = "saved" /\ fd # "failed" =>
                        \A k \in DOMAIN File : k \in DOMAIN written /\ written[k] = File[k])
    OBVIOUS
  <1>1. TypeOK /\ SavedWhole /\ OneLossIntact =>
          (Timely /\ faults <= 1 /\ outcome = "saved" /\ fd # "failed" =>
             \A k \in DOMAIN File : k \in DOMAIN written /\ written[k] = File[k])
    <2> SUFFICES ASSUME TypeOK, SavedWhole, OneLossIntact, Timely, faults <= 1,
                        outcome = "saved", fd # "failed", NEW k \in DOMAIN File
                 PROVE  k \in DOMAIN written /\ written[k] = File[k]
      OBVIOUS
    <2>1. Len(written) >= Len(File) /\ OutputIntact
      BY DEF SavedWhole, OneLossIntact
    <2>2. DOMAIN File = 1 .. Len(File) /\ Len(File) \in Nat
      BY RcopyAssumption, LenProperties
    <2>3. DOMAIN written = 1 .. Len(written) /\ Len(written) \in Nat
      BY LenProperties DEF TypeOK, ServerTypeOK
    <2>4. k \in DOMAIN written /\ k <= Len(File)
      BY <2>1, <2>2, <2>3
    <2> QED BY <2>1, <2>4 DEF OutputIntact
  <1>2. Spec => []OneLossIntact
    BY OneLossArrives
  <1> QED BY <1>1, <1>2, TypeCorrect, SavedIsWhole, PTL

\* On a network that keeps the order, with a server that answers within the
\* second, one FNAME or one answer to it is on the way until rcopy.c has heard
\* one, and neither after: the invariant behind WindowIsKept.
THEOREM NameOnlyOnce == KeepsOrder => (Spec => []NamedOnce)
  <1> SUFFICES ASSUME KeepsOrder PROVE Spec => []NamedOnce
    OBVIOUS
  <1>1. Init => Named
    BY InitNamed
  <1>2. Named /\ [Next]_vars => Named'
    BY NextNamed
  <1>3. Named => NamedOnce
    BY DEF Named, NamedOnce
  <1> QED BY <1>1, <1>2, <1>3, PTL DEF Spec

\* An SREJ that is on its way for a chunk still missing is in the table of
\* server.c: the invariant behind NothingAskedTwice.
THEOREM AskedIsRecorded == KeepsOrder => (Spec => []SrejRecorded)
  <1> SUFFICES ASSUME KeepsOrder PROVE Spec => []SrejRecorded
    OBVIOUS
  <1>1. Init => Asking
    BY InitAsking
  <1>2. Asking /\ [Next]_vars => Asking'
    BY NextAsking
  <1>3. Asking => SrejRecorded
    BY DEF Asking, Recorded
  <1> QED BY <1>1, <1>2, <1>3, PTL DEF Spec
=============================================================================
