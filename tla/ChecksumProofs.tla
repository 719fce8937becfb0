--------------------------- MODULE ChecksumProofs ---------------------------
(***************************************************************************)
(* RoundTrip and FlipCaught, for every size of a byte, every packet that   *)
(* fits and whatever lies behind it.  The argument: in_cksum sees nothing  *)
(* of the byte behind, and is the sum of the words modulo Word - 1;        *)
(* createHeader makes that sum a multiple of Word - 1, and an inverted     *)
(* byte changes it by less.                                                *)
(***************************************************************************)
EXTENDS Checksum, SequenceTheorems, WellFoundedInduction, TLAPS

(***************************************************************************)
(* Sums over a packet.                                                     *)
(***************************************************************************)

\* Induction up to n, for a set.
LEMMA UpTo ==
    ASSUME NEW n \in Nat, NEW S, 0 \in S,
           \A i \in 1 .. n : i - 1 \in S => i \in S
    PROVE  \A i \in 0 .. n : i \in S
  <1> DEFINE R == {ss \in Nat \X Nat : ss[1] < ss[2]}
             T == {i \in 0 .. n : i \notin S}
  <1>1. IsWellFoundedOn(R, Nat)
    <2>1. R = OpToRel(<, Nat)
      BY DEF OpToRel
    <2> QED BY <2>1, NatLessThanWellFounded
  <1> SUFFICES ASSUME T # {} PROVE FALSE
    OBVIOUS
  <1>2. PICK m \in T : \A k \in T : ~(<<k, m>> \in R)
    <2>1. T \subseteq Nat
      OBVIOUS
    <2> HIDE DEF R, T
    <2> QED BY <1>1, <2>1, WFMin
  <1>3. m \in 1 .. n /\ m - 1 \in 0 .. n /\ <<m - 1, m>> \in R
    OBVIOUS
  <1>4. m - 1 \in S
    BY <1>2, <1>3
  <1> QED BY <1>3, <1>4

\* s[i] is the sum that in_cksum has after i bytes.
IsSum(bytes, s) ==
    s = [i \in 0 .. Len(bytes) |->
          IF i = 0 THEN 0 ELSE s[i - 1] + Weight(bytes, i) * bytes[i]]

\* The weights are numbers.
LEMMA BaseType ==
    /\ Base \in Nat /\ Base >= 2 /\ Word \in Nat /\ Word >= 2 * Base
    /\ \A bytes, i : Weight(bytes, i) \in {1, Base}
  <1>1. Base \in Nat /\ Base >= 2
    BY ChecksumAssumption
  <1>2. Base * Base \in Nat /\ Base * Base >= 2 * Base
    BY <1>1
  <1> QED BY <1>1, <1>2 DEF Word, Weight

\* Every packet has such sums, and SumOfWords is the last of them.
LEMMA SumExists ==
    ASSUME NEW bytes \in Seq(Byte)
    PROVE  \E s \in [0 .. Len(bytes) -> Nat] :
             /\ s[0] = 0
             /\ \A i \in 1 .. Len(bytes) :
                  s[i] = s[i - 1] + Weight(bytes, i) * bytes[i]
             /\ SumOfWords(bytes) = s[Len(bytes)]
  <1> DEFINE n      == Len(bytes)
             w(i)   == Weight(bytes, i) * bytes[i]
             P(i, s) == s[0] = 0 /\ \A j \in 1 .. i : s[j] = s[j - 1] + w(j)
             S      == {i \in 0 .. n : \E s \in [0 .. i -> Nat] : P(i, s)}
  <1>1. n \in Nat /\ \A i \in 1 .. n : bytes[i] \in Byte
    BY LenProperties, ElementOfSeq
  <1>2. \A i \in 1 .. n : w(i) \in Nat
    <2> SUFFICES ASSUME NEW i \in 1 .. n PROVE w(i) \in Nat
      OBVIOUS
    <2>1. bytes[i] \in Nat /\ Weight(bytes, i) \in Nat
      BY <1>1, BaseType DEF Byte
    <2> QED BY <2>1
  <1> HIDE DEF w
  <1>3. 0 \in S
    <2> DEFINE s == [j \in 0 .. 0 |-> 0]
    <2>1. s \in [0 .. 0 -> Nat] /\ P(0, s)
      OBVIOUS
    <2> HIDE DEF s, P
    <2> QED BY <1>1, <2>1
  <1>4. ASSUME NEW i \in 1 .. n, i - 1 \in S PROVE i \in S
    <2>1. PICK s \in [0 .. i - 1 -> Nat] : P(i - 1, s)
      BY <1>4
    <2> DEFINE t == [j \in 0 .. i |-> IF j = i THEN s[i - 1] + w(i) ELSE s[j]]
    <2>2. s[i - 1] \in Nat /\ w(i) \in Nat /\ i \in Nat /\ i # 0
      BY <1>1, <1>2
    <2>3. t \in [0 .. i -> Nat]
      BY <2>2
    <2>4. t[0] = 0
      BY <2>1, <2>2
    <2>5. \A j \in 1 .. i : t[j] = t[j - 1] + w(j)
      <3> SUFFICES ASSUME NEW j \in 1 .. i PROVE t[j] = t[j - 1] + w(j)
        OBVIOUS
      <3>1. t[j - 1] = s[j - 1]
        BY <2>2
      <3>2. CASE j = i
        BY <2>2, <3>1, <3>2
      <3>3. CASE j # i
        BY <2>1, <2>2, <3>1, <3>3
      <3> QED BY <3>2, <3>3
    <2>6. P(i, t)
      BY <2>4, <2>5
    <2> HIDE DEF t, P
    <2> QED BY <1>1, <2>3, <2>6
  <1>5. n \in S
    <2>1. \A i \in 0 .. n : i \in S
      <3> HIDE DEF S, n
      <3> QED BY <1>1, <1>3, <1>4, UpTo
    <2> HIDE DEF S, n
    <2> QED BY <1>1, <2>1
  <1>6. PICK s \in [0 .. n -> Nat] : P(n, s)
    BY <1>5
  <1>7. IsSum(bytes, s)
    <2>1. \A i \in 0 .. n : s[i] = IF i = 0 THEN 0 ELSE s[i - 1] + w(i)
      BY <1>1, <1>6
    <2> QED BY <1>6, <2>1 DEF IsSum, w
  <1> DEFINE c == CHOOSE x : IsSum(bytes, x)
  <1>8. IsSum(bytes, c) /\ SumOfWords(bytes) = c[n]
    BY <1>7 DEF SumOfWords, IsSum
  <1> HIDE DEF c
  <1>9. c \in [0 .. n -> Nat] /\ P(n, c)
    <2> DEFINE C == {i \in 0 .. n : c[i] = s[i]}
    <2>1. /\ DOMAIN c = 0 .. n /\ c = [i \in 0 .. n |-> c[i]]
          /\ \A i \in 0 .. n : c[i] = IF i = 0 THEN 0 ELSE c[i - 1] + w(i)
      BY <1>8 DEF IsSum, w
    <2>2. 0 \in C
      <3>1. 0 \in 0 .. n
        BY <1>1
      <3>2. c[0] = 0
        BY <2>1, <3>1
      <3>3. s[0] = 0
        BY <1>6
      <3> QED BY <3>1, <3>2, <3>3
    <2>3. ASSUME NEW i \in 1 .. n, i - 1 \in C PROVE i \in C
      <3>1. i \in 0 .. n /\ i # 0
        BY <1>1
      <3>2. c[i] = c[i - 1] + w(i) /\ s[i] = s[i - 1] + w(i)
        BY <1>6, <2>1, <3>1
      <3> QED BY <2>3, <3>1, <3>2
    <2>4. \A i \in 0 .. n : i \in C
      <3> HIDE DEF C, n
      <3> QED BY <1>1, <2>2, <2>3, UpTo
    <2>5. c = s
      BY <1>6, <2>1, <2>4
    <2> QED BY <1>6, <2>5
  <1> QED BY <1>8, <1>9 DEF w

\* The sum is a number, and a word per byte is more than enough to bound it.
LEMMA SumBound ==
    ASSUME NEW bytes \in Seq(Byte)
    PROVE  /\ SumOfWords(bytes) \in Nat
           /\ SumOfWords(bytes) <= Len(bytes) * (Word - Base)
  <1> DEFINE n == Len(bytes)
  <1>1. PICK s \in [0 .. n -> Nat] :
          /\ s[0] = 0
          /\ \A i \in 1 .. n : s[i] = s[i - 1] + Weight(bytes, i) * bytes[i]
          /\ SumOfWords(bytes) = s[n]
    BY SumExists
  <1>2. n \in Nat /\ \A i \in 1 .. n : bytes[i] \in Byte
    BY LenProperties, ElementOfSeq
  <1> DEFINE d == Word - Base
             S == {i \in 0 .. n : s[i] <= i * d}
  <1>3. d \in Nat /\ \A i \in 1 .. n : Weight(bytes, i) * bytes[i] \in 0 .. d
    <2>1. d = Base * (Base - 1) /\ d \in Nat /\ Base - 1 <= d
      BY BaseType DEF Word
    <2>2. \A b \in Byte : Base * b \in 0 .. d /\ 1 * b \in 0 .. d
      <3> SUFFICES ASSUME NEW b \in Byte PROVE Base * b \in 0 .. d /\ 1 * b \in 0 .. d
        OBVIOUS
      <3>1. b \in Nat /\ b <= Base - 1 /\ Base - 1 \in Nat /\ Base \in Nat
        BY BaseType DEF Byte
      <3>2. Base * b \in Nat /\ Base * b <= Base * (Base - 1)
        <4> DEFINE e == Base - 1 - b
        <4>1. e \in Nat /\ Base - 1 = b + e
          BY <3>1
        <4>2. Base * e \in Nat
          BY <3>1, <4>1
        <4>3. Base * (b + e) = Base * b + Base * e
          BY <3>1, <4>1
        <4> HIDE DEF e
        <4> QED BY <3>1, <4>1, <4>2, <4>3
      <3> HIDE DEF d
      <3> QED BY <2>1, <3>1, <3>2
    <2> HIDE DEF d
    <2> QED BY <1>2, <2>1, <2>2, BaseType
  <1> HIDE DEF n, d
  <1>4. 0 \in S
    BY <1>1, <1>2, <1>3
  <1>5. ASSUME NEW i \in 1 .. n, i - 1 \in S PROVE i \in S
    <2>1. /\ i \in 0 .. n /\ i - 1 \in 0 .. n /\ s[i - 1] \in Nat /\ s[i - 1] <= (i - 1) * d
          /\ Weight(bytes, i) * bytes[i] \in 0 .. d
          /\ s[i] = s[i - 1] + Weight(bytes, i) * bytes[i]
      BY <1>1, <1>2, <1>3, <1>5
    <2>2. (i - 1) * d + d = i * d
      BY <1>3
    <2>3. (i - 1) * d \in Int /\ i * d \in Int
      BY <1>3
    <2>4. s[i] <= i * d
      BY <1>3, <2>1, <2>2, <2>3
    <2> QED BY <2>1, <2>4
  <1>6. \A i \in 0 .. n : i \in S
    <2> HIDE DEF S
    <2> QED BY <1>2, <1>4, <1>5, UpTo
  <1> QED BY <1>1, <1>2, <1>6 DEF n, d

\* A packet that differs in one byte has a sum that differs by as much.
LEMMA OneByteChanged ==
    ASSUME NEW p \in Seq(Byte), NEW q \in Seq(Byte), Len(q) = Len(p),
           NEW j \in 1 .. Len(p),
           \A i \in 1 .. Len(p) : i # j => q[i] = p[i]
    PROVE  SumOfWords(q) = SumOfWords(p) + Weight(p, j) * (q[j] - p[j])
  <1> DEFINE n == Len(p)
             v(i) == Weight(p, i) * p[i]
             w(i) == Weight(p, i) * q[i]
             d == Weight(p, j) * (q[j] - p[j])
  <1>1. PICK s \in [0 .. n -> Nat] :
          /\ s[0] = 0
          /\ \A i \in 1 .. n : s[i] = s[i - 1] + v(i)
          /\ SumOfWords(p) = s[n]
    BY SumExists
  <1>2. PICK t \in [0 .. n -> Nat] :
          /\ t[0] = 0
          /\ \A i \in 1 .. n : t[i] = t[i - 1] + w(i)
          /\ SumOfWords(q) = t[n]
    <2>1. \A i : Weight(q, i) = Weight(p, i)
      BY DEF Weight
    <2>2. PICK t \in [0 .. Len(q) -> Nat] :
            /\ t[0] = 0
            /\ \A i \in 1 .. Len(q) : t[i] = t[i - 1] + Weight(q, i) * q[i]
            /\ SumOfWords(q) = t[Len(q)]
      BY SumExists
    <2>3. t \in [0 .. n -> Nat] /\ t[0] = 0 /\ SumOfWords(q) = t[n]
      BY <2>2
    <2>4. \A i \in 1 .. n : t[i] = t[i - 1] + w(i)
      BY <2>1, <2>2
    <2> HIDE DEF n, w
    <2> QED BY <2>3, <2>4
  <1>3. n \in Nat /\ j \in 1 .. n
    BY LenProperties
  <1>4. \A i \in 1 .. n : p[i] \in Nat /\ q[i] \in Nat /\ Weight(p, i) \in Nat
    <2>1. \A i \in 1 .. n : p[i] \in Byte /\ q[i] \in Byte
      BY ElementOfSeq
    <2>2. \A b \in Byte : b \in Nat
      BY BaseType DEF Byte
    <2>3. \A i : Weight(p, i) \in Nat
      <3>1. {1, Base} \subseteq Nat /\ \A i : Weight(p, i) \in {1, Base}
        BY BaseType
      <3> QED BY <3>1, Zenon
    <2> QED BY <2>1, <2>2, <2>3
  <1>5. \A i \in 1 .. n : v(i) \in Nat /\ w(i) \in Nat
    BY <1>4
  <1>6. d \in Int /\ w(j) = v(j) + d
    BY <1>3, <1>4
  <1>7. \A i \in 1 .. n : i # j => w(i) = v(i)
    OBVIOUS
  <1> HIDE DEF d, n, v, w
  <1> DEFINE S == {i \in 0 .. n : /\ i < j => t[i] = s[i]
                                  /\ i >= j => t[i] = s[i] + d}
  <1>8. 0 \in S
    BY <1>1, <1>2, <1>3
  <1>9. ASSUME NEW i \in 1 .. n, i - 1 \in S PROVE i \in S
    <2>0. i \in 0 .. n /\ i - 1 \in 0 .. n /\ i \in Int /\ j \in Int
      BY <1>3
    <2>1. /\ s[i - 1] \in Nat /\ t[i - 1] \in Nat /\ v(i) \in Nat /\ w(i) \in Nat
          /\ s[i] = s[i - 1] + v(i) /\ t[i] = t[i - 1] + w(i)
      BY <1>1, <1>2, <1>5, <2>0
    <2>2. /\ i - 1 < j => t[i - 1] = s[i - 1]
          /\ i - 1 >= j => t[i - 1] = s[i - 1] + d
      BY <1>9
    <2>3. CASE i = j
      BY <1>6, <2>0, <2>1, <2>2, <2>3
    <2>4. CASE i < j
      BY <1>7, <2>0, <2>1, <2>2, <2>4
    <2>5. CASE i > j
      BY <1>6, <1>7, <2>0, <2>1, <2>2, <2>5
    <2> QED BY <2>0, <2>3, <2>4, <2>5
  <1>10. \A i \in 0 .. n : i \in S
    <2> HIDE DEF S
    <2> QED BY <1>3, <1>8, <1>9, UpTo
  <1>11. t[n] = s[n] + d
    BY <1>3, <1>10
  <1> QED BY <1>1, <1>2, <1>11 DEF d

(***************************************************************************)
(* Division, and what the folding of the carries does: it takes multiples  *)
(* of Word - 1 away.                                                       *)
(***************************************************************************)

LEMMA Product ==
    ASSUME NEW a \in Nat, NEW b \in Int, NEW c \in Int, b <= c
    PROVE  a * b <= a * c /\ a * b \in Int /\ a * c \in Int
  <1> DEFINE e == c - b
  <1>1. e \in Nat /\ c = b + e
    OBVIOUS
  <1>2. a * e \in Nat
    BY <1>1
  <1>3. a * (b + e) = a * b + a * e
    BY <1>1
  <1> HIDE DEF e
  <1> QED BY <1>1, <1>2, <1>3

LEMMA Division ==
    ASSUME NEW w \in Nat, w > 0, NEW n \in Nat
    PROVE  /\ n = w * (n \div w) + (n % w)
           /\ n \div w \in Nat /\ n % w \in 0 .. w - 1
  <1> DEFINE q == n \div w
             r == n % w
  <1>1. r \in 0 .. w - 1 /\ q \in Int
    OBVIOUS
  <1>2. r = n - w * q
    OBVIOUS
  <1> HIDE DEF q, r
  <1>3. w * q \in Int
    BY <1>1
  <1>4. n = w * q + r
    BY <1>1, <1>2, <1>3
  <1>5. q >= 0
    <2> SUFFICES ASSUME q <= -1 PROVE FALSE
      BY <1>1
    <2>1. w * q <= w * (-1)
      BY <1>1, Product
    <2> QED BY <1>1, <1>4, <2>1
  <1>6. q \in Nat
    BY <1>1, <1>5
  <1> QED BY <1>1, <1>4, <1>6 DEF q, r

\* Only one quotient and one remainder fit.
LEMMA DivisionOnce ==
    ASSUME NEW w \in Nat, w > 0, NEW a \in Nat, NEW b \in 0 .. w - 1
    PROVE  (w * a + b) \div w = a /\ (w * a + b) % w = b
  <1> DEFINE n == w * a + b
             c == n \div w
             d == n % w
  <1>1. n \in Nat
    OBVIOUS
  <1>2. w * a + b = w * c + d /\ c \in Nat /\ d \in 0 .. w - 1
    BY <1>1, Division
  <1> HIDE DEF c, d
  <1>3. CASE a < c
    <2>1. w * (a + 1) <= w * c /\ w * (a + 1) = w * a + w
      BY <1>2, <1>3, Product
    <2> QED BY <1>2, <2>1
  <1>4. CASE c < a
    <2>1. w * (c + 1) <= w * a /\ w * (c + 1) = w * c + w
      BY <1>2, <1>4, Product
    <2> QED BY <1>2, <2>1
  <1>5. a = c /\ b = d
    BY <1>2, <1>3, <1>4
  <1> QED BY <1>5 DEF c, d

\* A multiple of m of which less is left is none.
LEMMA NoMultiple ==
    ASSUME NEW m \in Nat, NEW k \in Int, -m < m * k, m * k < m
    PROVE  k = 0
  <1>1. CASE k >= 1
    <2>1. m * 1 <= m * k
      BY <1>1, Product
    <2> QED BY <2>1
  <1>2. CASE k <= -1
    <2>1. m * k <= m * (-1)
      BY <1>2, Product
    <2> QED BY <2>1
  <1> QED BY <1>1, <1>2

(***************************************************************************)
(* in_cksum adds the carries in twice: what is left fits a word, is the    *)
(* same modulo Word - 1, and is 0 only for a sum of 0.                     *)
(***************************************************************************)
LEMMA Folding ==
    ASSUME NEW n \in 0 .. Word * Word - 1
    PROVE  /\ Folded(n) \in 0 .. Word - 1
           /\ \E k \in Nat : n = Folded(n) + (Word - 1) * k
           /\ n > 0 => Folded(n) > 0
  <1> DEFINE a    == n \div Word
             b    == n % Word
             once == a + b
  <1>1. Word \in Nat /\ Word > 1 /\ n \in Nat
    BY BaseType
  <1>2. n = Word * a + b /\ a \in Nat /\ b \in 0 .. Word - 1
    BY <1>1, Division
  <1> HIDE DEF a, b
  <1>3. a <= Word - 1
    <2> SUFFICES ASSUME a >= Word PROVE FALSE
      BY <1>1, <1>2
    <2>1. Word * Word <= Word * a
      BY <1>1, <1>2, Product
    <2>2. Word * Word \in Int /\ Word * a \in Int
      BY <1>1, <1>2
    <2> QED BY <1>1, <1>2, <2>1, <2>2
  <1>4. once \in 0 .. Word + Word - 2 /\ Folded(n) = (once + (once \div Word)) % Word
    BY <1>1, <1>2, <1>3 DEF a, b, Folded
  <1>5. Word * a = a + (Word - 1) * a /\ (Word - 1) * (a + 1) = (Word - 1) * a + Word - 1
    BY <1>1, <1>2
  <1>6. CASE once < Word
    <2>1. once = Word * 0 + once /\ once \in 0 .. Word - 1
      BY <1>1, <1>2, <1>4, <1>6
    <2>2. once \div Word = 0 /\ once % Word = once
      <3> HIDE DEF once
      <3> QED BY <1>1, <2>1, DivisionOnce
    <2>3. Folded(n) = once
      BY <1>2, <1>4, <2>2
    <2>4. n = once + (Word - 1) * a
      BY <1>1, <1>2, <1>5
    <2>5. n > 0 => once > 0
      BY <1>1, <1>2
    <2> HIDE DEF once
    <2> QED BY <1>1, <1>2, <2>1, <2>3, <2>4, <2>5
  <1>7. CASE once >= Word
    <2> DEFINE rest == once - Word
    <2>1. rest \in 0 .. Word - 2 /\ once = Word * 1 + rest /\ once + 1 = Word * 1 + (rest + 1)
      BY <1>1, <1>2, <1>4, <1>7
    <2>2. once \div Word = 1 /\ (once + 1) % Word = rest + 1
      <3> HIDE DEF once, rest
      <3> QED BY <1>1, <2>1, DivisionOnce
    <2>3. Folded(n) = rest + 1
      BY <1>2, <1>4, <2>2
    <2>4. n = rest + 1 + (Word - 1) * (a + 1)
      BY <1>1, <1>2, <1>5
    <2>5. a + 1 \in Nat
      BY <1>2
    <2>6. Folded(n) \in 0 .. Word - 1 /\ Folded(n) > 0
      BY <1>1, <2>1, <2>3
    <2>7. n = Folded(n) + (Word - 1) * (a + 1)
      BY <2>3, <2>4
    <2> QED BY <2>5, <2>6, <2>7
  <1> QED BY <1>1, <1>4, <1>6, <1>7

(***************************************************************************)
(* What in_cksum takes for a right sum, and what createHeader writes.      *)
(***************************************************************************)

\* The checksum of a packet, and what is made of it, without the byte behind.
Complement(bytes) == Word - 1 - Folded(SumOfWords(bytes))

IsRight(bytes) == Complement(bytes) = 0

Taken(bytes) ==
    IF IsRight(bytes)
    THEN {[seq |-> Ntohl(bytes), flag |-> bytes[7],
           data |-> SubSeq(bytes, SizeOfHeader + 1, Len(bytes))]}
    ELSE {}

\* in_cksum and retrieveHeader see nothing of the byte behind a packet, even of
\* an odd one.
LEMMA NothingBehind ==
    ASSUME NEW bytes \in Seq(Byte), NEW behind \in Byte
    PROVE  /\ in_cksum(bytes \o <<behind>>, Len(bytes)) = Complement(bytes)
           /\ Len(bytes) >= SizeOfHeader =>
                retrieveHeader(bytes \o <<behind>>, Len(bytes)) = Taken(bytes)
  <1> DEFINE n == Len(bytes)
             last == <<behind>>
             memory == bytes \o last
  <1>1. n \in Nat /\ last \in Seq(Byte) /\ Len(last) = 1
    BY LenProperties
  <1> HIDE DEF last
  <1>2. /\ memory \in Seq(Byte) /\ Len(memory) = n + 1
        /\ \A i \in 1 .. n + 1 : memory[i] = IF i <= n THEN bytes[i] ELSE last[i - n]
    <2>1. /\ memory \in Seq(Byte) /\ Len(memory) = Len(bytes) + Len(last)
          /\ \A i \in 1 .. Len(bytes) + Len(last) :
               memory[i] = IF i <= Len(bytes) THEN bytes[i] ELSE last[i - Len(bytes)]
      BY <1>1, ConcatProperties
    <2>2. Len(bytes) + Len(last) = n + 1
      BY <1>1
    <2> HIDE DEF memory
    <2> QED BY <2>1, <2>2
  <1> HIDE DEF n, memory
  <1>3. \A i \in 1 .. n : memory[i] = bytes[i]
    BY <1>1, <1>2
  <1>4. \A i \in 1 .. n + 1 : memory[i] \in Byte
    BY <1>1, <1>2, ElementOfSeq
  <1>5. ASSUME NEW a \in 1 .. n + 1
        PROVE  SubSeq(memory, a, n) = SubSeq(bytes, a, n)
    <2> DEFINE s == SubSeq(memory, a, n)
               t == SubSeq(bytes, a, n)
    <2>1. /\ s \in Seq(Byte) /\ Len(s) = IF a <= n THEN n - a + 1 ELSE 0
          /\ \A i \in 1 .. n - a + 1 : s[i] = memory[a + i - 1]
      <3>1. a \in Int /\ n \in Int /\ \A i \in a .. n : memory[i] \in Byte
        BY <1>1, <1>4
      <3> QED BY <3>1, SubSeqProperties
    <2>2. /\ t \in Seq(Byte) /\ Len(t) = IF a <= n THEN n - a + 1 ELSE 0
          /\ \A i \in 1 .. n - a + 1 : t[i] = bytes[a + i - 1]
      <3>1. a \in Int /\ n \in Int /\ \A i \in a .. n : bytes[i] \in Byte
        <4>1. \A i \in 1 .. n : bytes[i] \in Byte
          BY ElementOfSeq DEF n
        <4> QED BY <1>1, <4>1
      <3> QED BY <3>1, SubSeqProperties
    <2> HIDE DEF s, t
    <2>3. Len(t) = Len(s) /\ Len(s) \in Nat /\ Len(s) <= n - a + 1
      BY <1>1, <2>1, <2>2
    <2>4. \A i \in 1 .. Len(s) : s[i] = t[i]
      <3> SUFFICES ASSUME NEW i \in 1 .. Len(s) PROVE s[i] = t[i]
        OBVIOUS
      <3>1. i \in 1 .. n - a + 1 /\ a + i - 1 \in 1 .. n
        BY <1>1, <2>3
      <3> QED BY <1>3, <2>1, <2>2, <3>1
    <2>5. s = t
      BY <2>1, <2>2, <2>3, <2>4, SeqEqual
    <2> QED BY <2>5 DEF s, t
  <1>6. SubSeq(memory, 1, n) = bytes
    <2>1. SubSeq(memory, 1, n) = SubSeq(bytes, 1, n)
      BY <1>1, <1>5
    <2> QED BY <2>1, SubSeqFull DEF n
  <1>7. in_cksum(memory, n) = Complement(bytes)
    BY <1>6 DEF in_cksum, Summed, Complement
  <1>8. ASSUME n >= SizeOfHeader PROVE retrieveHeader(memory, n) = Taken(bytes)
    <2>1. /\ {1, 2, 3, 4, 7} \subseteq 1 .. n
          /\ SizeOfHeader + 1 \in 1 .. n + 1
      BY <1>1, <1>8 DEF SizeOfHeader
    <2>2. Ntohl(memory) = Ntohl(bytes) /\ memory[7] = bytes[7]
      BY <1>3, <2>1 DEF Ntohl
    <2>3. SubSeq(memory, SizeOfHeader + 1, n) = SubSeq(bytes, SizeOfHeader + 1, n)
      BY <1>5, <2>1
    <2> QED BY <1>7, <2>2, <2>3 DEF retrieveHeader, SumIsRight, Taken, IsRight, n
  <1> QED BY <1>7, <1>8 DEF n, memory, last

LEMMA RightSum ==
    ASSUME NEW bytes \in Seq(Byte), Len(bytes) <= MAX_LEN
    PROVE  /\ SumOfWords(bytes) \in 0 .. Word * Word - 1
           /\ IsRight(bytes) <=>
                /\ SumOfWords(bytes) > 0
                /\ \E k \in Nat : SumOfWords(bytes) = (Word - 1) * k
  <1> DEFINE n == SumOfWords(bytes)
             m == Word - 1
  <1>1. /\ m \in Nat /\ Word \in Nat /\ Word = m + 1 /\ m > 0
        /\ Base \in Nat /\ Base > 0 /\ Word - Base \in Nat
        /\ Len(bytes) \in Nat /\ Len(bytes) <= Word
    BY BaseType, LenProperties, ChecksumAssumption DEF Word
  <1>2. n \in 0 .. Word * Word - 1
    <2>1. n \in Nat /\ n <= Len(bytes) * (Word - Base)
      BY SumBound
    <2>2. (Word - Base) * Len(bytes) <= (Word - Base) * Word
      BY <1>1, Product
    <2>3. /\ (Word - Base) * Len(bytes) = Len(bytes) * (Word - Base)
          /\ (Word - Base) * Word = Word * Word - Word * Base
      BY <1>1
    <2>4. Word * 1 <= Word * Base
      BY <1>1, Product
    <2>5. Len(bytes) * (Word - Base) \in Int /\ Word * Word \in Int /\ Word * Base \in Int
      BY <1>1
    <2> HIDE DEF n
    <2> QED BY <1>1, <2>1, <2>2, <2>3, <2>4, <2>5
  <1> DEFINE f == Folded(n)
  <1>3. f \in 0 .. m /\ n > 0 => f > 0
    BY <1>2, Folding
  <1>4. PICK k \in Nat : n = f + m * k
    BY <1>2, Folding
  <1>5. f \in 0 .. m /\ (n > 0 => f > 0)
    BY <1>2, Folding
  <1>6. IsRight(bytes) <=> f = m
    BY <1>1, <1>5 DEF IsRight, Complement
  <1> HIDE DEF f, n, m
  <1>7. ASSUME f = m PROVE n > 0 /\ \E j \in Nat : n = m * j
    <2>1. m * k \in Nat /\ m * (k + 1) = m + m * k /\ k + 1 \in Nat
      BY <1>1
    <2> QED BY <1>1, <1>4, <1>7, <2>1
  <1>8. ASSUME n > 0, NEW j \in Nat, n = m * j PROVE f = m
    <2>1. m * k \in Int /\ m * j \in Int /\ m * (j - k - 1) = m * j - m * k - m
      BY <1>1
    <2>2. -m < m * (j - k - 1) /\ m * (j - k - 1) < m
      BY <1>1, <1>4, <1>5, <1>8, <2>1
    <2>3. j - k - 1 = 0
      BY <1>1, <2>2, NoMultiple
    <2>4. m * (j - k - 1) = 0
      BY <1>1, <2>3
    <2> QED BY <1>1, <1>4, <1>5, <1>8, <2>1, <2>4
  <1>9. f = m <=> n > 0 /\ \E j \in Nat : n = m * j
    BY <1>7, <1>8
  <1> QED BY <1>2, <1>6, <1>9 DEF n, m

\* ntohl undoes htonl.
LEMMA NetworkOrder ==
    ASSUME NEW n \in 0 .. Base * Base * Base * Base - 1,
           NEW bytes, \A i \in 1 .. 4 : bytes[i] = Htonl(n)[i]
    PROVE  Htonl(n) \in Seq(Byte) /\ Len(Htonl(n)) = 4 /\ Ntohl(bytes) = n
  <1> DEFINE a == n \div Base
             b == a \div Base
             c == b \div Base
             x == n % Base
             y == a % Base
             z == b % Base
  <1>1. Base \in Nat /\ Base > 0 /\ Word \in Nat /\ Word = Base * Base /\ n \in Nat
    BY BaseType, ChecksumAssumption DEF Word
  <1>2. n = Base * a + x /\ a \in Nat /\ x \in 0 .. Base - 1
    BY <1>1, Division
  <1>3. a = Base * b + y /\ b \in Nat /\ y \in 0 .. Base - 1
    BY <1>1, <1>2, Division
  <1>4. b = Base * c + z /\ c \in Nat /\ z \in 0 .. Base - 1
    BY <1>1, <1>3, Division
  <1> HIDE DEF a, b, c, x, y, z
  <1> DEFINE xy == Base * y + x
             xyz == Word * z + xy
  <1>5. xy \in 0 .. Word - 1
    <2>1. Base * y <= Base * (Base - 1) /\ Base * (Base - 1) = Word - Base /\ Base * y \in Nat
      BY <1>1, <1>3, Product
    <2> QED BY <1>1, <1>2, <2>1
  <1>6. n = Word * b + xy
    BY <1>1, <1>2, <1>3
  <1>7. xyz \in 0 .. Word * Base - 1 /\ Word * Base \in Nat /\ Word * Base > 0
    <2>1. Word * z <= Word * (Base - 1) /\ Word * (Base - 1) = Word * Base - Word /\ Word * z \in Nat
      BY <1>1, <1>4, Product
    <2>2. Word * 1 <= Word * Base /\ Word > 0 /\ Word * Base \in Int
      BY <1>1, BaseType, Product
    <2> HIDE DEF xy
    <2> QED BY <1>1, <1>5, <2>1, <2>2
  <1>8. n = (Word * Base) * c + xyz
    <2>1. Word * (Base * c + z) = Word * (Base * c) + Word * z
      BY <1>1, <1>4
    <2>2. Word * (Base * c) = (Word * Base) * c
      BY <1>1, <1>4
    <2>3. (Word * Base) * c \in Int /\ Word * z \in Int /\ xy \in Int
      BY <1>1, <1>4, <1>5
    <2> HIDE DEF xy
    <2> QED BY <1>4, <1>6, <2>1, <2>2, <2>3
  <1> HIDE DEF xy, xyz
  <1>9. n \div Word = b
    <2>1. Word > 0
      BY BaseType
    <2> QED BY <1>1, <1>3, <1>5, <1>6, <2>1, DivisionOnce
  <1>10. n \div (Word * Base) = c
    BY <1>4, <1>7, <1>8, DivisionOnce
  <1>11. c \in 0 .. Base - 1
    <2> SUFFICES ASSUME c >= Base PROVE FALSE
      BY <1>1, <1>4
    <2>1. (Word * Base) * Base <= (Word * Base) * c
      BY <1>1, <1>4, <1>7, Product
    <2>2. (Word * Base) * Base = Base * Base * Base * Base
      BY <1>1
    <2>3. (Word * Base) * c \in Int /\ (Word * Base) * Base \in Int
      BY <1>1, <1>4
    <2>4. n < (Word * Base) * Base
      BY <2>2, <2>3
    <2> QED BY <1>7, <1>8, <2>1, <2>3, <2>4
  <1>12. Htonl(n) = <<c, z, y, x>>
    BY <1>9, <1>10 DEF Htonl, x, y, z, a
  <1>13. Htonl(n) \in Seq(Byte) /\ Len(Htonl(n)) = 4
    <2>1. c \in Byte /\ z \in Byte /\ y \in Byte /\ x \in Byte
      BY <1>2, <1>3, <1>4, <1>11 DEF Byte
    <2> QED BY <1>12, <2>1
  <1>14. bytes[1] = c /\ bytes[2] = z /\ bytes[3] = y /\ bytes[4] = x
    BY <1>12
  <1>15. Ntohl(bytes) = c * Base * Word + z * Word + y * Base + x
    BY <1>14 DEF Ntohl
  <1>16. c * Base * Word = (Word * Base) * c /\ z * Word = Word * z /\ y * Base = Base * y
    BY <1>1, <1>2, <1>3, <1>4
  <1>17. Ntohl(bytes) = (Word * Base) * c + (Word * z + (Base * y + x))
    <2>1. (Word * Base) * c \in Int /\ Word * z \in Int /\ Base * y \in Int /\ x \in Int
      BY <1>1, <1>2, <1>3, <1>4
    <2> QED BY <1>15, <1>16, <2>1
  <1> QED BY <1>8, <1>13, <1>17 DEF xy, xyz

\* A packet of the number's bytes, the checksum's, the flag and the data.
Parts(h, lo, hi, g, d) == h \o <<lo, hi>> \o <<g>> \o d

\* Where the parts of a packet are.
AreParts(p, h, lo, hi, g, d) ==
    /\ p \in Seq(Byte) /\ Len(p) = SizeOfHeader + Len(d)
    /\ \A i \in 1 .. 4 : p[i] = h[i]
    /\ p[5] = lo /\ p[6] = hi /\ p[7] = g
    /\ \A i \in 1 .. Len(d) : p[SizeOfHeader + i] = d[i]

LEMMA Assembled ==
    ASSUME NEW h \in Seq(Byte), Len(h) = 4, NEW c1 \in Byte, NEW c2 \in Byte,
           NEW g \in Byte, NEW d \in Seq(Byte)
    PROVE  AreParts(Parts(h, c1, c2, g, d), h, c1, c2, g, d)
  <1> DEFINE e == <<c1, c2>>
             k == <<g>>
             q == h \o e
             r == q \o k
             p == Parts(h, c1, c2, g, d)
  <1>1. e \in Seq(Byte) /\ Len(e) = 2 /\ e[1] = c1 /\ e[2] = c2
    OBVIOUS
  <1>2. k \in Seq(Byte) /\ Len(k) = 1 /\ k[1] = g
    OBVIOUS
  <1>3. Len(d) \in Nat /\ p = r \o d
    BY LenProperties DEF Parts
  <1> HIDE DEF e, k, p
  <1>4. /\ q \in Seq(Byte) /\ Len(q) = Len(h) + Len(e)
        /\ \A i \in 1 .. Len(h) + Len(e) : q[i] = IF i <= Len(h) THEN h[i] ELSE e[i - Len(h)]
    BY <1>1, ConcatProperties
  <1> HIDE DEF q
  <1>5. /\ r \in Seq(Byte) /\ Len(r) = Len(q) + Len(k)
        /\ \A i \in 1 .. Len(q) + Len(k) : r[i] = IF i <= Len(q) THEN q[i] ELSE k[i - Len(q)]
    <2>1. q \in Seq(Byte)
      BY <1>4
    <2>2. /\ q \o k \in Seq(Byte) /\ Len(q \o k) = Len(q) + Len(k)
          /\ \A i \in 1 .. Len(q) + Len(k) :
               (q \o k)[i] = IF i <= Len(q) THEN q[i] ELSE k[i - Len(q)]
      BY <1>2, <2>1, ConcatProperties
    <2> QED BY <2>2
  <1> HIDE DEF r
  <1>6. /\ p \in Seq(Byte) /\ Len(p) = Len(r) + Len(d)
        /\ \A i \in 1 .. Len(r) + Len(d) : p[i] = IF i <= Len(r) THEN r[i] ELSE d[i - Len(r)]
    <2>1. r \in Seq(Byte)
      BY <1>5
    <2>2. /\ r \o d \in Seq(Byte) /\ Len(r \o d) = Len(r) + Len(d)
          /\ \A i \in 1 .. Len(r) + Len(d) :
               (r \o d)[i] = IF i <= Len(r) THEN r[i] ELSE d[i - Len(r)]
      BY <2>1, ConcatProperties
    <2> QED BY <1>3, <2>2
  <1>7. Len(q) = 6 /\ Len(r) = 7
    BY <1>1, <1>2, <1>4, <1>5
  <1>8. \A i \in 1 .. 7 : p[i] = r[i]
    <2> SUFFICES ASSUME NEW i \in 1 .. 7 PROVE p[i] = r[i]
      OBVIOUS
    <2>1. i \in 1 .. Len(r) + Len(d) /\ i <= Len(r)
      BY <1>3, <1>7
    <2> QED BY <1>6, <2>1
  <1>9. \A i \in 1 .. 6 : p[i] = q[i]
    <2> SUFFICES ASSUME NEW i \in 1 .. 6 PROVE p[i] = q[i]
      OBVIOUS
    <2>1. i \in 1 .. Len(q) + Len(k) /\ i <= Len(q) /\ i \in 1 .. 7
      BY <1>2, <1>7
    <2> QED BY <1>5, <1>8, <2>1
  <1>10. \A i \in 1 .. 4 : p[i] = h[i]
    <2> SUFFICES ASSUME NEW i \in 1 .. 4 PROVE p[i] = h[i]
      OBVIOUS
    <2>1. i \in 1 .. Len(h) + Len(e) /\ i <= Len(h) /\ i \in 1 .. 6
      BY <1>1
    <2> QED BY <1>4, <1>9, <2>1
  <1>11. p[5] = c1 /\ p[6] = c2
    <2>1. /\ 5 \in 1 .. Len(h) + Len(e) /\ ~(5 <= Len(h)) /\ 5 - Len(h) = 1 /\ 5 \in 1 .. 6
          /\ 6 \in 1 .. Len(h) + Len(e) /\ ~(6 <= Len(h)) /\ 6 - Len(h) = 2 /\ 6 \in 1 .. 6
      BY <1>1
    <2>2. q[5] = e[1] /\ q[6] = e[2]
      BY <1>4, <2>1
    <2> QED BY <1>1, <1>9, <2>1, <2>2
  <1>12. p[7] = g
    <2>1. 7 \in 1 .. Len(q) + Len(k) /\ ~(7 <= Len(q)) /\ 7 - Len(q) = 1 /\ 7 \in 1 .. 7
      BY <1>2, <1>7
    <2>2. r[7] = k[1]
      BY <1>5, <2>1
    <2> QED BY <1>2, <1>8, <2>1, <2>2
  <1>13. \A i \in 1 .. Len(d) : p[7 + i] = d[i]
    <2> SUFFICES ASSUME NEW i \in 1 .. Len(d) PROVE p[7 + i] = d[i]
      OBVIOUS
    <2>1. 7 + i \in 1 .. Len(r) + Len(d) /\ ~(7 + i <= Len(r)) /\ 7 + i - Len(r) = i
      BY <1>3, <1>7
    <2> QED BY <1>6, <2>1
  <1> QED BY <1>6, <1>7, <1>10, <1>11, <1>12, <1>13 DEF AreParts, SizeOfHeader, p

(***************************************************************************)
(* A packet as it is sent, and with one byte inverted.                     *)
(***************************************************************************)

\* What retrieveHeader needs to deliver m.
Delivers(bytes, m) ==
    /\ bytes \in Seq(Byte) /\ Len(bytes) = SizeOfHeader + Len(m.data)
    /\ IsRight(bytes)
    /\ Ntohl(bytes) = m.seq /\ bytes[7] = m.flag
    /\ SubSeq(bytes, SizeOfHeader + 1, Len(bytes)) = m.data

LEMMA ContentsType ==
    ASSUME NEW m \in Contents
    PROVE  /\ m.seq \in 0 .. Base * Base * Base * Base - 1
           /\ m.flag \in Byte /\ m.data \in Seq(Byte) /\ Len(m.data) \in Nat
           /\ m = [seq |-> m.seq, flag |-> m.flag, data |-> m.data]
  <1>1. m.seq \in SeqNums /\ m.flag \in FlagValues
        /\ m.data \in UNION {[1 .. n -> Byte] : n \in Lengths}
        /\ m = [seq |-> m.seq, flag |-> m.flag, data |-> m.data]
    BY DEF Contents
  <1>2. PICK n \in Lengths : m.data \in [1 .. n -> Byte]
    BY <1>1
  <1>3. n \in Nat
    BY ChecksumAssumption DEF Lengths
  <1>4. m.data \in Seq(Byte)
    BY <1>2, <1>3
  <1>5. m.flag \in Byte
    <2>1. m.flag \in 1 .. Base - 1
      BY <1>1, ChecksumAssumption
    <2> QED BY <2>1, BaseType DEF Byte
  <1> QED BY <1>1, <1>4, <1>5, LenProperties, ChecksumAssumption

LEMMA HeaderRight ==
    ASSUME NEW m \in Contents, SizeOfHeader + Len(m.data) <= MAX_LEN,
           NEW behind \in Byte
    PROVE  Delivers(createHeader(m, behind), m)
  <1> DEFINE h == Htonl(m.seq)
             z == Parts(h, 0, 0, m.flag, m.data)
             c == Complement(z)
             lo == c % Base
             hi == c \div Base
             y == Parts(h, lo, 0, m.flag, m.data)
             p == Parts(h, lo, hi, m.flag, m.data)
  <1>2. /\ m.seq \in 0 .. Base * Base * Base * Base - 1
        /\ m.flag \in Byte /\ m.data \in Seq(Byte) /\ Len(m.data) \in Nat
    BY ContentsType
  <1>3. h \in Seq(Byte) /\ Len(h) = 4
    BY <1>2, NetworkOrder
  <1>4. 0 \in Byte /\ Base \in Nat /\ Base > 0 /\ Word \in Nat /\ Word > 2 /\ Word = Base * Base
    BY BaseType DEF Byte, Word
  <1> HIDE DEF h
  <1>5. /\ z \in Seq(Byte) /\ Len(z) = SizeOfHeader + Len(m.data)
        /\ \A i \in 1 .. 4 : z[i] = h[i]
        /\ z[5] = 0 /\ z[6] = 0 /\ z[7] = m.flag
        /\ \A i \in 1 .. Len(m.data) : z[SizeOfHeader + i] = m.data[i]
    <2>1. AreParts(z, h, 0, 0, m.flag, m.data)
      BY <1>2, <1>3, <1>4, Assembled
    <2> HIDE DEF z
    <2> QED BY <2>1 DEF AreParts
  <1> HIDE DEF z
  <1>1. createHeader(m, behind) = p
    <2>1. in_cksum(z \o <<behind>>, Len(z)) = c
      BY <1>5, NothingBehind
    <2> HIDE DEF c
    <2> QED BY <2>1 DEF createHeader, Stored, Parts, h, z
  <1>6. /\ SumOfWords(z) \in 0 .. Word * Word - 1 /\ Folded(SumOfWords(z)) \in 0 .. Word - 1
        /\ \E k \in Nat : SumOfWords(z) = Folded(SumOfWords(z)) + (Word - 1) * k
    BY <1>5, RightSum, Folding
  <1>7. c \in 0 .. Word - 1 /\ c = Word - 1 - Folded(SumOfWords(z))
    BY <1>4, <1>6 DEF Complement
  <1>8. c = Base * hi + lo /\ lo \in Byte /\ hi \in Nat
    <2> HIDE DEF c
    <2>1. c \in Nat
      BY <1>7
    <2> QED BY <1>4, <2>1, Division DEF Byte
  <1> HIDE DEF lo, hi, c
  <1>9. hi \in Byte
    <2> SUFFICES ASSUME hi >= Base PROVE FALSE
      BY <1>4, <1>8 DEF Byte
    <2>1. Base * Base <= Base * hi
      BY <1>4, <1>8, Product
    <2>2. Base * hi \in Int /\ lo \in Nat
      BY <1>4, <1>8 DEF Byte
    <2> QED BY <1>4, <1>7, <1>8, <2>1, <2>2
  <1>10. /\ y \in Seq(Byte) /\ Len(y) = SizeOfHeader + Len(m.data)
         /\ \A i \in 1 .. 4 : y[i] = h[i]
         /\ y[5] = lo /\ y[6] = 0 /\ y[7] = m.flag
         /\ \A i \in 1 .. Len(m.data) : y[SizeOfHeader + i] = m.data[i]
    <2>1. AreParts(y, h, lo, 0, m.flag, m.data)
      BY <1>2, <1>3, <1>4, <1>8, Assembled
    <2> HIDE DEF y
    <2> QED BY <2>1 DEF AreParts
  <1>11. /\ p \in Seq(Byte) /\ Len(p) = SizeOfHeader + Len(m.data)
         /\ \A i \in 1 .. 4 : p[i] = h[i]
         /\ p[5] = lo /\ p[6] = hi /\ p[7] = m.flag
         /\ \A i \in 1 .. Len(m.data) : p[SizeOfHeader + i] = m.data[i]
    <2>1. AreParts(p, h, lo, hi, m.flag, m.data)
      BY <1>2, <1>3, <1>8, <1>9, Assembled
    <2> HIDE DEF p
    <2> QED BY <2>1 DEF AreParts
  <1> HIDE DEF y, p
  <1>12. SumOfWords(p) = SumOfWords(z) + c
    <2>1. ASSUME NEW i \in 1 .. SizeOfHeader + Len(m.data), NEW a, NEW b,
                 \A j \in 1 .. 4 : a[j] = h[j] /\ b[j] = h[j],
                 a[7] = m.flag /\ b[7] = m.flag,
                 \A j \in 1 .. Len(m.data) :
                   a[SizeOfHeader + j] = m.data[j] /\ b[SizeOfHeader + j] = m.data[j],
                 i # 5, i # 6
          PROVE  a[i] = b[i]
      <3>1. CASE i \in 1 .. 4 \/ i = 7
        BY <2>1, <3>1
      <3>2. CASE i > 7
        <4>1. i - 7 \in 1 .. Len(m.data) /\ i = SizeOfHeader + (i - 7)
          BY <1>2, <3>2 DEF SizeOfHeader
        <4> QED BY <2>1, <4>1
      <3> QED BY <1>2, <2>1, <3>1, <3>2 DEF SizeOfHeader
    <2>2. \A i \in 1 .. Len(z) : i # 5 => y[i] = z[i]
      BY <1>5, <1>10, <2>1
    <2>3. \A i \in 1 .. Len(y) : i # 6 => p[i] = y[i]
      BY <1>10, <1>11, <2>1
    <2>4. 5 \in 1 .. Len(z) /\ 6 \in 1 .. Len(y) /\ Len(y) = Len(z) /\ Len(p) = Len(y)
      BY <1>2, <1>5, <1>10, <1>11 DEF SizeOfHeader
    <2>5. SumOfWords(y) = SumOfWords(z) + Weight(z, 5) * (y[5] - z[5])
      BY <1>5, <1>10, <2>2, <2>4, OneByteChanged
    <2>6. SumOfWords(p) = SumOfWords(y) + Weight(y, 6) * (p[6] - y[6])
      BY <1>10, <1>11, <2>3, <2>4, OneByteChanged
    <2>7. Weight(z, 5) = 1 /\ Weight(y, 6) = Base
      BY DEF Weight
    <2>8. lo \in Int /\ hi \in Int /\ Base * hi \in Int /\ SumOfWords(z) \in Int
      BY <1>4, <1>5, <1>8, SumBound DEF Byte
    <2>9. SumOfWords(y) = SumOfWords(z) + lo /\ SumOfWords(p) = SumOfWords(y) + Base * hi
      BY <1>4, <1>5, <1>10, <1>11, <2>5, <2>6, <2>7, <2>8
    <2> QED BY <1>8, <2>8, <2>9
  <1>13. IsRight(p)
    <2>1. PICK k \in Nat : SumOfWords(z) = Folded(SumOfWords(z)) + (Word - 1) * k
      BY <1>6
    <2>2. (Word - 1) * k \in Nat /\ (Word - 1) * (k + 1) = (Word - 1) * k + Word - 1 /\ k + 1 \in Nat
      BY <1>4
    <2>3. SumOfWords(p) = (Word - 1) * k + Word - 1
      BY <1>4, <1>6, <1>7, <1>12, <2>1, <2>2
    <2>4. SumOfWords(p) = (Word - 1) * (k + 1) /\ SumOfWords(p) > 0
      BY <1>4, <2>2, <2>3
    <2>5. Len(p) <= MAX_LEN
      BY <1>11
    <2> QED BY <1>11, <2>2, <2>4, <2>5, RightSum
  <1>14. Ntohl(p) = m.seq
    BY <1>2, <1>11, NetworkOrder DEF h
  <1>15. SubSeq(p, SizeOfHeader + 1, Len(p)) = m.data
    <2> DEFINE s == SubSeq(p, SizeOfHeader + 1, Len(p))
    <2>1. \A i \in SizeOfHeader + 1 .. Len(p) : p[i] \in Byte
      BY <1>2, <1>11, ElementOfSeq DEF SizeOfHeader
    <2>2. SizeOfHeader + 1 \in Int /\ Len(p) \in Int
      BY <1>2, <1>11 DEF SizeOfHeader
    <2>3. /\ s \in Seq(Byte)
          /\ Len(s) = IF SizeOfHeader + 1 <= Len(p) THEN Len(p) - (SizeOfHeader + 1) + 1 ELSE 0
          /\ \A i \in 1 .. Len(p) - (SizeOfHeader + 1) + 1 : s[i] = p[SizeOfHeader + 1 + i - 1]
      BY <2>1, <2>2, SubSeqProperties
    <2>4. Len(s) = Len(m.data)
      BY <1>2, <1>11, <2>3 DEF SizeOfHeader
    <2>5. \A i \in 1 .. Len(s) : s[i] = m.data[i]
      <3> SUFFICES ASSUME NEW i \in 1 .. Len(s) PROVE s[i] = m.data[i]
        OBVIOUS
      <3>1. i \in 1 .. Len(p) - (SizeOfHeader + 1) + 1 /\ SizeOfHeader + 1 + i - 1 = SizeOfHeader + i
            /\ i \in 1 .. Len(m.data)
        BY <1>2, <1>11, <2>4 DEF SizeOfHeader
      <3> QED BY <1>11, <2>3, <3>1
    <2> HIDE DEF s
    <2>6. s = m.data
      BY <1>2, <2>3, <2>4, <2>5, SeqEqual
    <2> QED BY <2>6 DEF s
  <1> QED BY <1>1, <1>11, <1>13, <1>14, <1>15 DEF Delivers

\* An inverted byte changes the sum by less than Word - 1, and by something,
\* as Base is even.
LEMMA FlipWrong ==
    ASSUME NEW p \in Seq(Byte), Len(p) <= MAX_LEN, IsRight(p),
           NEW i \in 1 .. Len(p)
    PROVE  LET q == [p EXCEPT ![i] = Base - 1 - @]
           IN  q \in Seq(Byte) /\ Len(q) = Len(p) /\ ~IsRight(q)
  <1> DEFINE b == p[i]
             q == [p EXCEPT ![i] = Base - 1 - @]
             w == Weight(p, i)
             m == Word - 1
             d == Base - 1 - b - b
  <1>1. b \in Byte /\ Base - 1 - b \in Byte
    <2>1. b \in Byte
      BY ElementOfSeq
    <2> HIDE DEF b
    <2> QED BY <2>1, BaseType DEF Byte
  <1>2. /\ q \in Seq(Byte) /\ Len(q) = Len(p)
        /\ \A j \in 1 .. Len(p) : q[j] = IF j = i THEN Base - 1 - b ELSE p[j]
    <2>1. q = [p EXCEPT ![i] = Base - 1 - b]
      OBVIOUS
    <2> DEFINE e == Base - 1 - b
    <2>2. e \in Byte
      BY <1>1
    <2>3. q = [p EXCEPT ![i] = e]
      BY <2>1
    <2> HIDE DEF e, q, b
    <2>4. /\ [p EXCEPT ![i] = e] \in Seq(Byte) /\ Len([p EXCEPT ![i] = e]) = Len(p)
          /\ \A j \in 1 .. Len(p) : [p EXCEPT ![i] = e][j] = IF j = i THEN e ELSE p[j]
      BY <2>2, ExceptSeq
    <2> QED BY <2>3, <2>4 DEF e
  <1> HIDE DEF q
  <1>3. SumOfWords(q) = SumOfWords(p) + w * d
    <2>1. SumOfWords(q) = SumOfWords(p) + w * (q[i] - b)
      BY <1>2, OneByteChanged
    <2>2. q[i] = Base - 1 - b
      BY <1>2
    <2>3. q[i] - b = d
      BY <2>2
    <2> HIDE DEF b, d, w
    <2> QED BY <2>1, <2>3
  <1>4. /\ Base \in Nat /\ Base >= 2 /\ Base % 2 = 0 /\ m \in Nat
        /\ b \in Nat /\ b <= Base - 1 /\ d \in Int /\ w \in {1, Base}
        /\ Base * Base = m + 1
    BY <1>1, BaseType, ChecksumAssumption DEF Byte, Word
  <1>5. d # 0
    <2> HIDE DEF b
    <2> QED BY <1>4
  <1>6. -Base < d /\ d < Base
    BY <1>4
  <1> HIDE DEF b, w, m, d
  <1>7. -m < w * d /\ w * d < m /\ w * d # 0
    <2>1. Base * d <= Base * (Base - 1) /\ Base * (1 - Base) <= Base * d
      BY <1>4, <1>6, Product
    <2>2. Base * (Base - 1) = m + 1 - Base /\ Base * (1 - Base) = Base - m - 1
      BY <1>4
    <2>3. Base * d # 0
      BY <1>4, <1>5
    <2>4. Base * d \in Int /\ Base <= m
      <3>1. Base * 2 <= Base * Base
        BY <1>4, Product
      <3> QED BY <1>4, <3>1
    <2>5. 1 * d = d
      BY <1>4
    <2>6. CASE w = 1
      BY <1>4, <1>5, <1>6, <2>4, <2>5, <2>6
    <2>7. CASE w = Base
      <3>1. -m < Base * d /\ Base * d < m
        BY <1>4, <2>1, <2>2, <2>4
      <3> QED BY <2>3, <2>7, <3>1
    <2> QED BY <1>4, <2>6, <2>7
  <1>8. ~IsRight(q)
    <2> SUFFICES ASSUME IsRight(q) PROVE FALSE
      OBVIOUS
    <2>1. PICK k \in Nat : SumOfWords(p) = m * k
      BY RightSum DEF m
    <2>2. PICK l \in Nat : SumOfWords(q) = m * l
      BY <1>2, RightSum DEF m
    <2>3. m * (l - k) = w * d
      <3>1. m * (l - k) = m * l - m * k
        BY <1>4
      <3>2. m * l \in Int /\ m * k \in Int /\ w * d \in Int
        BY <1>4
      <3> QED BY <1>3, <2>1, <2>2, <3>1, <3>2
    <2>4. l - k = 0
      BY <1>4, <1>7, <2>3, NoMultiple
    <2>5. m * 0 = 0
      BY <1>4
    <2> QED BY <1>7, <2>3, <2>4, <2>5
  <1> QED BY <1>2, <1>8 DEF q

(***************************************************************************)
(* The two properties.  What recv_buf will deliver is settled when the     *)
(* datagram leaves.                                                        *)
(***************************************************************************)

Outcome == IF flipped THEN {} ELSE {sent}

Inductive ==
    /\ sent \in Contents
    /\ stage = "send_buf" => ~flipped
    /\ stage = "sendtoErr" =>
         ~flipped /\ \E behind \in Byte : packet = createHeader(sent, behind)
    /\ stage = "recv_buf" /\ Fits =>
         /\ packet \in Seq(Byte) /\ Len(packet) \in SizeOfHeader .. MAX_LEN
         /\ Taken(packet) = Outcome
    /\ stage = "done" /\ Fits => received = Outcome

LEMMA Delivered ==
    ASSUME NEW m \in Contents, NEW bytes, Delivers(bytes, m)
    PROVE  Taken(bytes) = {m}
  <1>1. m = [seq |-> m.seq, flag |-> m.flag, data |-> m.data]
    BY ContentsType
  <1> QED BY <1>1 DEF Delivers, Taken

LEMMA InductiveNext == Inductive /\ [Next]_vars => Inductive'
  <1> SUFFICES ASSUME Inductive, [Next]_vars PROVE Inductive'
    OBVIOUS
  <1>1. CASE SendBuf
    <2>1. /\ sent' = sent /\ ~flipped' /\ stage' \in {"sendtoErr", "overrun"}
          /\ \E behind \in Byte : packet' = createHeader(sent, behind)
      BY <1>1 DEF SendBuf, Inductive
    <2> QED BY <2>1 DEF Inductive
  <1>2. CASE SendtoErr
    <2>1. /\ stage = "sendtoErr" /\ stage' = "recv_buf" /\ sent' = sent /\ ~flipped
          /\ sent \in Contents
      BY <1>2 DEF SendtoErr, Inductive
    <2>2. PICK behind \in Byte : packet = createHeader(sent, behind)
      BY <2>1 DEF Inductive
    <2>3. ASSUME Fits
          PROVE  /\ packet' \in Seq(Byte) /\ Len(packet') \in SizeOfHeader .. MAX_LEN
                 /\ Taken(packet') = Outcome'
      <3>1. Delivers(packet, sent)
        BY <2>1, <2>2, <2>3, HeaderRight DEF Fits
      <3>2. /\ packet \in Seq(Byte) /\ Len(packet) \in SizeOfHeader .. MAX_LEN
            /\ Len(packet) <= MAX_LEN /\ IsRight(packet) /\ DOMAIN packet = 1 .. Len(packet)
        BY <2>1, <2>3, <3>1, ContentsType, ChecksumAssumption, LenProperties
           DEF Delivers, Fits, SizeOfHeader
      <3>3. CASE UNCHANGED <<packet, flipped>>
        <4>1. Taken(packet) = {sent}
          BY <2>1, <3>1, Delivered
        <4> QED BY <2>1, <3>2, <3>3, <4>1 DEF Outcome
      <3>4. CASE flipped' /\ \E i \in DOMAIN packet : packet' = [packet EXCEPT ![i] = Base - 1 - @]
        <4>1. PICK i \in 1 .. Len(packet) : packet' = [packet EXCEPT ![i] = Base - 1 - @]
          BY <3>2, <3>4
        <4>2. packet' \in Seq(Byte) /\ Len(packet') = Len(packet) /\ ~IsRight(packet')
          BY <3>2, <4>1, FlipWrong
        <4> QED BY <3>2, <3>4, <4>2 DEF Outcome, Taken
      <3> QED BY <1>2, <3>3, <3>4 DEF SendtoErr
    <2>4. Fits' <=> Fits
      BY <2>1 DEF Fits
    <2> QED BY <2>1, <2>3, <2>4 DEF Inductive
  <1>3. CASE RecvBuf
    <2>1. /\ stage = "recv_buf" /\ stage' = "done" /\ UNCHANGED <<sent, packet, flipped>>
          /\ sent \in Contents
      BY <1>3 DEF RecvBuf, Inductive
    <2>2. ASSUME Fits PROVE received' = Outcome
      <3>1. /\ packet \in Seq(Byte) /\ Len(packet) \in SizeOfHeader .. MAX_LEN
            /\ Taken(packet) = Outcome
        BY <2>1, <2>2 DEF Inductive
      <3>2. ~(Len(packet) > MAX_LEN)
        BY <3>1, LenProperties, ChecksumAssumption, BaseType
      <3>3. PICK behind \in Byte :
              received' = retrieveHeader(SubSeq(packet, 1, Len(packet)) \o <<behind>>,
                                         Len(packet))
        BY <1>3, <3>2 DEF RecvBuf
      <3>4. SubSeq(packet, 1, Len(packet)) = packet
        BY <3>1, SubSeqFull
      <3>5. Len(packet) >= SizeOfHeader
        BY <3>1, ChecksumAssumption, BaseType DEF SizeOfHeader
      <3> QED BY <3>1, <3>3, <3>4, <3>5, NothingBehind
    <2>3. (Fits' <=> Fits) /\ Outcome' = Outcome
      BY <2>1 DEF Fits, Outcome
    <2> QED BY <2>1, <2>2, <2>3 DEF Inductive
  <1>4. CASE UNCHANGED vars
    BY <1>4 DEF vars, Inductive, Fits, Outcome
  <1> QED BY <1>1, <1>2, <1>3, <1>4 DEF Next

LEMMA InductiveAlways == Spec => []Inductive
  <1>1. Init => Inductive
    BY DEF Init, Inductive
  <1> QED BY <1>1, InductiveNext, PTL DEF Spec

\* A packet that no byte of was inverted is delivered with the number, flag
\* and data it was sent with (createHeader, in_cksum, retrieveHeader).
THEOREM PacketsArrive == Spec => []RoundTrip
  <1>1. Inductive => RoundTrip
    BY DEF Inductive, RoundTrip, Outcome
  <1> QED BY <1>1, InductiveAlways, PTL

\* A packet with one inverted byte is never delivered.
THEOREM FlipsAreCaught == Spec => []FlipCaught
  <1>1. Inductive => FlipCaught
    BY DEF Inductive, FlipCaught, Outcome
  <1> QED BY <1>1, InductiveAlways, PTL
=============================================================================
