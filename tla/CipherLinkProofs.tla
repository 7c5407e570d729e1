-------------------------- MODULE CipherLinkProofs --------------------------
(***************************************************************************)
(* Theorems about CipherLink for every key, any payloads and any number of *)
(* readings.                                                               *)
(***************************************************************************)
EXTENDS CipherLink, FiniteSetTheorems, SequenceTheorems, WellFoundedInduction, TLAPS

-----------------------------------------------------------------------------
(* Bytes and counters.                                                     *)

\* Numbers below 256 with the same bits are the same.
LEMMA WeightsInjective ==
    ASSUME NEW m \in 0 .. 255, NEW n \in 0 .. 255, Weights(m) = Weights(n)
    PROVE  m = n
<1> DEFINE Bit(x, d) == (x \div d) % 2
           D == {1, 2, 4, 8, 16, 32, 64, 128}
<1>1. \A w \in 0 .. 7 :
          (m \div PowersOfTwo[w + 1]) % 2 = 1 <=> (n \div PowersOfTwo[w + 1]) % 2 = 1
    BY DEF Weights
<1>2. \A d \in D : \E w \in 0 .. 7 : d = PowersOfTwo[w + 1]
  <2>1. /\ PowersOfTwo[0 + 1] = 1 /\ PowersOfTwo[1 + 1] = 2 /\ PowersOfTwo[2 + 1] = 4
        /\ PowersOfTwo[3 + 1] = 8 /\ PowersOfTwo[4 + 1] = 16 /\ PowersOfTwo[5 + 1] = 32
        /\ PowersOfTwo[6 + 1] = 64 /\ PowersOfTwo[7 + 1] = 128
    BY DEF PowersOfTwo
  <2>2. QED
    BY <2>1
<1>3. \A d \in D : Bit(m, d) = 1 <=> Bit(n, d) = 1
  <2>1. TAKE d \in D
  <2>2. PICK w \in 0 .. 7 : d = PowersOfTwo[w + 1]
    BY <1>2
  <2>3. QED
    BY <1>1, <2>2, Zenon
<1>4. \A x \in 0 .. 255 : \A d \in D : Bit(x, d) \in {0, 1}
    OBVIOUS
<1>5. \A d \in D : Bit(m, d) = Bit(n, d)
    BY <1>3, <1>4
<1> DEFINE Halves(x) ==
        /\ x \div 128 = Bit(x, 128)
        /\ x \div 64 = 2 * (x \div 128) + Bit(x, 64)
        /\ x \div 32 = 2 * (x \div 64) + Bit(x, 32)
        /\ x \div 16 = 2 * (x \div 32) + Bit(x, 16)
        /\ x \div 8 = 2 * (x \div 16) + Bit(x, 8)
        /\ x \div 4 = 2 * (x \div 8) + Bit(x, 4)
        /\ x \div 2 = 2 * (x \div 4) + Bit(x, 2)
        /\ x = 2 * (x \div 2) + Bit(x, 1)
<1>6. Halves(m) /\ Halves(n)
    OBVIOUS
<1>7. /\ Bit(m, 1) = Bit(n, 1) /\ Bit(m, 2) = Bit(n, 2)
      /\ Bit(m, 4) = Bit(n, 4) /\ Bit(m, 8) = Bit(n, 8)
      /\ Bit(m, 16) = Bit(n, 16) /\ Bit(m, 32) = Bit(n, 32)
      /\ Bit(m, 64) = Bit(n, 64) /\ Bit(m, 128) = Bit(n, 128)
    BY <1>5 DEF D
<1> HIDE DEF Bit
<1>8. /\ m \div 128 = n \div 128
      /\ m \div 64 = n \div 64
      /\ m \div 32 = n \div 32
      /\ m \div 16 = n \div 16
      /\ m \div 8 = n \div 8
      /\ m \div 4 = n \div 4
      /\ m \div 2 = n \div 2
    BY <1>6, <1>7
<1>9. QED
    BY <1>6, <1>7, <1>8

\* The two counters of a payload: the nonce and its successor.
LEMMA TwoCounters ==
    ASSUME NEW nonce
    PROVE  /\ Counters(nonce, PAYLOAD_SIZE)[0] = nonce
           /\ Counters(nonce, PAYLOAD_SIZE)[1] = NextCounter(nonce)
<1> DEFINE c == Counters(nonce, PAYLOAD_SIZE)
           g == [k \in 0 .. 1 |-> IF k = 0 THEN nonce ELSE NextCounter(nonce)]
<1>1. (PAYLOAD_SIZE - 1) \div 16 = 1
    BY DEF PAYLOAD_SIZE
<1>2. g = [k \in 0 .. 1 |-> IF k = 0 THEN nonce ELSE NextCounter(g[k - 1])]
    OBVIOUS
<1>3. \E f : f = [k \in 0 .. 1 |-> IF k = 0 THEN nonce ELSE NextCounter(f[k - 1])]
    BY <1>2
<1>4. c = CHOOSE f : f = [k \in 0 .. 1 |-> IF k = 0 THEN nonce ELSE NextCounter(f[k - 1])]
    BY <1>1 DEF Counters
<1>5. c = [k \in 0 .. 1 |-> IF k = 0 THEN nonce ELSE NextCounter(c[k - 1])]
    BY <1>3, <1>4
<1>6. QED
    BY <1>5

\* The nonce of a number is a block that ends in a zero byte.
LEMMA NonceEndsInZero ==
    ASSUME NEW seq
    PROVE  Nonce(seq) \in [1 .. 16 -> Byte] /\ Nonce(seq)[16] = {}
BY DEF Nonce, MakeNonce, Byte, Weights

\* Its successor differs in that byte only.
LEMMA NextOfNonce ==
    ASSUME NEW seq
    PROVE  NextCounter(Nonce(seq)) = [Nonce(seq) EXCEPT ![16] = {0}]
<1> DEFINE n == Nonce(seq)
           wraps == {i \in 1 .. 16 : \A j \in i .. 16 : n[j] = 0 .. 7}
<1>1. n \in [1 .. 16 -> Byte] /\ n[16] = {}
    BY NonceEndsInZero
<1>2. wraps = {}
  <2>1. 0 \in 0 .. 7 /\ n[16] # 0 .. 7
    BY <1>1
  <2>2. \A i \in 1 .. 16 : 16 \in i .. 16
    OBVIOUS
  <2>3. QED
    BY <2>1, <2>2
<1>3. PlusOne({}) = {0}
  <2> DEFINE ones == {w \in 0 .. 7 : 0 .. w \subseteq {}}
  <2>1. PlusOne({}) = ({} \ ones) \cup ({Cardinality(ones)} \cap (0 .. 7))
    BY DEF PlusOne
  <2>2. ones = {}
    <3>1. \A w \in 0 .. 7 : 0 \in 0 .. w
      OBVIOUS
    <3>2. QED
      BY <3>1
  <2>3. Cardinality(ones) = 0
    BY <2>2, FS_EmptySet
  <2>4. {0} \cap (0 .. 7) = {0}
    OBVIOUS
  <2> HIDE DEF ones
  <2>5. QED
    BY <2>1, <2>2, <2>3, <2>4, Zenon
<1>4. NextCounter(n) = [i \in 1 .. 16 |-> IF i = 16 \/ i + 1 \in wraps
                                         THEN PlusOne(n[i]) ELSE n[i]]
    BY DEF NextCounter
<1> HIDE DEF n, wraps
<1>5. NextCounter(n) = [i \in 1 .. 16 |-> IF i = 16 THEN {0} ELSE n[i]]
    BY <1>1, <1>2, <1>3, <1>4, SMTT(30)
<1>6. QED
    BY <1>1, <1>5 DEF n

LEMMA MaxSeqIsPositive == MaxSeq \in Nat /\ MaxSeq > 0
BY DEF MaxSeq

LEMMA BelowMaxSeq == \A n \in Nat : n < MaxSeq => n < 65536
BY DEF MaxSeq

LEMMA SeqRange ==
    ASSUME NEW q \in 0 .. MaxSeq - 1
    PROVE  q \in Nat /\ q < 65536
<1>1. q \in Nat /\ q < MaxSeq
    BY MaxSeqIsPositive
<1>2. QED
    BY <1>1, BelowMaxSeq

LEMMA ZeroIsNumber == 0 \in 0 .. MaxSeq - 1
BY MaxSeqIsPositive

LEMMA NextSeqIsNumber ==
    ASSUME NEW q \in 0 .. MaxSeq - 1
    PROVE  NextSeq(q) \in 0 .. MaxSeq - 1
<1>1. \A n, m \in Nat : m > 0 => (n + 1) % m \in 0 .. m - 1
    OBVIOUS
<1>2. MaxSeq \in Nat /\ MaxSeq > 0
    BY MaxSeqIsPositive
<1>3. (q + 1) % MaxSeq \in 0 .. MaxSeq - 1
    BY <1>1, <1>2
<1>4. QED
    BY <1>3 DEF NextSeq

\* The counter of block k of the reading with number seq.
CounterOf(seq, k) == Counters(Nonce(seq), PAYLOAD_SIZE)[k]

\* A counter tells which block of which reading it is for.
LEMMA CounterTells ==
    ASSUME NEW s \in 0 .. MaxSeq - 1, NEW t \in 0 .. MaxSeq - 1,
           NEW k \in 0 .. 1, NEW l \in 0 .. 1,
           CounterOf(s, k) = CounterOf(t, l)
    PROVE  s = t /\ k = l
<1>1. \A q, b : b \in 0 .. 1 =>
          /\ CounterOf(q, b)[2] = Nonce(q)[2]
          /\ CounterOf(q, b)[3] = Nonce(q)[3]
          /\ CounterOf(q, b)[16] = IF b = 0 THEN {} ELSE {0}
  <2>1. TAKE q, b
  <2>2. HAVE b \in 0 .. 1
  <2>3. CASE b = 0
    BY <2>3, TwoCounters, NonceEndsInZero DEF CounterOf
  <2>4. CASE b = 1
    BY <2>4, TwoCounters, NonceEndsInZero, NextOfNonce DEF CounterOf
  <2>5. QED
    BY <2>2, <2>3, <2>4
<1>2. k = l
  <2>1. {} # {0}
    OBVIOUS
  <2>2. QED
    BY <1>1, <2>1
<1>3. \A q : Nonce(q)[2] = Weights(q \div 256) /\ Nonce(q)[3] = Weights(q)
    BY DEF Nonce, MakeNonce
<1>4. Weights(s \div 256) = Weights(t \div 256) /\ Weights(s) = Weights(t)
    BY <1>1, <1>3
<1>5. \A q \in 0 .. MaxSeq - 1 :
          /\ q \div 256 \in 0 .. 255
          /\ q % 256 \in 0 .. 255
          /\ q = 256 * (q \div 256) + (q % 256)
  <2>1. TAKE q \in 0 .. MaxSeq - 1
  <2>2. q \in Nat /\ q < 65536
    BY SeqRange
  <2>3. q = 256 * (q \div 256) + (q % 256) /\ q % 256 \in 0 .. 255 /\ q \div 256 \in Nat
    BY <2>2
  <2>4. QED
    BY <2>2, <2>3
<1>6. s \div 256 = t \div 256
  <2>1. s \div 256 \in 0 .. 255 /\ t \div 256 \in 0 .. 255
    BY <1>5
  <2>2. QED
    BY <1>4, <2>1, WeightsInjective, ZenonT(60)
<1>7. \A q \in 0 .. MaxSeq - 1 : Weights(q) = Weights(q % 256)
  <2>1. TAKE q \in 0 .. MaxSeq - 1
  <2>2. PICK h \in Int, r \in 0 .. 255 : q = 256 * h + r /\ r = q % 256
    BY <1>5, SMTT(30)
  <2>3. /\ ((256 * h + r) \div 1) % 2 = (r \div 1) % 2
        /\ ((256 * h + r) \div 2) % 2 = (r \div 2) % 2
        /\ ((256 * h + r) \div 4) % 2 = (r \div 4) % 2
        /\ ((256 * h + r) \div 8) % 2 = (r \div 8) % 2
        /\ ((256 * h + r) \div 16) % 2 = (r \div 16) % 2
        /\ ((256 * h + r) \div 32) % 2 = (r \div 32) % 2
        /\ ((256 * h + r) \div 64) % 2 = (r \div 64) % 2
        /\ ((256 * h + r) \div 128) % 2 = (r \div 128) % 2
    BY SMTT(30)
  <2>4. \A d \in {1, 2, 4, 8, 16, 32, 64, 128} : (q \div d) % 2 = (r \div d) % 2
    BY <2>2, <2>3
  <2>5. \A w \in 0 .. 7 : PowersOfTwo[w + 1] \in {1, 2, 4, 8, 16, 32, 64, 128}
    BY DEF PowersOfTwo
  <2>6. \A w \in 0 .. 7 :
            (q \div PowersOfTwo[w + 1]) % 2 = (r \div PowersOfTwo[w + 1]) % 2
    BY <2>4, <2>5, ZenonT(60)
  <2>7. Weights(q) = Weights(r)
    BY <2>6 DEF Weights
  <2>8. QED
    BY <2>2, <2>7
<1>8. s % 256 = t % 256
  <2>1. s % 256 \in 0 .. 255 /\ t % 256 \in 0 .. 255
    BY <1>5
  <2>2. Weights(s % 256) = Weights(t % 256)
    BY <1>4, <1>7
  <2>3. QED
    BY <2>1, <2>2, WeightsInjective, ZenonT(60)
<1>9. QED
    BY <1>2, <1>5, <1>6, <1>8

-----------------------------------------------------------------------------
(* Counters.                                                               *)

\* What makes CountersFresh inductive: a recorded counter is the one of its
\* block.
CountersInv ==
    /\ global_seq \in 0 .. MaxSeq - 1
    /\ \A u \in used : /\ u.seq \in 0 .. MaxSeq - 1
                       /\ u.block \in 0 .. 1
                       /\ u.counter = CounterOf(u.seq, u.block)

LEMMA CountersInit == Init => CountersInv
BY ZeroIsNumber, StartsAssumption DEF Init, Off, Joined, CountersInv

LEMMA CountersStep == CountersInv /\ [Next]_vars => CountersInv'
<1> SUFFICES ASSUME CountersInv, [Next]_vars
             PROVE  CountersInv'
    OBVIOUS
<1> USE DEF CountersInv
<1>1. CASE HalInit
    BY <1>1 DEF HalInit
<1>2. ASSUME NEW p \in Payloads, OnTx(p)
      PROVE  CountersInv'
  <2>1. global_seq' \in 0 .. MaxSeq - 1
    BY <1>2, NextSeqIsNumber DEF OnTx
  <2>2. used' = used \cup {[seq |-> global_seq, block |-> k,
                            counter |-> CounterOf(global_seq, k)] : k \in 0 .. 1}
    BY <1>2 DEF OnTx, CounterOf
  <2>3. \A u \in used' \ used : \E k \in 0 .. 1 :
            u = [seq |-> global_seq, block |-> k, counter |-> CounterOf(global_seq, k)]
    BY <2>2
  <2>4. \A u \in used' \ used : /\ u.seq \in 0 .. MaxSeq - 1
                                /\ u.block \in 0 .. 1
                                /\ u.counter = CounterOf(u.seq, u.block)
    BY <2>3
  <2>5. QED
    BY <2>1, <2>4 DEF CounterOf
<1>3. CASE Reset
    BY <1>3, ZeroIsNumber DEF Reset
<1>4. CASE UNCHANGED vars
    BY <1>4 DEF vars, CounterOf
<1>5. QED
    BY <1>1, <1>2, <1>3, <1>4 DEF Next

\* Within a boot no counter is used for two blocks, whatever the payloads and
\* however many readings there are: two readings only share a counter when they
\* share their number (hal_crypto_make_nonce, aes_ctr_crypt).
THEOREM CountersNeverRepeat == Spec => []CountersFresh
<1>1. CountersInv => CountersFresh
    BY CounterTells DEF CountersInv, CountersFresh
<1>2. QED
    BY <1>1, CountersInit, CountersStep, PTL DEF Spec


-----------------------------------------------------------------------------
(* What the cloud reads, first if the block ciphers of node and cloud      *)
(* agree under the key: nonces, counters, blocks and the exclusive or.     *)

BlocksAgree ==
    \A block \in [1 .. 16 -> Byte] :
        EncryptBlock(KeyExpansion(Key), block) = StdBlock(CloudKeys, block)

Text == [1 .. PAYLOAD_SIZE -> Byte]
Join(a, b) == a \o b

NodeStream(keys, nonce) ==
    Join(Join(<<>>, EncryptBlock(keys, nonce)), EncryptBlock(keys, NextCounter(nonce)))
CloudStream(keys, nonce) ==
    Join(Join(<<>>, StdBlock(keys, [nonce EXCEPT ![16] = Weights(0)])),
         StdBlock(keys, [nonce EXCEPT ![16] = Weights(1)]))

LEMMA JoinProperties ==
    ASSUME NEW S, NEW s \in Seq(S), NEW t \in Seq(S)
    PROVE  /\ Join(s, t) \in Seq(S)
           /\ Len(Join(s, t)) = Len(s) + Len(t)
           /\ \A i \in 1 .. Len(s) : Join(s, t)[i] = s[i]
           /\ \A i \in 1 .. Len(t) : Join(s, t)[Len(s) + i] = t[i]
<1>1. Len(s) \in Nat /\ Len(t) \in Nat
    BY LenProperties
<1>2. /\ Join(s, t) \in Seq(S)
      /\ Len(Join(s, t)) = Len(s) + Len(t)
      /\ \A i \in 1 .. Len(s) + Len(t) :
            Join(s, t)[i] = IF i <= Len(s) THEN s[i] ELSE t[i - Len(s)]
    BY ConcatProperties, Zenon DEF Join
<1>3. \A i \in 1 .. Len(t) : /\ Len(s) + i \in 1 .. Len(s) + Len(t)
                            /\ ~ (Len(s) + i <= Len(s)) /\ Len(s) + i - Len(s) = i
    BY <1>1
<1>4. \A i \in 1 .. Len(s) : i \in 1 .. Len(s) + Len(t) /\ i <= Len(s)
    BY <1>1
<1>5. QED
    BY <1>2, <1>3, <1>4

\* The keystream of a payload has two blocks.
LEMMA TwoBlocks ==
    ASSUME NEW keys, NEW nonce
    PROVE  Keystream(keys, nonce, PAYLOAD_SIZE) = NodeStream(keys, nonce)
<1> DEFINE c == Counters(nonce, PAYLOAD_SIZE)
           e == [k \in 0 .. 1 |-> EncryptBlock(keys, c[k])]
           g == [k \in 0 .. 1 |-> IF k = 0 THEN Join(<<>>, e[0])
                                  ELSE Join(Join(<<>>, e[0]), e[1])]
           IsStream(f) == f = [k \in 0 .. 1 |-> Join(IF k = 0 THEN <<>> ELSE f[k - 1],
                                                     EncryptBlock(keys, c[k]))]
<1>1. (PAYLOAD_SIZE - 1) \div 16 = 1
    BY DEF PAYLOAD_SIZE
<1>2. c[0] = nonce /\ c[1] = NextCounter(nonce)
    BY TwoCounters
<1>3. Keystream(keys, nonce, PAYLOAD_SIZE) = (CHOOSE f : IsStream(f))[1]
    BY <1>1 DEF Keystream, Join
<1> HIDE DEF c
<1>4. IsStream(g)
    OBVIOUS
<1>5. IsStream(CHOOSE f : IsStream(f))
    BY <1>4
<1> DEFINE h == CHOOSE f : IsStream(f)
<1>6. h = [k \in 0 .. 1 |-> Join(IF k = 0 THEN <<>> ELSE h[k - 1], EncryptBlock(keys, c[k]))]
    BY <1>5
<1> HIDE DEF h
<1>7. h[0] = Join(<<>>, EncryptBlock(keys, c[0])) /\ h[1] = Join(h[0], EncryptBlock(keys, c[1]))
    BY <1>6
<1>8. QED
    BY <1>2, <1>3, <1>7 DEF h, NodeStream

\* And so has the library's.
LEMMA TwoStdBlocks ==
    ASSUME NEW keys, NEW nonce, NEW text, Len(text) = PAYLOAD_SIZE
    PROVE  StdCtr(keys, nonce, text)
              = [i \in 1 .. PAYLOAD_SIZE |-> Xor(text[i], CloudStream(keys, nonce)[i])]
<1> DEFINE e == [k \in 0 .. 1 |-> StdBlock(keys, [nonce EXCEPT ![16] = Weights(k)])]
           last == (Len(text) - 1) \div 16
           g == [k \in 0 .. last |-> IF k = 0 THEN Join(<<>>, e[0])
                                  ELSE Join(Join(<<>>, e[0]), e[1])]
           IsStream(f) == f = [k \in 0 .. last |->
                                  Join(IF k = 0 THEN <<>> ELSE f[k - 1],
                                       StdBlock(keys, [nonce EXCEPT ![16] = Weights(k)]))]
           h == CHOOSE f : IsStream(f)
<1>1. StdCtr(keys, nonce, text) = [i \in 1 .. Len(text) |-> Xor(text[i], h[last][i])]
    BY DEF StdCtr, Join
<1>2. last = 1
    BY DEF PAYLOAD_SIZE
<1> HIDE DEF last
<1>3. IsStream(g)
    BY <1>2
<1>4. IsStream(h)
    BY <1>3
<1>5. h = [k \in 0 .. last |-> Join(IF k = 0 THEN <<>> ELSE h[k - 1],
                                 StdBlock(keys, [nonce EXCEPT ![16] = Weights(k)]))]
    BY <1>4
<1> HIDE DEF h
<1>6. /\ h[0] = Join(<<>>, StdBlock(keys, [nonce EXCEPT ![16] = Weights(0)]))
      /\ h[1] = Join(h[0], StdBlock(keys, [nonce EXCEPT ![16] = Weights(1)]))
    BY <1>2, <1>5
<1>7. h[1] = CloudStream(keys, nonce)
    BY <1>6 DEF CloudStream
<1>8. QED
    BY <1>1, <1>2, <1>7

\* Node and cloud build the same nonce.
LEMMA SameNonce ==
    ASSUME NEW q
    PROVE  BuildNonce(DEVICE_ID, q) = Nonce(q)
<1> DEFINE a == <<Weights(DEVICE_ID), Weights(q \div 256), Weights(q)>>
           z == [i \in 1 .. 13 |-> {}]
<1>1. a \in Seq(Byte) /\ Len(a) = 3
    BY DEF Byte, Weights
<1>2. {} \in Byte
    BY DEF Byte
<1>3. z \in Seq(Byte) /\ Len(z) = 13
    BY <1>2
<1>4. a[1] = Weights(DEVICE_ID) /\ a[2] = Weights(q \div 256) /\ a[3] = Weights(q)
    OBVIOUS
<1>5. \A i \in 1 .. 13 : z[i] = {}
    OBVIOUS
<1> DEFINE b == Join(a, z)
<1> HIDE DEF a, z
<1>6. /\ b \in Seq(Byte) /\ Len(b) = 16
      /\ \A i \in 1 .. 3 : b[i] = a[i]
      /\ \A i \in 1 .. 13 : b[3 + i] = z[i]
  <2>1. a \in Seq(Byte) /\ z \in Seq(Byte)
    BY <1>1, <1>3
  <2>2. b \in Seq(Byte)
    BY <2>1, JoinProperties
  <2>3. Len(b) = Len(a) + Len(z)
    BY <2>1, JoinProperties
  <2>4. \A i \in 1 .. Len(a) : b[i] = a[i]
    BY <2>1, JoinProperties
  <2>5. \A i \in 1 .. Len(z) : b[Len(a) + i] = z[i]
    BY <2>1, JoinProperties
  <2> HIDE DEF b
  <2>6. QED
    BY <1>1, <1>3, <2>2, <2>3, <2>4, <2>5
<1> HIDE DEF b
<1>7. b \in [1 .. 16 -> Byte] /\ Nonce(q) \in [1 .. 16 -> Byte]
    BY <1>6, LenProperties, NonceEndsInZero
<1>8. \A i \in 4 .. 16 : i - 3 \in 1 .. 13 /\ 3 + (i - 3) = i
    OBVIOUS
<1>9. \A i \in 4 .. 16 : b[i] = {}
    BY <1>5, <1>6, <1>8
<1>10. \A i \in 1 .. 16 : b[i] = CASE i = 1 -> Weights(DEVICE_ID)
                                   [] i = 2 -> Weights(q \div 256)
                                   [] i = 3 -> Weights(q)
                                   [] OTHER -> {}
  <2>1. TAKE i \in 1 .. 16
  <2>2. CASE i = 1
    BY <1>4, <1>6, <2>2
  <2>3. CASE i = 2
    BY <1>4, <1>6, <2>3
  <2>4. CASE i = 3
    BY <1>4, <1>6, <2>4
  <2>5. CASE i \in 4 .. 16
    <3>1. i # 1 /\ i # 2 /\ i # 3 /\ b[i] = {}
      BY <1>9, <2>5
    <3>2. QED
      BY <3>1
  <2>6. i = 1 \/ i = 2 \/ i = 3 \/ i \in 4 .. 16
    OBVIOUS
  <2>7. QED
    BY <2>2, <2>3, <2>4, <2>5, <2>6
<1>11. b = [i \in 1 .. 16 |-> CASE i = 1 -> Weights(DEVICE_ID)
                                [] i = 2 -> Weights(q \div 256)
                                [] i = 3 -> Weights(q)
                                [] OTHER -> {}]
    BY <1>7, <1>10
<1>12. QED
    BY <1>11 DEF BuildNonce, Nonce, MakeNonce, Join, a, z, b

LEMMA WeightsOfBlocks == Weights(0) = {} /\ Weights(1) = {0}
<1>1. \A w \in 0 .. 7 : (0 \div PowersOfTwo[w + 1]) % 2 = 0
  <2>1. TAKE w \in 0 .. 7
  <2>2. PowersOfTwo[w + 1] \in {1, 2, 4, 8, 16, 32, 64, 128}
    BY DEF PowersOfTwo
  <2>3. \A d \in {1, 2, 4, 8, 16, 32, 64, 128} : (0 \div d) % 2 = 0
    OBVIOUS
  <2>4. QED
    BY <2>2, <2>3
<1>2. (1 \div PowersOfTwo[0 + 1]) % 2 = 1
    BY DEF PowersOfTwo
<1>3. \A w \in 1 .. 7 : (1 \div PowersOfTwo[w + 1]) % 2 = 0
  <2>1. TAKE w \in 1 .. 7
  <2>2. PowersOfTwo[w + 1] \in {2, 4, 8, 16, 32, 64, 128}
    BY DEF PowersOfTwo
  <2>3. \A d \in {2, 4, 8, 16, 32, 64, 128} : (1 \div d) % 2 = 0
    OBVIOUS
  <2>4. QED
    BY <2>2, <2>3
<1>4. QED
    BY <1>1, <1>2, <1>3 DEF Weights

LEMMA TextLength ==
    ASSUME NEW S, NEW p \in [1 .. PAYLOAD_SIZE -> S]
    PROVE  p \in Seq(S) /\ Len(p) = PAYLOAD_SIZE
<1>1. PAYLOAD_SIZE \in Nat
    BY DEF PAYLOAD_SIZE
<1>2. p \in Seq(S)
    BY <1>1, SeqDef
<1>3. Len(p) \in Nat /\ 1 .. Len(p) = 1 .. PAYLOAD_SIZE
    BY <1>2, LenProperties
<1>4. QED
    BY <1>1, <1>2, <1>3

\* What the node makes of a payload under a number opens under that number.
LEMMA CloudOpens ==
    ASSUME BlocksAgree, NEW q, NEW p \in Text
    PROVE  Decrypt(Crypt(KeyExpansion(Key), Nonce(q), p), q) = p
<1> DEFINE keys == KeyExpansion(Key)
           n == Nonce(q)
           stream == NodeStream(keys, n)
           cipher == [i \in 1 .. PAYLOAD_SIZE |-> Xor(p[i], stream[i])]
<1>1. Len(p) = PAYLOAD_SIZE
    BY TextLength DEF Text
<1>2. Crypt(keys, n, p) = cipher
    BY <1>1, TwoBlocks DEF Crypt
<1>3. Len(cipher) = PAYLOAD_SIZE
    BY DEF PAYLOAD_SIZE
<1>4. n \in [1 .. 16 -> Byte] /\ n[16] = {}
    BY NonceEndsInZero
<1>5. [n EXCEPT ![16] = Weights(0)] = n
    BY <1>4, WeightsOfBlocks
<1>6. [n EXCEPT ![16] = Weights(1)] = NextCounter(n) /\ NextCounter(n) \in [1 .. 16 -> Byte]
  <2>1. {0} \in Byte
    BY DEF Byte
  <2>2. [n EXCEPT ![16] = {0}] \in [1 .. 16 -> Byte]
    BY <1>4, <2>1
  <2>3. QED
    BY <2>2, NextOfNonce, WeightsOfBlocks
<1>7. /\ StdBlock(CloudKeys, n) = EncryptBlock(keys, n)
      /\ StdBlock(CloudKeys, NextCounter(n)) = EncryptBlock(keys, NextCounter(n))
    BY <1>4, <1>6 DEF BlocksAgree
<1> HIDE DEF cipher, n, keys
<1>8. Decrypt(cipher, q) = StdCtr(CloudKeys, n, cipher)
    BY SameNonce DEF Decrypt, n
<1>9. StdCtr(CloudKeys, n, cipher)
        = [i \in 1 .. PAYLOAD_SIZE |-> Xor(cipher[i], CloudStream(CloudKeys, n)[i])]
    BY <1>3, TwoStdBlocks
<1>10. CloudStream(CloudKeys, n) = stream
  <2>1. StdBlock(CloudKeys, [n EXCEPT ![16] = Weights(0)]) = EncryptBlock(keys, n)
    BY <1>5, <1>7
  <2>2. StdBlock(CloudKeys, [n EXCEPT ![16] = Weights(1)]) = EncryptBlock(keys, NextCounter(n))
    BY <1>6, <1>7
  <2>3. QED
    BY <2>1, <2>2 DEF CloudStream, NodeStream
<1> HIDE DEF stream
<1>11. \A i \in 1 .. PAYLOAD_SIZE : Xor(cipher[i], stream[i]) = p[i]
  <2>1. \A a, b : Xor(Xor(a, b), b) = a
    BY DEF Xor, SymDiff
  <2>2. \A i \in 1 .. PAYLOAD_SIZE : cipher[i] = Xor(p[i], stream[i])
    BY DEF cipher
  <2>3. QED
    BY <2>1, <2>2
<1>12. StdCtr(CloudKeys, n, cipher) = p
    BY <1>9, <1>10, <1>11 DEF Text
<1>13. QED
    BY <1>2, <1>8, <1>12 DEF n, keys

-----------------------------------------------------------------------------
(* Counting up to a number, and functions defined by doing so.             *)

\* A non-empty set of naturals has a least element.
LEMMA LeastElement ==
    ASSUME NEW T, T \subseteq Nat, T # {}
    PROVE  \E x \in T : \A y \in T : x <= y
<1> DEFINE less == OpToRel(<, Nat)
<1>1. IsWellFoundedOn(less, Nat)
    BY NatLessThanWellFounded
<1>2. PICK x \in T : \A y \in T : ~(<<y, x>> \in less)
  <2> HIDE DEF less
  <2>1. QED
    BY <1>1, WFMin
<1>3. \A y \in T : y \in Nat /\ x \in Nat /\ ~(y < x)
    BY <1>2 DEF OpToRel
<1>4. QED
    BY <1>3

\* What holds of 0, and of k + 1 whenever of k, holds up to n.
LEMMA Climb ==
    ASSUME NEW n \in Nat, NEW S, 0 \in S, \A k \in 0 .. n - 1 : k \in S => k + 1 \in S
    PROVE  \A k \in 0 .. n : k \in S
<1> DEFINE T == {k \in 0 .. n : k \notin S}
<1>1. SUFFICES ASSUME T # {} PROVE FALSE
    OBVIOUS
<1>2. PICK x \in T : \A y \in T : x <= y
  <2>1. T \subseteq Nat
    OBVIOUS
  <2> HIDE DEF T
  <2>2. QED
    BY <1>1, <2>1, LeastElement
<1>3. x \in 0 .. n /\ x \notin S /\ x # 0
    BY <1>2
<1>4. x - 1 \in 0 .. n - 1 /\ (x - 1) + 1 = x /\ x - 1 < x
    BY <1>3
<1>5. x - 1 \in S
    BY <1>2, <1>4
<1>6. QED
    BY <1>3, <1>4, <1>5

\* A function whose value at k is made from the one at k - 1 exists.
Steps(step, n, V) == step \in [1 .. n -> [V -> V]]

Iterates(a, n, V, base, step) ==
    /\ a \in [0 .. n -> V]
    /\ a[0] = base
    /\ \A k \in 1 .. n : a[k] = step[k][a[k - 1]]

\* A function that applies a step for each number up to n exists.
LEMMA StepByStep ==
    ASSUME NEW n \in Nat, NEW V, NEW base \in V, NEW step, Steps(step, n, V)
    PROVE  \E a : Iterates(a, n, V, base, step)
<1> DEFINE Upto(m, a) == a[0] = base /\ \A k \in 1 .. m : a[k] = step[k][a[k - 1]]
           S == {m \in 0 .. n : \E a \in [0 .. n -> V] : Upto(m, a)}
<1>0. step \in [1 .. n -> [V -> V]]
    BY DEF Steps
<1>1. 0 \in S
  <2>1. [k \in 0 .. n |-> base] \in [0 .. n -> V] /\ Upto(0, [k \in 0 .. n |-> base])
    OBVIOUS
  <2> HIDE DEF Upto
  <2>2. QED
    BY <2>1
<1>2. ASSUME NEW m \in 0 .. n - 1, m \in S PROVE m + 1 \in S
  <2>1. PICK a \in [0 .. n -> V] : Upto(m, a)
    BY <1>2
  <2> DEFINE b == [a EXCEPT ![m + 1] = step[m + 1][a[m]]]
  <2>2. m \in 0 .. n /\ m + 1 \in 1 .. n /\ m + 1 \in 0 .. n
    OBVIOUS
  <2>3. a[m] \in V /\ step[m + 1][a[m]] \in V
    BY <1>0, <2>2
  <2>4. b \in [0 .. n -> V]
    BY <2>2, <2>3
  <2>5. b[m + 1] = step[m + 1][a[m]] /\ \A k \in 0 .. m : b[k] = a[k]
    BY <2>2
  <2>6. \A k \in 1 .. m + 1 : k = m + 1 \/ (k \in 1 .. m /\ k \in 0 .. m /\ k - 1 \in 0 .. m)
    OBVIOUS
  <2> HIDE DEF b
  <2>7. Upto(m + 1, b)
    <3>1. b[0] = base
      BY <2>1, <2>5
    <3>2. ASSUME NEW k \in 1 .. m + 1 PROVE b[k] = step[k][b[k - 1]]
      <4>1. CASE k = m + 1
        <5>1. k - 1 = m /\ m \in 0 .. m
          BY <4>1
        <5>2. QED
          BY <2>5, <4>1, <5>1
      <4>2. CASE k \in 1 .. m /\ k \in 0 .. m /\ k - 1 \in 0 .. m
        BY <2>1, <2>5, <4>2
      <4>3. QED
        BY <2>6, <4>1, <4>2
    <3>3. QED
      BY <3>1, <3>2
  <2> HIDE DEF Upto
  <2>8. QED
    BY <2>2, <2>4, <2>7
<1>3. \A m \in 0 .. n : m \in S
  <2> HIDE DEF S
  <2>1. \A m \in 0 .. n - 1 : m \in S => m + 1 \in S
    BY <1>2
  <2>2. QED
    BY <1>1, <2>1, Climb
<1>4. n \in S
    BY <1>3
<1>5. QED
    BY <1>4 DEF Iterates

\* What takes the same steps from the same base is the same.
LEMMA Follows ==
    ASSUME NEW n \in Nat, NEW V, NEW base, NEW step, NEW a, Iterates(a, n, V, base, step),
           NEW f, f[0] = base, \A k \in 1 .. n : f[k - 1] \in V => f[k] = step[k][f[k - 1]]
    PROVE  \A k \in 0 .. n : f[k] = a[k]
<1> DEFINE S == {k \in 0 .. n : f[k] = a[k]}
<1>1. 0 \in S
    BY DEF Iterates
<1>2. \A k \in 0 .. n - 1 : k \in S => k + 1 \in S
  <2>1. TAKE k \in 0 .. n - 1
  <2>2. HAVE k \in S
  <2>3. k + 1 \in 1 .. n /\ k + 1 \in 0 .. n /\ (k + 1) - 1 = k /\ k \in 0 .. n
    OBVIOUS
  <2>4. f[k] = a[k] /\ a[k] \in V
    BY <2>2, <2>3 DEF Iterates
  <2>5. a[k + 1] = step[k + 1][a[k]]
    BY <2>3 DEF Iterates
  <2>6. f[k + 1] = step[k + 1][f[k]]
    BY <2>3, <2>4
  <2>7. QED
    BY <2>3, <2>4, <2>5, <2>6
<1> HIDE DEF S
<1>3. \A k \in 0 .. n : k \in S
    BY <1>1, <1>2, Climb
<1>4. QED
    BY <1>3 DEF S

-----------------------------------------------------------------------------
(* Bytes and their sums.                                                   *)

LEMMA XorIsByte == \A a, b \in Byte : Xor(a, b) \in Byte
BY DEF Xor, SymDiff, Byte

LEMMA XorAllIsByte == \A bytes : XorAll(bytes) \in Byte
BY DEF XorAll, Byte

LEMMA WeightsAreByte == \A n : Weights(n) \in Byte
BY DEF Weights, Byte

LEMMA SboxIsByte == \A b \in Byte : sbox[b] \in Byte
BY WeightsAreByte DEF sbox

LEMMA XorMember ==
    ASSUME NEW w, NEW a, NEW b
    PROVE  w \in Xor(a, b) <=> ~(w \in a <=> w \in b)
BY DEF Xor, SymDiff

LEMMA OddEmpty == ~Odd({})
BY FS_EmptySet DEF Odd

LEMMA OddSingle == \A x : Odd({x})
<1>1. \A x : Cardinality({x}) = 1
    BY FS_Singleton
<1>2. 1 % 2 = 1
    OBVIOUS
<1>3. QED
    BY <1>1, <1>2 DEF Odd

\* An element more or less changes the parity.
LEMMA OddAdd ==
    ASSUME NEW S, IsFiniteSet(S), NEW x, x \notin S
    PROVE  Odd(S \cup {x}) <=> ~Odd(S)
<1>1. Cardinality(S \cup {x}) = Cardinality(S) + 1 /\ Cardinality(S) \in Nat
    BY FS_AddElement, FS_CardinalityType
<1>2. \A n \in Nat : ((n + 1) % 2 = 1) <=> ~(n % 2 = 1)
    OBVIOUS
<1>3. QED
    BY <1>1, <1>2 DEF Odd

LEMMA OddUnion ==
    ASSUME NEW S, NEW T, IsFiniteSet(S), IsFiniteSet(T), S \cap T = {}
    PROVE  Odd(S \cup T) <=> ~(Odd(S) <=> Odd(T))
<1>1. Cardinality(S \cup T) = Cardinality(S) + Cardinality(T)
  <2>1. Cardinality(S \cup T) = Cardinality(S) + Cardinality(T) - Cardinality(S \cap T)
    BY FS_Union
  <2>2. Cardinality(S \cap T) = 0
    BY FS_EmptySet
  <2>3. Cardinality(S) \in Nat /\ Cardinality(T) \in Nat
    BY FS_CardinalityType
  <2>4. QED
    BY <2>1, <2>2, <2>3
<1>2. Cardinality(S) \in Nat /\ Cardinality(T) \in Nat
    BY FS_CardinalityType
<1>3. \A m, n \in Nat : ((m + n) % 2 = 1) <=> ~((m % 2 = 1) <=> (n % 2 = 1))
    OBVIOUS
<1>4. QED
    BY <1>1, <1>2, <1>3 DEF Odd

\* The sum of the first n bytes of a sequence.
SumTo(bytes, n) == XorAll([i \in 1 .. n |-> bytes[i]])

LEMMA SumToNone == \A bytes : SumTo(bytes, 0) = {}
<1>1. TAKE bytes
<1> DEFINE f == [i \in 1 .. 0 |-> bytes[i]]
<1>2. \A w : {i \in DOMAIN f : w \in f[i]} = {}
    OBVIOUS
<1>3. XorAll(f) = {w \in 0 .. 7 : Odd({i \in DOMAIN f : w \in f[i]})}
    BY DEF XorAll, Odd
<1> HIDE DEF f
<1>4. XorAll(f) = {}
    BY <1>2, <1>3, OddEmpty
<1>5. QED
    BY <1>4 DEF SumTo, f

LEMMA SumToNext ==
    ASSUME NEW bytes, NEW n \in Nat, bytes[n + 1] \in Byte
    PROVE  SumTo(bytes, n + 1) = Xor(SumTo(bytes, n), bytes[n + 1])
<1> DEFINE f == [i \in 1 .. n + 1 |-> bytes[i]]
           g == [i \in 1 .. n |-> bytes[i]]
           F(w) == {i \in 1 .. n + 1 : w \in bytes[i]}
           G(w) == {i \in 1 .. n : w \in bytes[i]}
<1>1. \A w \in 0 .. 7 : w \in XorAll(f) <=> Odd(F(w))
  <2>1. TAKE w \in 0 .. 7
  <2>2. {i \in DOMAIN f : w \in f[i]} = F(w)
    OBVIOUS
  <2>3. QED
    BY <2>2 DEF XorAll, Odd
<1>2. \A w \in 0 .. 7 : w \in XorAll(g) <=> Odd(G(w))
  <2>1. TAKE w \in 0 .. 7
  <2>2. {i \in DOMAIN g : w \in g[i]} = G(w)
    OBVIOUS
  <2>3. QED
    BY <2>2 DEF XorAll, Odd
<1>3. \A w \in 0 .. 7 : Odd(F(w)) <=> ~(Odd(G(w)) <=> w \in bytes[n + 1])
  <2>1. TAKE w \in 0 .. 7
  <2>2. \A i : i \in 1 .. n + 1 <=> (i \in 1 .. n \/ i = n + 1)
    OBVIOUS
  <2>3. IsFiniteSet(G(w)) /\ n + 1 \notin G(w)
    <3>1. IsFiniteSet(1 .. n) /\ n + 1 \notin 1 .. n
      BY FS_Interval
    <3>2. G(w) \in SUBSET (1 .. n)
      OBVIOUS
    <3> HIDE DEF G
    <3>3. QED
      BY <3>1, <3>2, FS_Subset
  <2>4. CASE w \in bytes[n + 1]
    <3>1. F(w) = G(w) \cup {n + 1}
      BY <2>2, <2>4
    <3> HIDE DEF F, G
    <3>2. QED
      BY <2>3, <2>4, <3>1, OddAdd
  <2>5. CASE w \notin bytes[n + 1]
    <3>1. F(w) = G(w)
      BY <2>2, <2>5
    <3> HIDE DEF F, G
    <3>2. QED
      BY <2>5, <3>1
  <2>6. QED
    BY <2>4, <2>5
<1> HIDE DEF f, g, F, G
<1>4. XorAll(f) \in Byte /\ XorAll(g) \in Byte
    BY XorAllIsByte
<1>5. \A w : w \in XorAll(f) <=> w \in Xor(XorAll(g), bytes[n + 1])
    BY <1>1, <1>2, <1>3, <1>4, XorMember DEF Byte
<1>6. XorAll(f) = Xor(XorAll(g), bytes[n + 1])
  <2> DEFINE x == XorAll(f)
             y == Xor(XorAll(g), bytes[n + 1])
  <2>1. \A w : w \in x <=> w \in y
    BY <1>5
  <2>2. x \in Byte /\ y \in Byte
    BY <1>4, XorIsByte
  <2> HIDE DEF x, y
  <2>3. x = y
    BY <2>1, <2>2 DEF Byte
  <2>4. QED
    BY <2>3 DEF x, y
<1>7. QED
    BY <1>6 DEF SumTo, f, g

\* The sum of a sequence of bytes is the sum up to its length.
LEMMA SumOfAll ==
    ASSUME NEW n \in Nat, NEW bytes, bytes = [i \in 1 .. n |-> bytes[i]]
    PROVE  XorAll(bytes) = SumTo(bytes, n)
BY DEF SumTo

LEMMA SumOfFour ==
    ASSUME NEW s, \A i \in 1 .. 4 : s[i] \in Byte
    PROVE  SumTo(s, 4) = Xor(Xor(Xor(s[1], s[2]), s[3]), s[4])
<1>1. SumTo(s, 0 + 1) = Xor({}, s[1])
  <2>1. s[0 + 1] \in Byte
    OBVIOUS
  <2>2. QED
    BY <2>1, SumToNext, SumToNone
<1>2. SumTo(s, 1 + 1) = Xor(SumTo(s, 1), s[2])
  <2>1. s[1 + 1] \in Byte
    OBVIOUS
  <2>2. QED
    BY <2>1, SumToNext
<1>3. SumTo(s, 2 + 1) = Xor(SumTo(s, 2), s[3])
  <2>1. s[2 + 1] \in Byte
    OBVIOUS
  <2>2. QED
    BY <2>1, SumToNext
<1>4. SumTo(s, 3 + 1) = Xor(SumTo(s, 3), s[4])
  <2>1. s[3 + 1] \in Byte
    OBVIOUS
  <2>2. QED
    BY <2>1, SumToNext
<1>5. Xor({}, s[1]) = s[1]
    BY DEF Xor, SymDiff
<1>6. QED
    BY <1>1, <1>2, <1>3, <1>4, <1>5

LEMMA SumOfFive ==
    ASSUME NEW a \in Byte, NEW b \in Byte, NEW c \in Byte, NEW d \in Byte, NEW e \in Byte
    PROVE  XorAll(<<a, b, c, d, e>>) = Xor(Xor(Xor(Xor(a, b), c), d), e)
<1> DEFINE s == <<a, b, c, d, e>>
<1>1. /\ s = [i \in 1 .. 5 |-> s[i]]
      /\ s[1] = a /\ s[2] = b /\ s[3] = c /\ s[4] = d /\ s[5] = e
    OBVIOUS
<1> HIDE DEF s
<1>2. \A i \in 1 .. 4 : s[i] \in Byte
  <2>1. \A i \in 1 .. 4 : i = 1 \/ i = 2 \/ i = 3 \/ i = 4
    OBVIOUS
  <2>2. QED
    BY <1>1, <2>1
<1>3. s[4 + 1] \in Byte
    BY <1>1
<1>4. SumTo(s, 4 + 1) = Xor(SumTo(s, 4), s[4 + 1])
    BY <1>3, SumToNext
<1>5. SumTo(s, 4) = Xor(Xor(Xor(a, b), c), d)
    BY <1>1, <1>2, SumOfFour
<1>6. XorAll(s) = SumTo(s, 5)
    BY <1>1, SumOfAll
<1>7. QED
    BY <1>1, <1>4, <1>5, <1>6 DEF s

\* Two that sum to nothing are the same.
LEMMA SameBytes ==
    ASSUME NEW a \in Byte, NEW b \in Byte, \A w \in 0 .. 7 : w \in a <=> w \in b
    PROVE  a = b
BY DEF Byte

-----------------------------------------------------------------------------
(* Powers of x, and the products of MixColumns.                            *)

Doubled(b) == Xor({w + 1 : w \in b \ {7}}, IF 7 \in b THEN {0, 1, 3, 4} ELSE {})

LEMMA DoubledIsByte == \A b \in Byte : Doubled(b) \in Byte
<1>1. TAKE b \in Byte
<1>2. {w + 1 : w \in b \ {7}} \in Byte /\ {0, 1, 3, 4} \in Byte /\ {} \in Byte
    BY DEF Byte
<1> DEFINE x == {w + 1 : w \in b \ {7}}
           y == IF 7 \in b THEN {0, 1, 3, 4} ELSE {}
<1>3. x \in Byte /\ y \in Byte
    BY <1>2
<1> HIDE DEF x, y
<1>4. Xor(x, y) \in Byte
    BY <1>3, XorIsByte
<1>5. QED
    BY <1>4 DEF Doubled, x, y

IsPower(p) ==
    p = [n \in 1 .. 15 |-> IF n < 9 THEN {n - 1} ELSE Doubled(p[n - 1])]

LEMMA PowerIs == IsPower(Power) /\ \A n \in 1 .. 15 : Power[n] \in Byte
<1> DEFINE t == CHOOSE p : IsPower(p)
           step == [k \in 1 .. 14 |-> [x \in Byte |-> IF k < 8 THEN {k} ELSE Doubled(x)]]
<1>1. Power = SubSeq(t, 1, 15)
    BY DEF Power, IsPower, Doubled
<1>2. {0} \in Byte /\ Steps(step, 14, Byte)
  <2>1. \A k \in 1 .. 14 : k < 8 => {k} \in Byte
    BY DEF Byte
  <2>2. \A k \in 1 .. 14 : \A x \in Byte : (IF k < 8 THEN {k} ELSE Doubled(x)) \in Byte
    BY <2>1, DoubledIsByte
  <2>3. QED
    BY <2>2 DEF Steps, Byte
<1>3. PICK a : Iterates(a, 14, Byte, {0}, step)
  <2> HIDE DEF step
  <2>1. QED
    BY <1>2, StepByStep
<1> DEFINE p == [n \in 1 .. 15 |-> a[n - 1]]
<1>4. IsPower(p)
  <2>1. \A n \in 1 .. 15 : a[n - 1] = IF n < 9 THEN {n - 1} ELSE Doubled(p[n - 1])
    <3>1. TAKE n \in 1 .. 15
    <3>2. CASE n = 1
      <4>1. a[n - 1] = {0} /\ n < 9 /\ n - 1 = 0
        BY <1>3, <3>2 DEF Iterates
      <4>2. QED
        BY <4>1
    <3>3. CASE n \in 2 .. 15
      <4>1. n - 1 \in 1 .. 14 /\ n - 1 \in 1 .. 15 /\ (n - 1) - 1 \in 0 .. 14
        BY <3>3
      <4>2. a[n - 1] = step[n - 1][a[(n - 1) - 1]] /\ a[(n - 1) - 1] \in Byte
        BY <1>3, <4>1 DEF Iterates
      <4>3. step[n - 1][a[(n - 1) - 1]] = IF n - 1 < 8 THEN {n - 1} ELSE Doubled(a[(n - 1) - 1])
        BY <4>1, <4>2
      <4>4. p[n - 1] = a[(n - 1) - 1] /\ (n - 1 < 8 <=> n < 9)
        BY <3>3, <4>1
      <4> HIDE DEF p, step
      <4>5. QED
        BY <4>2, <4>3, <4>4
    <3>4. QED
      BY <3>2, <3>3
  <2>2. p = [n \in 1 .. 15 |-> IF n < 9 THEN {n - 1} ELSE Doubled(p[n - 1])]
    BY <2>1
  <2> HIDE DEF p
  <2>3. QED
    BY <2>2 DEF IsPower
<1>5. IsPower(t)
  <2> HIDE DEF p
  <2>1. QED
    BY <1>4
<1>6. t = [n \in 1 .. 15 |-> IF n < 9 THEN {n - 1} ELSE Doubled(t[n - 1])]
  <2> HIDE DEF t
  <2>1. QED
    BY <1>5 DEF IsPower
<1> HIDE DEF t
<1> DEFINE V == {t[i] : i \in 1 .. 15}
<1>7. \A i \in 1 .. 15 : t[i] \in V
    OBVIOUS
<1>8. SubSeq(t, 1, 15) \in Seq(V) /\ Len(SubSeq(t, 1, 15)) = 15
      /\ \A i \in 1 .. 15 : SubSeq(t, 1, 15)[i] = t[i]
  <2> HIDE DEF V
  <2>1. /\ SubSeq(t, 1, 15) \in Seq(V)
        /\ Len(SubSeq(t, 1, 15)) = IF 1 <= 15 THEN 15 - 1 + 1 ELSE 0
        /\ \A i \in 1 .. 15 - 1 + 1 : SubSeq(t, 1, 15)[i] = t[1 + i - 1]
    BY <1>7, SubSeqProperties
  <2>2. QED
    BY <2>1
<1>9. Power = t
  <2>1. t \in [1 .. 15 -> V] 
    BY <1>6, <1>7
  <2>2. SubSeq(t, 1, 15) \in [1 .. 15 -> V]
    BY <1>8, LenProperties
  <2> HIDE DEF V
  <2>3. SubSeq(t, 1, 15) = t
    BY <1>8, <2>1, <2>2
  <2>4. QED
    BY <1>1, <2>3
<1>10. IsPower(Power)
    BY <1>5, <1>9
<1> HIDE DEF V, step, p
<1>11. \A n \in 1 .. 15 : Power[n] = IF n < 9 THEN {n - 1} ELSE Doubled(Power[n - 1])
    BY <1>6, <1>9
<1> DEFINE S == {k \in 0 .. 14 : Power[k + 1] \in Byte}
<1>12. 0 \in S
  <2>1. Power[0 + 1] = {0}
    BY <1>11
  <2>2. QED
    BY <1>2, <2>1
<1>13. \A k \in 0 .. 14 - 1 : k \in S => k + 1 \in S
  <2>1. TAKE k \in 0 .. 14 - 1
  <2>2. HAVE k \in S
  <2>3. (k + 1) + 1 \in 1 .. 15 /\ ((k + 1) + 1) - 1 = k + 1 /\ k + 1 \in 0 .. 14
    OBVIOUS
  <2>4. Power[(k + 1) + 1] = IF (k + 1) + 1 < 9 THEN {k + 1} ELSE Doubled(Power[k + 1])
    BY <1>11, <2>3
  <2>5. (k + 1) + 1 < 9 => {k + 1} \in Byte
    BY DEF Byte
  <2>6. Power[k + 1] \in Byte
    BY <2>2
  <2>7. Power[(k + 1) + 1] \in Byte
    BY <2>4, <2>5, <2>6, DoubledIsByte
  <2>8. QED
    BY <2>3, <2>7
<1>14. \A k \in 0 .. 14 : k \in S
  <2> HIDE DEF S
  <2>1. QED
    BY <1>12, <1>13, Climb
<1>15. \A n \in 1 .. 15 : n - 1 \in 0 .. 14 /\ (n - 1) + 1 = n
    OBVIOUS
<1>16. \A n \in 1 .. 15 : Power[n] \in Byte
    BY <1>14, <1>15
<1>17. QED
    BY <1>10, <1>16

LEMMA PowerStep ==
    ASSUME NEW n \in 1 .. 15
    PROVE  Power[n] = IF n < 9 THEN {n - 1} ELSE Doubled(Power[n - 1])
<1>1. Power = [k \in 1 .. 15 |-> IF k < 9 THEN {k - 1} ELSE Doubled(Power[k - 1])]
    BY PowerIs DEF IsPower
<1>2. QED
    BY <1>1

\* The powers that the round constants and the products need.
LEMMA FirstPowers ==
    /\ \A k \in 0 .. 7 : Power[1 + k] = {k}
    /\ Power[9] = {0, 1, 3, 4}
    /\ Power[10] = {1, 2, 4, 5}
<1>1. \A k \in 0 .. 7 : Power[1 + k] = {k}
  <2>1. TAKE k \in 0 .. 7
  <2>2. 1 + k \in 1 .. 15 /\ 1 + k < 9 /\ (1 + k) - 1 = k
    OBVIOUS
  <2>3. QED
    BY <2>2, PowerStep
<1>2. Power[9] = {0, 1, 3, 4}
  <2>1. Power[9] = Doubled(Power[9 - 1])
    BY PowerStep
  <2>2. Power[8] = {7}
    <3>1. Power[1 + 7] = {7}
      BY <1>1
    <3>2. QED
      BY <3>1
  <2>3. Doubled({7}) = {0, 1, 3, 4}
    BY DEF Doubled, Xor, SymDiff
  <2>4. QED
    BY <2>1, <2>2, <2>3
<1>3. Power[10] = {1, 2, 4, 5}
  <2>1. Power[10] = Doubled(Power[10 - 1])
    BY PowerStep
  <2>2. Doubled({0, 1, 3, 4}) = {1, 2, 4, 5}
    <3>1. {w + 1 : w \in {0, 1, 3, 4} \ {7}} = {1, 2, 4, 5}
      OBVIOUS
    <3>2. 7 \notin {0, 1, 3, 4}
      OBVIOUS
    <3>3. Xor({1, 2, 4, 5}, {}) = {1, 2, 4, 5}
      BY DEF Xor, SymDiff
    <3>4. QED
      BY <3>1, <3>2, <3>3 DEF Doubled
  <2>3. QED
    BY <1>2, <2>1, <2>2
<1>4. QED
    BY <1>1, <1>2, <1>3

\* The pairs that put a term at w.
Terms(a, b, w) == {p \in a \X b : w \in Power[1 + p[1] + p[2]]}

LEMMA TimesIs == \A a, b : Times(a, b) = {w \in 0 .. 7 : Odd(Terms(a, b, w))}
BY DEF Times, Terms

LEMMA TimesIsByte == \A a, b : Times(a, b) \in Byte
BY DEF Times, Byte

LEMMA TermsFinite ==
    ASSUME NEW a \in Byte, NEW b \in Byte, NEW w
    PROVE  IsFiniteSet(Terms(a, b, w))
<1>2. IsFiniteSet(a) /\ IsFiniteSet(b)
  <2>1. a \in SUBSET Nat /\ b \in SUBSET Nat /\ (\A x \in a : x <= 7) /\ \A x \in b : x <= 7
    BY DEF Byte
  <2>2. 7 \in Nat
    OBVIOUS
  <2>3. QED
    BY <2>1, <2>2, FS_BoundedSetOfNaturals
<1>3. IsFiniteSet(a \X b)
    BY <1>2, FS_Product
<1>4. Terms(a, b, w) \in SUBSET (a \X b)
    BY DEF Terms
<1>5. QED
    BY <1>3, <1>4, FS_Subset

\* One times b.
LEMMA TimesOne == ASSUME NEW b \in Byte PROVE Times({0}, b) = b
<1>1. \A w \in 0 .. 7 : Odd(Terms({0}, b, w)) <=> w \in b
  <2>1. TAKE w \in 0 .. 7
  <2>2. \A y \in b : w \in Power[1 + 0 + y] <=> w = y
    <3>1. \A y \in b : y \in 0 .. 7 /\ 1 + 0 + y = 1 + y
      BY DEF Byte
    <3>2. QED
      BY <3>1, FirstPowers
  <2>3. CASE w \in b
    <3>1. \A p : p \in Terms({0}, b, w) <=> \E y \in b : p = <<0, y>> /\ w \in Power[1 + 0 + y]
      BY DEF Terms
    <3>2. \A p : p \in Terms({0}, b, w) <=> p \in {<<0, w>>}
      BY <2>2, <2>3, <3>1
    <3>3. Odd({<<0, w>>}) /\ Terms({0}, b, w) = {<<0, w>>}
      BY <3>2, OddSingle
    <3>4. QED
      BY <2>3, <3>1, <3>3
  <2>4. CASE w \notin b
    <3>1. Terms({0}, b, w) = {}
      BY <2>2, <2>4 DEF Terms
    <3>2. QED
      BY <2>4, <3>1, OddEmpty
  <2>5. QED
    BY <2>3, <2>4
<1>2. Times({0}, b) \in Byte
    BY TimesIsByte
<1>3. \A w \in 0 .. 7 : w \in Times({0}, b) <=> w \in b
    BY <1>1, TimesIs
<1>4. QED
    BY <1>2, <1>3, SameBytes

LEMMA DoubledMember ==
    ASSUME NEW b \in Byte, NEW w \in 0 .. 7
    PROVE  w \in Doubled(b) <=> ~((w - 1 \in b) <=> (7 \in b /\ w \in {0, 1, 3, 4}))
<1> DEFINE x == {v + 1 : v \in b \ {7}}
           y == IF 7 \in b THEN {0, 1, 3, 4} ELSE {}
<1>1. w \in x <=> w - 1 \in b
    BY DEF Byte
<1>2. w \in y <=> 7 \in b /\ w \in {0, 1, 3, 4}
    OBVIOUS
<1>3. Doubled(b) = Xor(x, y)
    BY DEF Doubled
<1> HIDE DEF x, y
<1>4. QED
    BY <1>1, <1>2, <1>3, XorMember

\* x times b.
LEMMA TimesX == ASSUME NEW b \in Byte PROVE Times({1}, b) = Doubled(b)
<1>1. \A w \in 0 .. 7 : Odd(Terms({1}, b, w)) <=> w \in Doubled(b)
  <2>1. TAKE w \in 0 .. 7
  <2> DEFINE low == IF w - 1 \in b THEN {<<1, w - 1>>} ELSE {}
             high == IF 7 \in b /\ w \in {0, 1, 3, 4} THEN {<<1, 7>>} ELSE {}
  <2>2. \A y \in b : w \in Power[1 + 1 + y]
                        <=> IF y = 7 THEN w \in {0, 1, 3, 4} ELSE y = w - 1
    <3>1. TAKE y \in b
    <3>2. y \in 0 .. 7
      BY DEF Byte
    <3>3. CASE y = 7
      <4>1. 1 + 1 + y = 9
        BY <3>3
      <4>2. QED
        BY <3>3, <4>1, FirstPowers
    <3>4. CASE y # 7
      <4>1. y + 1 \in 0 .. 7 /\ 1 + 1 + y = 1 + (y + 1)
        BY <3>2, <3>4
      <4>2. Power[1 + (y + 1)] = {y + 1}
        BY <4>1, FirstPowers
      <4>3. w \in Power[1 + 1 + y] <=> w = y + 1
        BY <4>1, <4>2
      <4>4. w = y + 1 <=> y = w - 1
        BY <3>2
      <4>5. QED
        BY <3>4, <4>3, <4>4
    <3>5. QED
      BY <3>3, <3>4
  <2>3. Terms({1}, b, w) = low \cup high
    <3>1. \A p : p \in Terms({1}, b, w) <=> \E y \in b : p = <<1, y>> /\ w \in Power[1 + 1 + y]
      BY DEF Terms
    <3>2. \A p : p \in Terms({1}, b, w) <=>
                 \E y \in b : p = <<1, y>> /\ (IF y = 7 THEN w \in {0, 1, 3, 4} ELSE y = w - 1)
      BY <2>2, <3>1, Zenon
    <3>3. w - 1 # 7
      OBVIOUS
    <3>4. \A p : p \in low \cup high <=> \/ (p = <<1, w - 1>> /\ w - 1 \in b)
                                        \/ (p = <<1, 7>> /\ 7 \in b /\ w \in {0, 1, 3, 4})
      <4>1. \A p : p \in low <=> (p = <<1, w - 1>> /\ w - 1 \in b)
        OBVIOUS
      <4>2. \A p : p \in high <=> (p = <<1, 7>> /\ 7 \in b /\ w \in {0, 1, 3, 4})
        OBVIOUS
      <4> HIDE DEF low, high
      <4>3. QED
        BY <4>1, <4>2
    <3> HIDE DEF low, high
    <3>5. \A p : p \in Terms({1}, b, w) <=> p \in low \cup high
      <4>1. TAKE p
      <4>2. ASSUME p \in Terms({1}, b, w) PROVE p \in low \cup high
        <5>1. PICK y \in b : p = <<1, y>> /\ (IF y = 7 THEN w \in {0, 1, 3, 4} ELSE y = w - 1)
          BY <3>2, <4>2
        <5>2. CASE y = 7
          BY <3>4, <5>1, <5>2
        <5>3. CASE y # 7
          BY <3>4, <5>1, <5>3
        <5>4. QED
          BY <5>2, <5>3
      <4>3. ASSUME p \in low \cup high PROVE p \in Terms({1}, b, w)
        <5>1. CASE p = <<1, w - 1>> /\ w - 1 \in b
          BY <3>2, <3>3, <5>1
        <5>2. CASE p = <<1, 7>> /\ 7 \in b /\ w \in {0, 1, 3, 4}
          BY <3>2, <5>2
        <5>3. QED
          BY <3>4, <4>3, <5>1, <5>2
      <4>4. QED
        BY <4>2, <4>3
    <3>6. QED
      BY <3>5
  <2>5. Odd({<<1, w - 1>>}) /\ Odd({<<1, 7>>})
    BY OddSingle
  <2>6. IsFiniteSet(low) /\ IsFiniteSet(high)
    BY FS_EmptySet, FS_Singleton
  <2>7. low \cap high = {}
    <3>1. w - 1 # 7
      OBVIOUS
    <3>2. QED
      BY <3>1
  <2>8. (Odd(low) <=> w - 1 \in b) /\ (Odd(high) <=> (7 \in b /\ w \in {0, 1, 3, 4}))
    BY <2>5, OddEmpty
  <2> HIDE DEF low, high
  <2>9. Odd(low \cup high) <=> ~(Odd(low) <=> Odd(high))
    BY <2>6, <2>7, OddUnion
  <2>10. QED
    BY <2>3, <2>8, <2>9, DoubledMember
<1>2. Times({1}, b) \in Byte /\ Doubled(b) \in Byte
    BY TimesIsByte, DoubledIsByte
<1>3. \A w \in 0 .. 7 : w \in Times({1}, b) <=> w \in Doubled(b)
    BY <1>1, TimesIs
<1>4. QED
    BY <1>2, <1>3, SameBytes

\* x + 1 times b.
LEMMA TimesXOne == ASSUME NEW b \in Byte PROVE Times({0, 1}, b) = Xor(Doubled(b), b)
<1>1. \A w \in 0 .. 7 : Odd(Terms({0, 1}, b, w)) <=> ~(Odd(Terms({0}, b, w)) <=> Odd(Terms({1}, b, w)))
  <2>1. TAKE w \in 0 .. 7
  <2>2. Terms({0, 1}, b, w) = Terms({0}, b, w) \cup Terms({1}, b, w)
    BY DEF Terms
  <2>3. Terms({0}, b, w) \cap Terms({1}, b, w) = {}
    BY DEF Terms
  <2>4. {0} \in Byte /\ {1} \in Byte
    BY DEF Byte
  <2>5. IsFiniteSet(Terms({0}, b, w)) /\ IsFiniteSet(Terms({1}, b, w))
    BY <2>4, TermsFinite
  <2>6. QED
    BY <2>2, <2>3, <2>5, OddUnion
<1>2. \A w \in 0 .. 7 : w \in Times({0, 1}, b) <=> w \in Xor(Times({1}, b), Times({0}, b))
  <2>1. TAKE w \in 0 .. 7
  <2>2. w \in Times({0, 1}, b) <=> Odd(Terms({0, 1}, b, w))
    BY TimesIs
  <2>3. w \in Times({0}, b) <=> Odd(Terms({0}, b, w))
    BY TimesIs
  <2>4. w \in Times({1}, b) <=> Odd(Terms({1}, b, w))
    BY TimesIs
  <2>5. QED
    BY <1>1, <2>2, <2>3, <2>4, XorMember
<1>3. Times({0, 1}, b) = Xor(Times({1}, b), Times({0}, b))
  <2>1. Times({0, 1}, b) \in Byte /\ Times({1}, b) \in Byte /\ Times({0}, b) \in Byte
    BY TimesIsByte
  <2>2. Xor(Times({1}, b), Times({0}, b)) \in Byte
    BY <2>1, XorIsByte
  <2>3. QED
    BY <1>2, <2>1, <2>2, SameBytes
<1>4. QED
    BY <1>3, TimesOne, TimesX

\* The reduction constant and the round constants of the C source are powers.
LEMMA ReductionIs == Weights(27) = {0, 1, 3, 4}
<1>1. \A w \in 0 .. 7 : (27 \div PowersOfTwo[w + 1]) % 2 = 1 <=> w \in {0, 1, 3, 4}
  <2>1. /\ PowersOfTwo[0 + 1] = 1 /\ PowersOfTwo[1 + 1] = 2 /\ PowersOfTwo[2 + 1] = 4
        /\ PowersOfTwo[3 + 1] = 8 /\ PowersOfTwo[4 + 1] = 16 /\ PowersOfTwo[5 + 1] = 32
        /\ PowersOfTwo[6 + 1] = 64 /\ PowersOfTwo[7 + 1] = 128
    BY DEF PowersOfTwo
  <2>2. TAKE w \in 0 .. 7
  <2>3. w = 0 \/ w = 1 \/ w = 2 \/ w = 3 \/ w = 4 \/ w = 5 \/ w = 6 \/ w = 7
    OBVIOUS
  <2>4. QED
    BY <2>1, <2>3
<1>2. QED
    BY <1>1 DEF Weights

LEMMA XtimeDoubles == \A b : xtime(b) = Doubled(b)
BY ReductionIs DEF xtime, Doubled

-----------------------------------------------------------------------------
(* The rounds.                                                             *)

State == [1 .. 16 -> Byte]

LEMMA SubSeqWhole ==
    ASSUME NEW S, NEW n \in Nat, NEW f \in [1 .. n -> S]
    PROVE  SubSeq(f, 1, n) = f
<1>1. f \in Seq(S)
    BY SeqDef
<1>2. Len(f) \in Nat /\ 1 .. Len(f) = 1 .. n
    BY <1>1, LenProperties
<1>3. Len(f) = n
    BY <1>2
<1>4. QED
    BY <1>1, <1>3, SubSeqFull

LEMMA Columns ==
    /\ \A n \in 1 .. 16 : /\ (n - 1) \div 4 \in 0 .. 3 /\ (n - 1) % 4 \in 0 .. 3
                          /\ n = 4 * ((n - 1) \div 4) + ((n - 1) % 4) + 1
    /\ \A c, r \in 0 .. 3 : 4 * c + r + 1 \in 1 .. 16
<1>1. \A n \in 0 .. 15 : /\ n \div 4 \in 0 .. 3 /\ n % 4 \in 0 .. 3
                         /\ n = 4 * (n \div 4) + (n % 4)
    OBVIOUS
<1>2. \A n \in 1 .. 16 : n - 1 \in 0 .. 15
    OBVIOUS
<1>3. \A c, r \in 0 .. 3 : 4 * c + r + 1 \in 1 .. 16
    OBVIOUS
<1>4. QED
    BY <1>1, <1>2, <1>3

LEMMA SubBytesIsState == \A s \in State : SubBytes(s) \in State
BY SboxIsByte DEF SubBytes, State

LEMMA ShiftRowsIsState ==
    ASSUME NEW s \in State
    PROVE  /\ ShiftRows(s) \in State
           /\ \A r, c \in 0 .. 3 : ShiftRows(s)[4 * c + r + 1] = s[1 + 4 * ((c + r) % 4) + r]
<1> DEFINE t == ShiftRows(s)
<1>1. \A i \in 1 .. 16 : s[i] \in Byte
    BY DEF State
<1>2. t = <<s[1], s[6], s[11], s[16],  s[5], s[10], s[15], s[4],
            s[9], s[14], s[3], s[8],   s[13], s[2], s[7], s[12]>>
    BY DEF ShiftRows
<1> HIDE DEF t
<1>3. /\ t \in [1 .. 16 -> Byte]
      /\ t[1] = s[1] /\ t[2] = s[6] /\ t[3] = s[11] /\ t[4] = s[16]
      /\ t[5] = s[5] /\ t[6] = s[10] /\ t[7] = s[15] /\ t[8] = s[4]
      /\ t[9] = s[9] /\ t[10] = s[14] /\ t[11] = s[3] /\ t[12] = s[8]
      /\ t[13] = s[13] /\ t[14] = s[2] /\ t[15] = s[7] /\ t[16] = s[12]
    BY <1>1, <1>2
<1>4. \A r, c \in 0 .. 3 : t[4 * c + r + 1] = s[1 + 4 * ((c + r) % 4) + r]
  <2>1. TAKE r, c \in 0 .. 3
  <2>2. CASE r = 0
    <3>1. 4 * c + r + 1 = 4 * c + 1 /\ (c + r) % 4 = c
      BY <2>2
    <3>2. c = 0 \/ c = 1 \/ c = 2 \/ c = 3
      OBVIOUS
    <3>3. QED
      BY <1>3, <2>2, <3>1, <3>2
  <2>3. CASE r = 1
    <3>1. c = 0 \/ c = 1 \/ c = 2 \/ c = 3
      OBVIOUS
    <3>2. QED
      BY <1>3, <2>3, <3>1
  <2>4. CASE r = 2
    <3>1. c = 0 \/ c = 1 \/ c = 2 \/ c = 3
      OBVIOUS
    <3>2. QED
      BY <1>3, <2>4, <3>1
  <2>5. CASE r = 3
    <3>1. c = 0 \/ c = 1 \/ c = 2 \/ c = 3
      OBVIOUS
    <3>2. QED
      BY <1>3, <2>5, <3>1
  <2>6. QED
    BY <2>2, <2>3, <2>4, <2>5
<1>5. QED
    BY <1>3, <1>4 DEF t, State

\* A column, byte by byte.
LEMMA MixColumnIs ==
    ASSUME NEW s \in State, NEW c \in 0 .. 3
    PROVE  /\ MixColumn(s, c) \in Seq(Byte) /\ Len(MixColumn(s, c)) = 4
           /\ MixColumn(s, c)[1] = XorAll(<<xtime(s[4 * c + 1]), xtime(s[4 * c + 2]), s[4 * c + 2],
                                            s[4 * c + 3], s[4 * c + 4]>>)
           /\ MixColumn(s, c)[2] = XorAll(<<s[4 * c + 1], xtime(s[4 * c + 2]), xtime(s[4 * c + 3]),
                                            s[4 * c + 3], s[4 * c + 4]>>)
           /\ MixColumn(s, c)[3] = XorAll(<<s[4 * c + 1], s[4 * c + 2], xtime(s[4 * c + 3]),
                                            xtime(s[4 * c + 4]), s[4 * c + 4]>>)
           /\ MixColumn(s, c)[4] = XorAll(<<xtime(s[4 * c + 1]), s[4 * c + 1], s[4 * c + 2],
                                            s[4 * c + 3], xtime(s[4 * c + 4])>>)
<1> DEFINE a == XorAll(<<xtime(s[4 * c + 1]), xtime(s[4 * c + 2]), s[4 * c + 2],
                         s[4 * c + 3], s[4 * c + 4]>>)
           b == XorAll(<<s[4 * c + 1], xtime(s[4 * c + 2]), xtime(s[4 * c + 3]),
                         s[4 * c + 3], s[4 * c + 4]>>)
           d == XorAll(<<s[4 * c + 1], s[4 * c + 2], xtime(s[4 * c + 3]),
                         xtime(s[4 * c + 4]), s[4 * c + 4]>>)
           e == XorAll(<<xtime(s[4 * c + 1]), s[4 * c + 1], s[4 * c + 2],
                         s[4 * c + 3], xtime(s[4 * c + 4])>>)
           m == MixColumn(s, c)
<1>1. m = <<a, b, d, e>>
    BY DEF MixColumn
<1>2. a \in Byte /\ b \in Byte /\ d \in Byte /\ e \in Byte
    BY XorAllIsByte
<1> HIDE DEF a, b, d, e, m
<1>3. m \in Seq(Byte) /\ Len(m) = 4 /\ m[1] = a /\ m[2] = b /\ m[3] = d /\ m[4] = e
    BY <1>1, <1>2
<1>4. QED
    BY <1>3 DEF a, b, d, e, m

LEMMA MixColumnsIsState ==
    ASSUME NEW s \in State
    PROVE  /\ MixColumns(s) \in State
           /\ \A c \in 0 .. 3 : \A k \in 1 .. 4 : MixColumns(s)[4 * c + k] = MixColumn(s, c)[k]
<1> DEFINE m0 == MixColumn(s, 0)
           m1 == MixColumn(s, 1)
           m2 == MixColumn(s, 2)
           m3 == MixColumn(s, 3)
           a == Join(m0, m1)
           b == Join(a, m2)
           d == Join(b, m3)
<1>1. MixColumns(s) = d
    BY DEF MixColumns, Join
<1>2. \A c \in 0 .. 3 : MixColumn(s, c) \in Seq(Byte) /\ Len(MixColumn(s, c)) = 4
    BY MixColumnIs
<1>3. /\ m0 \in Seq(Byte) /\ m1 \in Seq(Byte) /\ m2 \in Seq(Byte) /\ m3 \in Seq(Byte)
      /\ Len(m0) = 4 /\ Len(m1) = 4 /\ Len(m2) = 4 /\ Len(m3) = 4
    BY <1>2
<1> HIDE DEF m0, m1, m2, m3
<1>4. /\ a \in Seq(Byte) /\ Len(a) = 8
      /\ \A i \in 1 .. 4 : a[i] = m0[i]
      /\ \A i \in 1 .. 4 : a[4 + i] = m1[i]
  <2>1. m0 \in Seq(Byte) /\ m1 \in Seq(Byte)
    BY <1>3
  <2>2. a \in Seq(Byte)
    BY <2>1, JoinProperties
  <2>3. Len(a) = Len(m0) + Len(m1)
    BY <2>1, JoinProperties
  <2>4. \A i \in 1 .. Len(m0) : a[i] = m0[i]
    BY <2>1, JoinProperties
  <2>5. \A i \in 1 .. Len(m1) : a[Len(m0) + i] = m1[i]
    BY <2>1, JoinProperties
  <2> HIDE DEF a
  <2>6. QED
    BY <1>3, <2>2, <2>3, <2>4, <2>5
<1> HIDE DEF a
<1>5. /\ b \in Seq(Byte) /\ Len(b) = 12
      /\ \A i \in 1 .. 8 : b[i] = a[i]
      /\ \A i \in 1 .. 4 : b[8 + i] = m2[i]
  <2>1. a \in Seq(Byte) /\ m2 \in Seq(Byte)
    BY <1>3, <1>4
  <2>2. b \in Seq(Byte)
    BY <2>1, JoinProperties
  <2>3. Len(b) = Len(a) + Len(m2)
    BY <2>1, JoinProperties
  <2>4. \A i \in 1 .. Len(a) : b[i] = a[i]
    BY <2>1, JoinProperties
  <2>5. \A i \in 1 .. Len(m2) : b[Len(a) + i] = m2[i]
    BY <2>1, JoinProperties
  <2> HIDE DEF b
  <2>6. QED
    BY <1>3, <1>4, <2>2, <2>3, <2>4, <2>5
<1> HIDE DEF b
<1>6. /\ d \in Seq(Byte) /\ Len(d) = 16
      /\ \A i \in 1 .. 12 : d[i] = b[i]
      /\ \A i \in 1 .. 4 : d[12 + i] = m3[i]
  <2>1. b \in Seq(Byte) /\ m3 \in Seq(Byte)
    BY <1>3, <1>5
  <2>2. d \in Seq(Byte)
    BY <2>1, JoinProperties
  <2>3. Len(d) = Len(b) + Len(m3)
    BY <2>1, JoinProperties
  <2>4. \A i \in 1 .. Len(b) : d[i] = b[i]
    BY <2>1, JoinProperties
  <2>5. \A i \in 1 .. Len(m3) : d[Len(b) + i] = m3[i]
    BY <2>1, JoinProperties
  <2> HIDE DEF d
  <2>6. QED
    BY <1>3, <1>5, <2>2, <2>3, <2>4, <2>5
<1> HIDE DEF d
<1>7. \A k \in 1 .. 4 : /\ d[k] = m0[k] /\ d[4 + k] = m1[k]
                        /\ d[8 + k] = m2[k] /\ d[12 + k] = m3[k]
  <2>1. TAKE k \in 1 .. 4
  <2>2. /\ k \in 1 .. 8 /\ 4 + k \in 1 .. 8 /\ k \in 1 .. 12 /\ 4 + k \in 1 .. 12
        /\ 8 + k \in 1 .. 12
    OBVIOUS
  <2>3. d[k] = m0[k]
    <3>1. d[k] = b[k]
      BY <1>6, <2>2, Zenon
    <3>2. b[k] = a[k]
      BY <1>5, <2>2, Zenon
    <3>3. a[k] = m0[k]
      BY <1>4, Zenon
    <3>4. QED
      BY <3>1, <3>2, <3>3, Zenon
  <2>4. d[4 + k] = m1[k]
    <3>1. d[4 + k] = b[4 + k]
      BY <1>6, <2>2, Zenon
    <3>2. b[4 + k] = a[4 + k]
      BY <1>5, <2>2, Zenon
    <3>3. a[4 + k] = m1[k]
      BY <1>4, Zenon
    <3>4. QED
      BY <3>1, <3>2, <3>3, Zenon
  <2>5. d[8 + k] = m2[k]
    BY <1>5, <1>6, <2>2, Zenon
  <2>6. d[12 + k] = m3[k]
    BY <1>6
  <2>7. QED
    BY <2>3, <2>4, <2>5, <2>6
<1>8. \A c \in 0 .. 3 : \A k \in 1 .. 4 : d[4 * c + k] = MixColumn(s, c)[k]
  <2>1. TAKE c \in 0 .. 3
  <2>2. TAKE k \in 1 .. 4
  <2>3. c = 0 \/ c = 1 \/ c = 2 \/ c = 3
    OBVIOUS
  <2>4. QED
    BY <1>7, <2>3 DEF m0, m1, m2, m3
<1>9. d \in [1 .. 16 -> Byte]
    BY <1>6, LenProperties
<1>10. QED
    BY <1>1, <1>8, <1>9 DEF State

\* Which factor a byte of the column has in which row.
LEMMA CoefficientIs ==
    ASSUME NEW r \in 0 .. 3, NEW k \in 0 .. 3
    PROVE  Coefficient[1 + ((k - r) % 4)]
              = IF k = r THEN {1} ELSE IF k = r + 1 \/ k = r - 3 THEN {0, 1} ELSE {0}
<1>1. \A m \in Nat : \A i \in Int : /\ (0 <= i /\ i < m) => i % m = i
                                    /\ (i < 0 /\ 0 <= i + m) => i % m = i + m
    OBVIOUS
<1>2. k - r \in Int /\ -3 <= k - r /\ k - r <= 3
    OBVIOUS
<1>3. (k - r) % 4 = IF k >= r THEN k - r ELSE k - r + 4
  <2> DEFINE i == k - r
  <2>1. i \in Int /\ -3 <= i /\ i <= 3 /\ (k >= r <=> i >= 0)
    BY <1>2
  <2> HIDE DEF i
  <2>2. i % 4 = IF i >= 0 THEN i ELSE i + 4
    BY <1>1, <2>1
  <2>3. QED
    BY <2>1, <2>2 DEF i
<1>4. /\ Coefficient[1] = {1} /\ Coefficient[2] = {0, 1}
      /\ Coefficient[3] = {0} /\ Coefficient[4] = {0}
    BY DEF Coefficient
<1>5. CASE k = r
  <2>1. 1 + ((k - r) % 4) = 1
    BY <1>3, <1>5
  <2>2. QED
    BY <1>4, <1>5, <2>1
<1>6. CASE k = r + 1 \/ k = r - 3
  <2>1. 1 + ((k - r) % 4) = 2 /\ k # r
    BY <1>3, <1>6
  <2>2. QED
    BY <1>4, <1>6, <2>1
<1>7. CASE k # r /\ k # r + 1 /\ k # r - 3
  <2>1. 1 + ((k - r) % 4) = 3 \/ 1 + ((k - r) % 4) = 4
    BY <1>3, <1>7
  <2>2. QED
    BY <1>4, <1>7, <2>1
<1>8. QED
    BY <1>5, <1>6, <1>7

\* A column of the definition and of the C source.
LEMMA MixedIs ==
    ASSUME SboxAgrees, NEW s \in State, NEW r \in 0 .. 3, NEW c \in 0 .. 3
    PROVE  Mixed(s, r, c) = MixColumns(ShiftRows(SubBytes(s)))[4 * c + r + 1]
<1> DEFINE t == ShiftRows(SubBytes(s))
           x == [k \in 1 .. 4 |-> t[4 * c + k]]
           y == [k \in 1 .. 4 |-> Times(Coefficient[1 + ((k - 1 - r) % 4)], x[k])]
<1>1. SubBytes(s) \in State /\ t \in State
    BY SubBytesIsState, ShiftRowsIsState
<1>2. \A k \in 1 .. 4 : x[k] \in Byte
  <2>1. \A k \in 1 .. 4 : 4 * c + k \in 1 .. 16
    OBVIOUS
  <2> HIDE DEF t
  <2>2. QED
    BY <1>1, <2>1 DEF State
<1>3. \A k \in 1 .. 4 : Shifted(s, k - 1, c) = x[k]
  <2>1. TAKE k \in 1 .. 4
  <2>2. k - 1 \in 0 .. 3 /\ 4 * c + (k - 1) + 1 = 4 * c + k
    OBVIOUS
  <2>3. t[4 * c + (k - 1) + 1] = SubBytes(s)[1 + 4 * ((c + (k - 1)) % 4) + (k - 1)]
    BY <1>1, <2>2, ShiftRowsIsState
  <2>4. 1 + 4 * ((c + (k - 1)) % 4) + (k - 1) \in 1 .. 16
    OBVIOUS
  <2>5. \A i \in 1 .. 16 : SubBytes(s)[i] = SubByte(s[i])
    BY DEF SubBytes, SboxAgrees, State
  <2>6. x[k] = SubByte(s[1 + 4 * ((c + (k - 1)) % 4) + (k - 1)])
    BY <2>2, <2>3, <2>4, <2>5
  <2>7. QED
    BY <2>6 DEF Shifted
<1>4. Mixed(s, r, c) = XorAll(y)
  <2> DEFINE z == [k \in 1 .. 4 |-> Times(Coefficient[1 + ((k - 1 - r) % 4)], Shifted(s, k - 1, c))]
  <2>1. Mixed(s, r, c) = XorAll(z)
    BY DEF Mixed
  <2>2. z = y
    BY <1>3
  <2>3. QED
    BY <2>1, <2>2
<1>6. \A k \in 1 .. 4 : /\ Times({1}, x[k]) = xtime(x[k])
                        /\ Times({0, 1}, x[k]) = Xor(xtime(x[k]), x[k])
                        /\ Times({0}, x[k]) = x[k]
    BY <1>2, TimesOne, TimesX, TimesXOne, XtimeDoubles
<1>7. \A k \in 1 .. 4 : xtime(x[k]) \in Byte
    BY <1>2, XtimeDoubles, DoubledIsByte
<1>8. /\ MixColumns(t)[4 * c + r + 1] = MixColumn(t, c)[r + 1]
  <2>1. r + 1 \in 1 .. 4 /\ 4 * c + (r + 1) = 4 * c + r + 1
    OBVIOUS
  <2>2. QED
    BY <1>1, <2>1, MixColumnsIsState
<1>9. /\ x[1] = t[4 * c + 1] /\ x[2] = t[4 * c + 2] /\ x[3] = t[4 * c + 3] /\ x[4] = t[4 * c + 4]
    OBVIOUS
<1>10. /\ MixColumn(t, c)[1] = XorAll(<<xtime(x[1]), xtime(x[2]), x[2], x[3], x[4]>>)
       /\ MixColumn(t, c)[2] = XorAll(<<x[1], xtime(x[2]), xtime(x[3]), x[3], x[4]>>)
       /\ MixColumn(t, c)[3] = XorAll(<<x[1], x[2], xtime(x[3]), xtime(x[4]), x[4]>>)
       /\ MixColumn(t, c)[4] = XorAll(<<xtime(x[1]), x[1], x[2], x[3], xtime(x[4])>>)
  <2> HIDE DEF x, t
  <2>1. /\ MixColumn(t, c)[1] = XorAll(<<xtime(t[4 * c + 1]), xtime(t[4 * c + 2]), t[4 * c + 2],
                                         t[4 * c + 3], t[4 * c + 4]>>)
        /\ MixColumn(t, c)[2] = XorAll(<<t[4 * c + 1], xtime(t[4 * c + 2]), xtime(t[4 * c + 3]),
                                         t[4 * c + 3], t[4 * c + 4]>>)
        /\ MixColumn(t, c)[3] = XorAll(<<t[4 * c + 1], t[4 * c + 2], xtime(t[4 * c + 3]),
                                         xtime(t[4 * c + 4]), t[4 * c + 4]>>)
        /\ MixColumn(t, c)[4] = XorAll(<<xtime(t[4 * c + 1]), t[4 * c + 1], t[4 * c + 2],
                                         t[4 * c + 3], xtime(t[4 * c + 4])>>)
    BY <1>1, MixColumnIs, Zenon
  <2>2. QED
    BY <1>9, <2>1, Zenon
<1>11. y = [k \in 1 .. 4 |-> y[k]]
    OBVIOUS
<1>12. \A k \in 1 .. 4 : y[k] \in Byte
    BY TimesIsByte
<1>13. XorAll(y) = Xor(Xor(Xor(y[1], y[2]), y[3]), y[4])
  <2> HIDE DEF y
  <2>1. XorAll(y) = SumTo(y, 4)
    BY <1>11, SumOfAll
  <2>2. QED
    BY <1>12, <2>1, SumOfFour
<1>14. \A k \in 1 .. 4 : y[k] = IF k - 1 = r THEN xtime(x[k])
                             ELSE IF k - 1 = r + 1 \/ k - 1 = r - 3 THEN Xor(xtime(x[k]), x[k])
                             ELSE x[k]
  <2>1. TAKE k \in 1 .. 4
  <2>2. k - 1 \in 0 .. 3
    OBVIOUS
  <2>3. Coefficient[1 + ((k - 1 - r) % 4)]
           = IF k - 1 = r THEN {1} ELSE IF k - 1 = r + 1 \/ k - 1 = r - 3 THEN {0, 1} ELSE {0}
    BY <2>2, CoefficientIs
  <2>4. y[k] = Times(Coefficient[1 + ((k - 1 - r) % 4)], x[k])
    OBVIOUS
  <2> HIDE DEF x, y
  <2>5. QED
    BY <1>6, <2>3, <2>4
<1>15. /\ x[1] \in Byte /\ x[2] \in Byte /\ x[3] \in Byte /\ x[4] \in Byte
       /\ xtime(x[1]) \in Byte /\ xtime(x[2]) \in Byte
       /\ xtime(x[3]) \in Byte /\ xtime(x[4]) \in Byte
    BY <1>2, <1>7
<1>16. 1 \in 1 .. 4 /\ 2 \in 1 .. 4 /\ 3 \in 1 .. 4 /\ 4 \in 1 .. 4
    OBVIOUS
<1> HIDE DEF x, y, t
<1>17. CASE r = 0
  <2>1. y[1] = xtime(x[1]) /\ y[2] = Xor(xtime(x[2]), x[2]) /\ y[3] = x[3] /\ y[4] = x[4]
    BY <1>14, <1>16, <1>17
  <2>2. MixColumn(t, c)[1] = Xor(Xor(Xor(Xor(xtime(x[1]), xtime(x[2])), x[2]), x[3]), x[4])
    BY <1>10, <1>15, SumOfFive
  <2>3. Xor(Xor(Xor(y[1], y[2]), y[3]), y[4]) = MixColumn(t, c)[1]
    BY <2>1, <2>2 DEF Xor, SymDiff
  <2>4. QED
    BY <1>4, <1>8, <1>13, <1>17, <2>3 DEF t
<1>18. CASE r = 1
  <2>1. y[1] = x[1] /\ y[2] = xtime(x[2]) /\ y[3] = Xor(xtime(x[3]), x[3]) /\ y[4] = x[4]
    BY <1>14, <1>16, <1>18
  <2>2. MixColumn(t, c)[2] = Xor(Xor(Xor(Xor(x[1], xtime(x[2])), xtime(x[3])), x[3]), x[4])
    BY <1>10, <1>15, SumOfFive
  <2>3. Xor(Xor(Xor(y[1], y[2]), y[3]), y[4]) = MixColumn(t, c)[2]
    BY <2>1, <2>2 DEF Xor, SymDiff
  <2>4. QED
    BY <1>4, <1>8, <1>13, <1>18, <2>3 DEF t
<1>19. CASE r = 2
  <2>1. y[1] = x[1] /\ y[2] = x[2] /\ y[3] = xtime(x[3]) /\ y[4] = Xor(xtime(x[4]), x[4])
    BY <1>14, <1>16, <1>19
  <2>2. MixColumn(t, c)[3] = Xor(Xor(Xor(Xor(x[1], x[2]), xtime(x[3])), xtime(x[4])), x[4])
    BY <1>10, <1>15, SumOfFive
  <2>3. Xor(Xor(Xor(y[1], y[2]), y[3]), y[4]) = MixColumn(t, c)[3]
    BY <2>1, <2>2 DEF Xor, SymDiff
  <2>4. QED
    BY <1>4, <1>8, <1>13, <1>19, <2>3 DEF t
<1>20. CASE r = 3
  <2>1. y[1] = Xor(xtime(x[1]), x[1]) /\ y[2] = x[2] /\ y[3] = x[3] /\ y[4] = xtime(x[4])
    BY <1>14, <1>16, <1>20
  <2>2. MixColumn(t, c)[4] = Xor(Xor(Xor(Xor(xtime(x[1]), x[1]), x[2]), x[3]), xtime(x[4]))
    BY <1>10, <1>15, SumOfFive
  <2>3. Xor(Xor(Xor(y[1], y[2]), y[3]), y[4]) = MixColumn(t, c)[4]
    BY <2>1, <2>2 DEF Xor, SymDiff
  <2>4. QED
    BY <1>4, <1>8, <1>13, <1>20, <2>3 DEF t
<1>21. QED
    BY <1>17, <1>18, <1>19, <1>20

RoundKey == [1 .. 176 -> Byte]

NodeRound(keys, r, s) ==
    AddRoundKey(IF r = 10 THEN ShiftRows(SubBytes(s)) ELSE MixColumns(ShiftRows(SubBytes(s))), keys, r)
NodeRounds(keys) == [r \in 1 .. 10 |-> [s \in State |-> NodeRound(keys, r, s)]]

LEMMA AddRoundKeyIsState ==
    ASSUME NEW keys \in RoundKey, NEW r \in 0 .. 10, NEW s \in State
    PROVE  AddRoundKey(s, keys, r) \in State
<1>1. \A i \in 1 .. 16 : 16 * r + i \in 1 .. 176
    OBVIOUS
<1>2. \A i \in 1 .. 16 : s[i] \in Byte /\ keys[16 * r + i] \in Byte
    BY <1>1 DEF State, RoundKey
<1>3. \A i \in 1 .. 16 : Xor(s[i], keys[16 * r + i]) \in Byte
    BY <1>2, XorIsByte
<1>4. QED
    BY <1>3 DEF AddRoundKey, State

LEMMA RoundsAreSteps ==
    ASSUME NEW keys \in RoundKey
    PROVE  Steps(NodeRounds(keys), 10, State)
<1>1. \A r \in 1 .. 10 : \A s \in State : NodeRound(keys, r, s) \in State
  <2>1. TAKE r \in 1 .. 10
  <2>2. TAKE s \in State
  <2>3. SubBytes(s) \in State
    BY SubBytesIsState
  <2>4. ShiftRows(SubBytes(s)) \in State
    BY <2>3, ShiftRowsIsState
  <2>5. MixColumns(ShiftRows(SubBytes(s))) \in State
    BY <2>4, MixColumnsIsState
  <2>6. r \in 0 .. 10
    OBVIOUS
  <2>7. QED
    BY <2>4, <2>5, <2>6, AddRoundKeyIsState DEF NodeRound
<1>2. QED
    BY <1>1 DEF Steps, NodeRounds

\* Encrypting a block is ten such steps.
LEMMA EncryptIsRounds ==
    ASSUME NEW keys \in RoundKey, NEW in \in State,
           NEW a, Iterates(a, 10, State, AddRoundKey(in, keys, 0), NodeRounds(keys))
    PROVE  EncryptBlock(keys, in) = a[10]
<1> DEFINE Round(f, round) ==
              CASE round = 0  -> AddRoundKey(in, keys, 0)
                [] round = 10 -> AddRoundKey(ShiftRows(SubBytes(f[9])), keys, 10)
                [] OTHER ->
                      AddRoundKey(MixColumns(ShiftRows(SubBytes(f[round - 1]))), keys, round)
           Is(f) == f = [round \in 0 .. 10 |-> Round(f, round)]
           after == CHOOSE f : Is(f)
<1>1. EncryptBlock(keys, in) = after[10]
    BY DEF EncryptBlock
<1>2. \A f : /\ Round(f, 0) = AddRoundKey(in, keys, 0)
             /\ \A r \in 1 .. 10 : Round(f, r) = NodeRound(keys, r, f[r - 1])
  <2>1. TAKE f
  <2>2. Round(f, 0) = AddRoundKey(in, keys, 0)
    OBVIOUS
  <2>3. ASSUME NEW r \in 1 .. 9 PROVE Round(f, r) = NodeRound(keys, r, f[r - 1])
    BY DEF NodeRound
  <2>4. Round(f, 10) = NodeRound(keys, 10, f[10 - 1])
    BY DEF NodeRound
  <2>5. \A r \in 1 .. 10 : r \in 1 .. 9 \/ r = 10
    OBVIOUS
  <2> HIDE DEF Round
  <2>6. QED
    BY <2>2, <2>3, <2>4, <2>5
<1> HIDE DEF Round
<1>3. Is(a)
  <2> DEFINE b == [round \in 0 .. 10 |-> Round(a, round)]
  <2>1. a \in [0 .. 10 -> State]
    BY DEF Iterates
  <2>2. \A r \in 0 .. 10 : a[r] = Round(a, r)
    <3>1. a[0] = Round(a, 0)
      BY <1>2 DEF Iterates
    <3>2. \A r \in 1 .. 10 : r - 1 \in 0 .. 10
      OBVIOUS
    <3>3. \A r \in 1 .. 10 : a[r] = NodeRounds(keys)[r][a[r - 1]] /\ a[r - 1] \in State
      BY <2>1, <3>2 DEF Iterates
    <3>4. \A r \in 1 .. 10 : a[r] = NodeRound(keys, r, a[r - 1])
      BY <3>3 DEF NodeRounds
    <3>5. \A r \in 0 .. 10 : r = 0 \/ r \in 1 .. 10
      OBVIOUS
    <3>6. QED
      BY <1>2, <3>1, <3>4, <3>5
  <2>3. a = b
    BY <2>1, <2>2
  <2>4. QED
    BY <2>3
<1>4. Is(after)
  <2> HIDE DEF Is
  <2>1. QED
    BY <1>3
<1>5. after = [round \in 0 .. 10 |-> Round(after, round)]
  <2> HIDE DEF after
  <2>1. QED
    BY <1>4
<1> HIDE DEF after, Is
<1>6. after[0] = AddRoundKey(in, keys, 0)
    BY <1>2, <1>5
<1>7. \A r \in 1 .. 10 : after[r - 1] \in State => after[r] = NodeRounds(keys)[r][after[r - 1]]
  <2>1. TAKE r \in 1 .. 10
  <2>2. r \in 0 .. 10
    OBVIOUS
  <2>3. after[r] = NodeRound(keys, r, after[r - 1])
    BY <1>2, <1>5, <2>2
  <2>4. QED
    BY <2>3 DEF NodeRounds
<1>8. \A r \in 0 .. 10 : after[r] = a[r]
    BY <1>6, <1>7, Follows
<1>9. QED
    BY <1>1, <1>8

LEMMA BlockIsState ==
    ASSUME NEW keys \in RoundKey, NEW in \in State
    PROVE  EncryptBlock(keys, in) \in State
<1>1. AddRoundKey(in, keys, 0) \in State
    BY AddRoundKeyIsState
<1>2. Steps(NodeRounds(keys), 10, State)
    BY RoundsAreSteps
<1>3. PICK a : Iterates(a, 10, State, AddRoundKey(in, keys, 0), NodeRounds(keys))
    BY <1>1, <1>2, StepByStep
<1>4. EncryptBlock(keys, in) = a[10]
    BY <1>3, EncryptIsRounds
<1>5. a[10] \in State
    BY <1>3 DEF Iterates
<1>6. QED
    BY <1>4, <1>5

\* The library's round keys are the node's.
SameKeys(keys, std) ==
    \A r \in 0 .. 10 : \A n \in 1 .. 16 : std[r + 1][n] = keys[16 * r + n]

StdByte(r, s, row, col) ==
    CASE r = 0  -> s[1 + 4 * col + row]
      [] r = 10 -> Shifted(s, row, col)
      [] OTHER  -> Mixed(s, row, col)
StdRound(std, r, s) ==
    SubSeq([n \in 1 .. 16 |-> Xor(StdByte(r, s, (n - 1) % 4, (n - 1) \div 4), std[r + 1][n])], 1, 16)

\* What a round of the library does before the key is added.
LEMMA StdByteIs ==
    ASSUME SboxAgrees, NEW s \in State
    PROVE  \A n \in 1 .. 16 : \A r \in 0 .. 10 :
               StdByte(r, s, (n - 1) % 4, (n - 1) \div 4)
                  = IF r = 0 THEN s[n]
                    ELSE IF r = 10 THEN ShiftRows(SubBytes(s))[n]
                    ELSE MixColumns(ShiftRows(SubBytes(s)))[n]
<1>1. TAKE n \in 1 .. 16
<1>2. TAKE r \in 0 .. 10
<1> DEFINE row == (n - 1) % 4
           col == (n - 1) \div 4
<1>3. row \in 0 .. 3 /\ col \in 0 .. 3 /\ n = 4 * col + row + 1
    BY Columns
<1> HIDE DEF row, col
<1>4. CASE r = 0
  <2>1. 1 + 4 * col + row = n
    BY <1>3
  <2>2. StdByte(r, s, row, col) = s[n]
    BY <1>4, <2>1 DEF StdByte
  <2>3. QED
    BY <1>4, <2>2 DEF row, col
<1>5. CASE r \in 1 .. 9
  <2>1. StdByte(r, s, row, col) = Mixed(s, row, col)
    BY <1>5 DEF StdByte
  <2>2. Mixed(s, row, col) = MixColumns(ShiftRows(SubBytes(s)))[4 * col + row + 1]
    BY <1>3, MixedIs
  <2>3. StdByte(r, s, row, col) = MixColumns(ShiftRows(SubBytes(s)))[n]
    BY <1>3, <2>1, <2>2
  <2>4. QED
    BY <1>5, <2>3 DEF row, col
<1>6. CASE r = 10
  <2>1. StdByte(r, s, row, col) = Shifted(s, row, col)
    BY <1>6 DEF StdByte
  <2>2. SubBytes(s) \in State
    BY SubBytesIsState
  <2>3. ShiftRows(SubBytes(s))[4 * col + row + 1] = SubBytes(s)[1 + 4 * ((col + row) % 4) + row]
    BY <1>3, <2>2, ShiftRowsIsState
  <2>4. 1 + 4 * ((col + row) % 4) + row \in 1 .. 16
    BY <1>3
  <2>5. \A i \in 1 .. 16 : SubBytes(s)[i] = SubByte(s[i])
    BY DEF SubBytes, SboxAgrees, State
  <2>6. Shifted(s, row, col) = ShiftRows(SubBytes(s))[n]
    BY <1>3, <2>3, <2>4, <2>5 DEF Shifted
  <2>7. QED
    BY <1>6, <2>1, <2>6 DEF row, col
<1>7. r = 0 \/ r \in 1 .. 9 \/ r = 10
    OBVIOUS
<1>8. QED
    BY <1>4, <1>5, <1>6, <1>7

LEMMA SameRound ==
    ASSUME SboxAgrees, NEW keys \in RoundKey, NEW std, SameKeys(keys, std),
           NEW s \in State, NEW r \in 0 .. 10
    PROVE  StdRound(std, r, s) = IF r = 0 THEN AddRoundKey(s, keys, 0) ELSE NodeRound(keys, r, s)
<1> DEFINE before == IF r = 0 THEN s
                     ELSE IF r = 10 THEN ShiftRows(SubBytes(s))
                     ELSE MixColumns(ShiftRows(SubBytes(s)))
           f == [n \in 1 .. 16 |->
                   Xor(StdByte(r, s, (n - 1) % 4, (n - 1) \div 4), std[r + 1][n])]
<1>1. before \in State
  <2>1. SubBytes(s) \in State
    BY SubBytesIsState
  <2>2. ShiftRows(SubBytes(s)) \in State
    BY <2>1, ShiftRowsIsState
  <2>3. MixColumns(ShiftRows(SubBytes(s))) \in State
    BY <2>2, MixColumnsIsState
  <2>4. QED
    BY <2>2, <2>3
<1>2. \A n \in 1 .. 16 : StdByte(r, s, (n - 1) % 4, (n - 1) \div 4) = before[n]
    BY StdByteIs
<1> HIDE DEF before
<1>3. f = [n \in 1 .. 16 |-> Xor(before[n], keys[16 * r + n])]
    BY <1>2 DEF SameKeys
<1>4. f = AddRoundKey(before, keys, r)
    BY <1>3 DEF AddRoundKey
<1>5. AddRoundKey(before, keys, r) \in State
    BY <1>1, AddRoundKeyIsState
<1>6. SubSeq(f, 1, 16) = f
  <2>1. f \in [1 .. 16 -> Byte] /\ 16 \in Nat
    BY <1>4, <1>5 DEF State
  <2> HIDE DEF f
  <2>2. QED
    BY <2>1, SubSeqWhole
<1>7. StdRound(std, r, s) = AddRoundKey(before, keys, r)
  <2>1. StdRound(std, r, s) = SubSeq(f, 1, 16)
    BY DEF StdRound
  <2> HIDE DEF f
  <2>2. QED
    BY <1>4, <1>6, <2>1
<1>8. QED
    BY <1>7 DEF before, NodeRound

\* A block is the same for node and library if the round keys are.
LEMMA SameBlock ==
    ASSUME SboxAgrees, NEW keys \in RoundKey, NEW std, SameKeys(keys, std), NEW in \in State
    PROVE  EncryptBlock(keys, in) = StdBlock(std, in)
<1> DEFINE Round(f, r) == StdRound(std, r, IF r = 0 THEN in ELSE f[r - 1])
           Is(f) == f = [r \in 0 .. 10 |-> Round(f, r)]
           after == CHOOSE f : Is(f)
<1>1. StdBlock(std, in) = after[10]
    BY DEF StdBlock, StdRound, StdByte
<1>2. PICK a : Iterates(a, 10, State, AddRoundKey(in, keys, 0), NodeRounds(keys))
  <2>1. AddRoundKey(in, keys, 0) \in State
    BY AddRoundKeyIsState
  <2>2. Steps(NodeRounds(keys), 10, State)
    BY RoundsAreSteps
  <2>3. QED
    BY <2>1, <2>2, StepByStep
<1>3. \A f : /\ Round(f, 0) = AddRoundKey(in, keys, 0)
             /\ \A r \in 1 .. 10 : f[r - 1] \in State => Round(f, r) = NodeRounds(keys)[r][f[r - 1]]
  <2>1. TAKE f
  <2>2. 0 \in 0 .. 10
    OBVIOUS
  <2>3. Round(f, 0) = AddRoundKey(in, keys, 0)
    <3>1. StdRound(std, 0, in) = AddRoundKey(in, keys, 0)
      BY <2>2, SameRound
    <3>2. QED
      BY <3>1
  <2>4. ASSUME NEW r \in 1 .. 10, f[r - 1] \in State
        PROVE  Round(f, r) = NodeRounds(keys)[r][f[r - 1]]
    <3>1. r # 0 /\ r \in 0 .. 10
      OBVIOUS
    <3>2. StdRound(std, r, f[r - 1]) = NodeRound(keys, r, f[r - 1])
      BY <2>4, <3>1, SameRound
    <3>3. QED
      BY <2>4, <3>1, <3>2 DEF NodeRounds
  <2> HIDE DEF Round
  <2>5. QED
    BY <2>3, <2>4
<1> HIDE DEF Round
<1>4. Is(a)
  <2> DEFINE b == [r \in 0 .. 10 |-> Round(a, r)]
  <2>1. a \in [0 .. 10 -> State]
    BY <1>2 DEF Iterates
  <2>2. \A r \in 0 .. 10 : a[r] = Round(a, r)
    <3>1. a[0] = Round(a, 0)
      BY <1>2, <1>3 DEF Iterates
    <3>2. \A r \in 1 .. 10 : r - 1 \in 0 .. 10
      OBVIOUS
    <3>3. \A r \in 1 .. 10 : a[r] = NodeRounds(keys)[r][a[r - 1]] /\ a[r - 1] \in State
      BY <1>2, <2>1, <3>2 DEF Iterates
    <3>4. \A r \in 1 .. 10 : a[r] = Round(a, r)
      BY <1>3, <3>3
    <3>5. \A r \in 0 .. 10 : r = 0 \/ r \in 1 .. 10
      OBVIOUS
    <3>6. QED
      BY <3>1, <3>4, <3>5
  <2>3. a = b
    BY <2>1, <2>2
  <2>4. QED
    BY <2>3
<1>5. Is(after)
  <2> HIDE DEF Is
  <2>1. QED
    BY <1>4
<1>6. after = [r \in 0 .. 10 |-> Round(after, r)]
  <2> HIDE DEF after
  <2>1. QED
    BY <1>5
<1> HIDE DEF after, Is
<1>7. after[0] = AddRoundKey(in, keys, 0)
    BY <1>3, <1>6
<1>8. \A r \in 1 .. 10 : after[r - 1] \in State => after[r] = NodeRounds(keys)[r][after[r - 1]]
  <2>1. TAKE r \in 1 .. 10
  <2>2. r \in 0 .. 10
    OBVIOUS
  <2>3. after[r] = Round(after, r)
    BY <1>6, <2>2
  <2>4. QED
    BY <1>3, <2>3
<1>9. \A r \in 0 .. 10 : after[r] = a[r]
    BY <1>2, <1>7, <1>8, Follows
<1>10. EncryptBlock(keys, in) = a[10]
    BY <1>2, EncryptIsRounds
<1>11. QED
    BY <1>1, <1>9, <1>10

-----------------------------------------------------------------------------
(* The schedule of round keys in C: 44 words, each from the four before it. *)

Word == [1 .. 4 -> Byte]

\* How a word is mixed before it is added to the one four words back.
MixedWord(temp, i) ==
    IF i % 4 = 0
    THEN <<Xor(sbox[temp[2]], Weights(rcon[i \div 4])), sbox[temp[3]], sbox[temp[4]], sbox[temp[1]]>>
    ELSE temp
AddedWord(old, mixed) ==
    <<Xor(old[1], mixed[1]), Xor(old[2], mixed[2]), Xor(old[3], mixed[3]), Xor(old[4], mixed[4])>>

LEMMA NextWordIs ==
    ASSUME NEW words, NEW i
    PROVE  NextWord(words, i) = AddedWord(words[i - 3], MixedWord(words[i], i))
BY DEF NextWord, AddedWord, MixedWord

LEMMA MixedIsWord ==
    ASSUME NEW temp \in Word, NEW i
    PROVE  /\ MixedWord(temp, i) \in Word
           /\ i % 4 # 0 => MixedWord(temp, i) = temp
           /\ i % 4 = 0 =>
                  \A j \in 1 .. 4 : MixedWord(temp, i)[j]
                     = Xor(sbox[temp[1 + (j % 4)]], IF j = 1 THEN Weights(rcon[i \div 4]) ELSE {})
<1>1. CASE i % 4 = 0
  <2> DEFINE x == Weights(rcon[i \div 4])
             a == Xor(sbox[temp[2]], x)
             b == sbox[temp[3]]
             c == sbox[temp[4]]
             d == sbox[temp[1]]
  <2>1. MixedWord(temp, i) = <<a, b, c, d>>
    BY <1>1 DEF MixedWord
  <2>2. x \in Byte
    BY WeightsAreByte
  <2>3. temp[1] \in Byte /\ temp[2] \in Byte /\ temp[3] \in Byte /\ temp[4] \in Byte
    BY DEF Word
  <2>4. a \in Byte /\ b \in Byte /\ c \in Byte /\ d \in Byte
    BY <2>2, <2>3, SboxIsByte, XorIsByte
  <2> DEFINE m == <<a, b, c, d>>
  <2> HIDE DEF x
  <2>5. /\ m[1] = a /\ m[2] = b /\ m[3] = c /\ m[4] = d
    OBVIOUS
  <2>6. m \in Word
    <3> HIDE DEF a, b, c, d
    <3>1. QED
      BY <2>4 DEF Word
  <2>7. \A j \in 1 .. 4 : m[j] = Xor(sbox[temp[1 + (j % 4)]], IF j = 1 THEN x ELSE {})
    <3>1. TAKE j \in 1 .. 4
    <3>2. \A y : Xor(y, {}) = y
      BY DEF Xor, SymDiff
    <3>3. 1 % 4 = 1 /\ 2 % 4 = 2 /\ 3 % 4 = 3 /\ 4 % 4 = 0
      OBVIOUS
    <3> HIDE DEF m
    <3>4. CASE j = 1
      BY <2>5, <3>3, <3>4
    <3>5. CASE j = 2
      BY <2>5, <3>2, <3>3, <3>5
    <3>6. CASE j = 3
      BY <2>5, <3>2, <3>3, <3>6
    <3>7. CASE j = 4
      BY <2>5, <3>2, <3>3, <3>7
    <3>8. j = 1 \/ j = 2 \/ j = 3 \/ j = 4
      OBVIOUS
    <3>9. QED
      BY <3>4, <3>5, <3>6, <3>7, <3>8
  <2> HIDE DEF m
  <2>8. MixedWord(temp, i) = m
    BY <2>1 DEF m
  <2>9. QED
    BY <1>1, <2>6, <2>7, <2>8 DEF x
<1>2. CASE i % 4 # 0
    BY <1>2 DEF MixedWord
<1>3. QED
    BY <1>1, <1>2

LEMMA AddedIsWord ==
    ASSUME NEW old \in Word, NEW mixed \in Word
    PROVE  /\ AddedWord(old, mixed) \in Word
           /\ \A j \in 1 .. 4 : AddedWord(old, mixed)[j] = Xor(old[j], mixed[j])
<1> DEFINE x == [j \in 1 .. 4 |-> Xor(old[j], mixed[j])]
<1>1. \A j \in 1 .. 4 : Xor(old[j], mixed[j]) \in Byte
    BY XorIsByte DEF Word
<1>2. AddedWord(old, mixed) = x
  <2> DEFINE y == <<Xor(old[1], mixed[1]), Xor(old[2], mixed[2]), Xor(old[3], mixed[3]), Xor(old[4], mixed[4])>>
  <2>1. y = x
    OBVIOUS
  <2>2. QED
    BY <2>1 DEF AddedWord
<1>3. QED
    BY <1>1, <1>2 DEF Word

\* The schedule, word by word: the key, then each word from those before it.
Schedule(w, key) ==
    /\ w \in [1 .. 44 -> Word]
    /\ \A c \in 0 .. 3 : \A j \in 1 .. 4 : w[c + 1][j] = key[4 * c + j]
    /\ \A i \in 4 .. 43 : w[i + 1] = AddedWord(w[i - 3], MixedWord(w[i], i))

KeyWords(key) == <<SubSeq(key, 1, 4), SubSeq(key, 5, 8), SubSeq(key, 9, 12), SubSeq(key, 13, 16)>>

LEMMA KeyWord ==
    ASSUME NEW key \in State, NEW c \in 0 .. 3
    PROVE  /\ SubSeq(key, 4 * c + 1, 4 * c + 4) \in Word
           /\ \A j \in 1 .. 4 : SubSeq(key, 4 * c + 1, 4 * c + 4)[j] = key[4 * c + j]
<1> DEFINE m == 4 * c + 1
           n == 4 * c + 4
           x == SubSeq(key, m, n)
<1>1. m \in Int /\ n \in Int /\ m <= n /\ n - m + 1 = 4 /\ m = 4 * c + 1
    OBVIOUS
<1>2. \A i \in m .. n : key[i] \in Byte
  <2>1. \A i \in m .. n : i \in 1 .. 16
    OBVIOUS
  <2> HIDE DEF m, n
  <2>2. QED
    BY <2>1 DEF State
<1> HIDE DEF m, n
<1>3. /\ x \in Seq(Byte)
      /\ Len(x) = IF m <= n THEN n - m + 1 ELSE 0
      /\ \A i \in 1 .. n - m + 1 : x[i] = key[m + i - 1]
    BY <1>1, <1>2, SubSeqProperties
<1> HIDE DEF x
<1>4. Len(x) = 4 /\ x \in [1 .. Len(x) -> Byte] /\ \A i \in 1 .. 4 : x[i] = key[m + i - 1]
    BY <1>1, <1>3, LenProperties
<1>5. \A i \in 1 .. 4 : m + i - 1 = 4 * c + i
    BY <1>1
<1>6. x \in Word /\ \A j \in 1 .. 4 : x[j] = key[4 * c + j]
    BY <1>4, <1>5 DEF Word
<1>7. QED
    BY <1>6 DEF x, m, n

LEMMA KeyWordsAre ==
    ASSUME NEW key \in State
    PROVE  /\ KeyWords(key) \in Seq(Word) /\ Len(KeyWords(key)) = 4
           /\ \A c \in 0 .. 3 : \A j \in 1 .. 4 : KeyWords(key)[c + 1][j] = key[4 * c + j]
<1> DEFINE a == SubSeq(key, 1, 4)
           b == SubSeq(key, 5, 8)
           d == SubSeq(key, 9, 12)
           e == SubSeq(key, 13, 16)
           k == <<a, b, d, e>>
<1>1. /\ SubSeq(key, 4 * 0 + 1, 4 * 0 + 4) \in Word
      /\ \A j \in 1 .. 4 : SubSeq(key, 4 * 0 + 1, 4 * 0 + 4)[j] = key[4 * 0 + j]
    BY KeyWord
<1>2. /\ SubSeq(key, 4 * 1 + 1, 4 * 1 + 4) \in Word
      /\ \A j \in 1 .. 4 : SubSeq(key, 4 * 1 + 1, 4 * 1 + 4)[j] = key[4 * 1 + j]
    BY KeyWord
<1>3. /\ SubSeq(key, 4 * 2 + 1, 4 * 2 + 4) \in Word
      /\ \A j \in 1 .. 4 : SubSeq(key, 4 * 2 + 1, 4 * 2 + 4)[j] = key[4 * 2 + j]
    BY KeyWord
<1>4. /\ SubSeq(key, 4 * 3 + 1, 4 * 3 + 4) \in Word
      /\ \A j \in 1 .. 4 : SubSeq(key, 4 * 3 + 1, 4 * 3 + 4)[j] = key[4 * 3 + j]
    BY KeyWord
<1>5. /\ 4 * 0 + 1 = 1 /\ 4 * 0 + 4 = 4 /\ 4 * 1 + 1 = 5 /\ 4 * 1 + 4 = 8
      /\ 4 * 2 + 1 = 9 /\ 4 * 2 + 4 = 12 /\ 4 * 3 + 1 = 13 /\ 4 * 3 + 4 = 16
    OBVIOUS
<1>6. /\ a \in Word /\ \A j \in 1 .. 4 : a[j] = key[4 * 0 + j]
      /\ b \in Word /\ \A j \in 1 .. 4 : b[j] = key[4 * 1 + j]
      /\ d \in Word /\ \A j \in 1 .. 4 : d[j] = key[4 * 2 + j]
      /\ e \in Word /\ \A j \in 1 .. 4 : e[j] = key[4 * 3 + j]
    BY <1>1, <1>2, <1>3, <1>4, <1>5
<1> HIDE DEF a, b, d, e
<1>7. k \in Seq(Word) /\ Len(k) = 4 /\ k[1] = a /\ k[2] = b /\ k[3] = d /\ k[4] = e
    BY <1>6
<1> HIDE DEF k
<1>8. \A c \in 0 .. 3 : \A j \in 1 .. 4 : k[c + 1][j] = key[4 * c + j]
  <2>1. TAKE c \in 0 .. 3
  <2>2. TAKE j \in 1 .. 4
  <2>3. c = 0 \/ c = 1 \/ c = 2 \/ c = 3
    OBVIOUS
  <2>4. 0 + 1 = 1 /\ 1 + 1 = 2 /\ 2 + 1 = 3 /\ 3 + 1 = 4
    OBVIOUS
  <2>5. k[0 + 1][j] = key[4 * 0 + j] /\ k[1 + 1][j] = key[4 * 1 + j]
    BY <1>6, <1>7, <2>4
  <2>6. k[2 + 1][j] = key[4 * 2 + j] /\ k[3 + 1][j] = key[4 * 3 + j]
    BY <1>6, <1>7, <2>4
  <2>7. QED
    BY <2>3, <2>5, <2>6
<1>9. k = KeyWords(key)
    BY DEF k, KeyWords, a, b, d, e
<1>10. QED
    BY <1>7, <1>8, <1>9

\* The words before word n + 1.
IsWords(f, key) ==
    f = [n \in 4 .. 44 |->
            IF n = 4 THEN KeyWords(key) ELSE Append(f[n - 1], NextWord(f[n - 1], n - 1))]

LEMMA AppendWord ==
    ASSUME NEW x \in Seq(Word), NEW n \in Nat, Len(x) = n, n >= 4
    PROVE  /\ Append(x, NextWord(x, n)) \in Seq(Word)
           /\ Len(Append(x, NextWord(x, n))) = n + 1
           /\ \A i \in 1 .. n : Append(x, NextWord(x, n))[i] = x[i]
           /\ Append(x, NextWord(x, n))[n + 1] = AddedWord(x[n - 3], MixedWord(x[n], n))
<1> DEFINE e == NextWord(x, n)
<1>1. e = AddedWord(x[n - 3], MixedWord(x[n], n))
    BY NextWordIs
<1>2. x[n - 3] \in Word /\ x[n] \in Word
  <2>1. n - 3 \in 1 .. Len(x) /\ n \in 1 .. Len(x)
    OBVIOUS
  <2>2. QED
    BY <2>1, ElementOfSeq
<1>3. MixedWord(x[n], n) \in Word
    BY <1>2, MixedIsWord
<1>4. e \in Word
    BY <1>1, <1>2, <1>3, AddedIsWord
<1> HIDE DEF e
<1>5. /\ Append(x, e) \in Seq(Word) /\ Len(Append(x, e)) = n + 1
      /\ \A i \in 1 .. n : Append(x, e)[i] = x[i]
      /\ Append(x, e)[n + 1] = e
    BY <1>4
<1>6. QED
    BY <1>1, <1>5 DEF e

LEMMA WordsExist ==
    ASSUME NEW key \in State
    PROVE  \E f : IsWords(f, key)
<1> DEFINE V == Seq(Word)
           base == KeyWords(key)
           Step(k, x) == IF Len(x) = k + 3 THEN Append(x, NextWord(x, k + 3)) ELSE x
           step == [k \in 1 .. 40 |-> [x \in V |-> Step(k, x)]]
<1>1. base \in V /\ Len(base) = 4
    BY KeyWordsAre
<1>2. \A k \in 1 .. 40 : \A x \in V : Step(k, x) \in V
  <2>1. TAKE k \in 1 .. 40
  <2>2. TAKE x \in V
  <2>3. CASE Len(x) = k + 3
    <3>1. k + 3 \in Nat /\ k + 3 >= 4
      OBVIOUS
    <3>2. Append(x, NextWord(x, k + 3)) \in Seq(Word)
      BY <2>3, <3>1, AppendWord
    <3>3. QED
      BY <2>3, <3>2
  <2>4. CASE Len(x) # k + 3
    BY <2>4
  <2>5. QED
    BY <2>3, <2>4
<1> HIDE DEF V, Step, base
<1>3. Steps(step, 40, V)
    BY <1>2 DEF Steps
<1> HIDE DEF step
<1>4. PICK a : Iterates(a, 40, V, base, step)
    BY <1>1, <1>3, StepByStep
<1>5. a \in [0 .. 40 -> V] /\ a[0] = base /\ \A k \in 1 .. 40 : a[k] = step[k][a[k - 1]]
    BY <1>4 DEF Iterates
<1>6. \A k \in 1 .. 40 : a[k] = Step(k, a[k - 1])
  <2>1. TAKE k \in 1 .. 40
  <2>2. k - 1 \in 0 .. 40
    OBVIOUS
  <2>3. a[k - 1] \in V
    BY <1>5, <2>2
  <2>4. QED
    BY <1>5, <2>3 DEF step
<1> DEFINE S == {k \in 0 .. 40 : Len(a[k]) = k + 4}
<1>7. 0 \in S
    BY <1>1, <1>5
<1>8. \A k \in 0 .. 40 - 1 : k \in S => k + 1 \in S
  <2>1. TAKE k \in 0 .. 40 - 1
  <2>2. HAVE k \in S
  <2>3. k + 1 \in 1 .. 40 /\ (k + 1) - 1 = k /\ k \in 0 .. 40 /\ (k + 1) + 3 = k + 4
        /\ k + 4 \in Nat /\ k + 4 >= 4 /\ (k + 1) + 4 = (k + 4) + 1 /\ k + 1 \in 0 .. 40
    OBVIOUS
  <2>4. a[k] \in Seq(Word) /\ Len(a[k]) = k + 4
    BY <1>5, <2>2, <2>3 DEF V
  <2>5. a[k + 1] = Append(a[k], NextWord(a[k], k + 4))
    <3>1. a[k + 1] = Step(k + 1, a[k])
      BY <1>6, <2>3
    <3>2. QED
      BY <2>3, <2>4, <3>1 DEF Step
  <2>6. Len(a[k + 1]) = (k + 4) + 1
    BY <2>3, <2>4, <2>5, AppendWord
  <2>7. QED
    BY <2>3, <2>6
<1>9. \A k \in 0 .. 40 : Len(a[k]) = k + 4
  <2>1. 40 \in Nat
    OBVIOUS
  <2> HIDE DEF S
  <2>2. \A k \in 0 .. 40 : k \in S
    BY <1>7, <1>8, <2>1, Climb
  <2>3. QED
    BY <2>2 DEF S
<1> DEFINE f == [n \in 4 .. 44 |-> a[n - 4]]
<1>10. \A n \in 4 .. 44 :
          a[n - 4] = IF n = 4 THEN KeyWords(key) ELSE Append(f[n - 1], NextWord(f[n - 1], n - 1))
  <2>1. TAKE n \in 4 .. 44
  <2>2. CASE n = 4
    BY <1>5, <2>2 DEF base
  <2>3. CASE n # 4
    <3>1. n - 4 \in 1 .. 40 /\ n - 1 \in 4 .. 44 /\ (n - 1) - 4 = (n - 4) - 1 /\ (n - 4) - 1 \in 0 .. 40
          /\ ((n - 4) - 1) + 4 = n - 1 /\ (n - 4) + 3 = n - 1
      BY <2>3
    <3>2. f[n - 1] = a[(n - 4) - 1]
      BY <3>1
    <3> HIDE DEF f
    <3>3. a[n - 4] = Step(n - 4, f[n - 1])
      BY <1>6, <3>1, <3>2
    <3>4. Len(f[n - 1]) = n - 1
      BY <1>9, <3>1, <3>2
    <3>5. QED
      BY <2>3, <3>1, <3>3, <3>4 DEF Step
  <2>4. QED
    BY <2>2, <2>3
<1>11. IsWords(f, key)
  <2>1. f = [n \in 4 .. 44 |->
               IF n = 4 THEN KeyWords(key) ELSE Append(f[n - 1], NextWord(f[n - 1], n - 1))]
    BY <1>10
  <2> HIDE DEF f
  <2>2. QED
    BY <2>1 DEF IsWords
<1>12. QED
  <2> HIDE DEF f
  <2>1. QED
    BY <1>11

\* Once written, a word stays; the last sequence has them all.
LEMMA WordsAreSchedule ==
    ASSUME NEW key \in State, NEW f, IsWords(f, key)
    PROVE  Schedule(f[44], key)
<1>1. \A n \in 4 .. 44 :
          f[n] = IF n = 4 THEN KeyWords(key) ELSE Append(f[n - 1], NextWord(f[n - 1], n - 1))
    BY DEF IsWords
<1>2. f[4] = KeyWords(key) /\ \A n \in 4 .. 43 : f[n + 1] = Append(f[n], NextWord(f[n], n))
  <2>1. f[4] = KeyWords(key)
    <3>1. 4 \in 4 .. 44
      OBVIOUS
    <3>2. QED
      BY <1>1, <3>1, Zenon
  <2>2. \A n \in 4 .. 43 : n + 1 \in 4 .. 44 /\ n + 1 # 4 /\ (n + 1) - 1 = n
    OBVIOUS
  <2>3. \A n \in 4 .. 43 : f[n + 1] = Append(f[n], NextWord(f[n], n))
    <3>1. TAKE n \in 4 .. 43
    <3>2. f[n + 1] = Append(f[(n + 1) - 1], NextWord(f[(n + 1) - 1], (n + 1) - 1))
      BY <1>1, <2>2, Zenon
    <3>3. QED
      BY <2>2, <3>2, Zenon
  <2>4. QED
    BY <2>1, <2>3
<1> DEFINE S == {k \in 0 .. 40 : f[k + 4] \in Seq(Word) /\ Len(f[k + 4]) = k + 4}
<1>3. 0 \in S
  <2>1. 0 \in 0 .. 40 /\ 0 + 4 = 4
    OBVIOUS
  <2>2. f[4] \in Seq(Word) /\ Len(f[4]) = 4
    BY <1>2, KeyWordsAre, Zenon
  <2>3. QED
    BY <2>1, <2>2
<1>4. \A k \in 0 .. 40 - 1 : k \in S => k + 1 \in S
  <2>1. TAKE k \in 0 .. 40 - 1
  <2>2. HAVE k \in S
  <2>3. k + 4 \in 4 .. 43 /\ k + 4 \in Nat /\ k + 4 >= 4 /\ (k + 1) + 4 = (k + 4) + 1
        /\ k + 1 \in 0 .. 40
    OBVIOUS
  <2>4. f[k + 4] \in Seq(Word) /\ Len(f[k + 4]) = k + 4
    BY <2>2
  <2>5. f[(k + 4) + 1] = Append(f[k + 4], NextWord(f[k + 4], k + 4))
    BY <1>2, <2>3
  <2>6. f[(k + 4) + 1] \in Seq(Word) /\ Len(f[(k + 4) + 1]) = (k + 4) + 1
    BY <2>3, <2>4, <2>5, AppendWord
  <2>7. QED
    BY <2>3, <2>6
<1>5. \A n \in 4 .. 44 : f[n] \in Seq(Word) /\ Len(f[n]) = n
  <2>1. 40 \in Nat
    OBVIOUS
  <2> HIDE DEF S
  <2>2. \A k \in 0 .. 40 : k \in S
    BY <1>3, <1>4, <2>1, Climb
  <2>3. \A n \in 4 .. 44 : n - 4 \in 0 .. 40 /\ (n - 4) + 4 = n
    OBVIOUS
  <2>4. QED
    BY <2>2, <2>3 DEF S
<1> HIDE DEF S
<1>6. ASSUME NEW n \in 4 .. 43
      PROVE  /\ \A i \in 1 .. n : f[n + 1][i] = f[n][i]
             /\ f[n + 1][n + 1] = AddedWord(f[n][n - 3], MixedWord(f[n][n], n))
  <2>1. n \in Nat /\ n >= 4 /\ n \in 4 .. 44
    OBVIOUS
  <2>2. f[n] \in Seq(Word) /\ Len(f[n]) = n
    BY <1>5, <2>1
  <2>3. f[n + 1] = Append(f[n], NextWord(f[n], n))
    BY <1>2
  <2>4. /\ \A i \in 1 .. n : Append(f[n], NextWord(f[n], n))[i] = f[n][i]
        /\ Append(f[n], NextWord(f[n], n))[n + 1] = AddedWord(f[n][n - 3], MixedWord(f[n][n], n))
    BY <2>1, <2>2, AppendWord
  <2>5. QED
    BY <2>3, <2>4
<1>7. ASSUME NEW m \in 4 .. 44 PROVE \A i \in 1 .. m : f[44][i] = f[m][i]
  <2> DEFINE T == {k \in 0 .. 44 - m : \A i \in 1 .. m : f[m + k][i] = f[m][i]}
  <2>1. 0 \in T
    <3>1. m + 0 = m /\ 0 \in 0 .. 44 - m
      OBVIOUS
    <3>2. QED
      BY <3>1
  <2>2. \A k \in 0 .. (44 - m) - 1 : k \in T => k + 1 \in T
    <3>1. TAKE k \in 0 .. (44 - m) - 1
    <3>2. HAVE k \in T
    <3>3. m + k \in 4 .. 43 /\ m + (k + 1) = (m + k) + 1 /\ k + 1 \in 0 .. 44 - m
          /\ \A i \in 1 .. m : i \in 1 .. m + k
      OBVIOUS
    <3>4. \A i \in 1 .. m : f[(m + k) + 1][i] = f[m + k][i]
      BY <1>6, <3>3
    <3>5. \A i \in 1 .. m : f[m + k][i] = f[m][i]
      BY <3>2
    <3>6. QED
      BY <3>3, <3>4, <3>5
  <2>3. 44 - m \in Nat /\ m + (44 - m) = 44 /\ 44 - m \in 0 .. 44 - m
    OBVIOUS
  <2> HIDE DEF T
  <2>4. \A k \in 0 .. 44 - m : k \in T
    BY <2>1, <2>2, <2>3, Climb
  <2>5. QED
    BY <2>3, <2>4 DEF T
<1> DEFINE w == f[44]
<1>8. w \in [1 .. 44 -> Word]
  <2>1. 44 \in 4 .. 44
    OBVIOUS
  <2>2. f[44] \in Seq(Word) /\ Len(f[44]) = 44
    BY <1>5, <2>1, Zenon
  <2> HIDE DEF w
  <2>3. w \in Seq(Word) /\ Len(w) = 44
    BY <2>2 DEF w
  <2>4. QED
    BY <2>3, LenProperties
<1>9. \A c \in 0 .. 3 : \A j \in 1 .. 4 : w[c + 1][j] = key[4 * c + j]
  <2>1. 4 \in 4 .. 44
    OBVIOUS
  <2>2. \A i \in 1 .. 4 : f[44][i] = f[4][i]
    BY <1>7, <2>1, Zenon
  <2>3. \A i \in 1 .. 4 : w[i] = KeyWords(key)[i]
    BY <1>2, <2>2, Zenon
  <2>4. TAKE c \in 0 .. 3
  <2>5. TAKE j \in 1 .. 4
  <2>6. c + 1 \in 1 .. 4
    OBVIOUS
  <2>7. w[c + 1] = KeyWords(key)[c + 1]
    BY <2>3, <2>6, Zenon
  <2> HIDE DEF w
  <2>8. KeyWords(key)[c + 1][j] = key[4 * c + j]
    BY KeyWordsAre
  <2>9. QED
    BY <2>7, <2>8
<1>10. \A i \in 4 .. 43 : w[i + 1] = AddedWord(w[i - 3], MixedWord(w[i], i))
  <2>1. TAKE i \in 4 .. 43
  <2>2. i \in 4 .. 44 /\ i + 1 \in 4 .. 44 /\ i + 1 \in 1 .. i + 1 /\ i - 3 \in 1 .. i /\ i \in 1 .. i
    OBVIOUS
  <2>3. w[i + 1] = f[i + 1][i + 1] /\ w[i - 3] = f[i][i - 3] /\ w[i] = f[i][i]
    BY <1>7, <2>2
  <2>4. QED
    BY <1>6, <2>3
<1> HIDE DEF w
<1>11. QED
    BY <1>8, <1>9, <1>10 DEF Schedule, w

\* Byte n of the round keys.
LEMMA Quarters ==
    ASSUME NEW n \in 1 .. 176
    PROVE  1 + (n - 1) \div 4 \in 1 .. 44 /\ 1 + ((n - 1) % 4) \in 1 .. 4
<1>1. \A m \in 0 .. 175 : m \div 4 \in 0 .. 43 /\ m % 4 \in 0 .. 3
    OBVIOUS
<1>2. n - 1 \in 0 .. 175
    OBVIOUS
<1>3. QED
    BY <1>1, <1>2

LEMMA KeyExpansionIs ==
    ASSUME NEW key \in State
    PROVE  \E w : /\ Schedule(w, key)
                  /\ KeyExpansion(key) = [n \in 1 .. 176 |-> w[1 + (n - 1) \div 4][1 + ((n - 1) % 4)]]
                  /\ KeyExpansion(key) \in RoundKey
<1> DEFINE words == CHOOSE f : IsWords(f, key)
           w == words[44]
           bytes == [n \in 1 .. 176 |-> w[1 + (n - 1) \div 4][1 + ((n - 1) % 4)]]
<1>1. KeyExpansion(key) = bytes
    BY DEF KeyExpansion, IsWords, KeyWords
<1>2. IsWords(words, key)
    BY WordsExist
<1> HIDE DEF words
<1>3. Schedule(w, key)
    BY <1>2, WordsAreSchedule
<1> HIDE DEF w
<1>4. \A n \in 1 .. 176 : w[1 + (n - 1) \div 4][1 + ((n - 1) % 4)] \in Byte
  <2>1. TAKE n \in 1 .. 176
  <2>2. w[1 + (n - 1) \div 4] \in Word
    BY <1>3, Quarters DEF Schedule
  <2>3. QED
    BY <2>2, Quarters DEF Word
<1>5. bytes \in RoundKey
    BY <1>4 DEF RoundKey
<1>6. QED
    BY <1>1, <1>3, <1>5

\* The round constants of C are the powers of x.
LEMMA BitValues ==
    /\ PowersOfTwo[0 + 1] = 1 /\ PowersOfTwo[1 + 1] = 2 /\ PowersOfTwo[2 + 1] = 4
    /\ PowersOfTwo[3 + 1] = 8 /\ PowersOfTwo[4 + 1] = 16 /\ PowersOfTwo[5 + 1] = 32
    /\ PowersOfTwo[6 + 1] = 64 /\ PowersOfTwo[7 + 1] = 128
BY DEF PowersOfTwo

LEMMA RconIsPower ==
    ASSUME NEW r \in 1 .. 10
    PROVE  Weights(rcon[r]) = Power[r]
<1> DEFINE Bit(v, w) == (v \div PowersOfTwo[w + 1]) % 2 = 1
           D == {1, 2, 4, 8, 16, 32, 64, 128}
<1>1. \A w \in 0 .. 7 : w = 0 \/ w = 1 \/ w = 2 \/ w = 3 \/ w = 4 \/ w = 5 \/ w = 6 \/ w = 7
    OBVIOUS
<1>2. \A d, e \in D : (d \div e) % 2 = 1 <=> d = e
    OBVIOUS
<1>3. \A k \in 0 .. 7 : PowersOfTwo[k + 1] \in D
    BY <1>1, BitValues
<1>4. \A k, w \in 0 .. 7 : PowersOfTwo[k + 1] = PowersOfTwo[w + 1] => k = w
    BY <1>1, BitValues
<1>5. ASSUME NEW k \in 0 .. 7 PROVE Weights(PowersOfTwo[k + 1]) = {k}
  <2>1. \A w \in 0 .. 7 : Bit(PowersOfTwo[k + 1], w) <=> w = k
    <3> HIDE DEF D
    <3>1. QED
      BY <1>2, <1>3, <1>4
  <2> HIDE DEF Bit
  <2>2. Weights(PowersOfTwo[k + 1]) = {w \in 0 .. 7 : Bit(PowersOfTwo[k + 1], w)}
    BY DEF Weights, Bit
  <2>3. QED
    BY <2>1, <2>2
<1>6. Weights(54) = {1, 2, 4, 5}
  <2>1. \A w \in 0 .. 7 : Bit(54, w) <=> w \in {1, 2, 4, 5}
    <3>1. TAKE w \in 0 .. 7
    <3>2. QED
      BY <1>1, BitValues
  <2> HIDE DEF Bit
  <2>2. Weights(54) = {w \in 0 .. 7 : Bit(54, w)}
    BY DEF Weights, Bit
  <2>3. QED
    BY <2>1, <2>2
<1>7. /\ \A k \in 0 .. 7 : rcon[k + 1] = PowersOfTwo[k + 1]
      /\ rcon[9] = 27 /\ rcon[10] = 54
  <2>1. /\ rcon[0 + 1] = 1 /\ rcon[1 + 1] = 2 /\ rcon[2 + 1] = 4 /\ rcon[3 + 1] = 8
        /\ rcon[4 + 1] = 16 /\ rcon[5 + 1] = 32 /\ rcon[6 + 1] = 64 /\ rcon[7 + 1] = 128
        /\ rcon[9] = 27 /\ rcon[10] = 54
    BY DEF rcon
  <2>2. QED
    BY <1>1, <2>1, BitValues
<1>8. CASE r \in 1 .. 8
  <2>1. r - 1 \in 0 .. 7 /\ (r - 1) + 1 = r /\ 1 + (r - 1) = r
    BY <1>8
  <2>2. Weights(rcon[r]) = {r - 1}
    BY <1>5, <1>7, <2>1
  <2>3. Power[r] = {r - 1}
    BY <2>1, FirstPowers
  <2>4. QED
    BY <2>2, <2>3
<1>9. CASE r = 9
    BY <1>7, <1>9, FirstPowers, ReductionIs
<1>10. CASE r = 10
    BY <1>6, <1>7, <1>10, FirstPowers
<1>11. r \in 1 .. 8 \/ r = 9 \/ r = 10
    OBVIOUS
<1>12. QED
    BY <1>8, <1>9, <1>10, <1>11

\* Round key r of a schedule, and what the library makes of the one before.
NodeKey(w, r) == [n \in 1 .. 16 |-> w[4 * (r - 1) + 1 + (n - 1) \div 4][1 + ((n - 1) % 4)]]

First(k, r) == [j \in 1 .. 4 |-> Xor(SubByte(k[13 + (j % 4)]), IF j = 1 THEN Power[r - 1] ELSE {})]
KeyByte(k, r, j, c) ==
    XorAll(<<First(k, r)[j]>> \o [m \in 1 .. 1 + c |-> k[j + 4 * (m - 1)]])
StdNextKey(k, r) ==
    SubSeq([n \in 1 .. 16 |-> KeyByte(k, r, 1 + ((n - 1) % 4), (n - 1) \div 4)], 1, 16)

LEMMA NodeKeyIsState ==
    ASSUME NEW key, NEW w, Schedule(w, key), NEW r \in 1 .. 11
    PROVE  /\ NodeKey(w, r) \in State
           /\ \A c \in 0 .. 3 : \A j \in 1 .. 4 : NodeKey(w, r)[4 * c + j] = w[4 * (r - 1) + 1 + c][j]
<1>1. \A n \in 1 .. 16 : 4 * (r - 1) + 1 + (n - 1) \div 4 \in 1 .. 44 /\ 1 + ((n - 1) % 4) \in 1 .. 4
  <2>1. TAKE n \in 1 .. 16
  <2> DEFINE q == (n - 1) \div 4
             p == (n - 1) % 4
  <2>2. q \in 0 .. 3 /\ p \in 0 .. 3
    BY Columns
  <2> HIDE DEF p, q
  <2>3. 4 * (r - 1) + 1 + q \in 1 .. 44 /\ 1 + p \in 1 .. 4
    BY <2>2
  <2>4. QED
    BY <2>3 DEF p, q
<1>2. \A n \in 1 .. 16 : w[4 * (r - 1) + 1 + (n - 1) \div 4][1 + ((n - 1) % 4)] \in Byte
    BY <1>1 DEF Schedule, Word
<1>3. NodeKey(w, r) \in State
    BY <1>2 DEF NodeKey, State
<1>4. \A c \in 0 .. 3 : \A j \in 1 .. 4 : NodeKey(w, r)[4 * c + j] = w[4 * (r - 1) + 1 + c][j]
  <2>1. TAKE c \in 0 .. 3
  <2>2. TAKE j \in 1 .. 4
  <2>3. 4 * c + j \in 1 .. 16 /\ (4 * c + j - 1) \div 4 = c /\ 1 + ((4 * c + j - 1) % 4) = j
    OBVIOUS
  <2>4. QED
    BY <2>3 DEF NodeKey
<1>5. QED
    BY <1>3, <1>4

\* Byte j of word c of a round key, from that of the key before.
Follow(w, r, c, j) ==
    /\ c = 0 => w[4 * r + 1 + c][j] =
                  Xor(w[4 * (r - 1) + 1 + c][j],
                      Xor(sbox[w[4 * r][1 + (j % 4)]], IF j = 1 THEN Power[r] ELSE {}))
    /\ c > 0 => w[4 * r + 1 + c][j] = Xor(w[4 * (r - 1) + 1 + c][j], w[4 * r + c][j])

\* A word and its mixing, one round on.
LEMMA ScheduleByte ==
    ASSUME NEW key, NEW w, Schedule(w, key), NEW r \in 1 .. 10, NEW c \in 0 .. 3, NEW j \in 1 .. 4
    PROVE  /\ w[4 * r + 1 + c][j] \in Byte
           /\ w[4 * (r - 1) + 1 + c][j] \in Byte
           /\ Follow(w, r, c, j)
<1> DEFINE i == 4 * r + c
<1>1. /\ i \in 4 .. 43 /\ i - 3 \in 1 .. 44 /\ i \in 1 .. 44 /\ i + 1 \in 1 .. 44
      /\ i - 3 = 4 * (r - 1) + 1 + c /\ i + 1 = 4 * r + 1 + c
    OBVIOUS
<1>2. i % 4 = c
  <2>1. \A q \in Int : \A d \in 0 .. 3 : (4 * q + d) % 4 = d
    OBVIOUS
  <2>2. QED
    BY <2>1
<1>3. c = 0 => i = 4 * r /\ i \div 4 = r
    OBVIOUS
<1> HIDE DEF i
<1>4. w[i] \in Word /\ w[i - 3] \in Word /\ w[i + 1] \in Word
    BY <1>1 DEF Schedule
<1>5. w[i + 1] = AddedWord(w[i - 3], MixedWord(w[i], i))
    BY <1>1 DEF Schedule
<1>6. MixedWord(w[i], i) \in Word
    BY <1>4, MixedIsWord
<1>7. w[i + 1][j] = Xor(w[i - 3][j], MixedWord(w[i], i)[j])
  <2>1. \A k \in 1 .. 4 : AddedWord(w[i - 3], MixedWord(w[i], i))[k]
                             = Xor(w[i - 3][k], MixedWord(w[i], i)[k])
    BY <1>4, <1>6, AddedIsWord
  <2>2. QED
    BY <1>5, <2>1
<1>8. w[i + 1][j] \in Byte /\ w[i - 3][j] \in Byte
    BY <1>4 DEF Word
<1>9. ASSUME c = 0
      PROVE  MixedWord(w[i], i)[j] = Xor(sbox[w[i][1 + (j % 4)]], IF j = 1 THEN Power[r] ELSE {})
  <2>1. i % 4 = 0 /\ i \div 4 = r
    BY <1>2, <1>3, <1>9
  <2>2. \A k \in 1 .. 4 : MixedWord(w[i], i)[k]
           = Xor(sbox[w[i][1 + (k % 4)]], IF k = 1 THEN Weights(rcon[i \div 4]) ELSE {})
    BY <1>4, <2>1, MixedIsWord
  <2>3. Weights(rcon[r]) = Power[r]
    BY RconIsPower
  <2>4. QED
    BY <2>1, <2>2, <2>3
<1>10. ASSUME c > 0 PROVE MixedWord(w[i], i) = w[i]
  <2>1. i % 4 # 0
    BY <1>2, <1>10
  <2>2. QED
    BY <1>4, <2>1, MixedIsWord
<1>11. c = 0 => w[i + 1][j] = Xor(w[i - 3][j], Xor(sbox[w[4 * r][1 + (j % 4)]],
                                                  IF j = 1 THEN Power[r] ELSE {}))
    BY <1>3, <1>7, <1>9
<1>12. c > 0 => w[i + 1][j] = Xor(w[i - 3][j], w[i][j])
    BY <1>7, <1>10
<1>13. QED
    BY <1>1, <1>8, <1>11, <1>12 DEF i, Follow

\* What the library sums for byte j of column c, the first 2 + c of these.
KeyTerms(k, r, j) == [i \in 1 .. 5 |-> IF i = 1 THEN First(k, r)[j] ELSE k[j + 4 * (i - 2)]]

LEMMA KeyByteIsSum ==
    ASSUME NEW k \in State, NEW r, NEW j \in 1 .. 4, NEW c \in 0 .. 3, First(k, r)[j] \in Byte
    PROVE  KeyByte(k, r, j, c) = SumTo(KeyTerms(k, r, j), 2 + c)
<1> DEFINE b == First(k, r)[j]
           y == KeyTerms(k, r, j)
           g == [m \in 1 .. 1 + c |-> k[j + 4 * (m - 1)]]
           s == Join(<<b>>, g)
<1>1. KeyByte(k, r, j, c) = XorAll(s)
    BY DEF KeyByte, Join
<1>0. y = [i \in 1 .. 5 |-> IF i = 1 THEN b ELSE k[j + 4 * (i - 2)]] /\ b \in Byte
    BY DEF KeyTerms
<1> HIDE DEF b, y
<1>2. \A m \in 1 .. 1 + c : k[j + 4 * (m - 1)] \in Byte
  <2>1. \A m \in 1 .. 1 + c : j + 4 * (m - 1) \in 1 .. 16
    OBVIOUS
  <2>2. QED
    BY <2>1 DEF State
<1>3. g \in Seq(Byte) /\ Len(g) = 1 + c
  <2>1. 1 + c \in Nat
    OBVIOUS
  <2>2. g \in [1 .. 1 + c -> Byte]
    BY <1>2
  <2> HIDE DEF g
  <2>3. g \in Seq(Byte)
    BY <2>1, <2>2, SeqDef
  <2>4. Len(g) \in Nat /\ 1 .. Len(g) = 1 .. 1 + c
    BY <2>2, <2>3, LenProperties
  <2>5. QED
    BY <2>1, <2>3, <2>4
<1> DEFINE u == <<b>>
<1>4. u \in Seq(Byte) /\ Len(u) = 1 /\ u[1] = b
    BY <1>0
<1> HIDE DEF u
<1>5. s = Join(u, g)
    BY DEF u
<1>6. \A m \in 1 .. 1 + c : g[m] = k[j + 4 * (m - 1)]
    OBVIOUS
<1> HIDE DEF g, s
<1>7. s \in Seq(Byte) /\ Len(s) = Len(u) + Len(g)
    BY <1>3, <1>4, <1>5, JoinProperties
<1>8. \A i \in 1 .. Len(u) : s[i] = u[i]
    BY <1>3, <1>4, <1>5, JoinProperties
<1>9. \A i \in 1 .. Len(g) : s[Len(u) + i] = g[i]
  <2>1. u \in Seq(Byte) /\ g \in Seq(Byte)
    BY <1>3, <1>4
  <2>2. \A i \in 1 .. Len(g) : Join(u, g)[Len(u) + i] = g[i]
    BY <2>1, JoinProperties
  <2>3. QED
    BY <1>5, <2>2
<1>10. Len(s) = 2 + c /\ s[1] = b /\ \A i \in 1 .. 1 + c : s[1 + i] = g[i]
    BY <1>3, <1>4, <1>7, <1>8, <1>9
<1>11. s \in [1 .. 2 + c -> Byte] 
    BY <1>7, <1>10, LenProperties
<1>12. \A i \in 1 .. 2 + c : s[i] = y[i]
  <2>1. TAKE i \in 1 .. 2 + c
  <2>2. CASE i = 1
    BY <1>0, <1>10, <2>2
  <2>3. CASE i # 1
    <3>1. i - 1 \in 1 .. 1 + c /\ 1 + (i - 1) = i /\ i \in 1 .. 5 /\ (i - 1) - 1 = i - 2
      BY <2>3
    <3>2. s[i] = k[j + 4 * (i - 2)]
      BY <1>6, <1>10, <3>1
    <3>3. QED
      BY <1>0, <2>3, <3>1, <3>2
  <2>4. QED
    BY <2>2, <2>3
<1>13. XorAll(s) = SumTo(s, 2 + c)
  <2>1. s = [i \in 1 .. 2 + c |-> s[i]]
    BY <1>11
  <2>2. QED
    BY <2>1 DEF SumTo
<1>14. SumTo(s, 2 + c) = SumTo(y, 2 + c)
    BY <1>12 DEF SumTo
<1>15. QED
    BY <1>1, <1>13, <1>14 DEF y

\* The next round key of the library is the node's.
LEMMA SameNextKey ==
    ASSUME SboxAgrees, NEW key, NEW w, Schedule(w, key), NEW r \in 1 .. 10
    PROVE  StdNextKey(NodeKey(w, r), r + 1) = NodeKey(w, r + 1)
<1> DEFINE k == NodeKey(w, r)
<1>1. k \in State /\ \A c \in 0 .. 3 : \A j \in 1 .. 4 : k[4 * c + j] = w[4 * (r - 1) + 1 + c][j]
  <2>1. r \in 1 .. 11
    OBVIOUS
  <2>2. QED
    BY <2>1, NodeKeyIsState
<1> HIDE DEF k
<1> DEFINE Turned(j) == Xor(sbox[w[4 * r][1 + (j % 4)]], IF j = 1 THEN Power[r] ELSE {})
<1>2. ASSUME NEW j \in 1 .. 4, NEW d \in 0 .. 3
      PROVE  /\ d = 0 => w[4 * r + 1 + d][j] = Xor(w[4 * (r - 1) + 1 + d][j], Turned(j))
             /\ d > 0 => w[4 * r + 1 + d][j] = Xor(w[4 * (r - 1) + 1 + d][j], w[4 * r + d][j])
  <2>1. Follow(w, r, d, j)
    BY ScheduleByte
  <2>2. QED
    BY <2>1 DEF Follow
<1>3. \A j \in 1 .. 4 : w[4 * r + 1 + 0][j] = Xor(w[4 * (r - 1) + 1 + 0][j], Turned(j))
  <2>1. 0 \in 0 .. 3
    OBVIOUS
  <2>2. QED
    BY <1>2, <2>1
<1>4. ASSUME NEW j \in 1 .. 4, NEW c \in 0 .. 3
      PROVE  KeyByte(k, r + 1, j, c) = w[4 * r + 1 + c][j]
  <2> DEFINE b == First(k, r + 1)[j]
             y == KeyTerms(k, r + 1, j)
  <2>1. b = Xor(sbox[w[4 * r][1 + (j % 4)]], IF j = 1 THEN Power[r] ELSE {})
    <3>1. 13 + (j % 4) = 4 * 3 + (1 + (j % 4)) /\ 1 + (j % 4) \in 1 .. 4 /\ 3 \in 0 .. 3
          /\ 4 * (r - 1) + 1 + 3 = 4 * r /\ (r + 1) - 1 = r
      OBVIOUS
    <3>2. k[4 * 3 + (1 + (j % 4))] = w[4 * (r - 1) + 1 + 3][1 + (j % 4)]
      BY <1>1, <3>1
    <3>3. k[13 + (j % 4)] = w[4 * r][1 + (j % 4)]
      BY <3>1, <3>2
    <3>4. k[13 + (j % 4)] \in Byte
      <4>1. 13 + (j % 4) \in 1 .. 16
        OBVIOUS
      <4>2. QED
        BY <1>1, <4>1 DEF State
    <3>5. SubByte(k[13 + (j % 4)]) = sbox[w[4 * r][1 + (j % 4)]]
      BY <3>3, <3>4 DEF SboxAgrees
    <3>6. First(k, r + 1)[j] = Xor(SubByte(k[13 + (j % 4)]), IF j = 1 THEN Power[(r + 1) - 1] ELSE {})
      BY DEF First
    <3>7. QED
      BY <3>1, <3>5, <3>6
  <2>2. b \in Byte
    <3> DEFINE e == IF j = 1 THEN Power[r] ELSE {}
    <3>1. e \in Byte
      <4>1. r \in 1 .. 15 /\ {} \in Byte
        BY DEF Byte
      <4>2. QED
        BY <4>1, PowerIs
    <3>2. sbox[w[4 * r][1 + (j % 4)]] \in Byte
      <4>1. 4 * r \in 1 .. 44 /\ 1 + (j % 4) \in 1 .. 4
        OBVIOUS
      <4>2. w[4 * r][1 + (j % 4)] \in Byte
        BY <4>1 DEF Schedule, Word
      <4>3. QED
        BY <4>2, SboxIsByte
    <3> HIDE DEF e
    <3>3. Xor(sbox[w[4 * r][1 + (j % 4)]], e) \in Byte
      BY <3>1, <3>2, XorIsByte
    <3>4. QED
      BY <2>1, <3>3 DEF e
  <2> HIDE DEF b
  <2>3. ASSUME NEW d \in 0 .. 3
        PROVE  y[1 + (1 + d)] = w[4 * (r - 1) + 1 + d][j] /\ y[1 + (1 + d)] \in Byte
    <3>1. 1 + (1 + d) \in 1 .. 5 /\ 1 + (1 + d) # 1 /\ j + 4 * ((1 + (1 + d)) - 2) = 4 * d + j
      OBVIOUS
    <3>2. y[1 + (1 + d)] = k[4 * d + j]
      BY <3>1 DEF KeyTerms
    <3> HIDE DEF y
    <3>3. 4 * (r - 1) + 1 + d \in 1 .. 44
      OBVIOUS
    <3>4. w[4 * (r - 1) + 1 + d][j] \in Byte
      BY <3>3 DEF Schedule, Word
    <3>5. k[4 * d + j] = w[4 * (r - 1) + 1 + d][j]
      BY <1>1
    <3>6. QED
      BY <3>2, <3>4, <3>5
  <2>4. y[1] = b
    BY DEF KeyTerms, b
  <2> HIDE DEF y
  <2>6. SumTo(y, 1) = b
    <3>1. y[0 + 1] \in Byte /\ 0 \in Nat
      BY <2>2, <2>4
    <3>2. SumTo(y, 0 + 1) = Xor({}, b)
      BY <2>4, <3>1, SumToNext, SumToNone
    <3>3. Xor({}, b) = b
      BY DEF Xor, SymDiff
    <3>4. QED
      BY <3>2, <3>3
  <2>7. ASSUME NEW d \in 0 .. 3
        PROVE  SumTo(y, 1 + (1 + d)) = Xor(SumTo(y, 1 + d), w[4 * (r - 1) + 1 + d][j])
    <3>1. y[(1 + d) + 1] \in Byte /\ 1 + d \in Nat /\ y[(1 + d) + 1] = w[4 * (r - 1) + 1 + d][j]
          /\ (1 + d) + 1 = 1 + (1 + d)
      <4>1. (1 + d) + 1 = 1 + (1 + d) /\ 1 + d \in Nat
        OBVIOUS
      <4>2. QED
        BY <2>3, <4>1
    <3>2. SumTo(y, (1 + d) + 1) = Xor(SumTo(y, 1 + d), y[(1 + d) + 1])
      BY <3>1, SumToNext
    <3>3. QED
      BY <3>1, <3>2
  <2> DEFINE S == {d \in 0 .. 3 : SumTo(y, 1 + (1 + d)) = w[4 * r + 1 + d][j]}
  <2>8. \A x, z : Xor(x, z) = Xor(z, x)
    BY DEF Xor, SymDiff
  <2>9. 0 \in S
    <3>1. 0 \in 0 .. 3 /\ 1 + 0 = 1
      OBVIOUS
    <3>2. SumTo(y, 1 + (1 + 0)) = Xor(b, w[4 * (r - 1) + 1 + 0][j])
      BY <2>6, <2>7, <3>1
    <3>3. w[4 * r + 1 + 0][j] = Xor(w[4 * (r - 1) + 1 + 0][j], b)
      BY <1>3, <2>1
    <3>4. QED
      BY <2>8, <3>1, <3>2, <3>3
  <2>10. \A d \in 0 .. 3 - 1 : d \in S => d + 1 \in S
    <3>1. TAKE d \in 0 .. 3 - 1
    <3>2. HAVE d \in S
    <3>3. d + 1 \in 0 .. 3 /\ d + 1 > 0 /\ 1 + (d + 1) = 1 + (1 + d) /\ 4 * r + (d + 1) = 4 * r + 1 + d
      OBVIOUS
    <3>4. SumTo(y, 1 + (1 + (d + 1))) = Xor(SumTo(y, 1 + (d + 1)), w[4 * (r - 1) + 1 + (d + 1)][j])
      BY <2>7, <3>3
    <3>5. SumTo(y, 1 + (d + 1)) = w[4 * r + (d + 1)][j]
      BY <3>2, <3>3
    <3>6. w[4 * r + 1 + (d + 1)][j] = Xor(w[4 * (r - 1) + 1 + (d + 1)][j], w[4 * r + (d + 1)][j])
      BY <1>2, <3>3
    <3>7. SumTo(y, 1 + (1 + (d + 1))) = w[4 * r + 1 + (d + 1)][j]
      BY <2>8, <3>4, <3>5, <3>6
    <3>8. QED
      BY <3>3, <3>7
  <2>11. \A d \in 0 .. 3 : d \in S
    <3>1. 3 \in Nat
      OBVIOUS
    <3> HIDE DEF S
    <3>2. QED
      BY <2>9, <2>10, <3>1, Climb
  <2>12. KeyByte(k, r + 1, j, c) = SumTo(y, 2 + c)
    <3>1. k \in State /\ First(k, r + 1)[j] \in Byte
      BY <1>1, <2>2 DEF b
    <3>2. QED
      BY <3>1, KeyByteIsSum DEF y
  <2>13. 1 + (1 + c) = 2 + c
    OBVIOUS
  <2>14. SumTo(y, 1 + (1 + c)) = w[4 * r + 1 + c][j]
    BY <2>11
  <2>15. QED
    BY <2>12, <2>13, <2>14
<1> DEFINE f == [n \in 1 .. 16 |-> KeyByte(k, r + 1, 1 + ((n - 1) % 4), (n - 1) \div 4)]
<1>5. \A n \in 1 .. 16 : f[n] = w[4 * r + 1 + (n - 1) \div 4][1 + ((n - 1) % 4)]
  <2>1. TAKE n \in 1 .. 16
  <2> DEFINE q == (n - 1) \div 4
             p == (n - 1) % 4
  <2>2. q \in 0 .. 3 /\ p \in 0 .. 3
    BY Columns
  <2>3. f[n] = KeyByte(k, r + 1, 1 + p, q)
    OBVIOUS
  <2> HIDE DEF p, q, f
  <2>4. 1 + p \in 1 .. 4
    BY <2>2
  <2>5. f[n] = w[4 * r + 1 + q][1 + p]
    BY <1>4, <2>2, <2>3, <2>4
  <2>6. QED
    BY <2>5 DEF p, q
<1>6. f = NodeKey(w, r + 1)
  <2>1. (r + 1) - 1 = r
    OBVIOUS
  <2>2. NodeKey(w, r + 1) = [n \in 1 .. 16 |-> w[4 * r + 1 + (n - 1) \div 4][1 + ((n - 1) % 4)]]
    BY <2>1 DEF NodeKey
  <2>3. QED
    BY <1>5, <2>2
<1>7. NodeKey(w, r + 1) \in State
  <2>1. r + 1 \in 1 .. 11
    OBVIOUS
  <2>2. QED
    BY <2>1, NodeKeyIsState
<1>8. StdNextKey(k, r + 1) = SubSeq(f, 1, 16)
    BY DEF StdNextKey
<1> HIDE DEF f
<1>9. SubSeq(f, 1, 16) = f
  <2>1. f \in [1 .. 16 -> Byte] /\ 16 \in Nat
    BY <1>6, <1>7 DEF State
  <2>2. QED
    BY <2>1, SubSeqWhole
<1>10. QED
    BY <1>6, <1>8, <1>9 DEF k

\* The library's round keys are those of the schedule.
LEMMA RoundKeysAre ==
    ASSUME SboxAgrees, NEW key \in State, NEW w, Schedule(w, key)
    PROVE  \A r \in 1 .. 11 : RoundKeys(key)[r] = NodeKey(w, r)
<1> DEFINE Is(f) == f = [r \in 1 .. 11 |-> IF r = 1 THEN key ELSE StdNextKey(f[r - 1], r)]
           keys == CHOOSE f : Is(f)
           g == [r \in 1 .. 11 |-> NodeKey(w, r)]
<1>1. RoundKeys(key) = SubSeq(keys, 1, 11)
    BY DEF RoundKeys, StdNextKey, KeyByte, First
<1>2. NodeKey(w, 1) = key
  <2>1. \A n \in 1 .. 16 : NodeKey(w, 1)[n] = key[n]
    <3>1. TAKE n \in 1 .. 16
    <3> DEFINE q == (n - 1) \div 4
               p == (n - 1) % 4
    <3>2. q \in 0 .. 3 /\ p \in 0 .. 3 /\ n = 4 * q + p + 1
      BY Columns
    <3>3. NodeKey(w, 1)[n] = w[4 * (1 - 1) + 1 + q][1 + p]
      BY DEF NodeKey
    <3> HIDE DEF p, q
    <3>4. 4 * (1 - 1) + 1 + q = q + 1 /\ 1 + p \in 1 .. 4 /\ 4 * q + (1 + p) = n
      BY <3>2
    <3>5. w[q + 1][1 + p] = key[4 * q + (1 + p)]
      BY <3>2, <3>4 DEF Schedule
    <3>6. QED
      BY <3>3, <3>4, <3>5
  <2>2. NodeKey(w, 1) \in State
    <3>1. 1 \in 1 .. 11
      OBVIOUS
    <3>2. QED
      BY <3>1, NodeKeyIsState
  <2>3. QED
    BY <2>1, <2>2 DEF State
<1>3. \A r \in 2 .. 11 : NodeKey(w, r) = StdNextKey(NodeKey(w, r - 1), r)
  <2>1. TAKE r \in 2 .. 11
  <2>2. r - 1 \in 1 .. 10 /\ (r - 1) + 1 = r
    OBVIOUS
  <2>3. StdNextKey(NodeKey(w, r - 1), (r - 1) + 1) = NodeKey(w, (r - 1) + 1)
    BY <2>2, SameNextKey
  <2>4. QED
    BY <2>2, <2>3
<1>4. Is(g)
  <2>1. \A r \in 1 .. 11 : NodeKey(w, r) = IF r = 1 THEN key ELSE StdNextKey(g[r - 1], r)
    <3>1. TAKE r \in 1 .. 11
    <3>2. CASE r = 1
      BY <1>2, <3>2
    <3>3. CASE r # 1
      <4>1. r \in 2 .. 11 /\ r - 1 \in 1 .. 11
        BY <3>3
      <4>2. g[r - 1] = NodeKey(w, r - 1)
        BY <4>1
      <4> HIDE DEF g
      <4>3. QED
        BY <1>3, <3>3, <4>1, <4>2
    <3>4. QED
      BY <3>2, <3>3
  <2>2. QED
    BY <2>1
<1>5. Is(keys)
  <2> HIDE DEF Is
  <2>1. QED
    BY <1>4
<1>6. keys = [r \in 1 .. 11 |-> IF r = 1 THEN key ELSE StdNextKey(keys[r - 1], r)]
  <2> HIDE DEF keys
  <2>1. QED
    BY <1>5
<1> HIDE DEF keys, Is, g
<1> DEFINE S == {i \in 0 .. 10 : keys[i + 1] = NodeKey(w, i + 1)}
<1>7. 0 \in S
  <2>1. 0 + 1 \in 1 .. 11 /\ 0 + 1 = 1
    OBVIOUS
  <2>2. keys[0 + 1] = key
    BY <1>6, <2>1
  <2>3. QED
    BY <1>2, <2>1, <2>2
<1>8. \A i \in 0 .. 10 - 1 : i \in S => i + 1 \in S
  <2>1. TAKE i \in 0 .. 10 - 1
  <2>2. HAVE i \in S
  <2>3. (i + 1) + 1 \in 2 .. 11 /\ (i + 1) + 1 \in 1 .. 11 /\ (i + 1) + 1 # 1
        /\ ((i + 1) + 1) - 1 = i + 1 /\ i + 1 \in 0 .. 10
    OBVIOUS
  <2>4. keys[(i + 1) + 1] = StdNextKey(keys[i + 1], (i + 1) + 1)
    BY <1>6, <2>3
  <2>5. NodeKey(w, (i + 1) + 1) = StdNextKey(NodeKey(w, i + 1), (i + 1) + 1)
    BY <1>3, <2>3
  <2>6. keys[i + 1] = NodeKey(w, i + 1)
    BY <2>2
  <2>7. QED
    BY <2>3, <2>4, <2>5, <2>6
<1>9. \A i \in 0 .. 10 : i \in S
  <2>1. 10 \in Nat
    OBVIOUS
  <2> HIDE DEF S
  <2>2. QED
    BY <1>7, <1>8, <2>1, Climb
<1>10. \A r \in 1 .. 11 : keys[r] = NodeKey(w, r)
  <2>1. \A r \in 1 .. 11 : r - 1 \in 0 .. 10 /\ (r - 1) + 1 = r
    OBVIOUS
  <2>2. QED
    BY <1>9, <2>1
<1>11. SubSeq(keys, 1, 11) = keys
  <2>1. \A r \in 1 .. 11 : keys[r] \in State
    BY <1>10, NodeKeyIsState
  <2>2. keys \in [1 .. 11 -> State] /\ 11 \in Nat
    BY <1>6, <2>1
  <2>3. QED
    BY <2>2, SubSeqWhole
<1>12. QED
    BY <1>1, <1>10, <1>11

\* Under one S-box, the node's AES and the library's are the same function.
LEMMA SboxesSuffice ==
    ASSUME SboxAgrees
    PROVE  BlocksAgree
<1>1. Key \in State
    BY KeyAssumption DEF State
<1> DEFINE keys == KeyExpansion(Key)
<1>2. PICK w : /\ Schedule(w, Key)
               /\ keys = [n \in 1 .. 176 |-> w[1 + (n - 1) \div 4][1 + ((n - 1) % 4)]]
               /\ keys \in RoundKey
    BY <1>1, KeyExpansionIs
<1> HIDE DEF keys
<1>3. SameKeys(keys, CloudKeys)
  <2>1. ASSUME NEW r \in 0 .. 10, NEW n \in 1 .. 16
        PROVE  CloudKeys[r + 1][n] = keys[16 * r + n]
    <3> DEFINE q == (n - 1) \div 4
               p == (n - 1) % 4
    <3>1. q \in 0 .. 3 /\ p \in 0 .. 3 /\ n = 4 * q + p + 1
      BY Columns
    <3>2. CloudKeys[r + 1] = NodeKey(w, r + 1)
      <4>1. r + 1 \in 1 .. 11
        OBVIOUS
      <4>2. QED
        BY <1>1, <1>2, <4>1, RoundKeysAre DEF CloudKeys
    <3>3. NodeKey(w, r + 1)[n] = w[4 * ((r + 1) - 1) + 1 + q][1 + p]
      BY DEF NodeKey
    <3> HIDE DEF p, q
    <3>4. 16 * r + n \in 1 .. 176 /\ 16 * r + n - 1 = 4 * (4 * r + q) + p /\ (r + 1) - 1 = r
      BY <3>1
    <3>5. (16 * r + n - 1) \div 4 = 4 * r + q /\ (16 * r + n - 1) % 4 = p
      <4>1. \A i \in Int : \A d \in 0 .. 3 : (4 * i + d) \div 4 = i /\ (4 * i + d) % 4 = d
        OBVIOUS
      <4>2. 4 * r + q \in Int
        BY <3>1
      <4>3. QED
        BY <3>1, <3>4, <4>1, <4>2
    <3>6. keys[16 * r + n] = w[1 + (16 * r + n - 1) \div 4][1 + ((16 * r + n - 1) % 4)]
      BY <1>2, <3>4
    <3>7. 1 + (4 * r + q) = 4 * r + 1 + q
      BY <3>1
    <3>8. QED
      BY <3>2, <3>3, <3>4, <3>5, <3>6, <3>7
  <2>2. QED
    BY <2>1 DEF SameKeys
<1>4. QED
    BY <1>2, <1>3, SameBlock DEF BlocksAgree, State, keys

-----------------------------------------------------------------------------
(* The frame.                                                              *)

Shaped(text) == DOMAIN text = 1 .. PAYLOAD_SIZE /\ text = [i \in DOMAIN text |-> text[i]]
Before(n) == (n - 1) % MaxSeq
Sealed(seq, p) == Crypt(KeyExpansion(Key), Nonce(seq), p)

\* What has no payload is of no reading; the buffer is the payload sent last,
\* encrypted under its number, and the frame is the buffer and what was in it
\* before.
FrameInv ==
    /\ initialized => round_key = KeyExpansion(Key)
    /\ ~initialized => frame = None /\ packed[1] = None
    /\ global_seq \in 0 .. MaxSeq - 1
    /\ Shaped(previous)
    /\ packed[1] # None => packed[1] \in Text /\ previous = Sealed(LastSeq, packed[1])
    /\ frame # None =>
          /\ packed[1] # None
          /\ \E c : /\ frame = Join(previous, c)
                    /\ Shaped(c)
                    /\ packed[2] # None => packed[2] \in Text /\ c = Sealed(Before(LastSeq), packed[2])

\* The number before the next is this one.
LEMMA BeforeNext ==
    ASSUME NEW q \in 0 .. MaxSeq - 1
    PROVE  Before(NextSeq(q)) = q
<1>1. \A m, n \in Nat : m > 0 /\ n < m => (((n + 1) % m) - 1) % m = n
  <2>1. TAKE m, n \in Nat
  <2>2. HAVE m > 0 /\ n < m
  <2>3. CASE n + 1 < m
    BY <2>2, <2>3
  <2>4. CASE n + 1 = m
    <3>1. (n + 1) % m = 0
      BY <2>2, <2>4
    <3>2. (0 - 1) % m = n
      BY <2>2, <2>4
    <3>3. QED
      BY <3>1, <3>2
  <2>5. QED
    BY <2>2, <2>3, <2>4
<1>2. MaxSeq \in Nat /\ MaxSeq > 0 /\ q \in Nat /\ q < MaxSeq
    BY MaxSeqIsPositive
<1>3. QED
    BY <1>1, <1>2 DEF Before, NextSeq

LEMMA BeforeIsNumber ==
    ASSUME NEW q \in 1 .. MaxSeq - 1
    PROVE  Before(q) = q - 1
<1>1. \A m, n \in Nat : n > 0 /\ n < m => (n - 1) % m = n - 1
    OBVIOUS
<1>2. MaxSeq \in Nat /\ q \in Nat /\ q > 0 /\ q < MaxSeq
    BY MaxSeqIsPositive
<1>3. QED
    BY <1>1, <1>2 DEF Before

LEMMA SealedIsShaped ==
    ASSUME NEW q, NEW p \in Text
    PROVE  Shaped(Sealed(q, p))
<1> DEFINE stream == Keystream(KeyExpansion(Key), Nonce(q), PAYLOAD_SIZE)
<1>1. Len(p) = PAYLOAD_SIZE
    BY TextLength DEF Text
<1>2. Sealed(q, p) = [i \in 1 .. PAYLOAD_SIZE |-> Xor(p[i], stream[i])]
    BY <1>1 DEF Sealed, Crypt
<1> HIDE DEF stream
<1>3. QED
    BY <1>2 DEF Shaped

LEMMA PayloadIsText ==
    ASSUME NEW p \in Payloads
    PROVE  p \in Text /\ p # None
<1>1. p \in Text
    BY PayloadsAssumption DEF Text
<1>2. Len(p) = PAYLOAD_SIZE
    BY <1>1, TextLength DEF Text
<1>3. Len(<<>>) = 0 /\ PAYLOAD_SIZE # 0
    BY DEF PAYLOAD_SIZE
<1>4. QED
    BY <1>1, <1>2, <1>3 DEF None

LEMMA FrameInit == Init => FrameInv
<1>1. ASSUME Off PROVE FrameInv
    BY <1>1, ZeroIsNumber DEF Off, FrameInv, Zeros, None, Shaped
<1>2. ASSUME NEW q \in Starts \ {0}, NEW p \in Payloads, Joined(q, p) PROVE FrameInv
  <2>1. q \in 1 .. MaxSeq - 1 /\ q \in 0 .. MaxSeq - 1
    BY StartsAssumption, MaxSeqIsPositive
  <2>2. p \in Text /\ p # None
    BY PayloadIsText
  <2>3. initialized /\ round_key = KeyExpansion(Key) /\ global_seq = q /\ frame = None
        /\ packed[1] = p /\ previous = Crypt(KeyExpansion(Key), Nonce(q - 1), p)
    BY <1>2 DEF Joined
  <2>4. LastSeq = q - 1
    BY <2>1, <2>3, BeforeIsNumber DEF LastSeq, Before
  <2>5. previous = Sealed(LastSeq, p)
    BY <2>3, <2>4 DEF Sealed
  <2>6. QED
    BY <2>1, <2>2, <2>3, <2>5, SealedIsShaped DEF FrameInv
<1>3. QED
    BY <1>1, <1>2 DEF Init

LEMMA FrameStep == FrameInv /\ [Next]_vars => FrameInv'
<1> SUFFICES ASSUME FrameInv, [Next]_vars PROVE FrameInv'
    OBVIOUS
<1>1. CASE HalInit
    BY <1>1 DEF HalInit, FrameInv, Zeros, Shaped
<1>2. ASSUME NEW p \in Payloads, OnTx(p) PROVE FrameInv'
  <2>1. /\ initialized /\ round_key = KeyExpansion(Key) /\ global_seq \in 0 .. MaxSeq - 1
        /\ initialized' = initialized /\ round_key' = round_key
        /\ packed'[1] = p /\ packed'[2] = packed[1]
    BY <1>2 DEF OnTx, FrameInv
  <2>2. /\ previous' = Sealed(global_seq, p) /\ frame' = Join(Sealed(global_seq, p), previous)
        /\ global_seq' = NextSeq(global_seq)
    BY <1>2, <2>1 DEF OnTx, Sealed, Join
  <2>3. p \in Text /\ p # None
    BY PayloadIsText
  <2>4. global_seq' \in 0 .. MaxSeq - 1 /\ LastSeq' = global_seq /\ LastSeq = Before(global_seq)
    BY <2>1, <2>2, NextSeqIsNumber, BeforeNext DEF LastSeq, Before
  <2>5. Shaped(previous')
    BY <2>2, <2>3, SealedIsShaped
  <2>6. packed'[1] # None /\ packed'[1] \in Text /\ previous' = Sealed(LastSeq', packed'[1])
    BY <2>1, <2>2, <2>3, <2>4
  <2>7. /\ frame' = Join(previous', previous)
        /\ Shaped(previous)
        /\ packed'[2] # None =>
               packed'[2] \in Text /\ previous = Sealed(Before(LastSeq'), packed'[2])
    BY <2>1, <2>2, <2>4 DEF FrameInv
  <2>8. QED
    BY <2>1, <2>4, <2>5, <2>6, <2>7 DEF FrameInv
<1>3. CASE Reset
    BY <1>3, ZeroIsNumber DEF Reset, FrameInv, Zeros, Shaped
<1>4. CASE UNCHANGED vars
    BY <1>4 DEF vars, FrameInv, LastSeq
<1>5. QED
    BY <1>1, <1>2, <1>3, <1>4 DEF Next

\* The two halves of a frame.
LEMMA Halves ==
    ASSUME NEW a, Shaped(a), NEW b, Shaped(b)
    PROVE  /\ SubSeq(Join(a, b), 1, PAYLOAD_SIZE) = a
           /\ SubSeq(Join(a, b), PAYLOAD_SIZE + 1, 2 * PAYLOAD_SIZE) = b
<1> DEFINE S == {a[i] : i \in 1 .. PAYLOAD_SIZE} \cup {b[i] : i \in 1 .. PAYLOAD_SIZE}
<1>1. a \in [1 .. PAYLOAD_SIZE -> S] /\ b \in [1 .. PAYLOAD_SIZE -> S]
    BY DEF Shaped
<1> HIDE DEF S
<1>2. a \in Seq(S) /\ b \in Seq(S) /\ Len(a) = PAYLOAD_SIZE /\ Len(b) = PAYLOAD_SIZE
    BY <1>1, TextLength
<1>3. PAYLOAD_SIZE = 25
    BY DEF PAYLOAD_SIZE
<1> DEFINE f == Join(a, b)
<1>4. /\ f \in Seq(S) /\ Len(f) = 50
      /\ \A i \in 1 .. 25 : f[i] = a[i]
      /\ \A i \in 1 .. 25 : f[25 + i] = b[i]
  <2>1. a \in Seq(S) /\ b \in Seq(S)
    BY <1>2
  <2>2. f \in Seq(S)
    BY <2>1, JoinProperties
  <2>3. Len(f) = Len(a) + Len(b)
    BY <2>1, JoinProperties
  <2>4. \A i \in 1 .. Len(a) : f[i] = a[i]
    BY <2>1, JoinProperties
  <2>5. \A i \in 1 .. Len(b) : f[Len(a) + i] = b[i]
    BY <2>1, JoinProperties
  <2> HIDE DEF f
  <2>6. QED
    BY <1>2, <1>3, <2>2, <2>3, <2>4, <2>5
<1> HIDE DEF f
<1>11. \A i \in 1 .. 50 : f[i] \in S
    BY <1>4, ElementOfSeq
<1>5. /\ SubSeq(f, 1, 25) \in Seq(S) /\ Len(SubSeq(f, 1, 25)) = 25
      /\ \A i \in 1 .. 25 : SubSeq(f, 1, 25)[i] = f[i]
  <2>1. /\ SubSeq(f, 1, 25) \in Seq(S)
        /\ Len(SubSeq(f, 1, 25)) = IF 1 <= 25 THEN 25 - 1 + 1 ELSE 0
        /\ \A i \in 1 .. 25 - 1 + 1 : SubSeq(f, 1, 25)[i] = f[1 + i - 1]
    BY <1>11, SubSeqProperties
  <2>2. QED
    BY <2>1
<1>6. /\ SubSeq(f, 26, 50) \in Seq(S) /\ Len(SubSeq(f, 26, 50)) = 25
      /\ \A i \in 1 .. 25 : SubSeq(f, 26, 50)[i] = f[25 + i]
  <2>1. /\ SubSeq(f, 26, 50) \in Seq(S)
        /\ Len(SubSeq(f, 26, 50)) = IF 26 <= 50 THEN 50 - 26 + 1 ELSE 0
        /\ \A i \in 1 .. 50 - 26 + 1 : SubSeq(f, 26, 50)[i] = f[26 + i - 1]
    BY <1>11, SubSeqProperties
  <2>2. QED
    BY <2>1
<1>7. SubSeq(f, 1, 25) = a
    BY <1>2, <1>3, <1>4, <1>5, SeqEqual
<1>8. SubSeq(f, 26, 50) = b
    BY <1>2, <1>3, <1>4, <1>6, SeqEqual
<1>9. PAYLOAD_SIZE + 1 = 26 /\ 2 * PAYLOAD_SIZE = 50
    BY <1>3
<1>10. QED
    BY <1>3, <1>7, <1>8, <1>9 DEF f

\* The cloud, given a reading's number, gets back what was packed, of both
\* halves of every frame, over wraps of the number and resets, for every key,
\* if the 256 bytes of the C source's S-box are those of the definition
\* (aes_ctr_init, aes_ctr_crypt, rolling_buffer.c, on_tx against decrypt in
\* aes_decrypt.py).
THEOREM CloudReadsEveryFrame ==
    ASSUME SboxAgrees
    PROVE  Spec => []CloudReadsFrame
<1>0. BlocksAgree
    BY SboxesSuffice
<1>1. FrameInv => CloudReadsFrame
  <2> SUFFICES ASSUME FrameInv, frame # None
               PROVE  /\ Decrypt(Current, LastSeq) = packed[1]
                      /\ packed[2] # None => Decrypt(Previous, (LastSeq - 1) % MaxSeq) = packed[2]
      BY DEF CloudReadsFrame
  <2>1. /\ Shaped(previous)
        /\ packed[1] \in Text /\ previous = Sealed(LastSeq, packed[1])
    BY DEF FrameInv
  <2>2. PICK c : /\ frame = Join(previous, c)
                 /\ Shaped(c)
                 /\ packed[2] # None =>
                        packed[2] \in Text /\ c = Sealed(Before(LastSeq), packed[2])
    BY DEF FrameInv
  <2>3. Current = previous /\ Previous = c
    <3>1. /\ SubSeq(Join(previous, c), 1, PAYLOAD_SIZE) = previous
          /\ SubSeq(Join(previous, c), PAYLOAD_SIZE + 1, 2 * PAYLOAD_SIZE) = c
      BY <2>1, <2>2, Halves
    <3>2. QED
      BY <2>2, <3>1, Zenon DEF Current, Previous
  <2>4. Decrypt(previous, LastSeq) = packed[1]
    BY <1>0, <2>1, CloudOpens DEF Sealed
  <2>5. packed[2] # None => Decrypt(c, Before(LastSeq)) = packed[2]
    BY <1>0, <2>2, CloudOpens DEF Sealed
  <2>6. QED
    BY <2>3, <2>4, <2>5 DEF Before
<1>2. QED
    BY <1>1, FrameInit, FrameStep, PTL DEF Spec

-----------------------------------------------------------------------------
(* Types.                                                                  *)

LEMMA CipherIsText ==
    ASSUME NEW keys \in RoundKey, NEW q, NEW p \in Text
    PROVE  Crypt(keys, Nonce(q), p) \in Text
<1> DEFINE n == Nonce(q)
           a == EncryptBlock(keys, n)
           b == EncryptBlock(keys, NextCounter(n))
           u == Join(<<>>, a)
           s == Join(u, b)
<1>1. n \in State /\ NextCounter(n) \in State
  <2>1. n \in [1 .. 16 -> Byte]
    BY NonceEndsInZero
  <2>2. {0} \in Byte
    BY DEF Byte
  <2>3. [n EXCEPT ![16] = {0}] \in [1 .. 16 -> Byte]
    BY <2>1, <2>2
  <2>4. QED
    BY <2>1, <2>3, NextOfNonce DEF State
<1> HIDE DEF n
<1>2. a \in State /\ b \in State
    BY <1>1, BlockIsState
<1> HIDE DEF a, b
<1>3. /\ a \in Seq(Byte) /\ Len(a) = 16
      /\ b \in Seq(Byte) /\ Len(b) = 16
  <2>1. \A x \in State : x \in Seq(Byte)
    <3>1. 16 \in Nat
      OBVIOUS
    <3>2. QED
      BY <3>1, SeqDef DEF State
  <2>2. \A x \in State : DOMAIN x = 1 .. 16
    BY DEF State
  <2>3. ASSUME NEW x \in State PROVE Len(x) = 16
    <3>1. x \in Seq(Byte)
      BY <2>1
    <3>2. Len(x) \in Nat /\ DOMAIN x = 1 .. Len(x)
      BY <3>1, LenProperties
    <3>3. 1 .. Len(x) = 1 .. 16
      BY <2>2, <3>2
    <3>4. \A m, k \in Nat : 1 .. m = 1 .. k => m = k
      OBVIOUS
    <3>5. QED
      BY <3>2, <3>3, <3>4
  <2>4. QED
    BY <1>2, <2>1, <2>3
<1>4. u \in Seq(Byte) /\ Len(u) = 16
  <2>1. <<>> \in Seq(Byte) /\ Len(<<>>) = 0
    BY EmptySeq
  <2>2. <<>> \in Seq(Byte) /\ a \in Seq(Byte)
    BY <1>3, <2>1
  <2>3. u \in Seq(Byte)
    BY <2>2, JoinProperties
  <2>4. Len(u) = Len(<<>>) + Len(a)
    BY <2>2, JoinProperties
  <2> HIDE DEF u
  <2>5. QED
    BY <1>3, <2>1, <2>3, <2>4
<1> HIDE DEF u
<1>5. s \in Seq(Byte) /\ Len(s) = 32
  <2>1. u \in Seq(Byte) /\ b \in Seq(Byte)
    BY <1>3, <1>4
  <2>2. s \in Seq(Byte)
    BY <2>1, JoinProperties
  <2>3. Len(s) = Len(u) + Len(b)
    BY <2>1, JoinProperties
  <2> HIDE DEF s
  <2>4. QED
    BY <1>3, <1>4, <2>2, <2>3
<1>6. s = NodeStream(keys, n)
    BY DEF s, u, a, b, NodeStream
<1> HIDE DEF s
<1>7. \A i \in 1 .. PAYLOAD_SIZE : s[i] \in Byte
  <2>1. \A i \in 1 .. PAYLOAD_SIZE : i \in 1 .. 32
    BY DEF PAYLOAD_SIZE
  <2>2. QED
    BY <1>5, <2>1, ElementOfSeq
<1>8. Len(p) = PAYLOAD_SIZE /\ \A i \in 1 .. PAYLOAD_SIZE : p[i] \in Byte
    BY TextLength DEF Text
<1>9. Crypt(keys, n, p) = [i \in 1 .. PAYLOAD_SIZE |-> Xor(p[i], s[i])]
    BY <1>6, <1>8, TwoBlocks DEF Crypt
<1>10. \A i \in 1 .. PAYLOAD_SIZE : Xor(p[i], s[i]) \in Byte
    BY <1>7, <1>8, XorIsByte
<1>11. QED
    BY <1>9, <1>10 DEF Text, n

LEMMA KeysAreRoundKey == KeyExpansion(Key) \in RoundKey
<1>1. Key \in State
    BY KeyAssumption DEF State
<1>2. QED
    BY <1>1, KeyExpansionIs

LEMMA TextsJoin ==
    ASSUME NEW a \in Text, NEW b \in Text
    PROVE  Join(a, b) \in [1 .. 2 * PAYLOAD_SIZE -> Byte]
<1>1. a \in Seq(Byte) /\ b \in Seq(Byte) /\ Len(a) = PAYLOAD_SIZE /\ Len(b) = PAYLOAD_SIZE
    BY TextLength DEF Text
<1> DEFINE f == Join(a, b)
<1>2. f \in Seq(Byte)
    BY <1>1, JoinProperties
<1>3. Len(f) = Len(a) + Len(b)
    BY <1>1, JoinProperties
<1> HIDE DEF f
<1>4. f \in [1 .. Len(f) -> Byte]
    BY <1>2, LenProperties
<1>5. \A m \in Int : m + m = 2 * m
    OBVIOUS
<1>6. PAYLOAD_SIZE \in Int
    BY DEF PAYLOAD_SIZE
<1>7. Len(f) = 2 * PAYLOAD_SIZE
    BY <1>1, <1>3, <1>5, <1>6
<1>8. QED
    BY <1>4, <1>7 DEF f

LEMMA BlankTypes ==
    /\ [i \in 1 .. 176 |-> {}] \in RoundKey
    /\ Zeros \in Text
<1>1. {} \in Byte
    BY DEF Byte
<1>2. QED
    BY <1>1 DEF RoundKey, Zeros, Text

LEMMA UsedTypes ==
    ASSUME NEW q \in 0 .. MaxSeq - 1, NEW k \in 0 .. 1
    PROVE  [seq |-> q, block |-> k, counter |-> Counters(Nonce(q), PAYLOAD_SIZE)[k]]
              \in [seq : 0 .. MaxSeq - 1, block : 0 .. 1, counter : [1 .. 16 -> Byte]]
<1>1. Nonce(q) \in [1 .. 16 -> Byte]
    BY NonceEndsInZero
<1>2. {0} \in Byte
    BY DEF Byte
<1>3. [Nonce(q) EXCEPT ![16] = {0}] \in [1 .. 16 -> Byte]
    BY <1>1, <1>2
<1>4. NextCounter(Nonce(q)) \in [1 .. 16 -> Byte]
    BY <1>3, NextOfNonce
<1>5. Counters(Nonce(q), PAYLOAD_SIZE)[k] \in [1 .. 16 -> Byte]
  <2>1. k = 0 \/ k = 1
    OBVIOUS
  <2>2. QED
    BY <1>1, <1>4, <2>1, TwoCounters
<1> DEFINE x == Counters(Nonce(q), PAYLOAD_SIZE)[k]
           B == [1 .. 16 -> Byte]
           N == 0 .. MaxSeq - 1
<1>6. x \in B /\ q \in N
    BY <1>5
<1> HIDE DEF x, B, N
<1>7. [seq |-> q, block |-> k, counter |-> x] \in [seq : N, block : 0 .. 1, counter : B]
    BY <1>6
<1>8. QED
    BY <1>7 DEF x, B, N

LEMMA TypesInit == Init => TypeOK
<1>1. ASSUME Off PROVE TypeOK
  <2>1. round_key \in RoundKey /\ previous \in Text
    BY <1>1, BlankTypes DEF Off
  <2>2. packed \in (Payloads \cup {None}) \X (Payloads \cup {None})
    BY <1>1 DEF Off
  <2>3. initialized \in BOOLEAN /\ global_seq \in 0 .. MaxSeq - 1 /\ frame = None /\ used = {}
    BY <1>1, ZeroIsNumber DEF Off
  <2>4. QED
    BY <2>1, <2>2, <2>3 DEF TypeOK, RoundKey, Text
<1>2. ASSUME NEW q \in Starts \ {0}, NEW p \in Payloads, Joined(q, p) PROVE TypeOK
  <2>1. initialized \in BOOLEAN /\ global_seq \in 0 .. MaxSeq - 1 /\ frame = None /\ used = {}
    BY <1>2, StartsAssumption DEF Joined
  <2>2. round_key \in RoundKey
    BY <1>2, KeysAreRoundKey DEF Joined
  <2>3. previous \in Text
    <3>1. p \in Text
      BY PayloadIsText
    <3>2. QED
      BY <1>2, <3>1, KeysAreRoundKey, CipherIsText DEF Joined
  <2>4. packed \in (Payloads \cup {None}) \X (Payloads \cup {None})
    BY <1>2 DEF Joined
  <2>5. QED
    BY <2>1, <2>2, <2>3, <2>4 DEF TypeOK, RoundKey, Text
<1>3. QED
    BY <1>1, <1>2 DEF Init

LEMMA TypesStep == TypeOK /\ [Next]_vars => TypeOK'
<1> SUFFICES ASSUME TypeOK, [Next]_vars PROVE TypeOK'
    OBVIOUS
<1>0. /\ round_key \in RoundKey /\ previous \in Text /\ global_seq \in 0 .. MaxSeq - 1
      /\ frame = None \/ frame \in [1 .. 2 * PAYLOAD_SIZE -> Byte]
      /\ packed \in (Payloads \cup {None}) \X (Payloads \cup {None})
      /\ used \subseteq [seq : 0 .. MaxSeq - 1, block : 0 .. 1, counter : [1 .. 16 -> Byte]]
      /\ initialized \in BOOLEAN
    BY DEF TypeOK, RoundKey, Text
<1>1. CASE HalInit
  <2>1. round_key' \in RoundKey /\ previous' \in Text
    BY <1>1, BlankTypes, KeysAreRoundKey DEF HalInit
  <2>2. QED
    BY <1>0, <1>1, <2>1 DEF HalInit, TypeOK, RoundKey, Text
<1>2. ASSUME NEW p \in Payloads, OnTx(p) PROVE TypeOK'
  <2> DEFINE cipher == Crypt(round_key, Nonce(global_seq), p)
  <2>1. cipher \in Text
    <3>1. p \in Text
      BY PayloadIsText
    <3>2. QED
      BY <1>0, <3>1, CipherIsText
  <2>2. previous' = cipher /\ frame' = Join(cipher, previous)
    BY <1>2 DEF OnTx, Join
  <2> HIDE DEF cipher
  <2>3. previous' \in Text /\ frame' \in [1 .. 2 * PAYLOAD_SIZE -> Byte]
    BY <1>0, <2>1, <2>2, TextsJoin
  <2>4. global_seq' \in 0 .. MaxSeq - 1
    BY <1>0, <1>2, NextSeqIsNumber DEF OnTx
  <2>5. packed' \in (Payloads \cup {None}) \X (Payloads \cup {None})
    BY <1>0, <1>2 DEF OnTx
  <2>6. used' \subseteq [seq : 0 .. MaxSeq - 1, block : 0 .. 1, counter : [1 .. 16 -> Byte]]
    <3>1. used' = used \cup {[seq |-> global_seq, block |-> k,
                              counter |-> Counters(Nonce(global_seq), PAYLOAD_SIZE)[k]] : k \in 0 .. 1}
      BY <1>2 DEF OnTx
    <3>2. \A k \in 0 .. 1 :
              [seq |-> global_seq, block |-> k, counter |-> Counters(Nonce(global_seq), PAYLOAD_SIZE)[k]]
                 \in [seq : 0 .. MaxSeq - 1, block : 0 .. 1, counter : [1 .. 16 -> Byte]]
      BY <1>0, UsedTypes
    <3> DEFINE R == [seq : 0 .. MaxSeq - 1, block : 0 .. 1, counter : [1 .. 16 -> Byte]]
               F(k) == [seq |-> global_seq, block |-> k,
                        counter |-> Counters(Nonce(global_seq), PAYLOAD_SIZE)[k]]
    <3>3. used' = used \cup {F(k) : k \in 0 .. 1} /\ used \subseteq R /\ \A k \in 0 .. 1 : F(k) \in R
      BY <1>0, <3>1, <3>2
    <3> HIDE DEF F, R
    <3>4. used' \subseteq R
      BY <3>3
    <3>5. QED
      BY <3>4 DEF R
  <2>7. initialized' \in BOOLEAN /\ round_key' \in RoundKey
    BY <1>0, <1>2 DEF OnTx
  <2>8. QED
    BY <2>3, <2>4, <2>5, <2>6, <2>7 DEF TypeOK, RoundKey, Text
<1>3. CASE Reset
  <2>1. round_key' \in RoundKey /\ previous' \in Text
    BY <1>3, BlankTypes DEF Reset
  <2>2. packed' \in (Payloads \cup {None}) \X (Payloads \cup {None})
    BY <1>3 DEF Reset
  <2>3. initialized' \in BOOLEAN /\ global_seq' \in 0 .. MaxSeq - 1 /\ frame' = None /\ used' = {}
    BY <1>3, ZeroIsNumber DEF Reset
  <2>4. QED
    BY <2>1, <2>2, <2>3 DEF TypeOK, RoundKey, Text
<1>4. CASE UNCHANGED vars
    BY <1>4 DEF vars, TypeOK
<1>5. QED
    BY <1>1, <1>2, <1>3, <1>4 DEF Next

\* Round keys, ciphertexts, frames and counters are bytes, and as many as the C
\* arrays have, through the recursion over rounds and words, over every wrap of
\* the number and every reset (aes_ctr.c, rolling_buffer.c).
THEOREM CipherTypes == Spec => []TypeOK
BY TypesInit, TypesStep, PTL DEF Spec

=============================================================================
