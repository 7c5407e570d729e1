-------------------------- MODULE CollectorProofs --------------------------
(***************************************************************************)
(* Theorems about the collector and the bridge on its serial line, for any *)
(* data, any width of the sequence number, any interval, any loops and any *)
(* number of flash slots.                                                  *)
(***************************************************************************)
EXTENDS HwBridge, SequenceTheorems, FiniteSetTheorems, TLAPS

-----------------------------------------------------------------------------
(* Numbers that wrap.                                                      *)

LEMMA Division ==
    ASSUME NEW m \in Nat \ {0}, NEW n \in Nat
    PROVE  n - m * (n \div m) = n % m /\ n % m \in 0 .. m - 1 /\ n \div m \in Int
<1>1. n - m * (n \div m) = n % m
    BY Z3
<1>2. QED
    BY <1>1

\* A quotient and a remainder are the only ones.
LEMMA RemainderUnique ==
    ASSUME NEW m \in Nat \ {0}, NEW q \in Int, NEW p \in Int,
           NEW r \in 0 .. m - 1, NEW s \in 0 .. m - 1, m * q + r = m * p + s
    PROVE  r = s
<1>1. m * (q - p) = s - r /\ m * (p - q) = r - s
    OBVIOUS
<1>2. q - p >= 1 => m * (q - p) >= m
    OBVIOUS
<1>3. p - q >= 1 => m * (p - q) >= m
    OBVIOUS
<1>4. QED
    BY <1>1, <1>2, <1>3

LEMMA ModSmall ==
    ASSUME NEW m \in Nat \ {0}, NEW n \in 0 .. m - 1
    PROVE  n % m = n /\ m % m = 0
<1>1. n % m = n
    OBVIOUS
<1>2. m % m = 0
    OBVIOUS
<1>3. QED
    BY <1>1, <1>2

\* Counting wraps in step with the count.
LEMMA ModSuccessor ==
    ASSUME NEW m \in Nat \ {0}, NEW n \in Nat
    PROVE  (n + 1) % m = ((n % m) + 1) % m
<1> DEFINE q == n \div m
           r == n % m
           p == (n + 1) \div m
           s == (n + 1) % m
<1>1. n - m * q = r /\ r \in 0 .. m - 1 /\ q \in Int
    BY Division
<1>2. n + 1 - m * p = s /\ s \in 0 .. m - 1 /\ p \in Int
    BY Division
<1> HIDE DEF q, r, p, s
<1>3. CASE r + 1 < m
  <2>1. m * q + (r + 1) = m * p + s
    BY <1>1, <1>2
  <2>2. s = r + 1
    BY <1>1, <1>2, <1>3, <2>1, RemainderUnique
  <2>3. QED
    BY <1>1, <1>3, <2>2, ModSmall DEF r, s
<1>4. CASE r + 1 = m
  <2>1. m * (q + 1) + 0 = m * p + s
    BY <1>1, <1>2, <1>4
  <2>2. s = 0
    BY <1>1, <1>2, <2>1, RemainderUnique
  <2>3. QED
    BY <1>1, <1>4, <2>2, ModSmall DEF r, s
<1>5. QED
    BY <1>1, <1>3, <1>4

-----------------------------------------------------------------------------
(* The inductive invariant.                                                *)

\* The reading on the air last.
Last == IF lastSent = Zero THEN Zero ELSE lastSent.cur

\* s is the number of the reading after c, of the first one after nothing.
Follows(s, c) == IF c = Zero THEN s = 0 ELSE s = (c.seq + 1) % SeqMod

\* The rolling buffer, the reading in hand and the frame on the air agree on
\* which reading it is.
NumberInv ==
    /\ pc \in {"sample", "build"} => previous = Last
    /\ pc # "off" => Follows(global_seq, Last)
    /\ pc = "build" => ciphertext \in Ciphertext /\ ciphertext.seq = global_seq
    /\ pc \in {"store", "transmit"} =>
           /\ tx_packet \in Frame
           /\ tx_packet.cur.seq = global_seq
           /\ tx_packet.cur = previous

\* While the flash has room it holds every frame sent since boot.
FlashInv ==
    pc # "off" /\ Len(flash) < MaxSlots =>
        /\ pc \in {"sample", "build", "store"} =>
               /\ global_seq = Len(flash) % SeqMod
               /\ Last = IF flash = << >> THEN Zero ELSE flash[Len(flash)].cur
        /\ pc = "transmit" =>
               /\ flash # << >>
               /\ flash[Len(flash)] = tx_packet
               /\ global_seq = (Len(flash) - 1) % SeqMod

IInv ==
    /\ TypeOK
    /\ FramesAreConsecutive
    /\ RepeatsLastSent
    /\ FlashKeepsFirstFrames
    /\ NumberInv
    /\ FlashInv

USE LoopsAssumption, SeqModAssumption, IntervalAssumption,
    CollectorSlotsAssumption, ZeroCiphertextAssumption

-----------------------------------------------------------------------------
(* Readings and frames.                                                    *)

\* A reading has the number it was packed with, and its machine time.
LEMMA CiphertextFields ==
    ASSUME NEW c \in Ciphertext
    PROVE  c # Zero /\ c.seq \in SeqNo /\ c.ts = c.seq * Interval
BY DEF Ciphertext, Packed

LEMMA FrameFields ==
    ASSUME NEW f \in Frame
    PROVE  /\ f # Zero
           /\ f.cur \in Ciphertext
           /\ f.prev \in Ciphertext \cup {Zero}
BY DEF Frame

\* The number after a number.
LEMMA NextNumber ==
    ASSUME NEW s \in SeqNo
    PROVE  /\ (s + 1) % SeqMod \in SeqNo
           /\ (s + 1) % SeqMod # 0 => (s + 1) % SeqMod = s + 1
<1>1. CASE s + 1 < SeqMod
  <2>1. s + 1 \in 0 .. SeqMod - 1
    BY <1>1 DEF SeqNo
  <2>2. (s + 1) % SeqMod = s + 1
    BY <2>1, ModSmall
  <2>3. QED
    BY <2>1, <2>2 DEF SeqNo
<1>2. CASE s + 1 = SeqMod
  <2>1. 0 \in 0 .. SeqMod - 1
    OBVIOUS
  <2>2. (s + 1) % SeqMod = 0
    BY <1>2, <2>1, ModSmall, Zenon
  <2>3. QED
    BY <2>1, <2>2 DEF SeqNo
<1>3. QED
    BY <1>1, <1>2 DEF SeqNo

\* One interval later.
LEMMA NextTime ==
    ASSUME NEW s \in Nat, NEW i \in Nat
    PROVE  (s + 1) * i = s * i + i /\ 0 * i = 0
OBVIOUS

\* A reading and the one before it make a consecutive frame.
LEMMA ConsecutiveFrame ==
    ASSUME NEW c \in Ciphertext, NEW p \in Ciphertext \cup {Zero}, Follows(c.seq, p)
    PROVE  Consecutive([cur |-> c, prev |-> p])
<1>1. CASE p = Zero
    BY <1>1 DEF Follows, Consecutive
<1>2. CASE p # Zero
  <2>1. p \in Ciphertext
    BY <1>2
  <2>2. c.seq \in SeqNo /\ c.ts = c.seq * Interval
    BY CiphertextFields
  <2>3. p.seq \in SeqNo /\ p.ts = p.seq * Interval
    BY <2>1, CiphertextFields
  <2>4. c.seq = (p.seq + 1) % SeqMod
    BY <1>2 DEF Follows
  <2>5. p.seq \in Nat /\ Interval \in Nat
    BY <2>3 DEF SeqNo
  <2>6. c.ts = IF c.seq = 0 THEN 0 ELSE p.ts + Interval
    <3>1. CASE c.seq = 0
      BY <2>2, <2>5, <3>1, NextTime
    <3>2. CASE c.seq # 0
      <4>1. c.seq = p.seq + 1
        BY <2>3, <2>4, <3>2, NextNumber
      <4>2. (p.seq + 1) * Interval = p.seq * Interval + Interval
        BY <2>5, NextTime
      <4>3. QED
        BY <2>2, <2>3, <3>2, <4>1, <4>2, Zenon
    <3>3. QED
      BY <3>1, <3>2
  <2>7. QED
    BY <1>2, <2>4, <2>6 DEF Consecutive
<1>3. QED
    BY <1>1, <1>2

-----------------------------------------------------------------------------
(* Type correctness.                                                       *)

\* Every scenario repeats at least once.
LEMMA Scenarios ==
    /\ 1 \in 1 .. Len(Loops)
    /\ \A s \in 1 .. Len(Loops) : Loops[s] \in Nat /\ 0 \in 0 .. Loops[s] - 1
<1>1. 1 \in 1 .. Len(Loops)
    OBVIOUS
<1>2. \A s \in 1 .. Len(Loops) : Loops[s] \in Nat \ {0}
    OBVIOUS
<1>3. \A k \in Nat \ {0} : 0 \in 0 .. k - 1
    OBVIOUS
<1>4. QED
    BY <1>1, <1>2, <1>3

LEMMA InitType == Init => TypeOK
<1> SUFFICES ASSUME Init PROVE TypeOK
    OBVIOUS
<1>1. scenario \in 1 .. Len(Loops) /\ loop \in 0 .. Loops[scenario] - 1
    BY Scenarios, Zenon DEF Init
<1>2. flash \in Seq(Frame) /\ Len(flash) <= MaxSlots
    BY DEF Init
<1>3. global_seq \in SeqNo
    BY DEF Init, SeqNo
<1>4. QED
    BY <1>1, <1>2, <1>3, Zenon DEF Init, TypeOK

\* The runner stays inside its scenarios.
LEMMA NextReadingType ==
    ASSUME TypeOK, NextReading
    PROVE  /\ global_seq' \in SeqNo
           /\ scenario' \in 1 .. Len(Loops)
           /\ loop' \in 0 .. Loops[scenario'] - 1
<1>1. global_seq' \in SeqNo
    BY NextNumber, Zenon DEF TypeOK, NextReading
<1>2. scenario' \in 1 .. Len(Loops)
  <2>1. scenario \in 1 .. Len(Loops) /\ Len(Loops) \in Nat
    BY DEF TypeOK
  <2>2. \/ scenario' \in {scenario, 1}
        \/ scenario < Len(Loops) /\ scenario' = scenario + 1
    BY DEF NextReading
  <2>3. QED
    BY <2>1, <2>2, Scenarios
<1>3. CASE loop + 1 < Loops[scenario]
  <2>1. loop' = loop + 1 /\ scenario' = scenario
    BY <1>3 DEF NextReading
  <2>2. loop \in 0 .. Loops[scenario] - 1 /\ Loops[scenario] \in Nat
    BY Scenarios, Zenon DEF TypeOK
  <2>3. \A k \in Nat : \A l \in 0 .. k - 1 : l + 1 < k => l + 1 \in 0 .. k - 1
    OBVIOUS
  <2>4. loop + 1 \in 0 .. Loops[scenario] - 1
    BY <1>3, <2>2, <2>3, Zenon
  <2>5. QED
    BY <1>1, <1>2, <2>1, <2>4, Zenon
<1>4. CASE ~ (loop + 1 < Loops[scenario])
  <2>1. loop' = 0
    BY <1>4 DEF NextReading
  <2>2. QED
    BY <1>1, <1>2, <2>1, Scenarios, Zenon
<1>5. QED
    BY <1>3, <1>4, Zenon

LEMMA NextType == IInv /\ [Next]_vars => TypeOK'
<1> SUFFICES ASSUME IInv, [Next]_vars PROVE TypeOK'
    OBVIOUS
<1> USE DEF IInv
<1>1. CASE Boot
  <2>1. scenario' \in 1 .. Len(Loops) /\ loop' \in 0 .. Loops[scenario'] - 1
    BY <1>1, Scenarios, Zenon DEF Boot
  <2>2. flash' \in Seq(Frame) /\ Len(flash') <= MaxSlots
    BY <1>1 DEF Boot
  <2>3. global_seq' \in SeqNo
    BY <1>1 DEF Boot, SeqNo
  <2>4. QED
    BY <1>1, <2>1, <2>2, <2>3, Zenon DEF Boot, TypeOK
<1>2. ASSUME NEW d \in Data, Sample(d) PROVE TypeOK'
  <2>1. Packed(global_seq, d) \in Ciphertext
    BY DEF TypeOK, Ciphertext
  <2>2. QED
    BY <1>2, <2>1 DEF Sample, TypeOK, runnerVars, rollingVars
<1>3. CASE Build
  <2>1. ciphertext \in Ciphertext
    BY <1>3 DEF Build, NumberInv
  <2>2. [cur |-> ciphertext, prev |-> previous] \in Frame
    BY <2>1 DEF TypeOK, Frame
  <2>3. QED
    BY <1>3, <2>1, <2>2 DEF Build, TypeOK, runnerVars
<1>4. CASE Store
  <2>1. tx_packet \in Frame
    BY <1>4 DEF Store, NumberInv
  <2>2. flash' \in Seq(Frame) /\ Len(flash') <= MaxSlots
    BY <1>4, <2>1 DEF Store, TypeOK
  <2>3. QED
    BY <1>4, <2>2 DEF Store, TypeOK, runnerVars, rollingVars
<1>5. CASE Transmit
  <2>1. /\ global_seq' \in SeqNo
        /\ scenario' \in 1 .. Len(Loops)
        /\ loop' \in 0 .. Loops[scenario'] - 1
    BY <1>5, NextReadingType DEF Transmit
  <2>2. QED
    BY <1>5, <2>1 DEF Transmit, TypeOK, rollingVars
<1>6. CASE Reset
    BY <1>6 DEF Reset, TypeOK, runnerVars, rollingVars
<1>7. CASE UNCHANGED vars
    BY <1>7 DEF vars, TypeOK, runnerVars, rollingVars
<1>8. QED
    BY <1>1, <1>2, <1>3, <1>4, <1>5, <1>6, <1>7 DEF Next, Step

-----------------------------------------------------------------------------
(* Frames and flash, action by action.                                     *)

Safe ==
    /\ FramesAreConsecutive
    /\ RepeatsLastSent
    /\ FlashKeepsFirstFrames
    /\ NumberInv
    /\ FlashInv

LEMMA InitSafe == Init => Safe
<1> SUFFICES ASSUME Init PROVE Safe
    OBVIOUS
<1>1. Len(flash) = 0 /\ pc = "off" /\ lastSent = Zero
      /\ previous = Zero /\ has_previous = FALSE
    BY DEF Init
<1>2. QED
    BY <1>1 DEF Safe, FramesAreConsecutive, RepeatsLastSent, FlashKeepsFirstFrames,
        NumberInv, FlashInv

LEMMA BootSafe == IInv /\ Boot => Safe'
<1> SUFFICES ASSUME Boot PROVE Safe'
    OBVIOUS
<1>1. /\ flash' = << >> /\ pc' = "sample" /\ lastSent' = Zero
      /\ previous' = Zero /\ has_previous' = FALSE /\ global_seq' = 0
    BY DEF Boot
<1>2. 0 % SeqMod = 0
  <2>1. 0 \in 0 .. SeqMod - 1
    OBVIOUS
  <2>2. QED
    BY <2>1, ModSmall, Zenon
<1>3. Len(flash') = 0
    BY <1>1
<1>4. QED
    BY <1>1, <1>2, <1>3 DEF Safe, FramesAreConsecutive, RepeatsLastSent,
        FlashKeepsFirstFrames, NumberInv, FlashInv, Last, Follows

LEMMA SampleSafe ==
    ASSUME IInv, NEW d \in Data, Sample(d)
    PROVE  Safe'
<1>1. Packed(global_seq, d) \in Ciphertext /\ Packed(global_seq, d).seq = global_seq
    BY DEF IInv, TypeOK, Ciphertext, Packed
<1>2. /\ pc = "sample" /\ pc' = "build" /\ ciphertext' = Packed(global_seq, d)
      /\ UNCHANGED <<global_seq, previous, has_previous, flash, lastSent>>
    BY DEF Sample, runnerVars, rollingVars
<1>3. Last' = Last
    BY <1>2 DEF Last
<1>4. FramesAreConsecutive' /\ RepeatsLastSent' /\ FlashKeepsFirstFrames'
    BY <1>2 DEF IInv, FramesAreConsecutive, RepeatsLastSent, FlashKeepsFirstFrames
<1>5. NumberInv'
    BY <1>1, <1>2, <1>3 DEF IInv, NumberInv
<1>6. FlashInv'
    BY <1>2, <1>3 DEF IInv, FlashInv
<1>7. QED
    BY <1>4, <1>5, <1>6 DEF Safe

\* The numbers make the new frame consecutive, the rolling buffer makes it
\* repeat the frame on the air last.
LEMMA BuildSafe == IInv /\ Build => Safe'
<1> SUFFICES ASSUME IInv, Build PROVE Safe'
    OBVIOUS
<1> DEFINE frame == [cur |-> ciphertext, prev |-> previous]
<1>1. /\ pc = "build" /\ pc' = "store" /\ tx_packet' = frame
      /\ previous' = ciphertext /\ has_previous' = TRUE
      /\ UNCHANGED <<global_seq, flash, lastSent>>
    BY DEF Build, runnerVars
<1>2. /\ ciphertext \in Ciphertext /\ ciphertext.seq = global_seq
      /\ previous \in Ciphertext \cup {Zero} /\ previous = Last
      /\ Follows(global_seq, Last)
    BY <1>1 DEF IInv, TypeOK, NumberInv
<1>3. Last' = Last
    BY <1>1 DEF Last
<1>4. frame \in Frame
    BY <1>2 DEF Frame
<1>5. frame.cur = ciphertext /\ frame.prev = Last
    BY <1>2
<1>6. Consecutive(frame)
  <2>1. Follows(ciphertext.seq, previous)
    BY <1>2
  <2>2. QED
    BY <1>2, <2>1, ConsecutiveFrame
<1> HIDE DEF frame
<1>7. FramesAreConsecutive'
  <2>1. previous' # Zero
    BY <1>1, <1>2, CiphertextFields
  <2>2. QED
    BY <1>1, <1>6, <2>1 DEF IInv, FramesAreConsecutive, Consecutive
<1>8. RepeatsLastSent'
    BY <1>1, <1>3, <1>5 DEF RepeatsLastSent, Last
<1>9. FlashKeepsFirstFrames'
    BY <1>1 DEF IInv, FlashKeepsFirstFrames
<1>10. NumberInv'
    BY <1>1, <1>2, <1>3, <1>4, <1>5 DEF NumberInv
<1>11. FlashInv'
    BY <1>1, <1>3 DEF IInv, FlashInv
<1>12. QED
    BY <1>7, <1>8, <1>9, <1>10, <1>11 DEF Safe

\* A frame is added only behind all the frames since boot.
LEMMA StoreSafe == IInv /\ Store => Safe'
<1> SUFFICES ASSUME IInv, Store PROVE Safe'
    OBVIOUS
<1>1. /\ pc = "store" /\ pc' = "transmit"
      /\ UNCHANGED <<global_seq, previous, has_previous, tx_packet, lastSent>>
    BY DEF Store, runnerVars, rollingVars
<1>2. Last' = Last
    BY <1>1 DEF Last
<1>3. /\ Consecutive(tx_packet) /\ tx_packet.prev = Last
      /\ tx_packet \in Frame /\ tx_packet.cur.seq = global_seq
    BY <1>1 DEF IInv, FramesAreConsecutive, RepeatsLastSent, NumberInv, Last
<1>4. RepeatsLastSent' /\ NumberInv'
    BY <1>1, <1>2 DEF IInv, RepeatsLastSent, NumberInv
<1>5. CASE Len(flash) < MaxSlots
  <2>1. flash' = Append(flash, tx_packet)
    BY <1>5 DEF Store
  <2>2. flash \in Seq(Frame)
    BY DEF IInv, TypeOK
  <2>3. /\ Len(flash) \in Nat /\ Len(flash') = Len(flash) + 1
        /\ flash'[Len(flash) + 1] = tx_packet
        /\ \A i \in 1 .. Len(flash) : flash'[i] = flash[i]
    BY <1>3, <2>1, <2>2
  <2>4. /\ global_seq = Len(flash) % SeqMod
        /\ Last = IF flash = << >> THEN Zero ELSE flash[Len(flash)].cur
    BY <1>1, <1>5 DEF IInv, FlashInv
  <2>5. \A i \in 1 .. Len(flash') : i \in 1 .. Len(flash) \/ i = Len(flash) + 1
    BY <2>3
  <2>6. FramesAreConsecutive'
    <3>1. \A i \in 1 .. Len(flash') : Consecutive(flash'[i])
      BY <1>3, <2>3, <2>5 DEF IInv, FramesAreConsecutive
    <3>2. QED
      BY <1>1, <1>3, <3>1 DEF IInv, FramesAreConsecutive, Consecutive
  <2>7. FlashKeepsFirstFrames'
    <3>1. ASSUME NEW i \in 1 .. Len(flash)
          PROVE  /\ flash'[i].cur.seq = (i - 1) % SeqMod
                 /\ flash'[i].prev = IF i = 1 THEN Zero ELSE flash'[i - 1].cur
      <4>1. /\ flash[i].cur.seq = (i - 1) % SeqMod
            /\ flash[i].prev = IF i = 1 THEN Zero ELSE flash[i - 1].cur
        BY <1>1 DEF IInv, FlashKeepsFirstFrames
      <4>2. i # 1 => i - 1 \in 1 .. Len(flash)
        BY <2>3
      <4>3. QED
        BY <2>3, <4>1, <4>2
    <3>2. tx_packet.cur.seq = ((Len(flash) + 1) - 1) % SeqMod
      <4>1. (Len(flash) + 1) - 1 = Len(flash)
        BY <2>3
      <4>2. QED
        BY <1>3, <2>4, <4>1, Zenon
    <3>3. tx_packet.prev = IF Len(flash) + 1 = 1 THEN Zero
                           ELSE flash'[(Len(flash) + 1) - 1].cur
      <4>1. flash = << >> <=> Len(flash) = 0
        BY <2>2
      <4>2. Len(flash) # 0 => flash'[(Len(flash) + 1) - 1] = flash[Len(flash)]
        BY <2>3
      <4>3. QED
        BY <1>3, <2>3, <2>4, <4>1, <4>2
    <3>4. QED
      BY <1>1, <2>3, <2>5, <3>1, <3>2, <3>3 DEF FlashKeepsFirstFrames
  <2>8. FlashInv'
    <3>1. flash' # << >> /\ flash'[Len(flash')] = tx_packet
      BY <2>3
    <3>2. Len(flash') - 1 = Len(flash)
      BY <2>3
    <3>3. global_seq = (Len(flash') - 1) % SeqMod
      BY <2>4, <3>2, Zenon
    <3>4. QED
      BY <1>1, <3>1, <3>3 DEF FlashInv
  <2>9. QED
    BY <1>4, <2>6, <2>7, <2>8 DEF Safe
<1>6. CASE ~ (Len(flash) < MaxSlots)
  <2>1. flash' = flash
    BY <1>6 DEF Store
  <2>2. QED
    BY <1>1, <1>4, <1>6, <2>1
       DEF IInv, Safe, FramesAreConsecutive, Consecutive, FlashKeepsFirstFrames, FlashInv
<1>7. QED
    BY <1>5, <1>6

LEMMA TransmitSafe == IInv /\ Transmit => Safe'
<1> SUFFICES ASSUME IInv, Transmit PROVE Safe'
    OBVIOUS
<1>1. /\ pc = "transmit" /\ pc' = "sample" /\ lastSent' = tx_packet
      /\ global_seq' = (global_seq + 1) % SeqMod
      /\ UNCHANGED <<previous, has_previous, tx_packet, flash>>
    BY DEF Transmit, NextReading, rollingVars
<1>2. /\ Consecutive(tx_packet) /\ tx_packet \in Frame
      /\ tx_packet.cur.seq = global_seq /\ tx_packet.cur = previous
    BY <1>1 DEF IInv, FramesAreConsecutive, NumberInv
<1>3. tx_packet # Zero /\ tx_packet.cur # Zero
    BY <1>2, FrameFields, CiphertextFields
<1>4. Last' = tx_packet.cur
    BY <1>1, <1>3 DEF Last
<1>5. FramesAreConsecutive' /\ RepeatsLastSent' /\ FlashKeepsFirstFrames'
    BY <1>1, <1>2 DEF IInv, FramesAreConsecutive, Consecutive, RepeatsLastSent,
                      FlashKeepsFirstFrames
<1>6. NumberInv'
  <2>1. Follows(global_seq', Last')
    BY <1>1, <1>2, <1>3, <1>4 DEF Follows
  <2>2. QED
    BY <1>1, <1>2, <1>4, <2>1 DEF NumberInv
<1>7. FlashInv'
  <2>1. SUFFICES ASSUME Len(flash) < MaxSlots
                 PROVE  /\ global_seq' = Len(flash) % SeqMod
                        /\ flash # << >> /\ Last' = flash[Len(flash)].cur
    BY <1>1 DEF FlashInv
  <2>2. /\ flash # << >> /\ flash[Len(flash)] = tx_packet
        /\ global_seq = (Len(flash) - 1) % SeqMod
    BY <1>1, <2>1 DEF IInv, FlashInv
  <2>3. Len(flash) - 1 \in Nat /\ (Len(flash) - 1) + 1 = Len(flash)
    BY <2>2 DEF IInv, TypeOK
  <2>4. Len(flash) % SeqMod = (((Len(flash) - 1) % SeqMod) + 1) % SeqMod
    BY <2>3, ModSuccessor
  <2>5. QED
    BY <1>1, <1>4, <2>2, <2>4
<1>8. QED
    BY <1>5, <1>6, <1>7 DEF Safe

\* What a stopped node remembers is not asked for.
LEMMA ResetSafe == IInv /\ Reset => Safe'
BY DEF IInv, Safe, Reset, rollingVars, runnerVars, FramesAreConsecutive, Consecutive,
       RepeatsLastSent, FlashKeepsFirstFrames, NumberInv, FlashInv

LEMMA StutterSafe == IInv /\ UNCHANGED vars => Safe'
BY DEF IInv, Safe, vars, rollingVars, runnerVars, FramesAreConsecutive, Consecutive,
       RepeatsLastSent, FlashKeepsFirstFrames, NumberInv, FlashInv, Last, Follows

LEMMA Inductive ==
    /\ Init => IInv
    /\ IInv /\ [Next]_vars => IInv'
<1>1. Init => IInv
    BY InitType, InitSafe DEF IInv, Safe
<1>2. ASSUME IInv, [Next]_vars PROVE IInv'
  <2>1. TypeOK'
    BY <1>2, NextType
  <2>2. Safe'
    BY <1>2, BootSafe, SampleSafe, BuildSafe, StoreSafe, TransmitSafe, ResetSafe,
       StutterSafe DEF Next, Step
  <2>3. QED
    BY <2>1, <2>2 DEF IInv, Safe
<1>3. QED
    BY <1>1, <1>2

-----------------------------------------------------------------------------
(* The collector alone, and on the bench with the serial bridge.           *)

\* What the bridge does is no step of the collector, and what the console
\* takes only delays it.
LEMMA BenchStepsAreCollectorSteps ==
    /\ HwInit => Init
    /\ [HwNext]_hwVars => [Next]_vars
<1>1. HwInit => Init
    BY DEF HwInit
<1>2. ASSUME NodePrints PROVE Next
    BY <1>2, Zenon DEF NodePrints, Next, Step
<1>3. ASSUME NodeIsSilent PROVE Next
    BY <1>3, Zenon DEF NodeIsSilent, Next, Step
<1>4. ASSUME BridgeReads PROVE UNCHANGED vars
    BY <1>4, Zenon DEF BridgeReads, ReadNumber, PostFrame, PostFails, NextLine
<1>5. ASSUME UNCHANGED hwVars PROVE UNCHANGED vars
    BY <1>5, Zenon DEF hwVars
<1>6. QED
    BY <1>1, <1>2, <1>3, <1>4, <1>5, Zenon DEF HwNext

LEMMA BenchInductive ==
    /\ HwInit => IInv
    /\ IInv /\ [HwNext]_hwVars => IInv'
BY Inductive, BenchStepsAreCollectorSteps, Zenon

\* Numbers with digits missing are smaller ones.
LEMMA PrintedNumberType ==
    ASSUME HwTypeOK, NEW n \in SeqNo, PrintNumber(n)
    PROVE  /\ console' \in Seq(Line) /\ Len(console') <= MaxLines
           /\ hw_seq' \in SeqNo /\ damage' \in 0 .. MaxDamage /\ missed' \in Nat
<1>1. \A m \in 0 .. n : Number(m) \in Line
    BY DEF Line, Number, SeqNo
<1>2. n \in Nat
    BY DEF SeqNo
<1>3. \A l \in Line : /\ Append(console, l) \in Seq(Line)
                      /\ Len(Append(console, l)) = Len(console) + 1
    BY DEF HwTypeOK
<1>4. console' = console \/ \E l \in Line : console' = Append(console, l)
  <2>1. CASE console' = Append(console, Number(n))
    BY <1>1, <1>2, <2>1
  <2>2. CASE \E m \in 0 .. n - 1 : console' = Append(console, Number(m))
    BY <1>1, <1>2, <2>2
  <2>3. QED
    BY <2>1, <2>2 DEF PrintNumber
<1>5. console' \in Seq(Line) /\ Len(console') <= MaxLines
  <2>1. Len(console) \in Nat /\ Len(console) < MaxLines /\ console \in Seq(Line)
    BY DEF HwTypeOK, PrintNumber, Room
  <2>2. CASE console' = console
    BY <2>1, <2>2, BenchAssumption
  <2>3. CASE \E l \in Line : console' = Append(console, l)
    <3>1. PICK l \in Line : console' = Append(console, l)
      BY <2>3
    <3>2. console' \in Seq(Line) /\ Len(console') = Len(console) + 1
      BY <1>3, <3>1, Zenon
    <3>3. QED
      BY <2>1, <3>2, BenchAssumption
  <2>4. QED
    BY <1>4, <2>2, <2>3
<1>6. QED
    BY <1>5, BenchAssumption DEF HwTypeOK, PrintNumber

LEMMA PrintedFrameType ==
    ASSUME HwTypeOK, NEW f \in Frame, PrintFrame(f)
    PROVE  /\ console' \in Seq(Line) /\ Len(console') <= MaxLines
           /\ hw_seq' \in SeqNo /\ damage' \in 0 .. MaxDamage /\ missed' \in Nat
<1>1. FrameLine(f) \in Line
    BY DEF Line, FrameLine
<1>2. /\ Append(console, FrameLine(f)) \in Seq(Line)
      /\ Len(Append(console, FrameLine(f))) = Len(console) + 1
    BY <1>1 DEF HwTypeOK
<1>3. console' \in Seq(Line) /\ Len(console') <= MaxLines
  <2>1. Len(console) \in Nat /\ Len(console) < MaxLines /\ console \in Seq(Line)
    BY DEF HwTypeOK, PrintFrame, Room
  <2>2. CASE console' = console
    BY <2>1, <2>2, BenchAssumption
  <2>3. CASE console' = Append(console, FrameLine(f))
    BY <1>2, <2>1, <2>3, BenchAssumption
  <2>4. QED
    BY <2>2, <2>3 DEF PrintFrame
<1>4. QED
    BY <1>3, BenchAssumption DEF HwTypeOK, PrintFrame

LEMMA ReadType ==
    ASSUME HwTypeOK, BridgeReads
    PROVE  /\ console' \in Seq(Line) /\ Len(console') <= MaxLines
           /\ hw_seq' \in SeqNo /\ damage' \in 0 .. MaxDamage /\ missed' \in Nat
<1>1. console # << >> /\ console' = Tail(console)
    BY DEF BridgeReads, ReadNumber, PostFrame, PostFails, NextLine
<1>2. /\ Tail(console) \in Seq(Line) /\ Len(Tail(console)) = Len(console) - 1
      /\ Head(console) \in Line /\ Len(console) \in Nat
    BY <1>1 DEF HwTypeOK
<1>3. console' \in Seq(Line) /\ Len(console') <= MaxLines
    BY <1>1, <1>2, BenchAssumption DEF HwTypeOK
<1>4. IsNumber(Head(console)) => Head(console).number \in SeqNo
    BY <1>2 DEF IsNumber, Line
<1>5. hw_seq' \in SeqNo
    BY <1>4 DEF HwTypeOK, BridgeReads, ReadNumber, PostFrame, PostFails
<1>6. damage' \in 0 .. MaxDamage
    BY BenchAssumption DEF HwTypeOK, BridgeReads, ReadNumber, PostFrame, PostFails
<1>7. missed' \in Nat
    BY DEF HwTypeOK, BridgeReads, ReadNumber, PostFrame, PostFails
<1>8. QED
    BY <1>3, <1>5, <1>6, <1>7

LEMMA BenchType ==
    /\ HwInit => HwTypeOK
    /\ IInv /\ HwTypeOK /\ [HwNext]_hwVars => HwTypeOK'
<1>1. HwInit => HwTypeOK
    BY InitType, BenchAssumption DEF HwInit, HwTypeOK, SeqNo
<1>2. ASSUME IInv, HwTypeOK, [HwNext]_hwVars PROVE HwTypeOK'
  <2>1. TypeOK'
    BY <1>2, BenchInductive DEF IInv
  <2>2. CASE NodePrints
    <3>1. CASE PrintNumber(global_seq)
      <4>1. global_seq \in SeqNo
        BY <1>2 DEF HwTypeOK, TypeOK
      <4>2. QED
        BY <1>2, <2>1, <3>1, <4>1, PrintedNumberType DEF HwTypeOK
    <3>2. CASE Transmit /\ PrintFrame(tx_packet)
      <4>1. tx_packet \in Frame
        BY <1>2, <3>2 DEF IInv, NumberInv, Transmit
      <4>2. QED
        BY <1>2, <2>1, <3>2, <4>1, PrintedFrameType DEF HwTypeOK
    <3>3. QED
      BY <2>2, <3>1, <3>2, Zenon DEF NodePrints
  <2>3. CASE BridgeReads
    BY <1>2, <2>1, <2>3, ReadType DEF HwTypeOK
  <2>4. CASE NodeIsSilent \/ UNCHANGED hwVars
    <3>1. UNCHANGED benchVars
      BY <2>4, Zenon DEF NodeIsSilent, hwVars
    <3>2. QED
      BY <1>2, <2>1, <3>1 DEF HwTypeOK, benchVars
  <2>5. QED
    BY <1>2, <2>2, <2>3, <2>4, Zenon DEF HwNext
<1>3. QED
    BY <1>1, <1>2

-----------------------------------------------------------------------------
(* The theorems.                                                           *)

\* Every variable of the node and of the bridge keeps its type.
THEOREM TypeCorrect == HwSpec => []HwTypeOK
<1>1. HwInit => IInv /\ HwTypeOK
    BY BenchInductive, BenchType
<1>2. IInv /\ HwTypeOK /\ [HwNext]_hwVars => IInv' /\ HwTypeOK'
    BY BenchInductive, BenchType
<1>3. QED
    BY <1>1, <1>2, PTL DEF HwSpec

\* The collector's invariant holds on the bench.
LEMMA BenchInvariant == HwSpec => []IInv
<1>1. HwInit => IInv
    BY BenchInductive
<1>2. IInv /\ [HwNext]_hwVars => IInv'
    BY BenchInductive
<1>3. QED
    BY <1>1, <1>2, PTL DEF HwSpec

\* The two halves of a frame are consecutive readings, in number and machine
\* time, across every wrap and reset (rolling_buffer_build, test_runner_run).
THEOREM AlwaysConsecutive == HwSpec => []FramesAreConsecutive
<1>1. IInv => FramesAreConsecutive
    BY DEF IInv
<1>2. QED
    BY <1>1, BenchInvariant, PTL

\* A frame repeats the reading of the frame on the air before it.
THEOREM AlwaysRepeatsLastSent == HwSpec => []RepeatsLastSent
<1>1. IInv => RepeatsLastSent
    BY DEF IInv
<1>2. QED
    BY <1>1, BenchInvariant, PTL

\* The flash holds the first frames since boot, unbroken (hal_flash_write).
THEOREM FlashAlwaysKeepsFirstFrames == HwSpec => []FlashKeepsFirstFrames
<1>1. IInv => FlashKeepsFirstFrames
    BY DEF IInv
<1>2. QED
    BY <1>1, BenchInvariant, PTL

-----------------------------------------------------------------------------
(* A damaged line costs at most one reading, for every bound on the        *)
(* console and on the damage.  What is to come is counted with what is     *)
(* already missed: the frames on the console that will be refused, and the *)
(* frame in the node's hands if its number was lost.                       *)

-----------------------------------------------------------------------------
(* Which number a line is read under.                                      *)

NoNumber(c, i, j) == \A k \in i .. j : ~ IsNumber(c[k])

\* The bridge that remembers h and reads c holds the number n at line i.
ReadUnder(c, h, i, n) ==
    \/ n = h /\ NoNumber(c, 1, i - 1)
    \/ \E j \in 1 .. i - 1 :
           IsNumber(c[j]) /\ c[j].number = n /\ NoNumber(c, j + 1, i - 1)

\* The frames that will be posted under another number than their own.
Refused(c, h) ==
    { i \in 1 .. Len(c) :
          ~ IsNumber(c[i]) /\ ~ ReadUnder(c, h, i, c[i].frame.cur.seq) }

\* The frame in hand will be posted under another number than its own.
Doomed ==
    /\ pc \in {"store", "transmit"}
    /\ ~ ReadUnder(console, hw_seq, Len(console) + 1, tx_packet.cur.seq)

DamageInv ==
    missed + Cardinality(Refused(console, hw_seq)) + (IF Doomed THEN 1 ELSE 0)
        <= damage

LEMMA RefusedFinite ==
    ASSUME NEW c \in Seq(Line), NEW h
    PROVE  IsFiniteSet(Refused(c, h)) /\ Cardinality(Refused(c, h)) \in Nat
<1>1. IsFiniteSet(1 .. Len(c))
    BY FS_Interval
<1>2. Refused(c, h) \in SUBSET (1 .. Len(c))
    BY DEF Refused
<1>3. QED
    BY <1>1, <1>2, FS_Subset, FS_CardinalityType

\* A new line changes nothing for the lines before it, or for itself.
LEMMA AppendReads ==
    ASSUME NEW c \in Seq(Line), NEW l \in Line, NEW h, NEW n,
           NEW i \in 1 .. Len(c) + 1
    PROVE  ReadUnder(Append(c, l), h, i, n) <=> ReadUnder(c, h, i, n)
<1>1. \A k \in 1 .. Len(c) : Append(c, l)[k] = c[k]
    OBVIOUS
<1>2. \A a, b \in Nat : a >= 1 /\ b <= Len(c)
            => (NoNumber(Append(c, l), a, b) <=> NoNumber(c, a, b))
    BY <1>1 DEF NoNumber
<1>3. i - 1 \in Nat /\ i - 1 <= Len(c) /\ 1 \in Nat /\ 1 >= 1
    OBVIOUS
<1>4. \A j \in 1 .. i - 1 :
          /\ Append(c, l)[j] = c[j]
          /\ NoNumber(Append(c, l), j + 1, i - 1) <=> NoNumber(c, j + 1, i - 1)
  <2>1. TAKE j \in 1 .. i - 1
  <2>2. j \in 1 .. Len(c) /\ j + 1 \in Nat /\ j + 1 >= 1
    OBVIOUS
  <2>3. Append(c, l)[j] = c[j]
    BY <1>1, <2>2
  <2>4. NoNumber(Append(c, l), j + 1, i - 1) <=> NoNumber(c, j + 1, i - 1)
    BY <1>2, <1>3, <2>2
  <2>5. QED
    BY <2>3, <2>4
<1>5. NoNumber(Append(c, l), 1, i - 1) <=> NoNumber(c, 1, i - 1)
    BY <1>2, <1>3
<1>6. QED
    BY <1>4, <1>5, Zenon DEF ReadUnder

\* A number that comes through is the one the next line is read under.
LEMMA AppendNumberRead ==
    ASSUME NEW c \in Seq(Line), NEW h, NEW n, Number(n) \in Line
    PROVE  ReadUnder(Append(c, Number(n)), h, Len(c) + 2, n)
<1> DEFINE d == Append(c, Number(n))
           j == Len(c) + 1
<1>1. d[j] = Number(n) /\ j \in 1 .. (Len(c) + 2) - 1
    OBVIOUS
<1>2. IsNumber(Number(n)) /\ Number(n).number = n
    BY DEF IsNumber, Number
<1>3. NoNumber(d, j + 1, (Len(c) + 2) - 1)
    BY DEF NoNumber
<1> HIDE DEF d, j
<1>4. ReadUnder(d, h, Len(c) + 2, n)
    BY <1>1, <1>2, <1>3, Zenon DEF ReadUnder
<1>5. QED
    BY <1>4 DEF d

\* Reading a line: what follows is read under its number, if it has one.
LEMMA TailReads ==
    ASSUME NEW c \in Seq(Line), c # << >>, NEW h, NEW g, NEW n,
           g = IF IsNumber(Head(c)) THEN Head(c).number ELSE h,
           NEW i \in 1 .. Len(c)
    PROVE  ReadUnder(Tail(c), g, i, n) <=> ReadUnder(c, h, i + 1, n)
<1>1. /\ Len(c) \in Nat \ {0} /\ Head(c) = c[1] /\ Len(Tail(c)) = Len(c) - 1
      /\ \A k \in 1 .. Len(c) - 1 : Tail(c)[k] = c[k + 1]
    OBVIOUS
<1>2. ASSUME NEW a \in Nat \ {0}, NEW b \in Nat, b < Len(c)
      PROVE  NoNumber(Tail(c), a, b) <=> NoNumber(c, a + 1, b + 1)
  <2>1. ASSUME NoNumber(Tail(c), a, b), NEW k \in a + 1 .. b + 1
        PROVE  ~ IsNumber(c[k])
    <3>1. k - 1 \in a .. b /\ k - 1 \in 1 .. Len(c) - 1 /\ (k - 1) + 1 = k
      BY <1>1, <1>2
    <3>2. Tail(c)[k - 1] = c[k]
      BY <1>1, <3>1
    <3>3. QED
      BY <2>1, <3>1, <3>2, Zenon DEF NoNumber
  <2>2. ASSUME NoNumber(c, a + 1, b + 1), NEW k \in a .. b
        PROVE  ~ IsNumber(Tail(c)[k])
    <3>1. k + 1 \in a + 1 .. b + 1 /\ k \in 1 .. Len(c) - 1
      BY <1>1, <1>2
    <3>2. Tail(c)[k] = c[k + 1]
      BY <1>1, <3>1
    <3>3. QED
      BY <2>2, <3>1, <3>2, Zenon DEF NoNumber
  <2>3. QED
    BY <2>1, <2>2, Zenon DEF NoNumber
<1>3. (i + 1) - 1 = i /\ i \in Nat /\ i - 1 \in Nat /\ i - 1 < Len(c)
    BY <1>1
<1>4. NoNumber(Tail(c), 1, i - 1) <=> NoNumber(c, 2, i)
  <2>1. NoNumber(Tail(c), 1, i - 1) <=> NoNumber(c, 1 + 1, (i - 1) + 1)
    BY <1>2, <1>3
  <2>2. 1 + 1 = 2 /\ (i - 1) + 1 = i
    BY <1>3
  <2>3. QED
    BY <2>1, <2>2
<1>5. NoNumber(c, 1, i) <=> ~ IsNumber(c[1]) /\ NoNumber(c, 2, i)
    BY <1>3 DEF NoNumber
<1>6. ASSUME NEW j \in 1 .. i - 1
      PROVE  /\ Tail(c)[j] = c[j + 1] /\ j + 1 \in 2 .. i
             /\ NoNumber(Tail(c), j + 1, i - 1) <=> NoNumber(c, (j + 1) + 1, i)
  <2>1. j \in 1 .. Len(c) - 1 /\ j + 1 \in 2 .. i /\ j + 1 \in Nat \ {0}
    BY <1>1, <1>3
  <2>2. NoNumber(Tail(c), j + 1, i - 1) <=> NoNumber(c, (j + 1) + 1, (i - 1) + 1)
    BY <1>2, <1>3, <2>1
  <2>3. (i - 1) + 1 = i
    BY <1>3
  <2>4. QED
    BY <1>1, <2>1, <2>2, <2>3
<1> DEFINE By(k) == IsNumber(c[k]) /\ c[k].number = n /\ NoNumber(c, k + 1, i)
<1>7. (\E j \in 1 .. i - 1 : /\ IsNumber(Tail(c)[j]) /\ Tail(c)[j].number = n
                             /\ NoNumber(Tail(c), j + 1, i - 1))
        <=> \E k \in 2 .. i : By(k)
  <2>1. \A k \in 2 .. i : k - 1 \in 1 .. i - 1 /\ (k - 1) + 1 = k
    BY <1>3
  <2>2. \A j \in 1 .. i - 1 :
            (/\ IsNumber(Tail(c)[j]) /\ Tail(c)[j].number = n
             /\ NoNumber(Tail(c), j + 1, i - 1)) <=> By(j + 1)
    BY <1>6
  <2> HIDE DEF By
  <2>3. ASSUME NEW j \in 1 .. i - 1, IsNumber(Tail(c)[j]), Tail(c)[j].number = n,
               NoNumber(Tail(c), j + 1, i - 1)
        PROVE  \E k \in 2 .. i : By(k)
    <3>1. j + 1 \in 2 .. i /\ By(j + 1)
      BY <1>3, <2>2, <2>3
    <3>2. QED
      BY <3>1
  <2>4. ASSUME NEW k \in 2 .. i, By(k)
        PROVE  \E j \in 1 .. i - 1 : /\ IsNumber(Tail(c)[j]) /\ Tail(c)[j].number = n
                                     /\ NoNumber(Tail(c), j + 1, i - 1)
    <3>1. k - 1 \in 1 .. i - 1 /\ By((k - 1) + 1)
      BY <2>1, <2>4
    <3>2. QED
      BY <2>2, <3>1
  <2>5. QED
    BY <2>3, <2>4
<1>8. By(1) <=> IsNumber(c[1]) /\ c[1].number = n /\ NoNumber(c, 2, i)
    BY DEF By
<1> HIDE DEF By
<1>9. (\E k \in 1 .. i : By(k)) <=> By(1) \/ \E k \in 2 .. i : By(k)
    BY <1>3
<1>10. ReadUnder(c, h, i + 1, n)
         <=> (n = h /\ NoNumber(c, 1, i)) \/ \E k \in 1 .. i : By(k)
    BY <1>3 DEF ReadUnder, By
<1>11. ReadUnder(Tail(c), g, i, n)
         <=> (n = g /\ NoNumber(c, 2, i)) \/ \E k \in 2 .. i : By(k)
    BY <1>4, <1>7, Zenon DEF ReadUnder
<1>12. CASE IsNumber(c[1])
    BY <1>1, <1>5, <1>8, <1>9, <1>10, <1>11, <1>12
<1>13. CASE ~ IsNumber(c[1])
    BY <1>1, <1>5, <1>8, <1>9, <1>10, <1>11, <1>13
<1>14. QED
    BY <1>12, <1>13

-----------------------------------------------------------------------------
(* How many frames are refused.                                            *)

\* A line adds at most itself, and only as a frame under a wrong number.
LEMMA AppendRefused ==
    ASSUME NEW c \in Seq(Line), NEW l \in Line, NEW h
    PROVE  /\ Cardinality(Refused(Append(c, l), h)) <= Cardinality(Refused(c, h)) + 1
           /\ IsNumber(l) \/ ReadUnder(c, h, Len(c) + 1, l.frame.cur.seq)
                => Refused(Append(c, l), h) = Refused(c, h)
<1> DEFINE d == Append(c, l)
           last == Len(c) + 1
           R(i) == ~ IsNumber(d[i]) /\ ~ ReadUnder(d, h, i, d[i].frame.cur.seq)
<1>1. /\ Len(d) = last /\ last \in 1 .. last /\ d[last] = l
      /\ \A i \in 1 .. Len(c) : d[i] = c[i]
    OBVIOUS
<1>2. ASSUME NEW i \in 1 .. Len(c) PROVE R(i) <=> i \in Refused(c, h)
  <2>1. \A n : ReadUnder(d, h, i, n) <=> ReadUnder(c, h, i, n)
    BY AppendReads
  <2>2. QED
    BY <1>1, <2>1 DEF Refused
<1>3. R(last) <=> ~ IsNumber(l) /\ ~ ReadUnder(c, h, last, l.frame.cur.seq)
  <2>1. \A n : ReadUnder(d, h, last, n) <=> ReadUnder(c, h, last, n)
    BY AppendReads
  <2>2. QED
    BY <1>1, <2>1
<1>4. Refused(d, h) = { i \in 1 .. last : R(i) }
    BY <1>1 DEF Refused
<1>5. Refused(c, h) \subseteq 1 .. Len(c)
    BY DEF Refused
<1>6. \A i \in 1 .. last : i \in 1 .. Len(c) \/ i = last
    OBVIOUS
<1>7. 1 .. Len(c) \subseteq 1 .. last
    OBVIOUS
<1> HIDE DEF d, last, R
<1>8. Refused(d, h) \subseteq Refused(c, h) \cup {last}
    BY <1>2, <1>4, <1>6
<1>9. ~ R(last) => Refused(d, h) = Refused(c, h)
    BY <1>2, <1>4, <1>5, <1>6, <1>7
<1>10. Cardinality(Refused(d, h)) <= Cardinality(Refused(c, h)) + 1
  <2>1. IsFiniteSet(Refused(c, h)) /\ Cardinality(Refused(c, h)) \in Nat
    BY RefusedFinite
  <2>2. /\ IsFiniteSet(Refused(c, h) \cup {last})
        /\ Cardinality(Refused(c, h) \cup {last}) \in
               {Cardinality(Refused(c, h)), Cardinality(Refused(c, h)) + 1}
    BY <2>1, FS_AddElement
  <2>3. Cardinality(Refused(d, h)) <= Cardinality(Refused(c, h) \cup {last})
    BY <1>8, <2>2, FS_Subset
  <2>4. Refused(d, h) \in SUBSET (Refused(c, h) \cup {last})
    BY <1>8
  <2>5. Cardinality(Refused(d, h)) \in Nat
    BY <2>2, <2>4, FS_Subset, FS_CardinalityType
  <2>6. QED
    BY <2>1, <2>2, <2>3, <2>5
<1>11. QED
    BY <1>3, <1>9, <1>10 DEF d, last

\* A line read is a frame less to refuse, if it was one.
LEMMA TailRefused ==
    ASSUME NEW c \in Seq(Line), c # << >>, NEW h, NEW g,
           g = IF IsNumber(Head(c)) THEN Head(c).number ELSE h
    PROVE  /\ Cardinality(Refused(Tail(c), g)) \in Nat
           /\ Cardinality(Refused(Tail(c), g))
                <= Cardinality(Refused(c, h))
                     - (IF ~ IsNumber(Head(c)) /\ Head(c).frame.cur.seq # h
                        THEN 1 ELSE 0)
<1> DEFINE S == Refused(Tail(c), g)
           T == Refused(c, h)
           f == [i \in S |-> i + 1]
<1>1. /\ Len(c) \in Nat \ {0} /\ Head(c) = c[1] /\ Len(Tail(c)) = Len(c) - 1
      /\ \A k \in 1 .. Len(c) - 1 : Tail(c)[k] = c[k + 1]
      /\ Tail(c) \in Seq(Line)
    OBVIOUS
<1>2. IsFiniteSet(S) /\ Cardinality(S) \in Nat
    BY <1>1, RefusedFinite
<1>3. IsFiniteSet(T) /\ Cardinality(T) \in Nat
    BY RefusedFinite
<1>4. /\ IsFiniteSet(T \ {1})
      /\ Cardinality(T \ {1}) = IF 1 \in T THEN Cardinality(T) - 1 ELSE Cardinality(T)
    BY <1>3, FS_RemoveElement
<1>5. ASSUME NEW i \in S PROVE i \in Nat \ {0} /\ i + 1 \in T
  <2>1. /\ i \in 1 .. Len(Tail(c)) /\ ~ IsNumber(Tail(c)[i])
        /\ ~ ReadUnder(Tail(c), g, i, Tail(c)[i].frame.cur.seq)
    BY DEF Refused
  <2>2. i \in 1 .. Len(c) - 1 /\ i \in 1 .. Len(c) /\ i + 1 \in 1 .. Len(c)
    BY <1>1, <2>1
  <2>3. Tail(c)[i] = c[i + 1]
    BY <1>1, <2>2
  <2>4. ~ ReadUnder(c, h, i + 1, c[i + 1].frame.cur.seq)
    BY <2>1, <2>2, <2>3, TailReads
  <2>5. QED
    BY <2>1, <2>2, <2>3, <2>4 DEF Refused
<1>6. 1 \in T <=> ~ IsNumber(Head(c)) /\ Head(c).frame.cur.seq # h
  <2>1. \A n : ReadUnder(c, h, 1, n) <=> n = h
    BY DEF ReadUnder, NoNumber
  <2>2. 1 \in 1 .. Len(c)
    BY <1>1
  <2>3. QED
    BY <1>1, <2>1, <2>2 DEF Refused
<1> HIDE DEF S, T
<1>7. f \in Injection(S, T \ {1})
  <2>1. f \in [S -> T \ {1}]
    BY <1>5
  <2>2. \A i, j \in S : f[i] = f[j] => i = j
    BY <1>5
  <2>3. QED
    BY <2>1, <2>2 DEF Injection, IsInjective
<1>8. Cardinality(S) <= Cardinality(T \ {1})
    BY <1>4, <1>7, FS_Injection
<1>9. QED
    BY <1>2, <1>3, <1>4, <1>6, <1>8 DEF S, T

-----------------------------------------------------------------------------
(* The invariant, step by step.                                            *)

DamageType ==
    /\ console \in Seq(Line)
    /\ missed \in Nat
    /\ damage \in Nat
    /\ Cardinality(Refused(console, hw_seq)) \in Nat

LEMMA DamageTypes == HwTypeOK => DamageType
BY RefusedFinite, BenchAssumption DEF HwTypeOK, DamageType

\* A printed number refuses nothing on the console; one that is lost is paid for.
LEMMA NumberPrinted ==
    ASSUME HwTypeOK, NEW n \in SeqNo, PrintNumber(n)
    PROVE  /\ Refused(console, hw_seq)' = Refused(console, hw_seq)
           /\ missed' = missed
           /\ \/ damage' = damage + 1
              \/ /\ damage' = damage
                 /\ ReadUnder(console', hw_seq', Len(console') + 1, n)
<1>1. console \in Seq(Line) /\ hw_seq' = hw_seq /\ missed' = missed
    BY DEF HwTypeOK, PrintNumber
<1>2. \A m \in 0 .. n : Number(m) \in Line /\ IsNumber(Number(m))
  <2>1. \A m \in 0 .. n : m \in SeqNo
    BY SeqModAssumption DEF SeqNo
  <2>2. \A m : IsNumber(Number(m))
    BY DEF IsNumber, Number
  <2>3. \A m \in SeqNo : Number(m) \in Line
    BY DEF Line, Number
  <2>4. QED
    BY <2>1, <2>2, <2>3
<1>3. n \in Nat
    BY DEF SeqNo
<1>4. \A m \in 0 .. n :
          Refused(Append(console, Number(m)), hw_seq) = Refused(console, hw_seq)
    BY <1>1, <1>2, AppendRefused
<1>5. Refused(console', hw_seq') = Refused(console, hw_seq)
  <2>1. CASE console' = Append(console, Number(n))
    BY <1>1, <1>3, <1>4, <2>1
  <2>2. CASE \E m \in 0 .. n - 1 : console' = Append(console, Number(m))
    BY <1>1, <1>3, <1>4, <2>2
  <2>3. CASE console' = console
    BY <1>1, <2>3
  <2>4. QED
    BY <2>1, <2>2, <2>3 DEF PrintNumber
<1>6. CASE console' = Append(console, Number(n)) /\ damage' = damage
  <2>1. Number(n) \in Line
    BY <1>2, <1>3
  <2>2. Len(console') + 1 = Len(console) + 2
    BY <1>1, <1>6, <2>1
  <2>3. ReadUnder(console', hw_seq', Len(console') + 1, n)
    BY <1>1, <1>6, <2>1, <2>2, AppendNumberRead
  <2>4. QED
    BY <1>1, <1>5, <1>6, <2>3
<1>7. CASE damage' = damage + 1
    BY <1>1, <1>5, <1>7
<1>8. QED
    BY <1>6, <1>7 DEF PrintNumber

LEMMA NodePrintsDamage ==
    ASSUME IInv, HwTypeOK, DamageInv, NodePrints, DamageType'
    PROVE  DamageInv'
<1>1. DamageType
    BY DamageTypes
<1>2. global_seq \in SeqNo
    BY DEF HwTypeOK, TypeOK
<1>3. CASE (\E d \in Data : Sample(d)) /\ PrintNumber(global_seq)
  <2>1. pc = "sample" /\ pc' = "build"
    BY <1>3 DEF Sample
  <2>2. ~ Doomed /\ ~ Doomed'
    BY <2>1 DEF Doomed
  <2>3. /\ Refused(console, hw_seq)' = Refused(console, hw_seq)
        /\ missed' = missed /\ damage' \in {damage, damage + 1}
    BY <1>2, <1>3, NumberPrinted
  <2>4. QED
    BY <1>1, <2>2, <2>3 DEF DamageInv, DamageType
<1>4. CASE Build /\ PrintNumber(global_seq)
  <2>1. /\ pc = "build" /\ pc' = "store"
        /\ tx_packet' = [cur |-> ciphertext, prev |-> previous]
    BY <1>4 DEF Build
  <2>2. tx_packet'.cur.seq = global_seq
    BY <2>1 DEF IInv, NumberInv
  <2>3. ~ Doomed
    BY <2>1 DEF Doomed
  <2>4. /\ Refused(console, hw_seq)' = Refused(console, hw_seq)
        /\ missed' = missed
        /\ \/ damage' = damage + 1
           \/ /\ damage' = damage
              /\ ReadUnder(console', hw_seq', Len(console') + 1, global_seq)
    BY <1>2, <1>4, NumberPrinted
  <2>5. Doomed' => damage' = damage + 1
    BY <1>4, <2>2, <2>4 DEF Doomed, Build, runnerVars
  <2>6. QED
    BY <1>1, <2>3, <2>4, <2>5 DEF DamageInv, DamageType
<1>5. CASE Transmit /\ PrintFrame(tx_packet)
  <2>1. pc = "transmit" /\ pc' = "sample"
    BY <1>5 DEF Transmit
  <2>2. tx_packet \in Frame
    BY <2>1 DEF IInv, NumberInv
  <2>3. ~ Doomed'
    BY <2>1 DEF Doomed
  <2>4. Doomed <=> ~ ReadUnder(console, hw_seq, Len(console) + 1, tx_packet.cur.seq)
    BY <2>1 DEF Doomed
  <2>5. CASE console' = Append(console, FrameLine(tx_packet))
             /\ UNCHANGED <<damage, missed>>
    <3>1. /\ FrameLine(tx_packet) \in Line /\ FrameLine(tx_packet).frame = tx_packet
          /\ hw_seq' = hw_seq
      BY <1>5, <2>2 DEF FrameLine, Line, PrintFrame
    <3>2. /\ Cardinality(Refused(console, hw_seq)')
                <= Cardinality(Refused(console, hw_seq)) + 1
          /\ ~ Doomed => Refused(console, hw_seq)' = Refused(console, hw_seq)
      BY <1>1, <2>4, <2>5, <3>1, AppendRefused DEF DamageType
    <3>3. QED
      BY <1>1, <2>3, <2>5, <3>2 DEF DamageInv, DamageType
  <2>6. CASE damage' = damage + 1 /\ missed' = missed + 1 /\ UNCHANGED console
    <3>1. Refused(console, hw_seq)' = Refused(console, hw_seq)
      BY <1>5, <2>6 DEF PrintFrame
    <3>2. QED
      BY <1>1, <2>3, <2>6, <3>1 DEF DamageInv, DamageType
  <2>7. QED
    BY <1>5, <2>5, <2>6 DEF PrintFrame
<1>6. QED
    BY <1>3, <1>4, <1>5, Zenon DEF NodePrints

LEMMA NodeIsSilentDamage ==
    ASSUME DamageInv, NodeIsSilent \/ UNCHANGED hwVars, HwTypeOK
    PROVE  DamageInv'
<1>1. DamageType
    BY DamageTypes
<1>2. UNCHANGED <<console, hw_seq, damage, missed>>
    BY Zenon DEF NodeIsSilent, hwVars, benchVars
<1>3. Refused(console, hw_seq)' = Refused(console, hw_seq)
    BY <1>2
<1>4. Doomed' => Doomed
  <2>1. CASE Boot \/ Reset
    BY <2>1 DEF Boot, Reset, Doomed
  <2>2. CASE Store
    BY <1>2, <2>2 DEF Store, Doomed
  <2>3. CASE UNCHANGED hwVars
    BY <1>2, <2>3 DEF hwVars, vars, Doomed
  <2>4. QED
    BY <2>1, <2>2, <2>3, Zenon DEF NodeIsSilent
<1>5. QED
    BY <1>1, <1>2, <1>3, <1>4 DEF DamageInv, DamageType

LEMMA BridgeReadsDamage ==
    ASSUME DamageInv, BridgeReads, HwTypeOK
    PROVE  DamageInv'
<1>1. DamageType
    BY DamageTypes
<1>2. /\ console # << >> /\ console' = Tail(console)
      /\ UNCHANGED <<pc, tx_packet>>
    BY DEF BridgeReads, ReadNumber, PostFrame, PostFails, NextLine, vars
<1>3. hw_seq' = IF IsNumber(Head(console)) THEN Head(console).number ELSE hw_seq
    BY DEF BridgeReads, ReadNumber, PostFrame, PostFails
<1>4. Doomed' <=> Doomed
  <2>1. Len(console) \in 1 .. Len(console) /\ Len(Tail(console)) + 1 = Len(console)
    BY <1>1, <1>2 DEF DamageType
  <2>2. \A n : ReadUnder(Tail(console), hw_seq', Len(console), n)
                <=> ReadUnder(console, hw_seq, Len(console) + 1, n)
    BY <1>1, <1>2, <1>3, <2>1, TailReads DEF DamageType
  <2>3. QED
    BY <1>2, <2>1, <2>2 DEF Doomed
<1>5. /\ Cardinality(Refused(console, hw_seq)') \in Nat
      /\ Cardinality(Refused(console, hw_seq)')
            <= Cardinality(Refused(console, hw_seq))
                 - (IF ~ IsNumber(Head(console)) /\ Head(console).frame.cur.seq # hw_seq
                    THEN 1 ELSE 0)
    BY <1>1, <1>2, <1>3, TailRefused DEF DamageType
<1>6. CASE ReadNumber
    BY <1>1, <1>4, <1>5, <1>6 DEF ReadNumber, DamageInv, DamageType
<1>7. CASE PostFrame
    BY <1>1, <1>4, <1>5, <1>7, SMTT(20) DEF PostFrame, DamageInv, DamageType
<1>8. CASE PostFails
    BY <1>1, <1>4, <1>5, <1>8, SMTT(20) DEF PostFails, DamageInv, DamageType
<1>9. QED
    BY <1>6, <1>7, <1>8 DEF BridgeReads

-----------------------------------------------------------------------------
(* The theorem.                                                            *)

\* A stale or mangled number at the serial bridge costs no reading but the one
\* whose line was damaged or whose post failed (hw_bridge.py, run).
THEOREM DamageAlwaysCostsOneReading == HwSpec => []DamageCostsOneReading
<1>1. HwInit => IInv /\ HwTypeOK /\ DamageInv
  <2>1. HwInit => Refused(console, hw_seq) = {} /\ ~ Doomed
    BY DEF HwInit, Init, Refused, Doomed
  <2>2. HwInit => DamageInv
    BY <2>1, FS_EmptySet DEF HwInit, DamageInv
  <2>3. QED
    BY <2>2, BenchInductive, BenchType
<1>2. ASSUME IInv, HwTypeOK, DamageInv, [HwNext]_hwVars
      PROVE  IInv' /\ HwTypeOK' /\ DamageInv'
  <2>1. IInv' /\ HwTypeOK'
    BY <1>2, BenchInductive, BenchType
  <2>2. DamageType'
    BY <2>1, RefusedFinite, BenchAssumption DEF HwTypeOK, DamageType
  <2>3. DamageInv'
    BY <1>2, <2>2, NodePrintsDamage, NodeIsSilentDamage, BridgeReadsDamage, Zenon
       DEF HwNext
  <2>4. QED
    BY <2>1, <2>3
<1>3. HwTypeOK /\ DamageInv => DamageCostsOneReading
    BY DamageTypes DEF DamageInv, DamageType, DamageCostsOneReading
<1>4. QED
    BY <1>1, <1>2, <1>3, PTL DEF HwSpec

=============================================================================
