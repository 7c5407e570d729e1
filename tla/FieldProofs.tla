---------------------------- MODULE FieldProofs ----------------------------
(***************************************************************************)
(* Proofs about a site with any number of gateways, readings, slots and    *)
(* cycles, for any losses on the air, resets and outages: which readings   *)
(* survive, and what reaches the cloud.                                    *)
(***************************************************************************)
EXTENDS Field, SequenceTheorems, TLAPS

Frames == Col!Frame
Transmission == [frame : Frames, heard : SUBSET Gateways, boot : Nat]

-----------------------------------------------------------------------------
(* The inductive invariant.                                                *)

CollectorTypes ==
    /\ colPc \in {"off", "sample", "build", "store", "transmit"}
    /\ global_seq \in Col!SeqNo
    /\ colPc = "build" => ciphertext \in Col!Ciphertext
    /\ previous \in Col!Ciphertext \cup {Zero}
    /\ colPc \in {"store", "transmit"} => tx_packet \in Frames

GatewayTypes ==
    /\ gwPc \in [Gateways -> {"off", "elect", "rx", "write", "drain", "send", "done"}]
    /\ role \in [Gateways -> {"UNSET", "SLAVE", "MASTER"}]
    /\ rx_packet \in [Gateways -> Frames \cup {NoFrame}]
    /\ out \in [Gateways -> Frames \cup {NoFrame}]
    /\ gwFlash \in [Gateways -> Seq(Frames)]
    /\ delivered \in [Gateways -> Seq(Frames)]

SiteTypes ==
    /\ boots \in Nat
    /\ air \in Seq(Transmission)

\* The rolling buffer holds the reading of the last transmission of this
\* boot, so the frame built next repeats it.
RollingInv ==
    /\ colPc \in {"store", "transmit"} => previous = tx_packet.cur
    /\ \A i \in 1 .. Len(air) :
          air[i].boot <= boots /\ (colPc = "off" => air[i].boot < boots)
    /\ \A i \in 1 .. Len(air) : i = Len(air) /\ air[i].boot = boots =>
          /\ colPc \in {"sample", "build"} => previous = air[i].frame.cur
          /\ colPc \in {"store", "transmit"} => tx_packet.prev = air[i].frame.cur
    /\ \A i \in 1 .. Len(air) : Repeated(i) => air[i + 1].frame.prev = air[i].frame.cur

\* A master has at most one frame in hand, and what it had at a reset is
\* counted as dead.
MasterInv(g) ==
    /\ gwPc[g] = "write" => rx_packet[g] \in Frames
    /\ gwPc[g] = "send" => out[g] \in Frames
    /\ gwPc[g] = "elect" => gwFlash[g] = << >>
    /\ role[g] # "MASTER" => gwPc[g] \notin {"drain", "send"}
    /\ role[g] = "MASTER" =>
          /\ gwPc[g] \notin {"off", "drain"} => gwFlash[g] = << >>
          /\ gwPc[g] = "drain" => Len(gwFlash[g]) <= 1
          /\ gwPc[g] = "off" => Inside(g) \subseteq died

\* The frame in a master's hand is younger than all it delivered.
InHand(g, f) ==
    \E i \in 1 .. Len(air) :
        air[i].frame = f /\ g \in air[i].heard /\ HeardInOrder(air, i - 1, g, delivered[g])

OrderInv(g) ==
    /\ HeardInOrder(air, Len(air), g, delivered[g])
    /\ role[g] = "MASTER" /\ gwPc[g] # "off" => \A f \in Inside(g) : InHand(g, f)

\* What a master heard is in the cloud, in a master, or known to be lost.
Kept == cloud \cup died \cup UNION { Inside(g) : g \in Masters(Gateways) }

KeptInv == \A i \in 1 .. Len(air) : air[i].heard # {} => air[i].frame \in Kept

CloudInv == \A f \in cloud : \E i \in 1 .. Len(air) : air[i].frame = f /\ air[i].heard # {}

IInv ==
    /\ CollectorTypes /\ GatewayTypes /\ SiteTypes
    /\ RollingInv /\ KeptInv /\ CloudInv
    /\ \A g \in Gateways : MasterInv(g) /\ OrderInv(g)

-----------------------------------------------------------------------------
(* Deliveries in the order of the transmissions.                           *)

LEMMA OrderGrows ==
    ASSUME NEW sent, NEW more, NEW n \in Nat, NEW m \in Nat, n <= m,
           \A i \in 1 .. n : more[i] = sent[i],
           NEW g, NEW s, HeardInOrder(sent, n, g, s)
    PROVE  HeardInOrder(more, m, g, s)
<1>1. PICK at \in [1 .. Len(s) -> 1 .. n] :
          /\ \A j \in 1 .. Len(s) : sent[at[j]].frame = s[j] /\ g \in sent[at[j]].heard
          /\ \A j, k \in 1 .. Len(s) : j < k => at[j] < at[k]
    BY DEF HeardInOrder
<1>2. at \in [1 .. Len(s) -> 1 .. m]
    BY <1>1
<1>3. \A j \in 1 .. Len(s) : more[at[j]] = sent[at[j]]
    BY <1>1
<1>4. QED
    BY <1>1, <1>2, <1>3, SMTT(20) DEF HeardInOrder

LEMMA OrderAppend ==
    ASSUME NEW S, NEW s \in Seq(S), NEW f \in S, NEW sent, NEW g, NEW i \in Nat \ {0},
           HeardInOrder(sent, i - 1, g, s), sent[i].frame = f, g \in sent[i].heard
    PROVE  HeardInOrder(sent, i, g, Append(s, f))
<1>1. PICK at \in [1 .. Len(s) -> 1 .. (i - 1)] :
          /\ \A j \in 1 .. Len(s) : sent[at[j]].frame = s[j] /\ g \in sent[at[j]].heard
          /\ \A j, k \in 1 .. Len(s) : j < k => at[j] < at[k]
    BY DEF HeardInOrder
<1> DEFINE t == Append(s, f)
           new == [j \in 1 .. Len(t) |-> IF j = Len(t) THEN i ELSE at[j]]
<1>2. /\ Len(s) \in Nat /\ Len(t) = Len(s) + 1 /\ t[Len(t)] = f
      /\ \A j \in 1 .. Len(s) : t[j] = s[j]
    BY AppendProperties, LenProperties
<1> HIDE DEF t
<1>3. \A j \in 1 .. Len(t) : j = Len(t) \/ j \in 1 .. Len(s)
    BY <1>2
<1>4. /\ new[Len(t)] = i
      /\ \A j \in 1 .. Len(s) : new[j] = at[j] /\ at[j] \in 1 .. (i - 1)
    BY <1>1, <1>2
<1>5. new \in [1 .. Len(t) -> 1 .. i]
    BY <1>1, <1>2, <1>3
<1> HIDE DEF new
<1>6. \A j \in 1 .. Len(t) : sent[new[j]].frame = t[j] /\ g \in sent[new[j]].heard
    BY <1>1, <1>2, <1>3, <1>4
<1>7. \A j, k \in 1 .. Len(t) : j < k => new[j] < new[k]
  <2> SUFFICES ASSUME NEW j \in 1 .. Len(t), NEW k \in 1 .. Len(t), j < k
               PROVE  new[j] < new[k]
      OBVIOUS
  <2>1. j \in 1 .. Len(s)
    BY <1>2
  <2>2. CASE k = Len(t)
    BY <1>4, <2>1, <2>2
  <2>3. CASE k \in 1 .. Len(s)
    BY <1>1, <1>4, <2>1, <2>3
  <2>4. QED
    BY <1>3, <2>2, <2>3
<1>8. QED
    BY <1>5, <1>6, <1>7 DEF HeardInOrder, t

LEMMA OrderEmpty ==
    ASSUME NEW sent, NEW n \in Nat, NEW g
    PROVE  HeardInOrder(sent, n, g, << >>)
<1> DEFINE at == [j \in {} |-> 0]
<1>1. 1 .. Len(<< >>) = {} /\ at \in [1 .. Len(<< >>) -> 1 .. n]
    OBVIOUS
<1>2. QED
    BY <1>1 DEF HeardInOrder

-----------------------------------------------------------------------------
(* The collector on its own.                                               *)

\* A step that leaves the gateways, the air and the cloud alone.
LEMMA GatewaysStay ==
    ASSUME IInv,
           UNCHANGED <<gwPc, role, rx_packet, out, gwFlash, delivered, cloud, died, air>>
    PROVE  /\ GatewayTypes' /\ KeptInv' /\ CloudInv'
           /\ \A g \in Gateways : MasterInv(g)' /\ OrderInv(g)'
<1>1. \A g \in Gateways : Inside(g)' = Inside(g)
    BY DEF Inside
<1>2. Kept' = Kept
    BY <1>1 DEF Kept, Masters
<1>3. GatewayTypes'
    BY DEF IInv, GatewayTypes
<1>4. KeptInv' /\ CloudInv'
    BY <1>2 DEF IInv, KeptInv, CloudInv
<1>5. ASSUME NEW g \in Gateways PROVE MasterInv(g)' /\ OrderInv(g)'
    BY <1>1 DEF IInv, MasterInv, OrderInv, InHand
<1>6. QED
    BY <1>3, <1>4, <1>5

LEMMA PackedIs ==
    ASSUME NEW n \in Col!SeqNo, NEW d \in Data
    PROVE  Col!Packed(n, d) \in Col!Ciphertext
BY DEF Col!Ciphertext

LEMMA CollectorStepKeeps ==
    ASSUME IInv, CollectorStep
    PROVE  IInv'
<1>1. UNCHANGED <<gwPc, role, rx_packet, out, gwFlash, delivered, cloud, died, air, boots>>
    BY DEF CollectorStep, siteVars, gwVars
<1>2. Len(air) \in Nat /\ 0 \in Col!SeqNo
    BY SiteSeqAssumption, LenProperties DEF IInv, SiteTypes, Col!SeqNo
<1>3. CASE Col!Boot
  <2>1. CollectorTypes'
    BY <1>2, <1>3 DEF CollectorTypes, Col!Boot
  <2>2. RollingInv'
    BY <1>1, <1>3 DEF IInv, RollingInv, Repeated, SiteTypes, Col!Boot
  <2>3. QED
    BY <1>1, <2>1, <2>2, GatewaysStay DEF IInv, SiteTypes
<1>4. CASE \E d \in Data : Col!Sample(d)
  <2>1. PICK d \in Data : Col!Sample(d)
    BY <1>4
  <2>2. Col!Packed(global_seq, d) \in Col!Ciphertext
    BY PackedIs DEF IInv, CollectorTypes
  <2>3. CollectorTypes'
    BY <2>1, <2>2 DEF IInv, CollectorTypes, Col!Sample, Col!runnerVars, Col!rollingVars
  <2>4. RollingInv'
    BY <1>1, <2>1 DEF IInv, RollingInv, Repeated, Col!Sample, Col!rollingVars
  <2>5. QED
    BY <1>1, <2>3, <2>4, GatewaysStay DEF IInv, SiteTypes
<1>5. CASE Col!Build
  <2>1. [cur |-> ciphertext, prev |-> previous] \in Frames
    BY <1>5 DEF IInv, CollectorTypes, Frames, Col!Frame, Col!Build
  <2>2. CollectorTypes'
    BY <1>5, <2>1 DEF IInv, CollectorTypes, Col!Build, Col!runnerVars
  <2>3. RollingInv'
    BY <1>1, <1>5 DEF IInv, RollingInv, Repeated, Col!Build
  <2>4. QED
    BY <1>1, <2>2, <2>3, GatewaysStay DEF IInv, SiteTypes
<1>6. CASE Col!Store
  <2>1. CollectorTypes'
    BY <1>6 DEF IInv, CollectorTypes, Col!Store, Col!runnerVars, Col!rollingVars
  <2>2. RollingInv'
    BY <1>1, <1>6 DEF IInv, RollingInv, Repeated, Col!Store, Col!rollingVars
  <2>3. QED
    BY <1>1, <2>1, <2>2, GatewaysStay DEF IInv, SiteTypes
<1>7. QED
    BY <1>3, <1>4, <1>5, <1>6 DEF CollectorStep

LEMMA CollectorResetKeeps ==
    ASSUME IInv, CollectorReset
    PROVE  IInv'
<1>1. /\ UNCHANGED <<gwPc, role, rx_packet, out, gwFlash, delivered, cloud, died, air>>
      /\ boots' = boots + 1 /\ boots \in Nat
      /\ colPc' = "off" /\ UNCHANGED <<global_seq, ciphertext, previous, tx_packet>>
    BY DEF CollectorReset, gwVars, Col!Reset, Col!runnerVars, Col!rollingVars, IInv, SiteTypes
<1>2. CollectorTypes' /\ SiteTypes'
    BY <1>1 DEF IInv, CollectorTypes, SiteTypes
<1>3. RollingInv'
  <2>1. \A i \in 1 .. Len(air) : air[i].boot \in Nat /\ air[i].boot <= boots
    <3>1. \A i \in 1 .. Len(air) : air[i] \in Transmission
      BY ElementOfSeq DEF IInv, SiteTypes
    <3>2. QED
      BY <3>1 DEF Transmission, IInv, RollingInv
  <2>2. \A i \in 1 .. Len(air') : air'[i].boot < boots'
    BY <1>1, <2>1
  <2>3. \A i \in 1 .. Len(air') : air'[i].boot <= boots' /\ air'[i].boot # boots'
    BY <1>1, <2>1
  <2>4. \A i \in 1 .. Len(air') : Repeated(i)' => air'[i + 1].frame.prev = air'[i].frame.cur
    BY <1>1 DEF IInv, RollingInv, Repeated
  <2>5. QED
    BY <1>1, <2>2, <2>3, <2>4 DEF RollingInv
<1>4. QED
    BY <1>1, <1>2, <1>3, GatewaysStay DEF IInv

-----------------------------------------------------------------------------
(* A transmission.                                                         *)

LEMMA BroadcastKeeps ==
    ASSUME IInv, NEW H \in SUBSET Gateways, Broadcast(H)
    PROVE  IInv'
<1> DEFINE e == [frame |-> tx_packet, heard |-> Masters(H), boot |-> boots]
           n == Len(air)
<1>1. /\ colPc = "transmit" /\ colPc' = "sample" /\ global_seq' = (global_seq + 1) % SeqMod
      /\ UNCHANGED <<ciphertext, previous, tx_packet>>
    BY DEF Broadcast, Col!Transmit, Col!NextReading, Col!rollingVars
<1>2. tx_packet \in Frames /\ Masters(H) \subseteq H /\ \A g \in Masters(H) : role[g] = "MASTER"
    BY <1>1 DEF IInv, CollectorTypes, Masters
<1>3. e \in Transmission
    BY <1>2 DEF IInv, SiteTypes, Transmission
<1>4. /\ air' \in Seq(Transmission) /\ n \in Nat /\ Len(air') = n + 1
      /\ \A i \in 1 .. n : air'[i] = air[i]
      /\ air'[n + 1] = e
    BY <1>3, AppendProperties, LenProperties DEF Broadcast, IInv, SiteTypes
<1>5. /\ UNCHANGED <<role, out, gwFlash, delivered, cloud, died, boots>>
      /\ \A g \in H : gwPc[g] = "rx"
      /\ rx_packet' = [g \in Gateways |-> IF g \in H THEN tx_packet ELSE rx_packet[g]]
      /\ gwPc' = [g \in Gateways |-> IF g \in H THEN "write" ELSE gwPc[g]]
    BY DEF Broadcast, Gw!Hear, Gw!ghosts
<1>6. e.frame = tx_packet /\ e.heard = Masters(H) /\ e.boot = boots
    OBVIOUS
<1> HIDE DEF e, n
<1>7. \A i \in 1 .. Len(air') : i = n + 1 \/ i \in 1 .. n
    BY <1>4
<1>8. CollectorTypes'
  <2>1. global_seq' \in Col!SeqNo
    BY <1>1, SiteSeqAssumption DEF IInv, CollectorTypes, Col!SeqNo
  <2>2. QED
    BY <1>1, <2>1 DEF IInv, CollectorTypes
<1>9. GatewayTypes'
    BY <1>2, <1>5 DEF IInv, GatewayTypes
<1>10. SiteTypes'
    BY <1>4, <1>5 DEF IInv, SiteTypes
<1>11. RollingInv'
  <2>1. \A i \in 1 .. Len(air') : air'[i].boot <= boots'
    BY <1>4, <1>5, <1>6, <1>7 DEF n, IInv, RollingInv, SiteTypes
  <2>2. air'[n + 1].frame.cur = previous'
    BY <1>1, <1>4, <1>6 DEF IInv, RollingInv
  <2>3. \A i \in 1 .. n : Repeated(i)' => air'[i + 1].frame.prev = air'[i].frame.cur
    <3> SUFFICES ASSUME NEW i \in 1 .. n, Repeated(i)'
                 PROVE  air'[i + 1].frame.prev = air'[i].frame.cur
        OBVIOUS
    <3>1. CASE i = n
      <4>1. air[n].boot = boots
        BY <1>4, <1>6, <3>1 DEF Repeated
      <4>2. tx_packet.prev = air[n].frame.cur
        BY <1>1, <1>4, <3>1, <4>1 DEF n, IInv, RollingInv
      <4>3. QED
        BY <1>4, <1>6, <3>1, <4>2
    <3>2. CASE i + 1 \in 1 .. n
      <4>1. Repeated(i)
        BY <1>4, <3>2 DEF Repeated, n
      <4>2. QED
        BY <1>4, <3>2, <4>1 DEF IInv, RollingInv, n
    <3>3. QED
      BY <1>4, <3>1, <3>2
  <2>4. \A i \in 1 .. Len(air') : Repeated(i)' => i \in 1 .. n
    BY <1>4, <1>7 DEF Repeated
  <2>5. QED
    BY <1>1, <1>4, <2>1, <2>2, <2>3, <2>4 DEF RollingInv
<1>12. \A g \in Gateways : Inside(g) \subseteq Inside(g)'
    BY <1>5 DEF Inside
<1>13. KeptInv'
  <2>1. Kept \subseteq Kept'
    BY <1>5, <1>12 DEF Kept, Masters
  <2>2. \A g \in Masters(H) : tx_packet \in Inside(g)' /\ g \in Masters(Gateways)'
    BY <1>2, <1>5 DEF Inside, Masters
  <2>3. Masters(H) # {} => tx_packet \in Kept'
    BY <2>2 DEF Kept
  <2>4. \A i \in 1 .. n : air[i].heard # {} => air[i].frame \in Kept
    BY DEF IInv, KeptInv, n
  <2>5. QED
    BY <1>4, <1>6, <1>7, <2>1, <2>3, <2>4 DEF KeptInv
<1>14. CloudInv'
    BY <1>4, <1>5 DEF IInv, CloudInv, n
<1>15. ASSUME NEW g \in Gateways PROVE MasterInv(g)'
    BY <1>2, <1>5 DEF IInv, MasterInv, Inside
<1>16. ASSUME NEW g \in Gateways PROVE OrderInv(g)'
  <2>1. HeardInOrder(air, n, g, delivered[g])
    BY DEF IInv, OrderInv, n
  <2>2. /\ HeardInOrder(air', n, g, delivered[g])
        /\ HeardInOrder(air', n + 1, g, delivered[g])
    <3>1. n \in Nat /\ n + 1 \in Nat /\ n <= n /\ n <= n + 1
      BY <1>4
    <3>2. HeardInOrder(air', n, g, delivered[g])
      BY <1>4, <2>1, <3>1, OrderGrows
    <3>3. HeardInOrder(air', n + 1, g, delivered[g])
      BY <1>4, <2>1, <3>1, OrderGrows
    <3>4. QED
      BY <3>2, <3>3
  <2>3. HeardInOrder(air, Len(air), g, delivered[g])'
    BY <1>4, <1>5, <2>2
  <2>4. ASSUME role'[g] = "MASTER", gwPc'[g] # "off", NEW f \in Inside(g)' PROVE InHand(g, f)'
    <3>1. CASE g \in H
      <4>1. gwFlash[g] = << >> /\ g \in Masters(H)
        BY <1>5, <2>4, <3>1 DEF IInv, MasterInv, Masters
      <4>2. f = tx_packet
        BY <1>5, <3>1, <4>1 DEF Inside
      <4>3. HeardInOrder(air', (n + 1) - 1, g, delivered[g])
        BY <1>4, <2>2
      <4>4. n + 1 \in 1 .. Len(air')
        BY <1>4
      <4>5. QED
        BY <1>4, <1>5, <1>6, <4>1, <4>2, <4>3, <4>4 DEF InHand
    <3>2. CASE g \notin H
      <4>1. f \in Inside(g) /\ role[g] = "MASTER" /\ gwPc[g] # "off"
        BY <1>5, <2>4, <3>2 DEF Inside
      <4>2. PICK i \in 1 .. n : /\ air[i].frame = f /\ g \in air[i].heard
                                /\ HeardInOrder(air, i - 1, g, delivered[g])
        BY <4>1 DEF IInv, OrderInv, InHand, n
      <4>3. i - 1 \in Nat /\ \A j \in 1 .. (i - 1) : air'[j] = air[j]
        BY <1>4
      <4>4. HeardInOrder(air', i - 1, g, delivered[g])
        BY <4>2, <4>3, OrderGrows
      <4>5. i \in 1 .. Len(air') /\ air'[i] = air[i]
        BY <1>4
      <4>6. QED
        BY <1>5, <4>2, <4>4, <4>5 DEF InHand
    <3>3. QED
      BY <3>1, <3>2
  <2>5. QED
    BY <2>3, <2>4 DEF OrderInv
<1>17. QED
    BY <1>8, <1>9, <1>10, <1>11, <1>13, <1>14, <1>15, <1>16 DEF IInv

-----------------------------------------------------------------------------
(* The gateways.  They share nothing, so a step of one keeps the invariant *)
(* if it keeps that gateway's part and loses nothing of what it had.       *)

OtherNodes(g) ==
    \A h \in Gateways \ {g} :
        /\ gwPc'[h] = gwPc[h] /\ role'[h] = role[h] /\ rx_packet'[h] = rx_packet[h]
        /\ out'[h] = out[h] /\ gwFlash'[h] = gwFlash[h] /\ delivered'[h] = delivered[h]

Collecting == UNCHANGED <<colPc, global_seq, ciphertext, previous, tx_packet, air, boots>>

LEMMA NodeKeeps ==
    ASSUME IInv, NEW g \in Gateways, Collecting, OtherNodes(g),
           GatewayTypes', MasterInv(g)', OrderInv(g)',
           died \subseteq died', cloud \subseteq cloud',
           \A f \in cloud' : f \notin cloud =>
               \E i \in 1 .. Len(air) : air[i].frame = f /\ air[i].heard # {},
           role[g] = "MASTER" =>
               \A f \in Inside(g) :
                   f \in cloud' \/ f \in died' \/ (role'[g] = "MASTER" /\ f \in Inside(g)')
    PROVE  IInv'
<1>1. CollectorTypes' /\ SiteTypes'
    BY DEF IInv, CollectorTypes, SiteTypes, Collecting
<1>2. RollingInv'
    BY DEF IInv, RollingInv, Repeated, Collecting
<1>3. \A h \in Gateways \ {g} : Inside(h)' = Inside(h)
    BY DEF Inside, OtherNodes
<1>4. ASSUME NEW h \in Gateways, h # g PROVE MasterInv(h)' /\ OrderInv(h)'
  <2>1. MasterInv(h)'
    BY <1>3, <1>4 DEF IInv, MasterInv, OtherNodes
  <2>2. OrderInv(h)'
    BY <1>3, <1>4 DEF IInv, OrderInv, InHand, OtherNodes, Collecting
  <2>3. QED
    BY <2>1, <2>2
<1>5. KeptInv'
  <2>1. ASSUME NEW f \in Kept PROVE f \in Kept'
    <3>1. CASE f \in cloud \/ f \in died
      BY <3>1 DEF Kept
    <3>2. CASE \E h \in Masters(Gateways) : f \in Inside(h)
      <4>1. PICK h \in Gateways : role[h] = "MASTER" /\ f \in Inside(h)
        BY <3>2 DEF Masters
      <4>2. CASE h = g
        BY <4>1, <4>2 DEF Kept, Masters
      <4>3. CASE h # g
        BY <1>3, <4>1, <4>3 DEF Kept, Masters, OtherNodes
      <4>4. QED
        BY <4>2, <4>3
    <3>3. QED
      BY <3>1, <3>2 DEF Kept
  <2>2. QED
    BY <2>1 DEF IInv, KeptInv, Collecting
<1>6. CloudInv'
    BY DEF IInv, CloudInv, Collecting
<1>7. QED
    BY <1>1, <1>2, <1>4, <1>5, <1>6 DEF IInv

\* What a gateway keeps that has no frame in hand.
LEMMA IdleOrder ==
    ASSUME IInv, NEW g \in Gateways, Collecting, UNCHANGED delivered,
           role'[g] = "MASTER" => Inside(g)' = {}
    PROVE  OrderInv(g)'
BY DEF IInv, OrderInv, Collecting

LEMMA EndCycleEnds ==
    ASSUME GatewayTypes, NEW g \in Gateways, Gw!EndCycle(g)
    PROVE  /\ gwPc' \in [Gateways -> {"off", "elect", "rx", "write", "drain", "send", "done"}]
           /\ gwPc'[g] \in {"rx", "done"}
           /\ \A h \in Gateways \ {g} : gwPc'[h] = gwPc[h]
BY DEF GatewayTypes, Gw!EndCycle

LEMMA GatewayStepIs ==
    ASSUME NEW g \in Gateways, GatewayStep(g)
    PROVE  /\ Gw!Local(g) /\ Collecting
           /\ gwPc[g] # "send" => UNCHANGED <<cloud, died>>
           /\ gwPc[g] = "send" =>
                 \/ covered[g] /\ cloud' = cloud \cup {out[g]} /\ died' = died
                 \/ ~ covered[g] /\ cloud' = cloud /\ died' = died \cup {out[g]}
BY DEF GatewayStep, Collecting, colVars

LEMMA HalInitKeeps ==
    ASSUME IInv, NEW g \in Gateways, GatewayStep(g), Gw!HalInit(g)
    PROVE  IInv'
<1>1. /\ gwPc[g] = "off" /\ gwPc'[g] = "elect" /\ role'[g] = "UNSET"
      /\ gwFlash'[g] = << >> /\ delivered'[g] = << >>
      /\ OtherNodes(g) /\ GatewayTypes'
    BY DEF IInv, GatewayTypes, OtherNodes, Gw!HalInit
<1>2. Collecting /\ UNCHANGED <<cloud, died>>
    BY <1>1, GatewayStepIs
<1>3. MasterInv(g)'
    BY <1>1 DEF MasterInv
<1>4. OrderInv(g)'
  <2>1. Len(air) \in Nat
    BY LenProperties DEF IInv, SiteTypes
  <2>2. HeardInOrder(air, Len(air), g, << >>)
    BY <2>1, OrderEmpty
  <2>3. QED
    BY <1>1, <1>2, <2>2 DEF OrderInv, Collecting
<1>5. role[g] = "MASTER" => Inside(g) \subseteq died
    BY <1>1 DEF IInv, MasterInv
<1>6. QED
    BY <1>1, <1>2, <1>3, <1>4, <1>5, NodeKeeps

LEMMA ElectKeeps ==
    ASSUME IInv, NEW g \in Gateways, GatewayStep(g), Gw!Elect(g)
    PROVE  IInv'
<1>1. /\ gwPc[g] = "elect" /\ gwPc'[g] \in {"rx", "done"}
      /\ UNCHANGED <<rx_packet, out, gwFlash, delivered>>
      /\ OtherNodes(g) /\ GatewayTypes'
    BY DEF IInv, GatewayTypes, OtherNodes, Gw!Elect, Gw!ghosts
<1>2. Collecting /\ UNCHANGED <<cloud, died>>
    BY <1>1, GatewayStepIs
<1>3. gwFlash[g] = << >>
    BY <1>1 DEF IInv, MasterInv
<1>4. Inside(g) = {} /\ Inside(g)' = {}
    BY <1>1, <1>3 DEF Inside
<1>5. MasterInv(g)'
    BY <1>1, <1>3 DEF MasterInv
<1>6. OrderInv(g)'
    BY <1>1, <1>2, <1>4, IdleOrder
<1>7. QED
    BY <1>1, <1>2, <1>4, <1>5, <1>6, NodeKeeps

\* The steps that end a cycle without a frame in a master's hand.
LEMMA IdleKeeps ==
    ASSUME IInv, NEW g \in Gateways, GatewayStep(g), Gw!EndCycle(g), gwPc[g] # "send",
           UNCHANGED <<role, rx_packet, out, gwFlash, delivered>>,
           role[g] = "MASTER" => gwFlash[g] = << >> /\ gwPc[g] # "write"
    PROVE  IInv'
<1>1. /\ gwPc'[g] \in {"rx", "done"} /\ OtherNodes(g) /\ GatewayTypes'
    BY EndCycleEnds DEF IInv, GatewayTypes, OtherNodes
<1>2. Collecting /\ UNCHANGED <<cloud, died>>
    BY GatewayStepIs
<1>3. role[g] = "MASTER" => Inside(g) = {} /\ Inside(g)' = {}
    BY <1>1 DEF Inside
<1>4. MasterInv(g)'
    BY <1>1 DEF MasterInv
<1>5. OrderInv(g)'
    BY <1>2, <1>3, IdleOrder
<1>6. QED
    BY <1>1, <1>2, <1>3, <1>4, <1>5, NodeKeeps

LEMMA NothingHeardKeeps ==
    ASSUME IInv, NEW g \in Gateways, GatewayStep(g),
           Gw!ReceiveFails(g) \/ Gw!WriteFull(g) \/ Gw!DrainEmpty(g)
    PROVE  IInv'
<1>1. Gw!EndCycle(g) /\ UNCHANGED <<role, rx_packet, out, gwFlash, delivered>>
    BY DEF Gw!ReceiveFails, Gw!WriteFull, Gw!DrainEmpty, Gw!ghosts
<1>2. CASE Gw!ReceiveFails(g)
    BY <1>1, <1>2, IdleKeeps DEF Gw!ReceiveFails, IInv, MasterInv
<1>3. CASE Gw!WriteFull(g)
  <2>1. gwFlash[g] # << >> /\ gwPc[g] = "write"
    BY <1>3, SiteSlotsAssumption DEF Gw!WriteFull, Gw!Full
  <2>2. role[g] # "MASTER"
    BY <2>1 DEF IInv, MasterInv
  <2>3. QED
    BY <1>1, <2>1, <2>2, IdleKeeps
<1>4. CASE Gw!DrainEmpty(g)
    BY <1>1, <1>4, IdleKeeps DEF Gw!DrainEmpty
<1>5. QED
    BY <1>2, <1>3, <1>4

\* A sequence of one frame.
LEMMA OneFrame ==
    ASSUME NEW S, NEW s \in Seq(S), s # << >>, Len(s) <= 1
    PROVE  /\ Head(s) \in S /\ Tail(s) = << >>
           /\ { s[i] : i \in 1 .. Len(s) } = {Head(s)}
<1>1. Len(s) = 1
  <2>1. Len(s) \in Nat
    BY LenProperties
  <2>2. Len(s) # 0
    BY EmptySeq
  <2>3. QED
    BY <2>1, <2>2
<1>2. Head(s) \in S /\ Tail(s) \in Seq(S) /\ Len(Tail(s)) = 0 /\ Head(s) = s[1]
    BY <1>1, HeadTailProperties
<1>3. Tail(s) = << >>
    BY <1>2, EmptySeq
<1>4. { s[i] : i \in 1 .. Len(s) } = {s[1]}
    BY <1>1
<1>5. QED
    BY <1>2, <1>3, <1>4

LEMMA WriteKeeps ==
    ASSUME IInv, NEW g \in Gateways, GatewayStep(g), Gw!Write(g)
    PROVE  IInv'
<1>1. /\ gwPc[g] = "write" /\ rx_packet[g] \in Frames /\ gwFlash[g] \in Seq(Frames)
      /\ Collecting /\ UNCHANGED <<cloud, died>>
    BY GatewayStepIs DEF Gw!Write, IInv, MasterInv, GatewayTypes
<1>2. Append(gwFlash[g], rx_packet[g]) \in Seq(Frames)
    BY <1>1, AppendProperties
<1>3. /\ gwFlash' = [gwFlash EXCEPT ![g] = Append(@, rx_packet[g])]
      /\ UNCHANGED <<role, rx_packet, out, delivered>>
    BY DEF Gw!Write
<1>4. CASE role[g] = "MASTER"
  <2>1. gwPc' = [gwPc EXCEPT ![g] = "drain"]
    BY <1>4 DEF Gw!Write
  <2>2. /\ gwPc'[g] = "drain" /\ OtherNodes(g) /\ GatewayTypes'
        /\ gwFlash'[g] = Append(gwFlash[g], rx_packet[g])
    BY <1>2, <1>3, <2>1 DEF IInv, GatewayTypes, OtherNodes
  <2>3. gwFlash[g] = << >>
    BY <1>1, <1>4 DEF IInv, MasterInv
  <2>4. gwFlash'[g] = <<rx_packet[g]>> /\ Len(gwFlash'[g]) = 1
    BY <1>1, <2>2, <2>3
  <2>5. Inside(g)' = {rx_packet[g]}
    <3>1. rx_packet'[g] = rx_packet[g] /\ gwPc'[g] # "write" /\ gwFlash'[g][1] = rx_packet[g]
      BY <1>3, <2>2, <2>4
    <3>2. { gwFlash'[g][i] : i \in 1 .. Len(gwFlash'[g]) } = {rx_packet[g]}
      BY <2>4, <3>1
    <3>3. QED
      BY <2>2, <3>1, <3>2 DEF Inside
  <2>6. Inside(g) = {rx_packet[g]}
    <3>1. Len(gwFlash[g]) = 0
      BY <2>3
    <3>2. 1 .. Len(gwFlash[g]) = {}
      BY <3>1
    <3>3. { gwFlash[g][i] : i \in 1 .. Len(gwFlash[g]) } = {}
      BY <3>2
    <3>4. QED
      BY <1>1, <3>3 DEF Inside
  <2>7. MasterInv(g)'
    <3>1. gwPc'[g] = "drain" /\ role'[g] = "MASTER"
      BY <1>3, <1>4, <2>2
    <3>2. Len(gwFlash'[g]) <= 1
      BY <2>4
    <3>3. QED
      BY <3>1, <3>2 DEF MasterInv
  <2>8. OrderInv(g)'
    BY <1>1, <1>3, <1>4, <2>5, <2>6 DEF IInv, OrderInv, InHand, Collecting
  <2>9. QED
    BY <1>1, <1>3, <1>4, <2>2, <2>5, <2>6, <2>7, <2>8, NodeKeeps
<1>5. CASE role[g] # "MASTER"
  <2>1. Gw!EndCycle(g)
    BY <1>5 DEF Gw!Write
  <2>2. /\ gwPc'[g] \in {"rx", "done"} /\ OtherNodes(g) /\ GatewayTypes'
    BY <1>2, <1>3, <2>1, EndCycleEnds DEF IInv, GatewayTypes, OtherNodes
  <2>3. MasterInv(g)'
    BY <1>3, <1>5, <2>2 DEF MasterInv
  <2>4. OrderInv(g)'
    BY <1>1, <1>3, <1>5, IdleOrder
  <2>5. QED
    BY <1>1, <1>5, <2>2, <2>3, <2>4, NodeKeeps
<1>6. QED
    BY <1>4, <1>5

LEMMA DrainKeeps ==
    ASSUME IInv, NEW g \in Gateways, GatewayStep(g), Gw!Drain(g)
    PROVE  IInv'
<1>1. /\ gwPc[g] = "drain" /\ gwFlash[g] # << >> /\ gwFlash[g] \in Seq(Frames)
      /\ role[g] = "MASTER" /\ Len(gwFlash[g]) <= 1
      /\ Collecting /\ UNCHANGED <<cloud, died>>
    BY GatewayStepIs DEF Gw!Drain, IInv, MasterInv, GatewayTypes
<1>2. /\ Head(gwFlash[g]) \in Frames /\ Tail(gwFlash[g]) = << >>
      /\ { gwFlash[g][i] : i \in 1 .. Len(gwFlash[g]) } = {Head(gwFlash[g])}
    BY <1>1, OneFrame
<1>3. /\ gwPc'[g] = "send" /\ out'[g] = Head(gwFlash[g]) /\ gwFlash'[g] = << >>
      /\ UNCHANGED <<role, rx_packet, delivered>>
      /\ OtherNodes(g) /\ GatewayTypes'
    BY <1>1, <1>2 DEF IInv, GatewayTypes, OtherNodes, Gw!Drain, Gw!ghosts
<1>4. Inside(g) = {Head(gwFlash[g])} /\ Inside(g)' = {Head(gwFlash[g])}
    BY <1>1, <1>2, <1>3 DEF Inside
<1>5. MasterInv(g)'
    BY <1>1, <1>2, <1>3 DEF MasterInv
<1>6. OrderInv(g)'
    BY <1>1, <1>3, <1>4 DEF IInv, OrderInv, InHand, Collecting
<1>7. QED
    BY <1>1, <1>3, <1>4, <1>5, <1>6, NodeKeeps

LEMMA SendKeeps ==
    ASSUME IInv, NEW g \in Gateways, GatewayStep(g), Gw!Send(g)
    PROVE  IInv'
<1>1. /\ gwPc[g] = "send" /\ out[g] \in Frames /\ role[g] = "MASTER" /\ gwFlash[g] = << >>
      /\ delivered[g] \in Seq(Frames) /\ Collecting
    BY GatewayStepIs DEF Gw!Send, IInv, MasterInv, GatewayTypes
<1>2. Append(delivered[g], out[g]) \in Seq(Frames)
    BY <1>1, AppendProperties
<1>3. /\ gwPc'[g] = "drain" /\ UNCHANGED <<role, rx_packet, gwFlash>>
      /\ delivered'[g] = IF covered[g] THEN Append(delivered[g], out[g]) ELSE delivered[g]
      /\ OtherNodes(g) /\ GatewayTypes'
    BY <1>1, <1>2 DEF IInv, GatewayTypes, OtherNodes, Gw!Send
<1>4. Inside(g) = {out[g]} /\ Inside(g)' = {}
    BY <1>1, <1>3 DEF Inside
<1>5. MasterInv(g)'
    BY <1>1, <1>3 DEF MasterInv
<1>6. PICK i \in 1 .. Len(air) : /\ air[i].frame = out[g] /\ g \in air[i].heard
                                 /\ HeardInOrder(air, i - 1, g, delivered[g])
    BY <1>1, <1>4 DEF IInv, OrderInv, InHand
<1>7. OrderInv(g)'
  <2>1. HeardInOrder(air, Len(air), g, delivered[g])
    BY DEF IInv, OrderInv
  <2>2. HeardInOrder(air, Len(air), g, Append(delivered[g], out[g]))
    <3>1. Len(air) \in Nat /\ i \in Nat \ {0} /\ i <= Len(air)
      BY LenProperties DEF IInv, SiteTypes
    <3>2. HeardInOrder(air, i, g, Append(delivered[g], out[g]))
      BY <1>1, <1>6, <3>1, OrderAppend
    <3>3. QED
      BY <3>1, <3>2, OrderGrows
  <2>3. HeardInOrder(air, Len(air), g, delivered[g])'
    BY <1>1, <1>3, <2>1, <2>2 DEF Collecting
  <2>4. QED
    BY <1>4, <2>3 DEF OrderInv
<1>8. \/ covered[g] /\ cloud' = cloud \cup {out[g]} /\ died' = died
      \/ ~ covered[g] /\ cloud' = cloud /\ died' = died \cup {out[g]}
    BY <1>1, GatewayStepIs
<1>9. QED
    BY <1>1, <1>3, <1>4, <1>5, <1>6, <1>7, <1>8, NodeKeeps

LEMMA GatewayResetKeeps ==
    ASSUME IInv, NEW g \in Gateways, GatewayReset(g)
    PROVE  IInv'
<1>1. /\ gwPc[g] # "off" /\ gwPc'[g] = "off" /\ UNCHANGED <<role, gwFlash, delivered, cloud>>
      /\ OtherNodes(g) /\ GatewayTypes' /\ Collecting
    BY DEF IInv, GatewayTypes, OtherNodes, Collecting, colVars, GatewayReset, Gw!Reset, Gw!ghosts
<1>2. died' = IF role[g] = "MASTER" THEN died \cup Inside(g) ELSE died
    BY DEF GatewayReset
<1>3. Inside(g)' \subseteq Inside(g)
    BY <1>1 DEF Inside
<1>4. MasterInv(g)'
    BY <1>1, <1>2, <1>3 DEF MasterInv
<1>5. OrderInv(g)'
    BY <1>1 DEF IInv, OrderInv, Collecting
<1>6. QED
    BY <1>1, <1>2, <1>3, <1>4, <1>5, NodeKeeps

LEMMA NetworkKeeps ==
    ASSUME IInv, NEW g \in Gateways, Network(g)
    PROVE  IInv'
<1>1. /\ UNCHANGED <<gwPc, role, rx_packet, out, gwFlash, delivered, cloud, died, air, boots>>
      /\ UNCHANGED <<colPc, global_seq, ciphertext, previous, tx_packet>>
    BY DEF Network, colVars, Gw!Coverage, Gw!programVars, Gw!ghosts
<1>2. CollectorTypes' /\ SiteTypes'
    BY <1>1 DEF IInv, CollectorTypes, SiteTypes
<1>3. RollingInv'
    BY <1>1 DEF IInv, RollingInv, Repeated
<1>4. QED
    BY <1>1, <1>2, <1>3, GatewaysStay DEF IInv

-----------------------------------------------------------------------------
(* The whole.                                                              *)

LEMMA Initial ==
    ASSUME Init
    PROVE  IInv
<1>1. /\ colPc = "off" /\ global_seq = 0 /\ previous = Zero /\ boots = 0 /\ air = << >>
      /\ cloud = {}
    BY DEF Init, Col!Init
<1>2. \A g \in Gateways : /\ gwPc[g] = "off" /\ role[g] = "UNSET" /\ delivered[g] = << >>
    BY DEF Init, Gw!Init
<1>3. CollectorTypes
    BY <1>1, SiteSeqAssumption DEF CollectorTypes, Col!SeqNo
<1>4. GatewayTypes
    BY DEF Init, Gw!Init, GatewayTypes
<1>5. SiteTypes
    BY <1>1 DEF SiteTypes
<1>6. RollingInv /\ KeptInv /\ CloudInv
    BY <1>1 DEF RollingInv, KeptInv, CloudInv, Repeated
<1>7. ASSUME NEW g \in Gateways PROVE MasterInv(g) /\ OrderInv(g)
  <2>1. HeardInOrder(air, 0, g, << >>)
    BY OrderEmpty
  <2>2. QED
    BY <1>1, <1>2, <2>1 DEF MasterInv, OrderInv
<1>8. QED
    BY <1>3, <1>4, <1>5, <1>6, <1>7 DEF IInv

LEMMA Step ==
    ASSUME IInv, [Next]_vars
    PROVE  IInv'
<1>1. ASSUME NEW g \in Gateways, GatewayStep(g) PROVE IInv'
    BY <1>1, GatewayStepIs, HalInitKeeps, ElectKeeps, NothingHeardKeeps, WriteKeeps,
       DrainKeeps, SendKeeps DEF Gw!Local
<1>2. CASE UNCHANGED vars
  <2>1. /\ UNCHANGED <<gwPc, role, rx_packet, out, gwFlash, delivered, cloud, died, air, boots>>
        /\ UNCHANGED <<colPc, global_seq, ciphertext, previous, tx_packet>>
    BY <1>2 DEF vars, colVars, gwVars, siteVars
  <2>2. CollectorTypes' /\ SiteTypes'
    BY <2>1 DEF IInv, CollectorTypes, SiteTypes
  <2>3. RollingInv'
    BY <2>1 DEF IInv, RollingInv, Repeated
  <2>4. QED
    BY <2>1, <2>2, <2>3, GatewaysStay DEF IInv
<1>3. QED
    BY <1>1, <1>2, CollectorStepKeeps, CollectorResetKeeps, BroadcastKeeps, GatewayResetKeeps,
       NetworkKeeps DEF Next

LEMMA Invariance == Spec => []IInv
<1>1. Init => IInv
    BY Initial
<1>2. IInv /\ [Next]_vars => IInv'
    BY Step
<1>3. QED
    BY <1>1, <1>2, PTL DEF Spec

(***************************************************************************)
(* The README's rolling redundancy: a reading survives if a master heard   *)
(* its own frame or the next one of the same boot, whatever else is lost   *)
(* or reset; only a reset or an outage at the master that heard it kills.  *)
(***************************************************************************)
THEOREM ReadingAlwaysSurvivesOneLoss == Spec => []ReadingSurvivesOneLoss
<1>1. ASSUME IInv PROVE ReadingSurvivesOneLoss
  <2>1. ASSUME NEW f \in Kept PROVE f.cur \in Halves(Alive \cup died)
                                    /\ f.prev \in Halves(Alive \cup died)
    <3>1. f \in Alive \cup died
      BY <2>1 DEF Kept, Alive, Masters
    <3>2. QED
      BY <3>1 DEF Halves
  <2>2. ASSUME NEW i \in 1 .. Len(air), air[i].heard # {}
        PROVE  air[i].frame.cur \in Halves(Alive \cup died)
    BY <1>1, <2>1, <2>2 DEF IInv, KeptInv
  <2>3. ASSUME NEW i \in 1 .. Len(air), Repeated(i), air[i + 1].heard # {}
        PROVE  air[i].frame.cur \in Halves(Alive \cup died)
    <3>1. i + 1 \in 1 .. Len(air)
      BY <1>1, <2>3, LenProperties DEF Repeated, IInv, SiteTypes
    <3>2. air[i + 1].frame \in Kept /\ air[i + 1].frame.prev = air[i].frame.cur
      BY <1>1, <2>3, <3>1 DEF IInv, KeptInv, RollingInv
    <3>3. QED
      BY <2>1, <3>2
  <2>4. QED
    BY <2>2, <2>3 DEF ReadingSurvivesOneLoss
<1>2. QED
    BY <1>1, Invariance, PTL

(***************************************************************************)
(* What reaches the cloud was transmitted and heard by a master, and each  *)
(* master delivers in the order of the air, over wraps of the sequence     *)
(* number and resets of the collector.                                     *)
(***************************************************************************)
THEOREM CloudAlwaysFromAir == Spec => []CloudFromAir
<1>1. IInv => CloudFromAir
    BY DEF IInv, CloudInv, OrderInv, CloudFromAir
<1>2. QED
    BY <1>1, Invariance, PTL

=============================================================================
