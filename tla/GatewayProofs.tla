--------------------------- MODULE GatewayProofs ---------------------------
(***************************************************************************)
(* Proofs about the gateway's loop for any number of gateways, slots and   *)
(* cycles: types, the order in which frames are handed over, what the role *)
(* allows, and when a frame may be dropped.  They all follow from one      *)
(* inductive invariant, a conjunction over the nodes.                      *)
(***************************************************************************)
EXTENDS Gateway, SequenceTheorems, TLAPS

\* Everything a node keeps that the invariant speaks of.
NodeState(g) ==
    <<pc[g], role[g], cycle[g], rx_packet[g], out[g], flash[g], accepted[g],
      handed[g], delivered[g]>>

\* A node in its loop: the cycle that runs counts, and each step finds in
\* its buffer what the step before put there.
LoopInv(g) ==
    /\ pc[g] = "elect" => cycle[g] = 0 /\ flash[g] = << >>
    /\ pc[g] \in {"rx", "write", "drain", "send"} => cycle[g] < NumCycles
    /\ pc[g] = "write" => rx_packet[g] # NoFrame
    /\ out[g] # NoFrame <=> pc[g] = "send"
    /\ role[g] = "UNSET" <=> pc[g] = "elect"

\* Nothing is lost, repeated or overtaken between flash and modem.
OrderInv(g) == handed[g] \o Held(g) = accepted[g]

\* What each role may hold.  A slave stores at most one frame per cycle and
\* a master keeps none beyond its drain.
RoleInv(g) ==
    /\ role[g] = "MASTER" /\ pc[g] \notin {"drain", "send"} => flash[g] = << >>
    /\ role[g] # "MASTER" =>
           /\ pc[g] \notin {"drain", "send"}
           /\ handed[g] = << >>
           /\ Len(flash[g]) <= cycle[g]

NodeInv(g) == pc[g] # "off" => LoopInv(g) /\ OrderInv(g) /\ RoleInv(g)

IInv == TypeOK /\ \A g \in Gateways : NodeInv(g)

\* The other nodes are not disturbed.
OnlyNode(g) == \A h \in Gateways \ {g} : UNCHANGED NodeState(h)

-----------------------------------------------------------------------------
(* Sequences: what a frame's way through the node does to the three queues.*)

LEMMA AppendConcat ==
    ASSUME NEW S, NEW s \in Seq(S), NEW t \in Seq(S), NEW e \in S
    PROVE  s \o Append(t, e) = Append(s \o t, e)
  <1>1. /\ Append(t, e) = t \o <<e>>
        /\ Append(s \o t, e) = (s \o t) \o <<e>>
        /\ <<e>> \in Seq(S)
        /\ s \o t \in Seq(S)
    BY AppendIsConcat, ConcatProperties
  <1> QED
    BY <1>1, ConcatAssociative

LEMMA AppendMoves ==
    ASSUME NEW S, NEW s \in Seq(S), NEW t \in Seq(S), NEW e \in S
    PROVE  Append(s, e) \o t = s \o (<<e>> \o t)
  <1>1. \A u \in Seq(S) : (s \o u) \o t = s \o (u \o t)
    BY ConcatAssociative
  <1>2. <<e>> \in Seq(S)
    OBVIOUS
  <1>3. Append(s, e) = s \o <<e>>
    BY AppendIsConcat
  <1> QED
    BY <1>1, <1>2, <1>3, Zenon

LEMMA HeadConcatTail ==
    ASSUME NEW S, NEW s \in Seq(S), s # << >>
    PROVE  /\ Head(s) \in S
           /\ Tail(s) \in Seq(S)
           /\ Len(Tail(s)) = Len(s) - 1
           /\ <<Head(s)>> \o Tail(s) = s
  <1>1. Head(s) \in S /\ Tail(s) \in Seq(S) /\ Len(Tail(s)) = Len(s) - 1
    BY HeadTailProperties
  <1>2. <<Head(s)>> \o Tail(s) = s
    <2>1. Len(s) \in Nat \ {0}
      BY EmptySeq
    <2>2. /\ SubSeq(s, 1, Len(s)) = <<s[1]>> \o SubSeq(s, 2, Len(s))
          /\ SubSeq(s, 1, Len(s)) = s
          /\ Tail(s) = SubSeq(s, 2, Len(s))
      BY <2>1, SubSeqRecursiveFirst, SubSeqFull, TailIsSubSeq
    <2> QED
      BY <2>2
  <1> QED
    BY <1>1, <1>2

-----------------------------------------------------------------------------
(* The nodes share no state, so a step of one node keeps the invariant if  *)
(* it keeps the types and its own node's part.                             *)

LEMMA OneNodeEnough ==
    ASSUME IInv, NEW g \in Gateways, TypeOK', NodeInv(g)', OnlyNode(g)
    PROVE  IInv'
  <1> SUFFICES ASSUME NEW h \in Gateways PROVE NodeInv(h)'
    BY DEF IInv
  <1>1. CASE h = g
    BY <1>1
  <1>2. CASE h # g
    <2>1. NodeInv(h) /\ UNCHANGED NodeState(h)
      BY <1>2 DEF IInv, OnlyNode
    <2> QED
      BY <2>1 DEF NodeState, NodeInv, LoopInv, OrderInv, RoleInv, Held
  <1> QED
    BY <1>1, <1>2

\* The end of a cycle counts it, and the node listens again only if another
\* one is due.
LEMMA EndCycleCounts ==
    ASSUME TypeOK, NEW g \in Gateways, cycle[g] < NumCycles, EndCycle(g)
    PROVE  /\ pc'[g] \in {"rx", "done"}
           /\ pc'[g] = "rx" => cycle'[g] < NumCycles
           /\ cycle'[g] = cycle[g] + 1
           /\ cycle' \in [Gateways -> 0 .. NumCycles]
           /\ pc' \in [Gateways -> {"off", "elect", "rx", "write", "drain", "send", "done"}]
           /\ \A h \in Gateways \ {g} : pc'[h] = pc[h] /\ cycle'[h] = cycle[h]
  <1>1. cycle[g] \in 0 .. NumCycles /\ cycle[g] + 1 \in 0 .. NumCycles
    BY NumCyclesAssumption DEF TypeOK
  <1> QED
    BY <1>1, NumCyclesAssumption DEF TypeOK, EndCycle

\* The frames a node holds form a sequence.
LEMMA HeldIsSeq ==
    ASSUME TypeOK, NEW g \in Gateways
    PROVE  /\ Held(g) \in Seq(Frame)
           /\ out[g] = NoFrame => Held(g) = flash[g]
           /\ out[g] # NoFrame => out[g] \in Frame /\ Held(g) = <<out[g]>> \o flash[g]
  <1>1. flash[g] \in Seq(Frame) /\ out[g] \in Frame \cup {NoFrame}
    BY DEF TypeOK
  <1>2. CASE out[g] = NoFrame
    <2>1. << >> \o flash[g] = flash[g]
      BY <1>1, ConcatEmptySeq
    <2> QED
      BY <1>1, <1>2, <2>1 DEF Held
  <1>3. CASE out[g] # NoFrame
    <2>1. out[g] \in Frame /\ <<out[g]>> \in Seq(Frame)
      BY <1>1, <1>3
    <2>2. Held(g) = <<out[g]>> \o flash[g]
      BY <1>3 DEF Held
    <2> QED
      BY <1>1, <1>3, <2>1, <2>2, ConcatProperties
  <1> QED
    BY <1>2, <1>3

-----------------------------------------------------------------------------
(* One lemma per operation of the node.                                    *)

LEMMA InitIInv == Init => IInv
  <1> SUFFICES ASSUME Init PROVE IInv
    OBVIOUS
  <1>1. TypeOK
    BY NumCyclesAssumption DEF Init, TypeOK
  <1>2. \A g \in Gateways : NodeInv(g)
    BY DEF Init, NodeInv
  <1> QED
    BY <1>1, <1>2 DEF IInv

LEMMA HalInitStep ==
    ASSUME IInv, NEW g \in Gateways, HalInit(g)
    PROVE  IInv'
  <1>1. TypeOK'
    BY NumCyclesAssumption DEF IInv, TypeOK, HalInit
  <1>2. OnlyNode(g)
    BY DEF IInv, TypeOK, HalInit, OnlyNode, NodeState
  <1>3. /\ pc'[g] = "elect" /\ role'[g] = "UNSET" /\ cycle'[g] = 0
        /\ out'[g] = NoFrame /\ flash'[g] = << >>
        /\ accepted'[g] = << >> /\ handed'[g] = << >>
    BY DEF IInv, TypeOK, HalInit
  <1>4. << >> \o << >> = << >> /\ Len(<< >>) = 0
    OBVIOUS
  <1>5. NodeInv(g)'
    BY <1>3, <1>4 DEF NodeInv, LoopInv, OrderInv, RoleInv, Held
  <1> QED
    BY <1>1, <1>2, <1>5, OneNodeEnough

LEMMA ElectStep ==
    ASSUME IInv, NEW g \in Gateways, Elect(g)
    PROVE  IInv'
  <1>1. TypeOK'
    BY DEF IInv, TypeOK, Elect, ghosts
  <1>2. OnlyNode(g)
    BY DEF IInv, TypeOK, Elect, OnlyNode, NodeState, ghosts
  <1>3. /\ pc[g] = "elect" /\ NodeInv(g)
        /\ pc'[g] \in {"rx", "done"} /\ role'[g] \in {"MASTER", "SLAVE"}
        /\ pc'[g] = "rx" => NumCycles > 0
        /\ UNCHANGED <<cycle[g], out[g], flash[g], accepted[g], handed[g]>>
    BY DEF IInv, TypeOK, Elect, ghosts
  <1>4. NodeInv(g)'
    BY <1>3 DEF NodeInv, LoopInv, OrderInv, RoleInv, Held
  <1> QED
    BY <1>1, <1>2, <1>4, OneNodeEnough

LEMMA HearStep ==
    ASSUME IInv, NEW g \in Gateways, NEW f \in Frame, Receive(g, f)
    PROVE  IInv'
  <1>1. TypeOK'
    BY DEF IInv, TypeOK, Receive, Hear, ghosts
  <1>2. OnlyNode(g)
    BY DEF IInv, TypeOK, Receive, Hear, OnlyNode, NodeState, ghosts
  <1>3. /\ pc[g] = "rx" /\ NodeInv(g)
        /\ pc'[g] = "write" /\ rx_packet'[g] = f
        /\ UNCHANGED <<role[g], cycle[g], out[g], flash[g], accepted[g], handed[g]>>
    BY DEF IInv, Receive, Hear, ghosts
  <1>4. NodeInv(g)'
    BY <1>3, NoFrameAssumption DEF NodeInv, LoopInv, OrderInv, RoleInv, Held
  <1> QED
    BY <1>1, <1>2, <1>4, OneNodeEnough

LEMMA ReceiveFailsStep ==
    ASSUME IInv, NEW g \in Gateways, ReceiveFails(g)
    PROVE  IInv'
  <1>1. /\ pc[g] = "rx" /\ NodeInv(g) /\ cycle[g] < NumCycles
        /\ EndCycle(g) /\ TypeOK
    BY DEF IInv, ReceiveFails, NodeInv, LoopInv
  <1>2. TypeOK'
    BY <1>1, EndCycleCounts DEF TypeOK, ReceiveFails, ghosts
  <1>3. OnlyNode(g)
    BY <1>1, EndCycleCounts DEF TypeOK, ReceiveFails, OnlyNode, NodeState, ghosts
  <1>4. NodeInv(g)'
    <2>1. /\ pc'[g] \in {"rx", "done"}
          /\ pc'[g] = "rx" => cycle'[g] < NumCycles
          /\ cycle'[g] = cycle[g] + 1
          /\ UNCHANGED <<role[g], out[g], flash[g], accepted[g], handed[g]>>
      BY <1>1, EndCycleCounts DEF ReceiveFails, ghosts
    <2>2. Len(flash[g]) \in Nat /\ cycle[g] \in Nat
      BY <1>1, LenProperties DEF TypeOK
    <2>3. OrderInv(g)'
      BY <1>1, <2>1 DEF NodeInv, OrderInv, Held
    <2>4. RoleInv(g)'
      BY <1>1, <2>1, <2>2 DEF NodeInv, RoleInv
    <2>5. LoopInv(g)'
      BY <1>1, <2>1 DEF NodeInv, LoopInv
    <2> QED
      BY <2>3, <2>4, <2>5 DEF NodeInv
  <1> QED
    BY <1>2, <1>3, <1>4, OneNodeEnough

LEMMA WriteStep ==
    ASSUME IInv, NEW g \in Gateways, Write(g)
    PROVE  IInv'
  <1>1. /\ pc[g] = "write" /\ NodeInv(g) /\ cycle[g] < NumCycles /\ TypeOK
        /\ rx_packet[g] \in Frame
        /\ out[g] = NoFrame
        /\ flash[g] \in Seq(Frame) /\ handed[g] \in Seq(Frame)
        /\ accepted[g] \in Seq(Frame)
    BY DEF IInv, Write, NodeInv, LoopInv, TypeOK
  <1>2. /\ flash' = [flash EXCEPT ![g] = Append(@, rx_packet[g])]
        /\ accepted' = [accepted EXCEPT ![g] = Append(@, rx_packet[g])]
        /\ UNCHANGED <<role, rx_packet, out, simDetect, covered, handed, delivered>>
    BY DEF Write
  <1>3. /\ Append(flash[g], rx_packet[g]) \in Seq(Frame)
        /\ Append(accepted[g], rx_packet[g]) \in Seq(Frame)
        /\ Len(Append(flash[g], rx_packet[g])) = Len(flash[g]) + 1
        /\ Len(flash[g]) \in Nat /\ cycle[g] \in Nat
    BY <1>1, AppendProperties, LenProperties DEF TypeOK
  <1>4. /\ flash'[g] = Append(flash[g], rx_packet[g])
        /\ accepted'[g] = Append(accepted[g], rx_packet[g])
        /\ UNCHANGED <<role[g], out[g], handed[g]>>
    BY <1>1, <1>2 DEF TypeOK
  <1>5. OrderInv(g)'
    <2>1. handed[g] \o flash[g] = accepted[g]
      BY <1>1, HeldIsSeq DEF NodeInv, OrderInv
    <2>2. Held(g)' = flash'[g]
      <3>1. << >> \o flash'[g] = flash'[g]
        BY <1>3, <1>4, ConcatEmptySeq
      <3> QED
        BY <1>1, <1>4, <3>1 DEF Held
    <2>3. handed[g] \o flash'[g] = Append(handed[g] \o flash[g], rx_packet[g])
      <3>1. /\ handed[g] \in Seq(Frame)
            /\ flash[g] \in Seq(Frame)
            /\ rx_packet[g] \in Frame
        BY <1>1
      <3>2. \A s, t \in Seq(Frame) : \A e \in Frame : s \o Append(t, e) = Append(s \o t, e)
        BY AppendConcat
      <3> QED
        BY <1>4, <3>1, <3>2
    <2> QED
      BY <1>4, <2>1, <2>2, <2>3 DEF OrderInv
  <1>6. CASE role[g] = "MASTER"
    <2>1. pc' = [pc EXCEPT ![g] = "drain"] /\ cycle' = cycle
      BY <1>6 DEF Write
    <2>2. TypeOK'
      BY <1>1, <1>2, <1>3, <2>1 DEF TypeOK
    <2>3. OnlyNode(g)
      BY <1>1, <1>2, <2>1 DEF OnlyNode, NodeState, TypeOK
    <2>4. pc'[g] = "drain" /\ cycle'[g] = cycle[g]
      BY <1>1, <2>1 DEF TypeOK
    <2>5. LoopInv(g)' /\ RoleInv(g)'
      BY <1>1, <1>4, <1>6, <2>4 DEF NodeInv, LoopInv, RoleInv
    <2> QED
      BY <1>5, <2>2, <2>3, <2>5, OneNodeEnough DEF NodeInv
  <1>7. CASE role[g] # "MASTER"
    <2>1. EndCycle(g)
      BY <1>7 DEF Write
    <2>2. /\ pc'[g] \in {"rx", "done"}
          /\ pc'[g] = "rx" => cycle'[g] < NumCycles
          /\ cycle'[g] = cycle[g] + 1
          /\ cycle' \in [Gateways -> 0 .. NumCycles]
          /\ pc' \in [Gateways -> {"off", "elect", "rx", "write", "drain", "send", "done"}]
          /\ \A h \in Gateways \ {g} : pc'[h] = pc[h] /\ cycle'[h] = cycle[h]
      BY <1>1, <2>1, EndCycleCounts
    <2>3. TypeOK'
      BY <1>1, <1>2, <1>3, <2>2 DEF TypeOK
    <2>4. OnlyNode(g)
      BY <1>1, <1>2, <2>2 DEF OnlyNode, NodeState, TypeOK
    <2>5. LoopInv(g)'
      BY <1>1, <1>4, <2>2 DEF NodeInv, LoopInv
    <2>6. RoleInv(g)'
      BY <1>1, <1>3, <1>4, <1>7, <2>2 DEF NodeInv, RoleInv
    <2> QED
      BY <1>5, <2>3, <2>4, <2>5, <2>6, OneNodeEnough DEF NodeInv
  <1> QED
    BY <1>6, <1>7

LEMMA WriteFullStep ==
    ASSUME IInv, NEW g \in Gateways, WriteFull(g)
    PROVE  IInv'
  <1>1. /\ pc[g] = "write" /\ NodeInv(g) /\ cycle[g] < NumCycles
        /\ EndCycle(g) /\ TypeOK
    BY DEF IInv, WriteFull, NodeInv, LoopInv
  <1>2. TypeOK'
    BY <1>1, EndCycleCounts DEF TypeOK, WriteFull, ghosts
  <1>3. OnlyNode(g)
    BY <1>1, EndCycleCounts DEF TypeOK, WriteFull, OnlyNode, NodeState, ghosts
  <1>4. NodeInv(g)'
    <2>1. /\ pc'[g] \in {"rx", "done"}
          /\ pc'[g] = "rx" => cycle'[g] < NumCycles
          /\ cycle'[g] = cycle[g] + 1
          /\ UNCHANGED <<role[g], out[g], flash[g], accepted[g], handed[g]>>
      BY <1>1, EndCycleCounts DEF WriteFull, ghosts
    <2>2. Len(flash[g]) \in Nat /\ cycle[g] \in Nat
      BY <1>1, LenProperties DEF TypeOK
    <2>3. OrderInv(g)'
      BY <1>1, <2>1 DEF NodeInv, OrderInv, Held
    <2>4. RoleInv(g)'
      BY <1>1, <2>1, <2>2 DEF NodeInv, RoleInv
    <2>5. LoopInv(g)'
      BY <1>1, <2>1 DEF NodeInv, LoopInv
    <2> QED
      BY <2>3, <2>4, <2>5 DEF NodeInv
  <1> QED
    BY <1>2, <1>3, <1>4, OneNodeEnough

LEMMA DrainStep ==
    ASSUME IInv, NEW g \in Gateways, Drain(g)
    PROVE  IInv'
  <1>1. /\ pc[g] = "drain" /\ NodeInv(g) /\ cycle[g] < NumCycles /\ TypeOK
        /\ role[g] = "MASTER"
        /\ out[g] = NoFrame
        /\ flash[g] \in Seq(Frame) /\ flash[g] # << >>
    BY DEF IInv, Drain, NodeInv, LoopInv, RoleInv, TypeOK
  <1>2. /\ Head(flash[g]) \in Frame
        /\ Tail(flash[g]) \in Seq(Frame)
        /\ <<Head(flash[g])>> \o Tail(flash[g]) = flash[g]
    BY <1>1, HeadConcatTail
  <1>3. TypeOK'
    BY <1>1, <1>2 DEF TypeOK, Drain, ghosts
  <1>4. OnlyNode(g)
    BY <1>1 DEF TypeOK, Drain, OnlyNode, NodeState, ghosts
  <1>5. /\ pc'[g] = "send" /\ out'[g] = Head(flash[g]) /\ flash'[g] = Tail(flash[g])
        /\ UNCHANGED <<role[g], cycle[g], accepted[g], handed[g]>>
    BY <1>1 DEF TypeOK, Drain, ghosts
  <1>6. LoopInv(g)' /\ RoleInv(g)'
    BY <1>1, <1>2, <1>5, NoFrameAssumption DEF NodeInv, LoopInv, RoleInv
  <1>7. OrderInv(g)'
    <2>1. handed[g] \o flash[g] = accepted[g]
      BY <1>1, HeldIsSeq DEF NodeInv, OrderInv
    <2>2. out'[g] # NoFrame
      BY <1>2, <1>5, NoFrameAssumption
    <2>3. Held(g)' = flash[g]
      BY <1>2, <1>5, <2>2 DEF Held
    <2> QED
      BY <1>5, <2>1, <2>3 DEF OrderInv
  <1> QED
    BY <1>3, <1>4, <1>6, <1>7, OneNodeEnough DEF NodeInv

LEMMA DrainEmptyStep ==
    ASSUME IInv, NEW g \in Gateways, DrainEmpty(g)
    PROVE  IInv'
  <1>1. /\ pc[g] = "drain" /\ NodeInv(g) /\ cycle[g] < NumCycles
        /\ flash[g] = << >> /\ role[g] = "MASTER"
        /\ EndCycle(g) /\ TypeOK
    BY DEF IInv, DrainEmpty, NodeInv, LoopInv, RoleInv
  <1>2. TypeOK'
    BY <1>1, EndCycleCounts DEF TypeOK, DrainEmpty, ghosts
  <1>3. OnlyNode(g)
    BY <1>1, EndCycleCounts DEF TypeOK, DrainEmpty, OnlyNode, NodeState, ghosts
  <1>4. /\ pc'[g] \in {"rx", "done"}
        /\ pc'[g] = "rx" => cycle'[g] < NumCycles
        /\ UNCHANGED <<role[g], out[g], flash[g], accepted[g], handed[g]>>
    BY <1>1, EndCycleCounts DEF DrainEmpty, ghosts
  <1>5. OrderInv(g)'
    BY <1>1, <1>4 DEF NodeInv, OrderInv, Held
  <1>6. LoopInv(g)' /\ RoleInv(g)'
    BY <1>1, <1>4 DEF NodeInv, LoopInv, RoleInv
  <1> QED
    BY <1>2, <1>3, <1>5, <1>6, OneNodeEnough DEF NodeInv

LEMMA SendStep ==
    ASSUME IInv, NEW g \in Gateways, Send(g)
    PROVE  IInv'
  <1>1. /\ pc[g] = "send" /\ NodeInv(g) /\ cycle[g] < NumCycles /\ TypeOK
        /\ role[g] = "MASTER"
        /\ out[g] \in Frame /\ out[g] # NoFrame
        /\ flash[g] \in Seq(Frame) /\ handed[g] \in Seq(Frame)
        /\ delivered[g] \in Seq(Frame)
    BY DEF IInv, Send, NodeInv, LoopInv, RoleInv, TypeOK
  <1>2. /\ Append(handed[g], out[g]) \in Seq(Frame)
        /\ Append(delivered[g], out[g]) \in Seq(Frame)
    BY <1>1, AppendProperties
  <1>3. TypeOK'
    BY <1>1, <1>2 DEF TypeOK, Send
  <1>4. OnlyNode(g)
    BY <1>1 DEF TypeOK, Send, OnlyNode, NodeState
  <1>5. /\ pc'[g] = "drain" /\ out'[g] = NoFrame
        /\ handed'[g] = Append(handed[g], out[g])
        /\ UNCHANGED <<role[g], cycle[g], flash[g], accepted[g]>>
    BY <1>1 DEF TypeOK, Send
  <1>6. LoopInv(g)' /\ RoleInv(g)'
    BY <1>1, <1>5 DEF NodeInv, LoopInv, RoleInv
  <1>7. OrderInv(g)'
    <2>1. handed[g] \o (<<out[g]>> \o flash[g]) = accepted[g]
      BY <1>1, HeldIsSeq DEF NodeInv, OrderInv
    <2>2. Held(g)' = flash[g]
      <3>1. << >> \o flash[g] = flash[g]
        BY <1>1, ConcatEmptySeq
      <3> QED
        BY <1>5, <3>1 DEF Held
    <2>3. Append(handed[g], out[g]) \o flash[g] = handed[g] \o (<<out[g]>> \o flash[g])
      <3>1. \A s, t \in Seq(Frame) : \A e \in Frame : Append(s, e) \o t = s \o (<<e>> \o t)
        BY AppendMoves
      <3> QED
        BY <1>1, <3>1
    <2> QED
      BY <1>5, <2>1, <2>2, <2>3 DEF OrderInv
  <1> QED
    BY <1>3, <1>4, <1>6, <1>7, OneNodeEnough DEF NodeInv

LEMMA ResetStep ==
    ASSUME IInv, NEW g \in Gateways, Reset(g)
    PROVE  IInv'
  <1>1. TypeOK'
    BY DEF IInv, TypeOK, Reset, ghosts
  <1>2. OnlyNode(g)
    BY DEF IInv, TypeOK, Reset, OnlyNode, NodeState, ghosts
  <1>3. NodeInv(g)'
    BY DEF IInv, TypeOK, Reset, NodeInv
  <1> QED
    BY <1>1, <1>2, <1>3, OneNodeEnough

\* What happens around the nodes changes nothing inside them.
LEMMA SurroundingsStep ==
    ASSUME IInv, TypeOK', UNCHANGED <<programVars, ghosts>>
    PROVE  IInv'
  BY DEF IInv, programVars, ghosts, NodeInv, LoopInv, OrderInv, RoleInv, Held

-----------------------------------------------------------------------------

LEMMA StepIInv == IInv /\ [Next]_vars => IInv'
  <1> SUFFICES ASSUME IInv, [Next]_vars PROVE IInv'
    OBVIOUS
  <1>1. ASSUME NEW g \in Gateways, Program(g) PROVE IInv'
    BY <1>1, HalInitStep, ElectStep, HearStep, ReceiveFailsStep, WriteStep,
       WriteFullStep, DrainStep, DrainEmptyStep, SendStep DEF Program, Local
  <1>2. ASSUME NEW g \in Gateways, Reset(g) PROVE IInv'
    BY <1>2, ResetStep
  <1>3. ASSUME NEW g \in Gateways, MoveSim(g) PROVE IInv'
    <2>1. TypeOK'
      BY <1>3 DEF IInv, TypeOK, MoveSim, programVars, ghosts
    <2> QED
      BY <1>3, <2>1, SurroundingsStep DEF MoveSim
  <1>4. ASSUME NEW g \in Gateways, Coverage(g) PROVE IInv'
    <2>1. TypeOK'
      BY <1>4 DEF IInv, TypeOK, Coverage, programVars, ghosts
    <2> QED
      BY <1>4, <2>1, SurroundingsStep DEF Coverage
  <1>5. CASE UNCHANGED vars
    <2>1. TypeOK'
      BY <1>5 DEF IInv, TypeOK, vars, programVars, ghosts
    <2> QED
      BY <1>5, <2>1, SurroundingsStep DEF vars
  <1> QED
    BY <1>1, <1>2, <1>3, <1>4, <1>5 DEF Next

\* The inductive invariant holds in every reachable state.
LEMMA AlwaysIInv == Spec => []IInv
  BY InitIInv, StepIInv, PTL DEF Spec

\* Every variable keeps its type; the loop counter never passes NUM_CYCLES.
THEOREM TypeCorrect == Spec => []TypeOK
  <1>1. IInv => TypeOK
    BY DEF IInv
  <1> QED
    BY <1>1, AlwaysIInv, PTL

\* Whatever a gateway's flash accepts is handed to the modem once and in the
\* order of arrival, or is still in hand in that order (main's drain loop).
THEOREM AlwaysHandedInOrder == Spec => []HandedInOrder
  <1>1. IInv => HandedInOrder
    BY DEF IInv, NodeInv, OrderInv, HandedInOrder
  <1> QED
    BY <1>1, AlwaysIInv, PTL

\* A slave hands nothing to the modem and a master listens with an empty
\* flash, for the role elected at boot and wherever the SIM card is by now.
THEOREM RoleAlwaysGovernsFlash == Spec => []RoleGovernsFlash
  <1>1. IInv => RoleGovernsFlash
    <2> SUFFICES ASSUME IInv, NEW g \in Gateways
                 PROVE  /\ role[g] # "MASTER" /\ pc[g] # "off" =>
                              pc[g] \notin {"drain", "send"} /\ handed[g] = << >>
                        /\ role[g] = "MASTER" /\ pc[g] \in {"rx", "write", "done"} =>
                              flash[g] = << >>
      BY DEF RoleGovernsFlash
    <2> QED
      BY DEF IInv, NodeInv, RoleInv
  <1> QED
    BY <1>1, AlwaysIInv, PTL

\* A frame is dropped for lack of room only by a slave that has run MaxSlots
\* cycles or more: never, with the four cycles and twenty slots of the code.
THEOREM AlwaysDropsOnlyOnLateSlave == Spec => []DropsOnlyOnLateSlave
  <1>1. IInv => DropsOnlyOnLateSlave
    <2> SUFFICES ASSUME IInv, NEW g \in Gateways, pc[g] = "write", Full(g)
                 PROVE  role[g] = "SLAVE" /\ cycle[g] >= MaxSlots
      BY DEF DropsOnlyOnLateSlave
    <2>1. /\ role[g] \in {"UNSET", "SLAVE", "MASTER"}
          /\ role[g] # "UNSET"
          /\ cycle[g] \in Nat
          /\ Len(flash[g]) \in Nat
          /\ Len(flash[g]) >= MaxSlots
      <3>1. role[g] # "UNSET"
        BY DEF IInv, NodeInv, LoopInv
      <3>2. flash[g] \in Seq(Frame) /\ cycle[g] \in 0 .. NumCycles
        BY DEF IInv, TypeOK
      <3>3. Len(flash[g]) \in Nat
        BY <3>2, LenProperties
      <3> QED
        BY <3>1, <3>2, <3>3, NumCyclesAssumption DEF IInv, TypeOK, Full
    <2>2. role[g] # "MASTER"
      <3> SUFFICES ASSUME role[g] = "MASTER" PROVE FALSE
        OBVIOUS
      <3>1. flash[g] = << >>
        BY DEF IInv, NodeInv, RoleInv
      <3> QED
        BY <2>1, <3>1, GatewaySlotsAssumption
    <2>3. Len(flash[g]) <= cycle[g]
      BY <2>2 DEF IInv, NodeInv, RoleInv
    <2> QED
      BY <2>1, <2>2, <2>3, GatewaySlotsAssumption
  <1> QED
    BY <1>1, AlwaysIInv, PTL
=============================================================================
