------------------------- MODULE StoreForwardProofs -------------------------
(***************************************************************************)
(* Proofs about lib/store_forward.c for every ring size and packet set:    *)
(* type correctness, consistency of the two indices and the counter, and   *)
(* the refinement of the bounded FIFO.                                     *)
(***************************************************************************)
EXTENDS StoreForward, SequenceTheorems, TLAPS

-----------------------------------------------------------------------------
(* Arithmetic of the ring.  Every index the code computes is an index plus *)
(* at most a ring's length, so the modulus subtracts the length at most    *)
(* once.                                                                   *)

LEMMA AddMod ==
    ASSUME NEW h \in Slot, NEW k \in 0 .. MaxSlots
    PROVE  (h + k) % MaxSlots = IF h + k < MaxSlots THEN h + k ELSE h + k - MaxSlots
  <1>1. CASE h + k < MaxSlots
    BY <1>1, SlotsAssumption DEF Slot
  <1>2. CASE h + k >= MaxSlots
    BY <1>2, SlotsAssumption DEF Slot
  <1> QED
    BY <1>1, <1>2, SlotsAssumption DEF Slot

\* The index functions the actions use never leave the array.
LEMMA NextSlotInRing ==
    ASSUME NEW h \in Slot
    PROVE  /\ NextSlot(h) \in Slot
           /\ NextSlot(h) = IF h + 1 < MaxSlots THEN h + 1 ELSE 0
  <1>1. NextSlot(h) = IF h + 1 < MaxSlots THEN h + 1 ELSE h + 1 - MaxSlots
    BY AddMod, SlotsAssumption DEF NextSlot
  <1> QED
    BY <1>1, SlotsAssumption DEF Slot

LEMMA LiveSlotInRing ==
    ASSUME head \in Slot, NEW i \in 1 .. MaxSlots
    PROVE  /\ LiveSlot(i) \in Slot
           /\ LiveSlot(i) = IF head + i - 1 < MaxSlots
                              THEN head + i - 1 ELSE head + i - 1 - MaxSlots
  <1>1. /\ i - 1 \in 0 .. MaxSlots
        /\ head + i - 1 = head + (i - 1)
    BY SlotsAssumption DEF Slot
  <1>2. LiveSlot(i) = IF head + i - 1 < MaxSlots
                        THEN head + i - 1 ELSE head + i - 1 - MaxSlots
    BY <1>1, AddMod, SlotsAssumption DEF LiveSlot, Slot
  <1> QED
    BY <1>2, SlotsAssumption DEF Slot

\* After a read the slot that was second becomes the first, and so on.
LEMMA NextLiveSlot ==
    ASSUME head \in Slot, head' \in Slot,
           head' = IF head + 1 < MaxSlots THEN head + 1 ELSE 0,
           NEW i \in 1 .. MaxSlots, i + 1 \in 1 .. MaxSlots
    PROVE  LiveSlot(i)' = LiveSlot(i + 1)
  <1>1. LiveSlot(i + 1) = IF head + (i + 1) - 1 < MaxSlots
                            THEN head + (i + 1) - 1 ELSE head + (i + 1) - 1 - MaxSlots
    BY LiveSlotInRing
  <1>2. LiveSlot(i)' = (head' + (i - 1)) % MaxSlots
    BY SlotsAssumption DEF LiveSlot, Slot
  <1>3. (head' + (i - 1)) % MaxSlots
          = IF head' + (i - 1) < MaxSlots THEN head' + (i - 1) ELSE head' + (i - 1) - MaxSlots
    BY AddMod, SlotsAssumption
  <1> QED
    BY <1>1, <1>2, <1>3, SlotsAssumption DEF Slot

-----------------------------------------------------------------------------
(* Every index names a slot of the array in every reachable state.         *)
THEOREM TypeCorrect == Spec => []TypeOK
  <1>1. Init => TypeOK
    BY SlotsAssumption DEF Init, TypeOK, Slot, Answer
  <1>2. TypeOK /\ [Next]_vars => TypeOK'
    <2> SUFFICES ASSUME TypeOK, [Next]_vars PROVE TypeOK'
      OBVIOUS
    <2> USE DEF TypeOK
    <2>1. CASE SfInit
      BY <2>1, SlotsAssumption DEF SfInit, Slot, Answer
    <2>2. ASSUME NEW p \in Packet, SfWriteOk(p) PROVE TypeOK'
      BY <2>2, NextSlotInRing, SlotsAssumption DEF SfWriteOk, Answer
    <2>3. CASE SfWriteFull
      BY <2>3 DEF SfWriteFull, Answer
    <2>4. CASE SfReadOk
      BY <2>4, NextSlotInRing, SlotsAssumption DEF SfReadOk, Answer
    <2>5. CASE SfReadEmpty
      BY <2>5 DEF SfReadEmpty, Answer
    <2>6. CASE UNCHANGED vars
      BY <2>6 DEF vars
    <2> QED
      BY <2>1, <2>2, <2>3, <2>4, <2>5, <2>6 DEF Next
  <1> QED
    BY <1>1, <1>2, PTL DEF Spec

-----------------------------------------------------------------------------
(* The slots in use are always the count slots from head on: the inductive *)
(* invariant behind the FIFO order.                                        *)
LEMMA InitRing == Init => RingConsistent
  BY SlotsAssumption DEF Init, RingConsistent

LEMMA StepRing == TypeOK /\ RingConsistent /\ [Next]_vars => RingConsistent'
  <1> SUFFICES ASSUME TypeOK, RingConsistent, [Next]_vars PROVE RingConsistent'
    OBVIOUS
  <1>1. CASE SfInit
    BY <1>1, SlotsAssumption DEF SfInit, RingConsistent
  <1>2. ASSUME NEW p \in Packet, SfWriteOk(p) PROVE RingConsistent'
    <2>1. /\ count \in 0 .. MaxSlots - 1
          /\ count \in 0 .. MaxSlots
          /\ count + 1 \in 0 .. MaxSlots
          /\ count' = count + 1
          /\ head' = head
          /\ head \in Slot
          /\ tail \in Slot
      BY <1>2, SlotsAssumption DEF SfWriteOk, TypeOK
    <2>2. tail' = (head' + count') % MaxSlots
      <3>1. tail = IF head + count < MaxSlots THEN head + count ELSE head + count - MaxSlots
        BY <2>1, AddMod, SlotsAssumption DEF RingConsistent
      <3>2. (head + (count + 1)) % MaxSlots
              = IF head + (count + 1) < MaxSlots
                  THEN head + (count + 1) ELSE head + (count + 1) - MaxSlots
        BY <2>1, AddMod, SlotsAssumption
      <3>3. tail' = IF tail + 1 < MaxSlots THEN tail + 1 ELSE 0
        BY <1>2, <2>1, NextSlotInRing DEF SfWriteOk
      <3> QED
        BY <2>1, <3>1, <3>2, <3>3, SlotsAssumption DEF Slot
    <2>3. ASSUME NEW i \in 1 .. count' PROVE buffer'[LiveSlot(i)'] \in Packet
      <3>1. /\ LiveSlot(i)' = LiveSlot(i)
            /\ LiveSlot(i) \in Slot
            /\ buffer' = [buffer EXCEPT ![tail] = p]
            /\ buffer \in [Slot -> Packet \cup {Zero}]
        BY <1>2, <2>1, <2>3, LiveSlotInRing, SlotsAssumption DEF SfWriteOk, LiveSlot, TypeOK
      <3>2. CASE i = count + 1
        <4>1. LiveSlot(i) = tail
          BY <2>1, <3>2 DEF RingConsistent, LiveSlot, Slot
        <4> QED
          BY <2>1, <3>1, <4>1
      <3>3. CASE i \in 1 .. count
        <4>1. buffer[LiveSlot(i)] \in Packet
          BY <3>3 DEF RingConsistent
        <4> QED
          BY <2>1, <3>1, <4>1
      <3> QED
        BY <2>1, <2>3, <3>2, <3>3, SlotsAssumption
    <2> QED
      BY <2>2, <2>3 DEF RingConsistent
  <1>3. CASE SfWriteFull
    BY <1>3 DEF SfWriteFull, RingConsistent, LiveSlot
  <1>4. CASE SfReadOk
    <2>1. /\ count \in 1 .. MaxSlots
          /\ count \in 0 .. MaxSlots
          /\ count' \in 0 .. MaxSlots
          /\ count' = count - 1
          /\ tail' = tail
          /\ buffer' = buffer
          /\ head \in Slot
          /\ head' \in Slot
          /\ head' = IF head + 1 < MaxSlots THEN head + 1 ELSE 0
      BY <1>4, NextSlotInRing, SlotsAssumption DEF SfReadOk, TypeOK
    <2>2. tail' = (head' + count') % MaxSlots
      <3>1. tail = IF head + count < MaxSlots THEN head + count ELSE head + count - MaxSlots
        BY <2>1, AddMod, SlotsAssumption DEF RingConsistent
      <3>2. (head' + count') % MaxSlots
              = IF head' + count' < MaxSlots THEN head' + count' ELSE head' + count' - MaxSlots
        BY <2>1, AddMod, SlotsAssumption
      <3> QED
        BY <2>1, <3>1, <3>2, SlotsAssumption DEF Slot
    <2>3. ASSUME NEW i \in 1 .. count' PROVE buffer'[LiveSlot(i)'] \in Packet
      <3>1. /\ i + 1 \in 1 .. count
            /\ i \in 1 .. MaxSlots
            /\ i + 1 \in 1 .. MaxSlots
        BY <2>1, <2>3, SlotsAssumption
      <3>2. LiveSlot(i)' = LiveSlot(i + 1)
        BY <2>1, <3>1, NextLiveSlot
      <3> QED
        BY <2>1, <3>1, <3>2 DEF RingConsistent
    <2> QED
      BY <2>2, <2>3 DEF RingConsistent
  <1>5. CASE SfReadEmpty
    BY <1>5 DEF SfReadEmpty, RingConsistent, LiveSlot
  <1>6. CASE UNCHANGED vars
    BY <1>6 DEF vars, RingConsistent, LiveSlot
  <1> QED
    BY <1>1, <1>2, <1>3, <1>4, <1>5, <1>6 DEF Next

THEOREM RingAlwaysConsistent == Spec => []RingConsistent
  <1>1. Spec => []TypeOK
    BY TypeCorrect
  <1>2. Init => RingConsistent
    BY InitRing
  <1>3. TypeOK /\ RingConsistent /\ [Next]_vars => RingConsistent'
    BY StepRing
  <1> QED
    BY <1>1, <1>2, <1>3, PTL DEF Spec

-----------------------------------------------------------------------------
(* Refinement of the bounded FIFO: each path through a function of         *)
(* store_forward.c is the operation of the same meaning on the queue of    *)
(* live slots, with the same answer to the caller.                         *)
LEMMA QueueOfRing ==
    ASSUME TypeOK, RingConsistent
    PROVE  /\ queue \in Seq(Packet)
           /\ Len(queue) = count
           /\ \A i \in 1 .. count : queue[i] = buffer[LiveSlot(i)]
  <1>1. count \in Nat
    BY DEF TypeOK
  <1>2. \A i \in 1 .. count : queue[i] \in Packet
    BY DEF queue, RingConsistent
  <1>3. queue \in [1 .. count -> Packet]
    BY DEF queue, RingConsistent
  <1> QED
    BY <1>1, <1>2, <1>3 DEF queue

LEMMA QueueOfRingNext ==
    ASSUME TypeOK', RingConsistent'
    PROVE  queue' \in Seq(Packet) /\ Len(queue') = count'
  <1>1. count' \in Nat
    BY DEF TypeOK
  <1>2. queue' \in [1 .. count' -> Packet]
    BY DEF queue, RingConsistent
  <1> QED
    BY <1>1, <1>2

LEMMA WriteAppends ==
    ASSUME TypeOK, RingConsistent, RingConsistent', TypeOK', NEW p \in Packet, SfWriteOk(p)
    PROVE  Fifo!Put(p)
  <1>1. /\ count \in 0 .. MaxSlots - 1
        /\ count \in 0 .. MaxSlots
        /\ count' = count + 1
        /\ head' = head
        /\ head \in Slot
        /\ tail \in Slot
        /\ buffer' = [buffer EXCEPT ![tail] = p]
        /\ buffer \in [Slot -> Packet \cup {Zero}]
    BY SlotsAssumption DEF SfWriteOk, TypeOK
  <1>2. /\ queue \in Seq(Packet)
        /\ Len(queue) = count
        /\ \A i \in 1 .. count : queue[i] = buffer[LiveSlot(i)]
    BY QueueOfRing
  <1>3. queue' = [i \in 1 .. count + 1 |-> buffer'[LiveSlot(i)]]
    BY <1>1 DEF queue, LiveSlot
  <1>4. LiveSlot(count + 1) = tail
    BY <1>1 DEF RingConsistent, LiveSlot, Slot
  <1>5. ASSUME NEW i \in 1 .. count PROVE LiveSlot(i) \in Slot /\ LiveSlot(i) # tail
    <2>1. LiveSlot(i) \in Slot
      BY <1>1, LiveSlotInRing, SlotsAssumption
    <2>2. LiveSlot(i) = IF head + i - 1 < MaxSlots
                          THEN head + i - 1 ELSE head + i - 1 - MaxSlots
      BY <1>1, LiveSlotInRing, SlotsAssumption
    <2>3. tail = IF head + count < MaxSlots THEN head + count ELSE head + count - MaxSlots
      BY <1>1, AddMod, SlotsAssumption DEF RingConsistent
    <2> QED
      BY <1>1, <2>1, <2>2, <2>3, SlotsAssumption DEF Slot
  <1>6. \A i \in 1 .. count : buffer'[LiveSlot(i)] = queue[i]
    BY <1>1, <1>2, <1>5
  <1>7. buffer'[LiveSlot(count + 1)] = p
    BY <1>1, <1>4
  <1>8. queue' = Append(queue, p)
    <2>1. /\ Append(queue, p) \in Seq(Packet)
          /\ Len(Append(queue, p)) = count + 1
          /\ \A i \in 1 .. count : Append(queue, p)[i] = queue[i]
          /\ Append(queue, p)[count + 1] = p
      BY <1>2, AppendProperties
    <2>2. queue' \in Seq(Packet) /\ Len(queue') = count + 1
      BY <1>1, <1>3, QueueOfRingNext
    <2>3. \A i \in 1 .. count + 1 : queue'[i] = Append(queue, p)[i]
      BY <1>1, <1>3, <1>6, <1>7, <2>1
    <2> QED
      BY <2>1, <2>2, <2>3, SeqEqual
  <1> QED
    BY <1>1, <1>2, <1>8 DEF Fifo!Put, Fifo!Answer, SfWriteOk, Answer

LEMMA ReadTakesOldest ==
    ASSUME TypeOK, RingConsistent, RingConsistent', TypeOK', SfReadOk
    PROVE  Fifo!Get
  <1>1. /\ count \in 1 .. MaxSlots
        /\ count' = count - 1
        /\ buffer' = buffer
        /\ head \in Slot
        /\ head' \in Slot
        /\ head' = IF head + 1 < MaxSlots THEN head + 1 ELSE 0
    BY NextSlotInRing, SlotsAssumption DEF SfReadOk, TypeOK
  <1>2. /\ queue \in Seq(Packet)
        /\ Len(queue) = count
        /\ \A i \in 1 .. count : queue[i] = buffer[LiveSlot(i)]
    BY QueueOfRing
  <1>3. queue' = [i \in 1 .. count - 1 |-> buffer[LiveSlot(i)']]
    BY <1>1 DEF queue, LiveSlot
  <1>4. ASSUME NEW i \in 1 .. count - 1 PROVE buffer[LiveSlot(i)'] = queue[i + 1]
    <2>1. i \in 1 .. MaxSlots /\ i + 1 \in 1 .. MaxSlots /\ i + 1 \in 1 .. count
      BY <1>1, SlotsAssumption
    <2>2. LiveSlot(i)' = LiveSlot(i + 1)
      BY <1>1, <2>1, NextLiveSlot
    <2> QED
      BY <1>2, <2>1, <2>2
  <1>5. queue' = Tail(queue)
    <2>1. /\ Tail(queue) \in Seq(Packet)
          /\ Len(Tail(queue)) = count - 1
          /\ \A i \in 1 .. count - 1 : Tail(queue)[i] = queue[i + 1]
      BY <1>1, <1>2, HeadTailProperties
    <2>2. queue' \in Seq(Packet) /\ Len(queue') = count - 1
      BY <1>1, <1>3, QueueOfRingNext
    <2>3. \A i \in 1 .. count - 1 : queue'[i] = Tail(queue)[i]
      BY <1>3, <1>4, <2>1
    <2> QED
      BY <2>1, <2>2, <2>3, SeqEqual
  <1>6. Head(queue) = buffer[head]
    <2>1. LiveSlot(1) = head
      BY <1>1, LiveSlotInRing, SlotsAssumption DEF Slot
    <2> QED
      BY <1>1, <1>2, <2>1
  <1> QED
    BY <1>1, <1>2, <1>5, <1>6 DEF Fifo!Get, Fifo!Answer, SfReadOk, Answer

(***************************************************************************)
(* Every behaviour of the ring is a behaviour of the bounded FIFO.         *)
(***************************************************************************)
THEOREM RingImplementsFifo == Spec => ImplementsFifo
  <1>1. Init => Fifo!Init
    <2> SUFFICES ASSUME Init PROVE Fifo!Init
      OBVIOUS
    <2>1. count = 0
      BY DEF Init
    <2>2. queue = << >>
      BY <2>1 DEF queue
    <2> QED
      BY <2>2 DEF Init, Fifo!Init, Fifo!Answer, Answer
  <1>2. TypeOK /\ RingConsistent /\ TypeOK' /\ RingConsistent' /\ [Next]_vars => [Fifo!Next]_(Fifo!vars)
    <2> SUFFICES ASSUME TypeOK, RingConsistent, TypeOK', RingConsistent', [Next]_vars
                 PROVE  [Fifo!Next]_(Fifo!vars)
      OBVIOUS
    <2>1. /\ queue \in Seq(Packet)
          /\ Len(queue) = count
      BY QueueOfRing
    <2>2. CASE SfInit
      <3>1. queue' = << >>
        BY <2>2 DEF SfInit, queue
      <3> QED
        BY <2>2, <3>1 DEF SfInit, Fifo!Reset, Fifo!Next, Fifo!Answer, Answer
    <2>3. ASSUME NEW p \in Packet, SfWriteOk(p) PROVE Fifo!Next
      BY <2>3, WriteAppends DEF Fifo!Next
    <2>4. CASE SfWriteFull
      <3>1. queue' = queue
        BY <2>4 DEF SfWriteFull, queue, LiveSlot
      <3> QED
        BY <2>1, <2>4, <3>1, SlotsAssumption DEF SfWriteFull, TypeOK, Fifo!PutFull, Fifo!Next, Fifo!Answer, Answer
    <2>5. CASE SfReadOk
      BY <2>5, ReadTakesOldest DEF Fifo!Next
    <2>6. CASE SfReadEmpty
      <3>1. queue' = queue
        BY <2>6 DEF SfReadEmpty, queue, LiveSlot
      <3>2. queue = << >>
        BY <2>6 DEF SfReadEmpty, queue
      <3> QED
        BY <2>6, <3>1, <3>2 DEF SfReadEmpty, Fifo!GetEmpty, Fifo!Next, Fifo!Answer, Answer
    <2>7. CASE UNCHANGED vars
      BY <2>7 DEF vars, Fifo!vars, queue, LiveSlot
    <2> QED
      BY <2>2, <2>3, <2>4, <2>5, <2>6, <2>7 DEF Next
  <1>3. Spec => []TypeOK
    BY TypeCorrect
  <1>4. Spec => []RingConsistent
    BY RingAlwaysConsistent
  <1> QED
    BY <1>1, <1>2, <1>3, <1>4, PTL DEF Spec, ImplementsFifo, Fifo!Spec
=============================================================================
