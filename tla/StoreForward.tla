---------------------------- MODULE StoreForward ----------------------------
(***************************************************************************)
(* lib/store_forward.c: the ring of SF_MAX_SLOTS slots that simulates the  *)
(* NOR flash of both node types, with its three indices.  One action per   *)
(* path through each entry point; sf_pending and sf_stats only read.       *)
(* The ring lives in RAM, so a reset of the node goes through sf_init      *)
(* (hal_init calls it first) and is the action SfInit.                     *)
(***************************************************************************)
EXTENDS Integers, Sequences

CONSTANTS
    Packet,         \* the transmission packets (SF_SLOT_SIZE bytes each)
    MaxSlots,       \* SF_MAX_SLOTS of store_forward.h, 20 in the build
    Zero            \* a slot of zero bytes, what memset leaves

ASSUME SlotsAssumption == MaxSlots \in Nat \ {0}
ASSUME ZeroAssumption == Zero \notin Packet

VARIABLES
    buffer,     \* buffer[slot], the stored packets
    head,       \* next slot to read
    tail,       \* next slot to write
    count,      \* slots in use
    ret         \* status and packet the last call handed its caller

vars == <<buffer, head, tail, count, ret>>

Slot == 0 .. MaxSlots - 1

Answer(status, packet) == [status |-> status, packet |-> packet]

NextSlot(i) == (i + 1) % MaxSlots

-----------------------------------------------------------------------------

Init ==
    /\ buffer = [i \in Slot |-> Zero]
    /\ head = 0
    /\ tail = 0
    /\ count = 0
    /\ ret = Answer("SF_OK", Zero)

\* Mutant of SfInit: the counter is not reset with the indices.
SfInitKeepsCount ==
    /\ buffer' = [i \in Slot |-> Zero]
    /\ head' = 0
    /\ tail' = 0
    /\ ret' = Answer("SF_OK", Zero)
    /\ UNCHANGED count

SfInit ==
    /\ buffer' = [i \in Slot |-> Zero]
    /\ head' = 0
    /\ tail' = 0
    /\ count' = 0
    /\ ret' = Answer("SF_OK", Zero)

\* Mutant of SfWriteOk: > in place of >= in the test for a full ring.
SfWriteOneTooMany(p) ==
    /\ count <= MaxSlots
    /\ buffer' = [buffer EXCEPT ![tail] = p]
    /\ tail' = NextSlot(tail)
    /\ count' = count + 1
    /\ ret' = Answer("SF_OK", Zero)
    /\ UNCHANGED head

\* sf_write when a slot is free.
SfWriteOk(p) ==
    /\ count < MaxSlots
    /\ buffer' = [buffer EXCEPT ![tail] = p]
    /\ tail' = NextSlot(tail)
    /\ count' = count + 1
    /\ ret' = Answer("SF_OK", Zero)
    /\ UNCHANGED head

\* sf_write when the ring is full: nothing is stored.
SfWriteFull ==
    /\ count >= MaxSlots
    /\ ret' = Answer("SF_FULL", Zero)
    /\ UNCHANGED <<buffer, head, tail, count>>

\* Mutant of SfReadOk: the packet behind tail, not the one at head.
SfReadNewest ==
    /\ count > 0
    /\ ret' = Answer("SF_OK", buffer[(tail + MaxSlots - 1) % MaxSlots])
    /\ head' = NextSlot(head)
    /\ count' = count - 1
    /\ UNCHANGED <<buffer, tail>>

\* sf_read when something is stored: the oldest packet goes to the caller.
SfReadOk ==
    /\ count > 0
    /\ ret' = Answer("SF_OK", buffer[head])
    /\ head' = NextSlot(head)
    /\ count' = count - 1
    /\ UNCHANGED <<buffer, tail>>

SfReadEmpty ==
    /\ count = 0
    /\ ret' = Answer("SF_EMPTY", Zero)
    /\ UNCHANGED <<buffer, head, tail, count>>

Next ==
    \/ SfInit
    \/ \E p \in Packet : SfWriteOk(p)
    \/ SfWriteFull
    \/ SfReadOk
    \/ SfReadEmpty

Spec == Init /\ [][Next]_vars

-----------------------------------------------------------------------------

(***************************************************************************)
(* Every index names a slot, the count never exceeds the ring.  An index   *)
(* outside the array would be a write outside buffer[][].                  *)
(***************************************************************************)
TypeOK ==
    /\ buffer \in [Slot -> Packet \cup {Zero}]
    /\ head \in Slot
    /\ tail \in Slot
    /\ count \in 0 .. MaxSlots
    /\ ret \in [status : {"SF_OK", "SF_FULL", "SF_EMPTY"}, packet : Packet \cup {Zero}]

(***************************************************************************)
(* The slots in use are the count slots from head on: the two indices and  *)
(* the counter, updated by different functions, never drift apart, and a   *)
(* slot in use holds a packet, never memset's zeros.  Without it sf_read   *)
(* would hand out a slot that was never written or was already read.       *)
(***************************************************************************)
LiveSlot(i) == (head + i - 1) % MaxSlots

RingConsistent ==
    /\ tail = (head + count) % MaxSlots
    /\ \A i \in 1 .. count : buffer[LiveSlot(i)] \in Packet

(***************************************************************************)
(* The ring is a bounded FIFO: under this reading of the slots every call  *)
(* of store_forward.c answers as BoundedFifo says.                         *)
(***************************************************************************)
queue == [i \in 1 .. count |-> buffer[LiveSlot(i)]]

Fifo == INSTANCE BoundedFifo WITH Capacity <- MaxSlots, Nothing <- Zero

ImplementsFifo == Fifo!Spec
=============================================================================
