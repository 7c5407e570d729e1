---------------------------- MODULE BoundedFifo ----------------------------
(***************************************************************************)
(* What the store-and-forward buffer promises its callers: a bounded FIFO  *)
(* queue.  This is the contract lib/store_forward.h states ("ring buffer   *)
(* (FIFO)", sf_write returns SF_OK or SF_FULL, sf_read returns SF_OK or    *)
(* SF_EMPTY) and the view of the flash that the gateway and collector      *)
(* modules use.  StoreForward is shown to implement it.                    *)
(***************************************************************************)
EXTENDS Naturals, Sequences

CONSTANTS
    Packet,     \* the transmission packets a caller may store
    Capacity,   \* how many packets fit
    Nothing     \* the packet part of an answer that carries no packet

VARIABLES
    queue,      \* the packets stored and not yet read, oldest first
    ret         \* what the last call answered

vars == <<queue, ret>>

\* An answer: the status a call returns and the packet it hands out, if any.
Answer(status, packet) == [status |-> status, packet |-> packet]

Reset ==
    /\ queue' = << >>
    /\ ret' = Answer("SF_OK", Nothing)

Init ==
    /\ queue = << >>
    /\ ret = Answer("SF_OK", Nothing)

Put(p) ==
    /\ Len(queue) < Capacity
    /\ queue' = Append(queue, p)
    /\ ret' = Answer("SF_OK", Nothing)

PutFull ==
    /\ Len(queue) = Capacity
    /\ ret' = Answer("SF_FULL", Nothing)
    /\ UNCHANGED queue

Get ==
    /\ queue # << >>
    /\ queue' = Tail(queue)
    /\ ret' = Answer("SF_OK", Head(queue))

GetEmpty ==
    /\ queue = << >>
    /\ ret' = Answer("SF_EMPTY", Nothing)
    /\ UNCHANGED queue

Next ==
    \/ Reset
    \/ \E p \in Packet : Put(p)
    \/ PutFull
    \/ Get
    \/ GetEmpty

Spec == Init /\ [][Next]_vars
=============================================================================
