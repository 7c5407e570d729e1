----------------------------- MODULE Collector -----------------------------
(***************************************************************************)
(* The data collector node (node_collector/): test_runner_run's endless    *)
(* loop over the scenarios, and for each reading the pipeline of on_tx --  *)
(* pack, encrypt, build the rolling frame, store, transmit -- with the     *)
(* state of lib/rolling_buffer.c behind it.  The flash is the bounded      *)
(* FIFO that StoreForward is proved to implement.  A ciphertext is the     *)
(* record of what was packed into it (encryption under the nonce of its    *)
(* own sequence number is injective); a frame is the current ciphertext    *)
(* and the previous one.  All state is RAM: a reset loses it, between any  *)
(* two steps of the pipeline.                                              *)
(***************************************************************************)
EXTENDS Naturals, Sequences

CONSTANTS
    Data,       \* the PLC values a poll can deliver (the scenario ranges)
    Loops,      \* Loops[s]: transmissions of scenario s, <<5, 4, 3, 2>>
    SeqMod,     \* global_seq is a uint16_t: 2^16
    Interval,   \* SIM_TX_INTERVAL_MS / 1000
    MaxSlots,   \* SF_MAX_SLOTS
    Zero        \* the memset-zero ciphertext of a fresh rolling buffer

ASSUME LoopsAssumption == Loops \in Seq(Nat \ {0}) /\ Loops # << >>
ASSUME SeqModAssumption == SeqMod \in Nat \ {0}
ASSUME IntervalAssumption == Interval \in Nat \ {0}
ASSUME CollectorSlotsAssumption == MaxSlots \in Nat \ {0}

VARIABLES
    pc,             \* the next step of the pipeline, "off" when not running
    global_seq,     \* sequence number of the reading being handled
    scenario,       \* s + 1 of test_runner_run
    loop,           \* loop of test_runner_run
    ciphertext,     \* on_tx: the encrypted reading
    previous,       \* rolling_buffer.c: last ciphertext built into a frame
    has_previous,
    tx_packet,      \* on_tx: the frame built
    flash,          \* frames stored, oldest first
    lastSent        \* ghost: the last frame put on the air since boot, or Zero

runnerVars == <<global_seq, scenario, loop>>
rollingVars == <<previous, has_previous>>
vars == <<pc, runnerVars, ciphertext, rollingVars, tx_packet, flash, lastSent>>

SeqNo == 0 .. SeqMod - 1

\* What pack_payload packs: the reading's number, its machine timestamp
\* relative to the base, and the PLC values.
Packed(s, d) == [seq |-> s, ts |-> s * Interval, data |-> d]

Ciphertext == { Packed(s, d) : s \in SeqNo, d \in Data }

Frame == [cur : Ciphertext, prev : Ciphertext \cup {Zero}]

ASSUME ZeroCiphertextAssumption == Zero \notin Ciphertext /\ Zero \notin Frame

-----------------------------------------------------------------------------

Init ==
    /\ pc = "off"
    /\ global_seq = 0
    /\ scenario = 1
    /\ loop = 0
    /\ ciphertext = Zero
    /\ previous = Zero
    /\ has_previous = FALSE
    /\ tx_packet = Zero
    /\ flash = << >>
    /\ lastSent = Zero

\* Mutant of Boot: rolling_buffer_init forgets the previous packet's bytes.
BootKeepsPrevious ==
    /\ pc = "off"
    /\ pc' = "sample"
    /\ global_seq' = 0
    /\ scenario' = 1
    /\ loop' = 0
    /\ has_previous' = FALSE
    /\ flash' = << >>
    /\ lastSent' = Zero
    /\ UNCHANGED <<ciphertext, previous, tx_packet>>

\* main: hal_init (rolling_buffer_init, sf_init), then test_runner_run from
\* sequence number 0.
Boot ==
    /\ pc = "off"
    /\ pc' = "sample"
    /\ global_seq' = 0
    /\ scenario' = 1
    /\ loop' = 0
    /\ previous' = Zero
    /\ has_previous' = FALSE
    /\ flash' = << >>
    /\ lastSent' = Zero
    /\ UNCHANGED <<ciphertext, tx_packet>>

\* A reading is drawn, stamped, packed and encrypted.
Sample(d) ==
    /\ pc = "sample"
    /\ ciphertext' = Packed(global_seq, d)
    /\ pc' = "build"
    /\ UNCHANGED <<runnerVars, rollingVars, tx_packet, flash, lastSent>>

\* Mutant of Build: the buffer is updated before it is copied.
BuildSwapped ==
    /\ pc = "build"
    /\ previous' = ciphertext
    /\ tx_packet' = [cur |-> ciphertext, prev |-> previous']
    /\ has_previous' = TRUE
    /\ pc' = "store"
    /\ UNCHANGED <<runnerVars, ciphertext, flash, lastSent>>

\* rolling_buffer_build
Build ==
    /\ pc = "build"
    /\ tx_packet' = [cur |-> ciphertext, prev |-> previous]
    /\ previous' = ciphertext
    /\ has_previous' = TRUE
    /\ pc' = "store"
    /\ UNCHANGED <<runnerVars, ciphertext, flash, lastSent>>

\* Mutant of Store: a full flash overwrites its oldest frame.
StoreOverwrites ==
    /\ pc = "store"
    /\ flash' = Append(IF Len(flash) < MaxSlots THEN flash ELSE Tail(flash), tx_packet)
    /\ pc' = "transmit"
    /\ UNCHANGED <<runnerVars, ciphertext, rollingVars, tx_packet, lastSent>>

\* Mutant of Store: the frame that does not fit is not transmitted either.
StoreDrops ==
    /\ pc = "store"
    /\ flash' = IF Len(flash) < MaxSlots THEN Append(flash, tx_packet) ELSE flash
    /\ pc' = IF Len(flash) < MaxSlots THEN "transmit" ELSE "sample"
    /\ UNCHANGED <<runnerVars, ciphertext, rollingVars, tx_packet, lastSent>>

\* hal_flash_write: SG_HAL_FULL only prints "packet dropped"; the frame is
\* transmitted either way.
Store ==
    /\ pc = "store"
    /\ flash' = IF Len(flash) < MaxSlots THEN Append(flash, tx_packet) ELSE flash
    /\ pc' = "transmit"
    /\ UNCHANGED <<runnerVars, ciphertext, rollingVars, tx_packet, lastSent>>

\* The loops of test_runner_run move on: the next repetition, or the next
\* scenario, or the first one again.
NextReading ==
    /\ global_seq' = (global_seq + 1) % SeqMod
    /\ loop' = IF loop + 1 < Loops[scenario] THEN loop + 1 ELSE 0
    /\ scenario' = IF loop + 1 < Loops[scenario] THEN scenario
                   ELSE IF scenario < Len(Loops) THEN scenario + 1 ELSE 1

\* hal_radio_tx (its result is ignored); on_tx returns to the runner.
Transmit ==
    /\ pc = "transmit"
    /\ lastSent' = tx_packet
    /\ NextReading
    /\ pc' = "sample"
    /\ UNCHANGED <<ciphertext, rollingVars, tx_packet, flash>>

\* Power loss or watchdog: RAM is gone, nothing runs until Boot.
Reset ==
    /\ pc # "off"
    /\ pc' = "off"
    /\ UNCHANGED <<runnerVars, ciphertext, rollingVars, tx_packet, flash, lastSent>>

Step == Boot \/ (\E d \in Data : Sample(d)) \/ Build \/ Store \/ Transmit

Next == Step \/ Reset

\* The program runs whenever it can; resets are not fair.
Spec == Init /\ [][Next]_vars /\ WF_vars(Step)

-----------------------------------------------------------------------------

TypeOK ==
    /\ pc \in {"off", "sample", "build", "store", "transmit"}
    /\ global_seq \in SeqNo
    /\ scenario \in 1 .. Len(Loops)
    /\ loop \in 0 .. Loops[scenario] - 1
    /\ ciphertext \in Ciphertext \cup {Zero}
    /\ previous \in Ciphertext \cup {Zero}
    /\ has_previous \in BOOLEAN
    /\ tx_packet \in Frame \cup {Zero}
    /\ flash \in Seq(Frame)
    /\ Len(flash) <= MaxSlots
    /\ lastSent \in Frame \cup {Zero}

(***************************************************************************)
(* The current half of a frame and its previous half are consecutive       *)
(* readings, across the wrap of the 16-bit number and whether or not the   *)
(* frames were stored.  cloud/lambda/handler.py derives the number of the  *)
(* second half from this.  The machine clock of the second is one interval *)
(* later ("advance machine clock by SIM_TX_INTERVAL_MS per packet",        *)
(* test_runner.c:132), except that it starts over with the number.  Only   *)
(* the first frame after a boot carries zeros, and has_previous tells      *)
(* which.                                                                  *)
(***************************************************************************)
Consecutive(f) ==
    IF f.prev = Zero
    THEN f.cur.seq = 0
    ELSE /\ f.cur.seq = (f.prev.seq + 1) % SeqMod
         /\ f.cur.ts = IF f.cur.seq = 0 THEN 0 ELSE f.prev.ts + Interval

FramesAreConsecutive ==
    /\ pc \in {"store", "transmit"} => Consecutive(tx_packet)
    /\ lastSent # Zero => Consecutive(lastSent)
    /\ has_previous <=> previous # Zero
    /\ \A i \in 1 .. Len(flash) : Consecutive(flash[i])

(***************************************************************************)
(* Rolling redundancy: a frame repeats exactly the reading of the frame    *)
(* that was on the air just before it, so that losing one frame loses no   *)
(* reading.  It fails if a reading updates the rolling buffer without      *)
(* being transmitted, or is transmitted without updating it.               *)
(***************************************************************************)
RepeatsLastSent ==
    pc \in {"store", "transmit"} =>
        tx_packet.prev = IF lastSent = Zero THEN Zero ELSE lastSent.cur

(***************************************************************************)
(* hal_flash_write refuses when full, so the flash holds the first frames  *)
(* since boot, unbroken, and never a later one.                            *)
(***************************************************************************)
FlashKeepsFirstFrames ==
    pc # "off" =>
        \A i \in 1 .. Len(flash) :
            /\ flash[i].cur.seq = (i - 1) % SeqMod
            /\ flash[i].prev = IF i = 1 THEN Zero ELSE flash[i - 1].cur

(***************************************************************************)
(* Every reading drawn goes on the air, with the flash full as well,       *)
(* unless the node is reset first.                                         *)
(***************************************************************************)
EveryReadingSent ==
    \A c \in Ciphertext :
        (pc = "build" /\ ciphertext = c)
            ~> (pc = "off" \/ (lastSent # Zero /\ lastSent.cur = c))

=============================================================================
