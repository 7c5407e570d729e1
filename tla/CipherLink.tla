----------------------------- MODULE CipherLink -----------------------------
(***************************************************************************)
(* The bytes on the air: what on_tx makes of a packed payload with         *)
(* lib/aes_ctr.c and lib/rolling_buffer.c, and what the cloud makes of a   *)
(* frame with aes_decrypt.py.  Collector takes for granted that a          *)
(* ciphertext opens under the number it was made with; here it is shown.   *)
(***************************************************************************)
EXTENDS StdAes

CONSTANTS
    Key,        \* the 16 bytes of SIM_KEY, and of AES_KEY in the cloud
    Payloads,   \* what pack_payload fills, 25 bytes each
    Starts,     \* numbers at which a run is joined, or 0 for a node still off
    MaxReadings,\* readings of a behaviour since the last reset
    Recorded    \* ciphertexts the firmware is known for: [seq, payload, cipher]

PAYLOAD_SIZE == 25
DEVICE_ID == 1
MaxSeq == 65536

ASSUME KeyAssumption == Key \in [1 .. 16 -> Byte]
ASSUME PayloadsAssumption == Payloads \subseteq [1 .. PAYLOAD_SIZE -> Byte]
ASSUME StartsAssumption == Starts \subseteq 0 .. MaxSeq - 1

Zeros == [i \in 1 .. PAYLOAD_SIZE |-> {}]
None == <<>>

VARIABLES
    initialized,    \* aes_ctr.c
    round_key,
    previous,       \* rolling_buffer.c
    global_seq,     \* the number of the next reading
    frame,          \* the 50 bytes sent last
    packed,         \* ghost: the payloads in them, None for one of no reading
    used            \* ghost: the counter blocks encrypted since boot

vars == <<initialized, round_key, previous, global_seq, frame, packed, used>>

-----------------------------------------------------------------------------
(* The collector.                                                          *)

Nonce(seq) == MakeNonce(DEVICE_ID, seq)

\* A node without power.
Off ==
    /\ initialized = FALSE
    /\ round_key = [i \in 1 .. 176 |-> {}]
    /\ previous = Zeros
    /\ global_seq = 0
    /\ frame = None
    /\ packed = <<None, None>>
    /\ used = {}

\* A node that has sent its readings up to the one before seq, the last of
\* them with payload p.
Joined(seq, p) ==
    /\ initialized = TRUE
    /\ round_key = KeyExpansion(Key)
    /\ previous = Crypt(KeyExpansion(Key), Nonce(seq - 1), p)
    /\ global_seq = seq
    /\ frame = None
    /\ packed = <<p, None>>
    /\ used = {}

Init == Off \/ \E seq \in Starts \ {0}, p \in Payloads : Joined(seq, p)

\* hal_init: aes_ctr_init with a key of the right length, rolling_buffer_init.
\* (With any other length hal_init fails and main ends, so aes_ctr_crypt never
\* finds initialized unset.)
HalInit ==
    /\ ~initialized
    /\ initialized' = TRUE
    /\ round_key' = KeyExpansion(Key)
    /\ previous' = Zeros
    /\ UNCHANGED <<global_seq, frame, packed, used>>

\* Mutant of NextSeq: the number is wider than 16 bits.
NextSeqWide(seq) == seq + 1

\* global_seq is a uint16_t.
NextSeq(seq) == (seq + 1) % MaxSeq

\* on_tx with a payload: encrypt it, put the previous ciphertext behind it.
OnTx(p) ==
    LET nonce == Nonce(global_seq)
        ciphertext == Crypt(round_key, nonce, p)
    IN  /\ initialized
        /\ Cardinality(used) < 2 * MaxReadings
        /\ frame' = ciphertext \o previous
        /\ previous' = ciphertext
        /\ packed' = <<p, packed[1]>>
        /\ used' = used \cup {[seq |-> global_seq, block |-> k,
                               counter |-> Counters(nonce, PAYLOAD_SIZE)[k]] : k \in 0 .. 1}
        /\ global_seq' = NextSeq(global_seq)
        /\ UNCHANGED <<initialized, round_key>>

\* The power goes.
Reset ==
    /\ initialized' = FALSE
    /\ round_key' = [i \in 1 .. 176 |-> {}]
    /\ previous' = Zeros
    /\ global_seq' = 0
    /\ frame' = None
    /\ packed' = <<None, None>>
    /\ used' = {}

Next == HalInit \/ (\E p \in Payloads : OnTx(p)) \/ Reset

Spec == Init /\ [][Next]_vars

-----------------------------------------------------------------------------
(* The cloud.                                                              *)

\* aes_decrypt.py: the device, the number in two bytes, big endian, zeros.
BuildNonce(device_id, sequence) ==
    <<Weights(device_id), Weights(sequence \div 256), Weights(sequence)>>
        \o [i \in 1 .. 13 |-> {}]

CloudKeys == RoundKeys(Key)

Decrypt(ciphertext, sequence) ==
    StdCtr(CloudKeys, BuildNonce(DEVICE_ID, sequence), ciphertext)

-----------------------------------------------------------------------------

Current == SubSeq(frame, 1, PAYLOAD_SIZE)
Previous == SubSeq(frame, PAYLOAD_SIZE + 1, 2 * PAYLOAD_SIZE)
LastSeq == (global_seq - 1) % MaxSeq

\* The data are bytes, and as many as declared.
TypeOK ==
    /\ initialized \in BOOLEAN
    /\ round_key \in [1 .. 176 -> Byte]
    /\ previous \in [1 .. PAYLOAD_SIZE -> Byte]
    /\ global_seq \in 0 .. MaxSeq - 1
    /\ frame = None \/ frame \in [1 .. 2 * PAYLOAD_SIZE -> Byte]
    /\ packed \in (Payloads \cup {None}) \X (Payloads \cup {None})
    /\ used \subseteq [seq : 0 .. MaxSeq - 1, block : 0 .. 1, counter : [1 .. 16 -> Byte]]

\* The cloud's library, given the number of the reading, gets back the payload
\* that the node's own AES encrypted, and with the number before it the payload
\* of the other half, the wrap of the 16-bit number included ("Mirrors the C
\* implementation", aes_decrypt.py:3).
CloudReadsFrame ==
    frame # None =>
        /\ Decrypt(Current, LastSeq) = packed[1]
        /\ packed[2] # None => Decrypt(Previous, (LastSeq - 1) % MaxSeq) = packed[2]

\* Until the number wraps, no two blocks of any readings of a boot are encrypted
\* with the same counter: the blocks of one reading do not run into those of the
\* next (hal_sim.c:113).
CountersFresh ==
    \A a, b \in used : a.counter = b.counter => a.seq = b.seq /\ a.block = b.block

\* A reading with the fields of a recorded one gets the recorded ciphertext
\* (cloud/test_decrypt.py:20).
AsRecorded ==
    frame # None =>
        \A r \in Recorded :
            LastSeq = r.seq /\ packed[1] = r.payload => Current = r.cipher

=============================================================================
