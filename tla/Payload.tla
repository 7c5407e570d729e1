------------------------------ MODULE Payload ------------------------------
(***************************************************************************)
(* The 25-byte payload: pack_payload and unpack_payload of                 *)
(* lib/payload_packer.c, pack and parse of payload_parser.py, the CRC of   *)
(* both, and the generator that fills a reading in the build.  A number is *)
(* the set of the weights of its one bits (no width is lost to TLC's       *)
(* integers) and a payload the set of the positions of its one bits, 0     *)
(* being the most significant bit of byte 0.  The radio may flip bits of a *)
(* ciphertext; under CTR these are the same bits of the payload.           *)
(***************************************************************************)
EXTENDS Integers, FiniteSetsExt

CONSTANTS
    Readings,   \* what pack_payload is called with: Field -> set of weights
    Bursts      \* shapes of radio noise: offsets from the first flipped bit, below 16

PAYLOAD_SIZE == 25
PAYLOAD_DATA == 23
DataBits == 0 .. 8 * PAYLOAD_DATA - 1
PayloadBits == 0 .. 8 * PAYLOAD_SIZE - 1

\* The parameters of pack_payload with the widths of their C types.
CType ==
    [state |-> 8, pallet_id |-> 32, wrap_time |-> 16, wrap_transit |-> 16,
     rotations |-> 16, program |-> 8, perimeter |-> 16, running |-> 32,
     alarm |-> 32, timestamp |-> 32, seq_number |-> 16, device_id |-> 8]
Field == DOMAIN CType

ASSUME ReadingsAssumption ==
    \A r \in Readings : /\ r \in [Field -> SUBSET Nat]
                        /\ \A f \in Field : r[f] \subseteq 0 .. CType[f] - 1
ASSUME BurstsAssumption == \A b \in Bursts : b \subseteq 0 .. 15 /\ 0 \in b

\* The weights of a number below 2^31.
Bits(n) == {w \in 0 .. 30 : (n \div 2^w) % 2 = 1}

-----------------------------------------------------------------------------
(* The C packer and unpacker: one row per term of the source.              *)

\* buf[byte] |= ((v >> right) & mask of width) << left: <<byte, right, width, left>>
PackTerms ==
    [state        |-> {<<0, 0, 7, 1>>},
     pallet_id    |-> {<<0, 17, 1, 0>>, <<1, 9, 8, 0>>, <<2, 1, 8, 0>>, <<3, 0, 1, 7>>},
     wrap_time    |-> {<<3, 9, 7, 0>>, <<4, 1, 8, 0>>, <<5, 0, 1, 7>>},
     wrap_transit |-> {<<5, 9, 7, 0>>, <<6, 1, 8, 0>>, <<7, 0, 1, 7>>},
     rotations    |-> {<<7, 5, 7, 0>>, <<8, 0, 5, 3>>},
     program      |-> {<<8, 5, 3, 0>>, <<9, 0, 5, 3>>},
     perimeter    |-> {<<9, 13, 3, 0>>, <<10, 5, 8, 0>>, <<11, 0, 5, 3>>},
     running      |-> {<<11, 14, 3, 0>>, <<12, 6, 8, 0>>, <<13, 0, 6, 2>>},
     alarm        |-> {<<13, 15, 2, 0>>, <<14, 7, 8, 0>>, <<15, 0, 7, 1>>},
     timestamp    |-> {<<15, 31, 1, 0>>, <<16, 23, 8, 0>>, <<17, 15, 8, 0>>,
                       <<18, 7, 8, 0>>, <<19, 0, 7, 1>>},
     seq_number   |-> {<<19, 15, 1, 0>>, <<20, 7, 8, 0>>, <<21, 0, 7, 1>>},
     device_id    |-> {<<21, 7, 1, 0>>, <<22, 0, 7, 1>>}]

\* v |= ((buf[byte] >> right) & mask of width) << left
UnpackTerms ==
    [state        |-> {<<0, 1, 7, 0>>},
     pallet_id    |-> {<<0, 0, 1, 17>>, <<1, 0, 8, 9>>, <<2, 0, 8, 1>>, <<3, 7, 1, 0>>},
     wrap_time    |-> {<<3, 0, 7, 9>>, <<4, 0, 8, 1>>, <<5, 7, 1, 0>>},
     wrap_transit |-> {<<5, 0, 7, 9>>, <<6, 0, 8, 1>>, <<7, 7, 1, 0>>},
     rotations    |-> {<<7, 0, 7, 5>>, <<8, 3, 5, 0>>},
     program      |-> {<<8, 0, 3, 5>>, <<9, 3, 5, 0>>},
     perimeter    |-> {<<9, 0, 3, 13>>, <<10, 0, 8, 5>>, <<11, 3, 5, 0>>},
     running      |-> {<<11, 0, 3, 14>>, <<12, 0, 8, 6>>, <<13, 2, 6, 0>>},
     alarm        |-> {<<13, 0, 2, 15>>, <<14, 0, 8, 7>>, <<15, 1, 7, 0>>},
     timestamp    |-> {<<15, 0, 1, 31>>, <<16, 0, 8, 23>>, <<17, 0, 8, 15>>,
                       <<18, 0, 8, 7>>, <<19, 1, 7, 0>>},
     seq_number   |-> {<<19, 0, 1, 15>>, <<20, 0, 8, 7>>, <<21, 1, 7, 0>>},
     device_id    |-> {<<21, 0, 1, 7>>, <<22, 1, 7, 0>>}]

\* Weights from right to right + width - 1 of a number, moved to start at left.
Moved(bits, right, width, left) ==
    {w - right + left : w \in bits \cap (right .. right + width - 1)}

\* A byte of a payload as a number, and the other way round.
ByteAt(buf, k) == {7 - (p % 8) : p \in buf \cap ((8 * k) .. (8 * k) + 7)}
PlacedAt(byte, k) == {(8 * k) + 7 - w : w \in byte}

-----------------------------------------------------------------------------
(* CRC16-CCITT.                                                            *)

Polynomial == {0, 5, 12}

\* One turn of the inner loop.
Shift(crc) ==
    LET out == {w + 1 : w \in crc}
    IN IF 15 \in crc THEN SymDiff(out, Polynomial) ELSE out

\* The inner loop: eight turns, each ending with an assignment to a register
\* that has the weights of reg.
Eight(crc, reg) ==
    LET after[j \in 0 .. 8] == IF j = 0 THEN crc ELSE Shift(after[j - 1]) \cap reg
    IN after[8]

\* The register after the outer loop, from 0xFFFF: a byte is mixed in and
\* shifted out, and kept are the weights that survive the byte.  (The union
\* over the one mixed register has TLC evaluate it first, for the depth of
\* its stack.)
Crc(buf, reg, kept) ==
    LET after[k \in 0 .. PAYLOAD_DATA] ==
            IF k = 0 THEN 0 .. 15
            ELSE UNION {Eight(mixed, reg) \cap kept : mixed \in
                            {SymDiff(after[k - 1], {w + 8 : w \in ByteAt(buf, k - 1)})}}
    IN after[PAYLOAD_DATA]

\* C assigns every turn to a uint16_t; Python's integer grows through the
\* eight turns and is masked after them.
Uint16 == 0 .. 15
Unbounded == 0 .. 15 + 8 * PAYLOAD_DATA

crc16(buf) == Crc(buf, Uint16, Uint16)

Crc16Py(buf) == Crc(buf, Unbounded, Uint16)

\* The checksum goes to bytes 23 and 24, high byte first.
Sealed(data, crc) ==
    data \cup PlacedAt({w - 8 : w \in crc \cap (8 .. 15)}, PAYLOAD_DATA)
         \cup PlacedAt(crc \cap (0 .. 7), PAYLOAD_DATA + 1)

-----------------------------------------------------------------------------

Packed(terms, r) ==
    LET data == UNION {UNION {PlacedAt(Moved(r[f], t[2], t[3], t[4]), t[1]) :
                                 t \in terms[f]} : f \in Field}
    IN Sealed(data, crc16(data))

\* Mutant of PackPayload: the mask of rotations has a bit too many.
PackPayloadWideMask(r) ==
    Packed([PackTerms EXCEPT !.rotations = {<<7, 5, 8, 0>>, <<8, 0, 5, 3>>}], r)

PackPayload(r) == Packed(PackTerms, r)

Unpacked(terms, buf) ==
    [f \in Field |-> UNION {Moved(ByteAt(buf, t[1]), t[2], t[3], t[4]) : t \in terms[f]}]

\* Mutant of UnpackPayload: buf[8] is not masked for program.
UnpackPayloadNoMask(buf) ==
    Unpacked([UnpackTerms EXCEPT !.program = {<<8, 0, 8, 5>>, <<9, 3, 5, 0>>}], buf)

UnpackPayload(buf) == Unpacked(UnpackTerms, buf)

\* Python: the first bit of each field and its width.
Layout ==
    [state |-> <<0, 7>>, pallet_id |-> <<7, 18>>, wrap_time |-> <<25, 16>>,
     wrap_transit |-> <<41, 16>>, rotations |-> <<57, 12>>, program |-> <<69, 8>>,
     perimeter |-> <<77, 16>>, running |-> <<93, 17>>, alarm |-> <<110, 17>>,
     timestamp |-> <<127, 32>>, seq_number |-> <<159, 16>>, device_id |-> <<175, 8>>]

\* How far a field is shifted within the 184-bit integer of the data bytes.
Offset(f) == 8 * PAYLOAD_DATA - Layout[f][1] - Layout[f][2]

PackPy(r) ==
    LET bits == UNION {Moved(r[f], 0, Layout[f][2], Offset(f)) : f \in Field}
        data == {8 * PAYLOAD_DATA - 1 - w : w \in bits}
    IN Sealed(data, Crc16Py(data))

Extract(buf, f) ==
    Moved({8 * PAYLOAD_DATA - 1 - p : p \in buf \cap DataBits},
          Offset(f), Layout[f][2], 0)

\* Mutant of Accepted: only the high byte of the checksum is compared.
AcceptedHighByte(buf) ==
    ByteAt(buf, PAYLOAD_DATA) = {w - 8 : w \in Crc16Py(buf) \cap (8 .. 15)}

\* parse's checksum test; it raises ValueError when it fails.
Accepted(buf) ==
    Crc16Py(buf) = {w + 8 : w \in ByteAt(buf, PAYLOAD_DATA)}
                       \cup ByteAt(buf, PAYLOAD_DATA + 1)

-----------------------------------------------------------------------------
(* The generator of test_runner.c: the ranges of its four scenarios.       *)

Scenario(state, pallet, wrap, transit, rotations, alarm) ==
    [state |-> <<state, state>>, pallet_id |-> pallet, wrap_time |-> wrap, wrap_transit |-> transit,
     rotations |-> rotations, program |-> <<0, 0>>, perimeter |-> <<3, 3>>,
     running |-> <<4000, 4000>>, alarm |-> alarm]

Scenarios ==
    {Scenario(30, <<159290, 159307>>, <<400, 780>>, <<650, 1035>>, <<13, 25>>, <<0, 0>>),
     Scenario(30, <<159270, 159290>>, <<700, 780>>, <<950, 1035>>, <<23, 25>>, <<0, 0>>),
     Scenario(31, <<159200, 159270>>, <<18000, 24060>>, <<18200, 24312>>, <<11, 16>>,
              <<100, 500>>),
     Scenario(99, <<158308, 158308>>, <<0, 0>>, <<0, 0>>, <<0, 0>>, <<0, 0>>)}

\* What tr_rand_u32 can draw from a range.
TrRand(range) == IF range[1] >= range[2] THEN {range[1]} ELSE range[1] .. range[2]

\* Is this a reading the generator makes up?
Generated(r) ==
    \E sc \in Scenarios :
        \A f \in DOMAIN sc : \E n \in TrRand(sc[f]) : r[f] = Bits(n)

-----------------------------------------------------------------------------

VARIABLES
    stage,      \* where the payload is: "none", "packed", "heard" or "parsed"
    fields,     \* what it was packed from
    buf,        \* its bits
    noise,      \* the bits the radio flipped
    parsed      \* what parse returned, or Error

vars == <<stage, fields, buf, noise, parsed>>

Error == [f \in Field |-> {-1}]
Nothing == [f \in Field |-> {}]

Init == stage = "none" /\ fields = Nothing /\ buf = {} /\ noise = {} /\ parsed = Nothing

\* The collector packs a reading.
Pack(r) ==
    /\ stage = "none"
    /\ fields' = r
    /\ buf' = PackPayload(r)
    /\ stage' = "packed"
    /\ UNCHANGED <<noise, parsed>>

\* The radio carries it, flipping a burst of bits from p on, or none.
Carry(flips) ==
    /\ stage = "packed"
    /\ flips \subseteq PayloadBits
    /\ noise' = flips
    /\ buf' = SymDiff(buf, flips)
    /\ stage' = "heard"
    /\ UNCHANGED <<fields, parsed>>

\* The cloud parses what it heard.
Parse ==
    /\ stage = "heard"
    /\ parsed' = IF Accepted(buf) THEN [f \in Field |-> Extract(buf, f)] ELSE Error
    /\ stage' = "parsed"
    /\ UNCHANGED <<fields, buf, noise>>

\* The next reading.
NextReading ==
    /\ stage = "parsed"
    /\ stage' = "none"
    /\ fields' = Nothing /\ buf' = {} /\ noise' = {} /\ parsed' = Nothing

Next ==
    \/ \E r \in Readings : Pack(r)
    \/ Carry({})
    \/ \E b \in Bursts, p \in PayloadBits : Carry({p + o : o \in b})
    \/ Parse
    \/ NextReading

Spec == Init /\ [][Next]_vars

-----------------------------------------------------------------------------

\* The data are what the declarations say, the parsed fields within their width.
TypeOK ==
    /\ stage \in {"none", "packed", "heard", "parsed"}
    /\ \A f \in Field : fields[f] \subseteq 0 .. CType[f] - 1
    /\ buf \subseteq PayloadBits
    /\ noise \subseteq PayloadBits
    /\ \/ parsed = Error
       \/ \A f \in Field : parsed[f] \subseteq 0 .. Layout[f][2] - 1

\* pack_payload and Python's pack build the same 200 bits, checksum included,
\* from any arguments, those too wide for their field included
\* (payload_packer.c:23, "Layout verified to match Python pack()").
PackersAgree == stage = "packed" => buf = PackPy(fields)

\* What was packed on the node is what parse returns in the cloud, and what
\* unpack_payload reads from the same bytes: each field cut to its width, and
\* nothing is cut of what the generator produces.
ReadingSurvives ==
    stage = "parsed" /\ noise = {} =>
        /\ \A f \in Field : parsed[f] = fields[f] \cap (0 .. Layout[f][2] - 1)
        /\ parsed = UnpackPayload(buf)
        /\ Generated(fields) => parsed = fields

\* A burst of at most 16 flipped bits, wherever it falls, checksum included,
\* is never accepted as a reading.
BurstCaught ==
    stage = "parsed" /\ noise # {} => parsed = Error

=============================================================================
