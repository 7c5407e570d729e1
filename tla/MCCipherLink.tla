---------------------------- MODULE MCCipherLink ----------------------------
(* A small instance of CipherLink: the three readings that test_decrypt.py
   records, packed by Payload, around every place where a byte of the number
   carries. *)
EXTENDS CipherLink

Codec == INSTANCE Payload WITH
    Readings <- {}, Bursts <- {}, stage <- None, fields <- None, buf <- None,
    noise <- None, parsed <- None

Bytes(numbers) == [i \in DOMAIN numbers |-> Weights(numbers[i])]

SimKey == Bytes(<<\h2B, \h7E, \h15, \h16, \h28, \hAE, \hD2, \hA6,
                  \hAB, \hF7, \h15, \h88, \h09, \hCF, \h4F, \h3C>>)

Packed(seq, state, pallet, wrap, transit, rotations, alarm) ==
    LET numbers == [state |-> state, pallet_id |-> pallet, wrap_time |-> wrap,
                    wrap_transit |-> transit, rotations |-> rotations, program |-> 0,
                    perimeter |-> 3, running |-> 4000, alarm |-> alarm,
                    timestamp |-> 1774138000 + 60 * seq, seq_number |-> seq,
                    device_id |-> DEVICE_ID]
        bits == Codec!PackPayload([f \in Codec!Field |-> Codec!Bits(numbers[f])])
    IN [k \in 1 .. PAYLOAD_SIZE |-> Codec!ByteAt(bits, k - 1)]

Vectors ==
    {[seq |-> 0, payload |-> Packed(0, 30, 159302, 668, 944, 14, 0),
      cipher |-> Bytes(<<\h43, \h6E, \h14, \h9A, \h1C, \h32, \h4E, \h9D, \h55, \hA5,
                         \hAD, \h34, \hDD, \hB5, \hCB, \h3E, \h97, \hE2, \h70, \h25,
                         \hC7, \h48, \hAC, \hCD, \h1A>>)],
     [seq |-> 9, payload |-> Packed(9, 31, 159202, 19107, 21252, 16, 283),
      cipher |-> Bytes(<<\hC9, \hC3, \h45, \h88, \hAE, \hB9, \h7F, \hC9, \h45, \h67,
                         \h1B, \hEF, \h69, \h43, \hFB, \h09, \h99, \h25, \hC2, \hDA,
                         \h4A, \h26, \hB3, \hA2, \h85>>)],
     [seq |-> 12, payload |-> Packed(12, 99, 158308, 0, 0, 0, 0),
      cipher |-> Bytes(<<\h03, \h40, \h3C, \h53, \hF6, \hBF, \hFC, \hAC, \h09, \h2D,
                         \hA4, \h14, \hC0, \hD7, \h5A, \hF6, \h51, \hAC, \h76, \h46,
                         \hB6, \h4F, \hD3, \h1E, \h7F>>)]}

VectorPayloads == {v.payload : v \in Vectors}

SomeStarts == {0, 9, 12, 254, 255, 65535}

\* The 256 bytes of the C source's table, against the definition.
ASSUME SboxAssumption == SboxAgrees
=============================================================================
