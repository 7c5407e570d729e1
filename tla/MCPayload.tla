---------------------------- MODULE MCPayload ----------------------------
(* A small instance of Payload: the generator's extremes and single fields
   with all bits of their C type, polls around every step of a register, over every position of a few bursts. *)
EXTENDS Sensor

\* Field by field the low or the high end of a scenario, in the first and the
\* last packet of a sequence number, on the clock of the default build.
End(sc, i, seq) ==
    [f \in Field |-> CASE f = "timestamp" -> Bits(1774138000 + 300 * seq)
                       [] f = "seq_number" -> Bits(seq)
                       [] f = "device_id" -> Bits(1)
                       [] OTHER -> Bits(sc[f][i])]

Ends == {End(sc, i, seq) : sc \in Scenarios, i \in {1, 2}, seq \in {0, 65535}}

\* All bits of one field and none of the others, and the complement.
Full == [f \in Field |-> 0 .. CType[f] - 1]
Edges == {[Nothing EXCEPT ![f] = Full[f]] : f \in Field}
             \cup {[Full EXCEPT ![f] = {}] : f \in Field} \cup {Full, Nothing}

AllReadings == Ends \cup Edges

\* One bit, two, the shape of the polynomial without its last bit, 16 bits.
SomeBursts == {{0}, {0, 1}, {0, 4, 11}, {0, 15}, 0 .. 15}

\* Around the changes of state, alarm and pallet, the first running time of two
\* words, the last that fits its field and the first that does not, and the
\* last number.
SomePolls == {0, 5, 6, 10, 20, 1093, 2184, 2185, 65535}
=============================================================================
