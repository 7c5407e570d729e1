------------------------------- MODULE StdAes -------------------------------
(***************************************************************************)
(* What the cryptography library behind aes_decrypt.py computes: AES-128   *)
(* and counter mode by their definition (FIPS 197, SP 800-38A), with       *)
(* arithmetic in GF(2^8) and no table.                                     *)
(***************************************************************************)
EXTENDS AesCtr

Odd(S) == Cardinality(S) % 2 = 1

\* x^(n - 1) modulo x^8 + x^4 + x^3 + x + 1, for n up to 15.  (SubSeq has TLC
\* evaluate a table once.)
Power ==
    LET power[n \in 1 .. 15] ==
            IF n < 9 THEN {n - 1}
            ELSE LET half == power[n - 1]
                 IN Xor({w + 1 : w \in half \ {7}}, IF 7 \in half THEN {0, 1, 3, 4} ELSE {})
    IN SubSeq(power, 1, 15)

Times(a, b) == {w \in 0 .. 7 : Odd({p \in a \X b : w \in Power[1 + p[1] + p[2]]})}

InverseOf(a) == IF a = {} THEN {} ELSE CHOOSE b \in Byte : Times(a, b) = {0}

\* The affine transformation of the inverse, tabulated.
Affine(b) ==
    {i \in 0 .. 7 : Odd(({0, 4, 5, 6, 7} \cap {(j - i) % 8 : j \in b})
                            \cup (IF i \in {0, 1, 5, 6} THEN {8} ELSE {}))}

StdSbox == SubSeq([n \in 1 .. 256 |-> Affine(InverseOf(Weights(n - 1)))], 1, 256)
SubByte(b) == StdSbox[1 + Number(b)]

\* The table of aes_ctr.c is this one.
SboxAgrees == \A b \in Byte : sbox[b] = SubByte(b)

\* The round keys, each from the one before: RotWord, SubWord, Rcon, and the
\* running sum of the words.
RoundKeys(key) ==
    LET keys[r \in 1 .. 11] ==
            IF r = 1 THEN key
            ELSE LET k == keys[r - 1]
                     first == [j \in 1 .. 4 |-> Xor(SubByte(k[13 + (j % 4)]),
                                                    IF j = 1 THEN Power[r - 1] ELSE {})]
                 IN SubSeq([n \in 1 .. 16 |->
                        LET j == 1 + ((n - 1) % 4)
                        IN XorAll(<<first[j]>> \o
                                  [m \in 1 .. 1 + (n - 1) \div 4 |-> k[j + 4 * (m - 1)]])],
                        1, 16)
    IN SubSeq(keys, 1, 11)

\* SubBytes and ShiftRows of byte (r, c), and MixColumns over the column.
Shifted(s, r, c) == SubByte(s[1 + 4 * ((c + r) % 4) + r])
Coefficient == <<{1}, {0, 1}, {0}, {0}>>
Mixed(s, r, c) ==
    XorAll([k \in 1 .. 4 |-> Times(Coefficient[1 + ((k - 1 - r) % 4)], Shifted(s, k - 1, c))])

StdBlock(keys, in) ==
    LET after[r \in 0 .. 10] ==
            LET s == IF r = 0 THEN in ELSE after[r - 1]
                byte(row, col) == CASE r = 0  -> s[1 + 4 * col + row]
                                    [] r = 10 -> Shifted(s, row, col)
                                    [] OTHER  -> Mixed(s, row, col)
            IN SubSeq([n \in 1 .. 16 |->
                          Xor(byte((n - 1) % 4, (n - 1) \div 4), keys[r + 1][n])], 1, 16)
    IN after[10]

\* Counter mode for at most 256 blocks; the counter block ends in a zero byte.
StdCtr(keys, nonce, text) ==
    LET stream[k \in 0 .. (Len(text) - 1) \div 16] ==
            (IF k = 0 THEN <<>> ELSE stream[k - 1])
                \o StdBlock(keys, [nonce EXCEPT ![16] = Weights(k)])
        all == stream[(Len(text) - 1) \div 16]
    IN [i \in 1 .. Len(text) |-> Xor(text[i], all[i])]

=============================================================================
