------------------------------- MODULE AesCtr -------------------------------
(***************************************************************************)
(* lib/aes_ctr.c: AES-128 in counter mode, and the nonce of its callers.   *)
(* A byte is the set of the weights of its one bits, so exclusive or is    *)
(* SymDiff; a block is a sequence of 16 bytes, column by column: state[r][c]*)
(* is at 4 * c + r + 1.                                                    *)
(***************************************************************************)
EXTENDS Integers, Sequences, FiniteSetsExt

Byte == SUBSET (0 .. 7)

PowersOfTwo == <<1, 2, 4, 8, 16, 32, 64, 128>>

\* The low byte of a number, and a byte as a number.
Weights(n) == {w \in 0 .. 7 : (n \div PowersOfTwo[w + 1]) % 2 = 1}
Number(b) == SumSet({PowersOfTwo[w + 1] : w \in b})

Xor(a, b) == SymDiff(a, b)

\* A sum of more than two: the bits that are in an odd number of the bytes.
XorAll(bytes) ==
    {w \in 0 .. 7 : Cardinality({i \in DOMAIN bytes : w \in bytes[i]}) % 2 = 1}

sboxTable ==
  <<\h63,\h7c,\h77,\h7b,\hf2,\h6b,\h6f,\hc5,\h30,\h01,\h67,\h2b,\hfe,\hd7,\hab,\h76,
    \hca,\h82,\hc9,\h7d,\hfa,\h59,\h47,\hf0,\had,\hd4,\ha2,\haf,\h9c,\ha4,\h72,\hc0,
    \hb7,\hfd,\h93,\h26,\h36,\h3f,\hf7,\hcc,\h34,\ha5,\he5,\hf1,\h71,\hd8,\h31,\h15,
    \h04,\hc7,\h23,\hc3,\h18,\h96,\h05,\h9a,\h07,\h12,\h80,\he2,\heb,\h27,\hb2,\h75,
    \h09,\h83,\h2c,\h1a,\h1b,\h6e,\h5a,\ha0,\h52,\h3b,\hd6,\hb3,\h29,\he3,\h2f,\h84,
    \h53,\hd1,\h00,\hed,\h20,\hfc,\hb1,\h5b,\h6a,\hcb,\hbe,\h39,\h4a,\h4c,\h58,\hcf,
    \hd0,\hef,\haa,\hfb,\h43,\h4d,\h33,\h85,\h45,\hf9,\h02,\h7f,\h50,\h3c,\h9f,\ha8,
    \h51,\ha3,\h40,\h8f,\h92,\h9d,\h38,\hf5,\hbc,\hb6,\hda,\h21,\h10,\hff,\hf3,\hd2,
    \hcd,\h0c,\h13,\hec,\h5f,\h97,\h44,\h17,\hc4,\ha7,\h7e,\h3d,\h64,\h5d,\h19,\h73,
    \h60,\h81,\h4f,\hdc,\h22,\h2a,\h90,\h88,\h46,\hee,\hb8,\h14,\hde,\h5e,\h0b,\hdb,
    \he0,\h32,\h3a,\h0a,\h49,\h06,\h24,\h5c,\hc2,\hd3,\hac,\h62,\h91,\h95,\he4,\h79,
    \he7,\hc8,\h37,\h6d,\h8d,\hd5,\h4e,\ha9,\h6c,\h56,\hf4,\hea,\h65,\h7a,\hae,\h08,
    \hba,\h78,\h25,\h2e,\h1c,\ha6,\hb4,\hc6,\he8,\hdd,\h74,\h1f,\h4b,\hbd,\h8b,\h8a,
    \h70,\h3e,\hb5,\h66,\h48,\h03,\hf6,\h0e,\h61,\h35,\h57,\hb9,\h86,\hc1,\h1d,\h9e,
    \he1,\hf8,\h98,\h11,\h69,\hd9,\h8e,\h94,\h9b,\h1e,\h87,\he9,\hce,\h55,\h28,\hdf,
    \h8c,\ha1,\h89,\h0d,\hbf,\he6,\h42,\h68,\h41,\h99,\h2d,\h0f,\hb0,\h54,\hbb,\h16>>

sbox == [b \in Byte |-> Weights(sboxTable[1 + Number(b)])]

rcon == <<\h01, \h02, \h04, \h08, \h10, \h20, \h40, \h80, \h1b, \h36>>

xtime(x) == Xor({w + 1 : w \in x \ {7}}, IF 7 \in x THEN Weights(\h1b) ELSE {})

-----------------------------------------------------------------------------

\* Word i (from 0) of the schedule, after the words before it.
NextWord(words, i) ==
    LET temp == words[i]
        old == words[i - 3]
        mixed == IF i % 4 = 0
                 THEN <<Xor(sbox[temp[2]], Weights(rcon[i \div 4])),
                        sbox[temp[3]], sbox[temp[4]], sbox[temp[1]]>>
                 ELSE temp
    IN <<Xor(old[1], mixed[1]), Xor(old[2], mixed[2]),
         Xor(old[3], mixed[3]), Xor(old[4], mixed[4])>>

\* The 176 bytes of round_key.
KeyExpansion(key) ==
    LET words[n \in 4 .. 44] ==
            IF n = 4
            THEN <<SubSeq(key, 1, 4), SubSeq(key, 5, 8), SubSeq(key, 9, 12), SubSeq(key, 13, 16)>>
            ELSE LET before == words[n - 1] IN Append(before, NextWord(before, n - 1))
        all == words[44]
    IN [n \in 1 .. 176 |-> all[1 + (n - 1) \div 4][1 + ((n - 1) % 4)]]

AddRoundKey(s, round_key, round) == [i \in 1 .. 16 |-> Xor(s[i], round_key[16 * round + i])]

SubBytes(s) == [i \in 1 .. 16 |-> sbox[s[i]]]

\* Mutant of ShiftRows: the third row is left alone.
ShiftRowsTwo(s) ==
    <<s[1], s[6], s[3], s[16],  s[5], s[10], s[7], s[4],
      s[9], s[14], s[11], s[8],  s[13], s[2], s[15], s[12]>>

\* Where the assignments of shift_rows take each byte from.
ShiftRows(s) ==
    <<s[1], s[6], s[11], s[16],  s[5], s[10], s[15], s[4],
      s[9], s[14], s[3], s[8],   s[13], s[2], s[7], s[12]>>

MixColumn(s, c) ==
    LET s0 == s[4 * c + 1]  s1 == s[4 * c + 2]  s2 == s[4 * c + 3]  s3 == s[4 * c + 4]
    IN <<XorAll(<<xtime(s0), xtime(s1), s1, s2, s3>>), XorAll(<<s0, xtime(s1), xtime(s2), s2, s3>>),
         XorAll(<<s0, s1, xtime(s2), xtime(s3), s3>>), XorAll(<<xtime(s0), s0, s1, s2, xtime(s3)>>)>>

MixColumns(s) == MixColumn(s, 0) \o MixColumn(s, 1) \o MixColumn(s, 2) \o MixColumn(s, 3)

EncryptBlock(round_key, in) ==
    LET after[round \in 0 .. 10] ==
            CASE round = 0  -> AddRoundKey(in, round_key, 0)
              [] round = 10 -> AddRoundKey(ShiftRows(SubBytes(after[9])), round_key, 10)
              [] OTHER ->
                    AddRoundKey(MixColumns(ShiftRows(SubBytes(after[round - 1]))), round_key, round)
    IN after[10]

-----------------------------------------------------------------------------

\* ++counter[i]: the low ones turn to zeros, the bit above them to one.
PlusOne(b) ==
    LET ones == {w \in 0 .. 7 : 0 .. w \subseteq b}
    IN (b \ ones) \cup ({Cardinality(ones)} \cap (0 .. 7))

\* Mutant of NextCounter: the counter stays.
NextCounterStuck(counter) == counter

\* From byte 15 down, as long as the byte becomes zero.
NextCounter(counter) ==
    LET wraps == {i \in 1 .. 16 : \A j \in i .. 16 : counter[j] = 0 .. 7}
    IN [i \in 1 .. 16 |-> IF i = 16 \/ i + 1 \in wraps THEN PlusOne(counter[i]) ELSE counter[i]]

\* The counter of each 16-byte block of len bytes.
Counters(nonce, len) ==
    LET counter[k \in 0 .. (len - 1) \div 16] ==
            IF k = 0 THEN nonce ELSE NextCounter(counter[k - 1])
    IN counter

\* The blocks of keystream for len bytes, end to end.
Keystream(round_key, nonce, len) ==
    LET counter == Counters(nonce, len)
        stream[k \in 0 .. (len - 1) \div 16] ==
            (IF k = 0 THEN <<>> ELSE stream[k - 1]) \o EncryptBlock(round_key, counter[k])
    IN stream[(len - 1) \div 16]

\* What aes_ctr_crypt leaves in output, once initialized.
Crypt(round_key, nonce, input) ==
    LET stream == Keystream(round_key, nonce, Len(input))
    IN [i \in 1 .. Len(input) |-> Xor(input[i], stream[i])]

\* Mutant of MakeNonce: the two bytes of the number are swapped.
MakeNonceSwapped(device_id, seq) ==
    [i \in 1 .. 16 |-> CASE i = 1 -> Weights(device_id)
                         [] i = 2 -> Weights(seq)
                         [] i = 3 -> Weights(seq \div 256)
                         [] OTHER -> {}]

\* hal_crypto_make_nonce: the device, the number's high and low byte, zeros.
MakeNonce(device_id, seq) ==
    [i \in 1 .. 16 |-> CASE i = 1 -> Weights(device_id)
                         [] i = 2 -> Weights(seq \div 256)
                         [] i = 3 -> Weights(seq)
                         [] OTHER -> {}]

=============================================================================
