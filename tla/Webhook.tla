------------------------------ MODULE Webhook ------------------------------
(***************************************************************************)
(* cloud/lambda/handler.py: one warm instance of the function that Twilio  *)
(* posts SMS to, one event after the other, up to the point where every    *)
(* event that gets there ends: _find_sequence reads bytes 26 and 27 of a   *)
(* plaintext of 25.  What follows it (parse, dedup, insert, commit) is     *)
(* never reached and not modelled; SimApp models the same steps of the     *)
(* server that replaces this function.                                     *)
(***************************************************************************)
EXTENDS Integers

CONSTANTS
    SeqMod,         \* 2^16
    MAX_FP_ITER,    \* 16
    Logged          \* sequence numbers in sequence_log

PAYLOAD_SIZE == 25
NoSeq == -1

SeqNo == 0 .. SeqMod - 1

VARIABLES
    pc,         \* where the handler is
    db_conn,    \* the reused connection: "none", "open", or "aborted" when a
                \* statement failed in its transaction and nobody rolled back
    sms,        \* the ciphertext, as what it decrypts to: number guessed |-> number read
    guess,      \* _find_sequence
    iter,
    answer      \* statusCode of the last event, 0 before, 500 when the handler raised

vars == <<pc, db_conn, sms, guess, iter, answer>>

NoSms == [n \in SeqNo |-> 0]

Init ==
    /\ pc = "idle" /\ db_conn = "none" /\ sms = NoSms
    /\ guess = 0 /\ iter = 0 /\ answer = 0

\* Twilio's signature does not match.
Forbidden ==
    /\ pc = "idle"
    /\ answer' = 403
    /\ UNCHANGED <<pc, db_conn, sms, guess, iter>>

\* A sender not in MSISDN_MAP, or a body that is not 100 hex characters.
Ignored ==
    /\ pc = "idle"
    /\ answer' = 200
    /\ UNCHANGED <<pc, db_conn, sms, guess, iter>>

\* A known node's SMS with reading seq: decrypted under its own number it says
\* seq, under another one anything.
Received(seq, reads) ==
    /\ pc = "idle"
    /\ reads[seq] = seq
    /\ sms' = reads
    /\ pc' = "get_last_seq"
    /\ answer' = 0
    /\ UNCHANGED <<db_conn, guess, iter>>

LastSeq == IF Logged = {} THEN NoSeq ELSE CHOOSE m \in Logged : \A n \in Logged : n <= m

\* The search starts after the last number known, or at 0.
StartSearch(last_seq) ==
    /\ guess' = (last_seq + 1) % SeqMod
    /\ iter' = 0
    /\ pc' = "search"
    /\ UNCHANGED <<sms, answer>>

\* _get_db connects or reuses the connection, _get_last_seq reads the maximum.
GetLastSeq ==
    /\ pc = "get_last_seq"
    /\ db_conn # "aborted"
    /\ db_conn' = "open"
    /\ StartSearch(LastSeq)

\* One of the two failed: the connect (nothing is kept), or the statement, on a
\* connection that closed or that stays in its failed transaction.  The handler
\* forgets it (conn = None) without a rollback, and goes on from -1.
GetLastSeqFails ==
    /\ pc = "get_last_seq"
    /\ db_conn' \in IF db_conn = "aborted" THEN {"aborted", "none"} ELSE {"none", "aborted"}
    /\ StartSearch(NoSeq)

\* A turn of the fixed-point iteration.
Iterate ==
    /\ pc = "search"
    /\ iter < MAX_FP_ITER
    /\ sms[guess] # guess
    /\ guess' = sms[guess]
    /\ iter' = iter + 1
    /\ UNCHANGED <<pc, db_conn, sms, answer>>

\* The plaintext repeats the guess, or the turns are used up and the linear scan
\* begins: the checksum is read from the bytes 26 and 27.
CompareChecksum ==
    /\ pc = "search"
    /\ iter < MAX_FP_ITER => sms[guess] = guess
    /\ 27 \notin 0 .. PAYLOAD_SIZE - 1
    /\ answer' = 500
    /\ pc' = "idle"
    /\ UNCHANGED <<db_conn, sms, guess, iter>>

Next ==
    \/ Forbidden
    \/ Ignored
    \/ \E seq \in SeqNo, reads \in [SeqNo -> SeqNo] : Received(seq, reads)
    \/ GetLastSeq
    \/ GetLastSeqFails
    \/ Iterate
    \/ CompareChecksum

Spec == Init /\ [][Next]_vars

-----------------------------------------------------------------------------
(* What comments say and the code does not do.                             *)

\* "Converges in 1 iteration under normal conditions. ... Returns (seq,
\* plaintext_28) or None" (handler.py:74): the search of a known node's SMS
\* ends with a number or without one, and the event is answered.
SearchReturns == answer # 500

=============================================================================
