------------------------------ MODULE MCSimApp ------------------------------
(***************************************************************************)
(* Two requests over two sequence numbers: a reading and its resend, a     *)
(* forced resend, an SMS and a GET, one after the other or overlapping.    *)
(***************************************************************************)
EXTENDS SimApp

CONSTANTS r1, r2

TwoRequests == {r1, r2}

TwoNumbers == {0, 1}

AllKinds == {"ingest", "forced", "sms", "read"}
Readings == {"ingest", "forced"}
=============================================================================
