--------------------------- MODULE MCStoreForward ---------------------------
(***************************************************************************)
(* Three slots and two packets: the ring wraps in every alignment, fills   *)
(* and empties, and two different packets tell the orders apart.           *)
(***************************************************************************)
EXTENDS StoreForward

CONSTANTS p1, p2

MCPacket == {p1, p2}
=============================================================================
