----------------------------- MODULE MCGateway -----------------------------
(***************************************************************************)
(* One gateway (gateways share nothing in this module), two frames, and    *)
(* four cycles against two slots, so that a slave fills its store and      *)
(* drops frames while a master never does.                                 *)
(***************************************************************************)
EXTENDS Gateway

CONSTANTS g1, f1, f2

MCGateways == {g1}
MCFrame == {f1, f2}
=============================================================================
