----------------------------- MODULE MCBridge -----------------------------
(* A small instance of Bridge: the queue and the gateway's pipe both fill,
   and the gateway stops listening before the collector stops sending. *)
EXTENDS Bridge
=============================================================================
