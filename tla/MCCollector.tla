---------------------------- MODULE MCCollector ----------------------------
(***************************************************************************)
(* A collector with the serial bridge on its console.  Two values,         *)
(* sequence numbers 0..3 and two flash slots: the number wraps after the   *)
(* flash is full, and the loops (2, 1) are out of step with both.  Two     *)
(* damages are enough to lose a number and keep a stale one over the wrap  *)
(* or a reset.                                                             *)
(***************************************************************************)
EXTENDS HwBridge

CONSTANTS d1, d2

MCData == {d1, d2}
MCLoops == <<2, 1>>
=============================================================================
