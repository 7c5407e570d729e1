------------------------------ MODULE MCField ------------------------------
(***************************************************************************)
(* One collector taking two readings and two gateways of two cycles each,  *)
(* in every mix of roles, with a reset of the collector and one gateway    *)
(* fault.  Sequence numbers do not wrap here, so a reading of one boot is  *)
(* told by its number; Collector checks the wrap.                          *)
(***************************************************************************)
EXTENDS Field

CONSTANTS d1, g1, g2

MCOneValue == {d1}
MCLoops == <<1>>
MCGateways == {g1, g2}
=============================================================================
