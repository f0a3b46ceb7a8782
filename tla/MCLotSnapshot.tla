---------------------------- MODULE MCLotSnapshot ----------------------------
(***************************************************************************)
(* Instances of LotSnapshot for TLC.                                       *)
(***************************************************************************)
EXTENDS LotSnapshot

CONSTANTS cA, cB, cC

TwoSpaces == <<cA, cB>>
TwoModes  == {"SENSOR", "MANUAL"}
=============================================================================
