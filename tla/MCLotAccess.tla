---------------------------- MODULE MCLotAccess ----------------------------
(* Small instances of LotAccess for TLC. *)
EXTENDS LotAccess, TLC

CONSTANTS c1, c2

TwoCalls == {c1, c2}

SlotsAreAlike == Permutations(Slots)
=============================================================================
