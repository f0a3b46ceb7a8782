--------------------------- MODULE MCSpaceSession ---------------------------
(* Small instances of SpaceSession for TLC. *)
EXTENDS SpaceSession, TLC

CONSTANTS h1, h2, h3

OneHandler    == {h1}
TwoHandlers   == {h1, h2}
ThreeHandlers == {h1, h2, h3}
HandlerSymmetry == Permutations(Handlers)
=============================================================================
