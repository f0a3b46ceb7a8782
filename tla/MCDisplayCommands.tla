------------------------- MODULE MCDisplayCommands -------------------------
(* Small instances of DisplayCommands for TLC. *)
EXTENDS DisplayCommands
=============================================================================
