-------------------------- MODULE MCSensorReports --------------------------
(* Small instances of SensorReports for TLC. *)
EXTENDS SensorReports
=============================================================================
