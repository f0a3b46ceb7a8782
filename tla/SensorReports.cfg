\* Three uplinks of a free, a taken, a taken but obstructed space or of a sensor that
\* does not know, two at a time, two faults.
SPECIFICATION Spec
CONSTANTS
  Codes = {"ExitNormal", "EntryNormal", "EntryObstacleError", "Unknown"}
  MaxUplinks = 3
  MaxBusy = 2
  MaxFaults = 2
INVARIANTS
  SpaceFollowsSensor
  
  CloudIsTold
CHECK_DEADLOCK FALSE
