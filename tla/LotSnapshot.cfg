\* Two administrators, a lot of two spaces, a code to spare, one fault.
SPECIFICATION LotSpec
CONSTANTS
  cA = cA
  cB = cB
  cC = cC
  Nothing = Nothing
  Admins = {"first", "second"}
  Codes = {cA, cB, cC}
  Modes <- TwoModes
  AtFirst <- TwoSpaces
  MaxSpaces = 3
  MaxChanges = 3
  MaxLotFaults = 1

  
  
PROPERTIES
  SnapshotsLeave
CHECK_DEADLOCK FALSE
