\* Two requests that may overlap, two sessions, one fault.
SPECIFICATION Spec
CONSTANTS
  h1 = h1
  h2 = h2
  h3 = h3
  Handlers <- TwoHandlers
  MaxSessions = 2
  MaxFaults = 1
  None = None
SYMMETRY HandlerSymmetry
INVARIANTS
  ActiveWithinPeak
  ExitReportedOnce
  EntryReportOwed
  SpaceShowsSessions
  ExitedIsNotActive
