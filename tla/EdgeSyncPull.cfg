\* Two messages about one session, two about another of which one is an orphan,
\* pulls of two, two faults.
SPECIFICATION FairSpec
CONSTANTS
  s1 = s1
  s2 = s2
  None = None
  Messages = {1, 2, 3, 4}
  Sessions <- TwoSessions
  About <- FirstTwoTogether
  Orphans = {4}
  PullLimit = 2
  MaxFaults = 2
INVARIANTS
  NewestAmountsShown
  NoneSkipped
PROPERTIES
  DeliversMessages
  EventuallyAcked
