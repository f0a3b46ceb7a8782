\* Two requests of an operator, the panel switched off or on again, the text written by
\* hand or published anew; two reports at a time; one fault.
SPECIFICATION FairSpec
CONSTANTS
  MaxRequests = 2
  MaxFaults = 1
  Asks = {"OFF", "MANUAL", "PUBLISH"}
  JobLimit = 10
  Posts = {1, 2}
INVARIANTS
  PanelShowsNewest
  LastSentIsShown
  BoardsAgree
  CloudAgrees
PROPERTIES
  CommandsAnswered
  MessagesLeave
CHECK_DEADLOCK FALSE
