\* Connected, at rest and with every bound used up is the end.
CHECK_DEADLOCK FALSE
SPECIFICATION Spec
SYMMETRY Fetches
CONSTANTS
  Transports = {"in-process", "redis"}
  Clicks = {1}
  Gets = {g1, g2}
  MaxLists = 2
  MaxVotes = 2
  MaxActs = 3
  MaxFaults = 1
INVARIANTS
  CurrentAtRest
  OwnVoteCounts
PROPERTIES
  NeverBackwards
