\* Signed out with every bound used up is the end.
CHECK_DEADLOCK FALSE
SPECIFICATION Spec
CONSTRAINT FirstUser
CONSTANTS
  Users = {"u1", "u2"}
  Tabs = {"t1", "t2"}
  None = None
  Calls = {"c1", "c2", "c3"}
  TabOf <- CallTabs
  MaxPairs = 3
  MaxRare = 1
INVARIANTS
  SpentStaysSpent
  RefusedForCause
  ShownUserHoldsPair
PROPERTIES
  RefreshEnds
