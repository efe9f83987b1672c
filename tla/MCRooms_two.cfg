\* Two processes over Redis: what still holds.
\* The model stops once its only room id has been deleted.
CHECK_DEADLOCK FALSE
SPECIFICATION Spec
CONSTANTS
  u1 = u1
  u2 = u2
  u3 = u3
  u4 = u4
  u5 = u5
  d1 = d1
  r1 = r1
  demoroom = demoroom
  None = None
  InviteIds = {i1, i2}
  MaxUses = 2
  MaxInFlight = 1
  MaxLost = 2
  Processes = {p1, p2}
  Redis = TRUE
  Users <- TwoUsers
  Demo = {}
  RoomIds <- TwoRooms
  DemoRoom = None
  MaxMembers = 2
SYMMETRY TwoSymmetry
CONSTANT Modes = {consensus}
INVARIANTS
  OverflowBounded
  UsesNeverOvercounted
  JoinsAnnounced
