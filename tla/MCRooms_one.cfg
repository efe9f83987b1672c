\* One process and the in-process broadcaster, as render.yaml deploys it.
\* Room for the owner and three joiners; an invite is used up before that.
SPECIFICATION Spec
CONSTANTS
  u1 = u1
  u2 = u2
  u3 = u3
  u4 = u4
  u5 = u5
  d1 = d1
  r1 = r1
  demoroom = demoroom
  None = None
  InviteIds = {i1, i2}
  MaxUses = 2
  MaxInFlight = 1
  MaxLost = 1
  Processes = {p1}
  Redis = FALSE
  Users <- OneUsers
  Demo <- OneDemo
  RoomIds <- OneRooms
  DemoRoom = demoroom
  Modes = {consensus, discovery}
  MaxMembers = 4
SYMMETRY OneSymmetry
INVARIANTS
  RoomNeverOverfull
  UsesCountJoins
  EveryoneCameInOnce
  NothingOutlivesItsRoom
  ModeAgrees
  DemoRoomSealed
PROPERTY AccessSpec
