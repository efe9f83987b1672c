CONSTANTS
  Missing = Missing
  None = None
  bjork = bjork
  portishead = portishead
  beatles = beatles
  trip = trip
  r1 = r1
  r2 = r2
  r3 = r3
  s1 = s1
  s2 = s2
  s3 = s3
  Artists <- MCArtists
  Tags <- MCTags
  Recordings <- MCRecordings
  Seeded <- MCSeeded
  ArtistsOf <- MCArtistsOf
  NameOf <- MCNameOf
  TitleOf <- MCTitleOf
  MbidOf <- MCMbidOf
  Names <- MCNames
  Normal <- MCNormal
  Times <- MCTimes
  Minute <- MCMinute
  Files <- MCFiles
  MinPlayed = 30
  MaxRows = 5
  HeadRows = 3
  MinListens = 2
  ProfileLimit = 2
  MaxInsert = 4
  Saves = {s1, s2, s3}
  MaxPicks = 1
  MaxImports = 2

SPECIFICATION Spec
SYMMETRY Symmetry
CHECK_DEADLOCK FALSE
INVARIANTS PlayCountedOnce PromotedFromPlays StatedIsLastSave SaveFailsForCause
