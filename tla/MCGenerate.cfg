\* Rooms of one to three; pools of every size from none to the catalogue.
\* A room that has asked MaxRuns times asks no more.
CHECK_DEADLOCK FALSE
SPECIFICATION Spec
CONSTANTS
  Items <- FiveItems
  Artist <- FiveArtists
  Popularity <- FivePlays
  MaxRoom = 3
  Tastes <- FourTastes
  Histories <- SomeHistories
  Lengths = {3}
  CandidatesPerMember = 1
  PopularityPool = 1
  MinPool = 4
  MaxRuns = 2
  GenresOf <- Genres
  Stated <- SaidAtOnboarding
  MaxClauses = 3
INVARIANTS
  TypeOK
  PlaylistFills
  NobodyOverruled
  RelaxedOnlyAfterShortage
  NothingHeard
  EmptyMeansAllHeard
  ServedLeast
  ReasonsHold
PROPERTY Answers
