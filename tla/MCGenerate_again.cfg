\* The same room asks twice.
CHECK_DEADLOCK FALSE
SPECIFICATION Spec
CONSTANTS
  Items <- FiveItems
  Artist <- FiveArtists
  Popularity <- FivePlays
  MaxRoom = 3
  Tastes <- FourTastes
  Histories <- SomeHistories
  Lengths = {3}
  CandidatesPerMember = 1
  PopularityPool = 1
  MinPool = 4
  MaxRuns = 2
  GenresOf <- Genres
  Stated <- SaidAtOnboarding
  MaxClauses = 3
INVARIANT RegenerateIsNew
