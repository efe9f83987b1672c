CONSTANTS
  Normal <- MCNormal
  Dumps <- MCDumps
  ArtistDump <- MCArtistDump
  Charts <- MCCharts
  CreditsOf <- MCCreditsOf
  NamesOf <- MCNamesOf
  NameOfArtist <- MCNameOfArtist
  GenresOf <- MCGenresOf
  PerUserCap = 4
  MinUserListens = 2
  MinItemListens = 2
  MaxUsers = 2
  MaxPerArtist = 1
  MinListeners = 2
  MinHistory = 2
  MaxHistories = 2
  MaxRuns = 4
  MaxResets = 1
  MaxPlaylists = 1

CHECK_DEADLOCK FALSE
SPECIFICATION Spec
INVARIANTS CatalogueWhole PlaylistsHold
PROPERTY LibrarySpec
