SPECIFICATION AllSpec
CONSTANTS
  Requests = {o1, o2}
  Ids = {x, y}
  Workspaces = {mine, team}
  MaxLives = 2
  MaxNonces = 2
  Operations = {o1, o2}
  Keys = {1, 2}
  Rows = {1, 2}
  Generations = {0, 1}
  PageSize = 1
  None = None
  Texts <- MCTexts
  VersionKeep = 2
  MirrorKeep = 1
  MaxSeq = 3
  Pages = 2
  MaxVersion = 1
  Cutover = Cutover
  Nothing = Nothing
  Attempts = {o1, o2}
  Names = {x, y}
SYMMETRY Alike
INVARIANTS AllTypeOK OnePlace HistoryIsTheMemorys NothingBehindPurge RecreatedOnce SnapshotIsOneState PublishedRestorable
PROPERTIES OnlyWhatWasRead NoRowWhileDraining HistoryIsTrue
CHECK_DEADLOCK FALSE
