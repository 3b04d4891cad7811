SPECIFICATION Spec
CONSTANTS
  Calls = {c1, c2}
  Texts <- MCTexts
  VersionKeep = 2
  MirrorKeep = 1
  MaxSeq = 3
SYMMETRY Alike
INVARIANTS HistoryReadable
CHECK_DEADLOCK FALSE
