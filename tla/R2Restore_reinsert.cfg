SPECIFICATION Spec
CONSTANTS
  Calls = {c1, c2}
  whole = whole
  empty = empty
  Backups = {whole, empty}
  Rows <- MCRows
  Own = {own}
  Limit = 1
  Offsets = {0}
  Null = Null
PROPERTIES CompletedNeverReinserts
