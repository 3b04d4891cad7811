SPECIFICATION FairSpec
CONSTANTS
  Statements = {1, 2, 3, 4, 5, 6, 7, 8, 9, 10}
  Allocations = {root, final, text, section, g, s, inner}
  Root = root
  Final = final
  Fts = text
  Section = section
  Passes = {g, s}
  Inner = inner
  ReleaseReserve = 2
  Work = 2
  SectionSize = 3
  SectionMin = 2
  FtsSize = 2
  FtsMin = 1
  Workspaces = {0, 1}
  NoSlice = NoSlice
  Calls = {c1, c2}
  Disconnects = {dc}
  MaxRevisions = 3
  Rowids = {1, 2}
  Contents = {a}
  Absent = Absent
  Page = 2
  Window = 1
  IndexFaults = 1
  Runs = {r1}
  RingWorkspaces = {1, 2}
  Devices = {1}
  Width = 2
  Fetches = 1
  MaxFails = 2
  MaxMoves = 1
  RingFaults = 1
  Uploads = {u1}
  Unfenced = {}
  Passages = {}
  Forgets = {f}
  Deprecations = {}
  Drains = {d}
  OutboxFaults = 2
  MaxQueue = 2
  MaxRequests = 2
  None = None
INVARIANTS AllTypeOK LimitKept PromisesAffordable NothingStranded TokenSentOnce NewestPrevails
PROPERTIES TurnsComeRound RefreshSettles ComesBack EveryoneReached IndexConverges
CHECK_DEADLOCK FALSE
