SPECIFICATION MCSpec
CONSTANTS
  Accounts = {a1, a2}
  Threads = {t1, t2}
  None = None
  MaxTokens = 3
  MaxGen = 3
  EpisodeIds = {"e1"}
  GenreNames = {g}
  MaxWrites = 3
  Episodes = {1, 2}
  Readers = {r1, r2}
  ChildrenPageSize = 1
  MaxServerChanges = 1
  MaxPageSignIns = 2
  MaxPageFaults = 1
  GridRows = {1, 2, 3}
  CastLimit = 2
  CrewLimit = 2
  JobLimit = 1
  MaxPeople = 4
SYMMETRY Symmetry
INVARIANTS TypeOK CacheIsTheAccounts ExpiredByItsOwnToken RestartKeepsTheAccount PagesAreSound
PROPERTIES AnswersReachTheirSignIn DeletionFreezesCache RowsAreSound PagesWriteWhatWasSaid
CHECK_DEADLOCK FALSE
