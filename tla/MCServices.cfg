SPECIFICATION Spec
CONSTANTS
  Movies = {1, 2, 3}
  Franchise <- MCFranchise
  MaxAged = 1
  MaxLibraryChanges = 2
  MaxCommands = 2
  MaxMpvEvents = 1
  MaxAttempts = 1
  Threads = {one, two}
  one = one
  two = two
  Resolvers = {one, two}
  Slots = 1
  ProviderRows <- ProviderList
  ProviderPageSize = 2
  Limits = {3}
  MaxResolves = 2
  MaxKeyCalls = 1
  CalendarClients = {one, two}
  MaxListings = 1
  MaxInterruptions = 1
  JellyfinUsers = {one, two}
  SeerrClients = {one, two}
  UserPageSize = 1
  MaxDirectoryChanges = 1
  MaxSeerrFaults = 1
  MaxOutages = 1
  MaxSessions = 2
  MaxRequests = 2
  MaxCycleFaults = 2
  Titles = {0, 1}
  IdentityPageSize = 1
  MaxIdentityPages = 2
  MaxServerChanges = 2
  MaxWalkFaults = 1
  Libraries = {"l1", "l2"}
INVARIANTS TypesOK WorkerRemembers
PROPERTIES FranchisesAreShown ConnectionIsSound ResolvesAreSound CalendarFollows  WorkerServes MembershipFollows
CHECK_DEADLOCK FALSE
