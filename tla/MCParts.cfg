SPECIFICATION Spec
CONSTANTS
  Accounts = {a1, a2}
  None = None
  MaxStepFaults = 1
  MaxStarts = 1
  MaxScopes = 1
  MaxSaves = 4
  MaxDamages = 2
  CrashInRecovery = FALSE
  Profiles = {p1, p2}
  MaxRevision = 3
  MaxCommitFaults = 1
  RatingKeys = {k1, k2, k3}
  MaxEntries = 2
  Savers = {s1, s2}
  MaxUpserts = 3
  MaxWriteFaults = 2
  MaxGenerations = 2
  MaxItemChanges = 3
  MaxLosses = 2
  Statuses = {2, 3}
  TitleSeasons = {1, 2}
  CreditIds = {1, 2}
  MaxCredits = 3
  RatedTitles = {t1, t2}
  Batches = {b1, b2}
  Refreshers = {r1, r2}
  Keys = {"k1"}
  FreshAge = 1
  MaxRatingsTime = 2
  MaxBatches = 2
  MaxAdminCalls = 1
  SkipFiles = {1, 2}
  FileSegments <- MCFileSegments
  StartOf <- MCStartOf
  EndOfFile = 3
  AutoSkipDelay = 2
  MaxSkipTime = 3
  MaxModeChanges = 1
  MaxPlayerEvents = 4
  MaxStops = 2
  MaxSignIns = 1
  InstallRequests = {1, 2, 3}
  MaxDownloads = 2
  MaxInstallCrashes = 1
  ShellThreads = {"ui", "early"}
  uiThread = "ui"
  WindowBounds = {1, 2}
  MaxOpenFaults = 1
  MaxCloseRequests = 1
  MaxSettingChanges = 1
  Current = 23
  LegacyRows = {1, 2}
  MaxFileCrashes = 2
  MaxFileFaults = 1
  Playbacks = {1, 2, 3}
  Silent = {1}
  MaxQueue = 0
  MaxFaults = 0
  MaxTimeouts = 0
  SourceLists <- MCSourceLists
  Viewings <- MCViewings
  Explicits <- MCExplicits
  MaxReplacements = 1
  MaxPlays = 1
  MaxStartFaults = 1
  Patchers = {"page", "shell"}
  installThread = "shell"
  MpvPaths = {"mpv1", "mpv2"}
  Bindings <- MCBindings
  MaxPatches = 2
  MaxPlayerStarts = 1
  MaxSaveFaults = 1
  BuiltIns <- MCBuiltIns
  Genres <- MCGenres
  PreferredGenres <- MCPreferred
  FreshGenres = 1
  HomeLibraries = {"l1", "l2"}
  Registries <- MCRegistries
  Unregistered = Unregistered
  HomeCollections = {"c1"}
  Unsaved = Unsaved
  MaxHomeSaves = 1
  MaxHomeChanges = 3
  Members = {"alice", "bob"}
  MaxConnected = 1
  FeedTtl = 1
  MaxFeedAge = 3
  ProfileCallers = {c1, c2}
  ReviewReaders = {r1, r2}
  MaxReviewCalls = 3
  Entries = 3
  MaxReviewTime = 3
  CachedItems = {i1, i2}
  ItemRows <- MCItemRows
  TmdbOf <- MCTmdbOf
  ProviderLists <- MCProviderLists
  FranchiseParts <- MCFranchiseParts
  MaxAsked = 1
  CardPages <- MCCardPages
  TitleOf <- MCTitleOf
  ScaleMax <- MCScaleMax
  NoNumber = NoNumber
  RatingBatches = {b1, b2}
  FreshRatings = 1
  ExpireRatings = 2
  MaxRatingBatches = 2
  MaxCardTime = 2
  MaxRatingSessions = 1
  Callers = {c1, c2}
  Users = {"u1", "u2"}
  NoUser = "nobody"
  Installed <- MCInstalled
  MaxLogins = 2
INVARIANTS TypesOK   TitlesAreTrue 
PROPERTIES  DocumentIsSafe FilesAreSafe RatingsAreShared ReportsFollowMpv PlaybackIsFollowed 
CHECK_DEADLOCK FALSE
