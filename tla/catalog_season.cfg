CONSTANTS
  Scenarios = {"catalog"}
  NoZone = NoZone
  NoReport = NoReport
  Preferred <- MCPreferred
  Risky <- MCRisky
  Within <- MCWithin
  CoreTypes <- MCCoreTypes
  Wanted <- MCWanted
  EventTypes <- MCEventTypes
  Categories <- MCCategories
  Profiles <- MCProfiles
  Critical <- MCCritical
  Worlds <- MCWorlds
  MaxFaults = 2
  Seasons <- MCSeasons
  Lineup <- MCLineup
  Listed <- MCListed
  DisplayName <- MCDisplayName
  Aliases <- MCAliases
  SeasonTitle = SeasonTitle
  OtherZones <- MCOtherZones
  Requests <- MCRequests
  NoOverlay = NoOverlay
  NoAnswer = NoAnswer
  Openers <- MCOpeners
  Expected <- MCExpected
  Numbered <- MCNumbered
  Statements <- MCStatements
  Servers <- MCServers
  Focus = "me"
  NoActor = NoActor
  PageLimit = 1
  MaxPages = 3
  Reports = 2
  NotMeasured = NotMeasured
  PullSets <- MCPullSets
  Moments <- MCMoments
  MaxEvents = 2
  NoId = NoId
  NoPull = NoPull
  NoTime = NoTime
  NotFetched = NotFetched
  InitialList <- MCInitialList
  Uploads <- MCUploads
  PageSize = 2
  Limits <- MCLimits
  Forever = Forever
  RunIds = {"r1", "r2"}
  RunRows <- MCRunRows
  Filters = {"halls", "spire"}
  AnyDungeon = AnyDungeon
  NoFocus = NoFocus
  NoValidation = NoValidation
SPECIFICATION Spec
INVARIANT RediscoveryRight
CHECK_DEADLOCK FALSE
