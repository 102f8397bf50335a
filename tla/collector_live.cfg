\* A healthy server: faults, re-runs and --refresh.
SPECIFICATION FairSpec
CONSTANTS
  archive = archive  report = report  other = other
  r0 = r0  r1 = r1  r2 = r2
  casts = casts  deaths = deaths  focus = focus
  v1 = v1  v2 = v2
  None = None
  Reports <- MCReports
  Candidates <- HealthyCandidates
  FightsIn <- MCFightsIn
  ArchivedReports = {archive}
  Runs <- MCRuns
  PartyStreams <- PartyOfTwo
  FocusStreams <- FocusOnly
  FocusAsked = TRUE
  FocusRuns = {r2}
  Streams <- MCStreams
  TypeOf <- HealthyTypeOf
  Cursors <- MCCursors
  NextOf <- MCNextOf
  EmptyAt <- NoCursor
  RepeatAt <- NoCursor
  Start = 0
  Schemes = {v1}
  MayRefresh = TRUE
  MayFail = {"unavailable", "refused", "fatal", "database", "interrupt", "quota", "crash"}
  MaxPages = 3
  MaxJobs = 3
  MaxFaults = 2
PROPERTIES
  Ingested
  ProcessEnds
  EventuallyCollected
\* Processes stop being started at the bound MaxJobs.
CHECK_DEADLOCK FALSE
