\* Wedged pages, the page ceiling, twin streams and every kind of fault.
SPECIFICATION Spec
CONSTANTS
  archive = archive  report = report  other = other
  r0 = r0  r1 = r1  r2 = r2
  casts = casts  deaths = deaths  focus = focus
  v1 = v1  v2 = v2
  None = None
  Reports <- MCReports
  Candidates <- FaultyCandidates
  FightsIn <- MCFightsIn
  ArchivedReports = {archive}
  Runs <- MCRuns
  PartyStreams <- PartyOfTwo
  FocusStreams <- FocusOnly
  FocusAsked = TRUE
  FocusRuns = {r2}
  Streams <- MCStreams
  TypeOf <- FaultyTypeOf
  Cursors <- MCCursors
  NextOf <- MCNextOf
  EmptyAt <- NoCursor
  RepeatAt <- FaultyRepeatAt
  Start = 0
  Schemes = {v1, v2}
  MayRefresh = FALSE
  MayFail = {"unavailable", "refused", "fatal", "database", "interrupt", "quota", "crash"}
  MaxPages = 2
  MaxJobs = 4
  MaxFaults = 2
INVARIANTS
  TypeOK
  CheckpointMatchesEvents
  StoredIsPrefix
  OkMeansExhausted
  CompleteMeansExhausted
  OneIdentityScheme
  JobRowAddsUp
PROPERTIES
  PagesNeverLost
\* Processes stop being started at the bound MaxJobs.
CHECK_DEADLOCK FALSE
