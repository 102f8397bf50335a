\* Every readable log of up to five events, both cursor rules, two interruptions.
SPECIFICATION FairSpec
CONSTANTS
  Times = {1, 2, 3}
  Bodies = {"tick", "hit"}
  Servers <- ReadableServers
  Start = 0
  MaxPages = 4
  MaxStops = 2
  MaxLog = 5
  None = None
INVARIANTS
  DoneIsWhole
  CheckpointRemembers
PROPERTIES
  Delivered
  EventuallyDone
  AlwaysEnds
\* The iteration ends.
CHECK_DEADLOCK FALSE
