\* A timestamp that holds as many events as a page.
SPECIFICATION Spec
CONSTANTS
  Times = {1, 2, 3}
  Bodies = {"tick", "hit"}
  Servers <- CrowdedServers
  Start = 0
  MaxPages = 5
  MaxStops = 0
  MaxLog = 4
  None = None
INVARIANT
  EmittedOnce
\* The iteration ends.
CHECK_DEADLOCK FALSE
