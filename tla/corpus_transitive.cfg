\* Two fights of one report, and a third run that matches both.
SPECIFICATION Spec
CONSTANTS
  Runs = {1, 2, 3}
  Upload <- MCUpload
  NumStreams = 1
  Pages = 1
  Tolerance = 5
  MaxVisits = 4
  MaxResets = 0
  Plans <- MCPlans
  None = None
INVARIANT
  FightsKeptApart
