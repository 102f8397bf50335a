\* Three runs that dedupe takes for one, collected, classified and read in any order.
SPECIFICATION Spec
CONSTANTS
  Runs = {1, 2, 3}
  Upload <- MCUpload
  NumStreams = 1
  Pages = 1
  Tolerance = 5
  MaxVisits = 4
  MaxResets = 1
  Plans <- MCPlans
  None = None
CONSTRAINT
  Bounded
INVARIANTS
  TypeOK
  CountedOnce
  Represented
  CurrentMeansExamined
  VerifySound
  ZeroIsReal
