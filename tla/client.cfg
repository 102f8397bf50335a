\* Three ticks to a window of three points, two attempts, holds beyond the backoff.
SPECIFICATION FairSpec
CONSTANTS
  Kinds = {"events"}
  Documents = {"before", "after"}
  Limit = 3
  Window = 3
  Reserve = 2
  DefaultWait = 1
  MaxRetries = 2
  MaxBackoff = 1
  HoldCap = 1
  Holds <- MCHolds
  Lifetime = 3
  Margin = 2
  Transit = 1
  None = None
INVARIANTS
  TypeOK
  AnswersTheQuestion
PROPERTIES
  RetryAfterHonoured
  BudgetWaitHonoured
  NoTokenRunsOut
  EveryCallEnds
