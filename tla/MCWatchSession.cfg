CONSTANTS
  alpha = alpha
  zeta = zeta
  c1 = c1
  c2 = c2
  Names <- MCNames
  Configs <- Mixed
  CallIds <- TwoCalls
  MaxRuns = 2
  MaxMoment = 2
SPECIFICATION Spec
INVARIANTS PublishedIsThisRun CompleteIsWhole OrderIsObserved
CHECK_DEADLOCK FALSE
