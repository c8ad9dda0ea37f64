CONSTANTS
  alpha = alpha
  zeta = zeta
  c1 = c1
  c2 = c2
  Names <- OneName
  Configs <- OneStdio
  CallIds <- TwoCalls
  MaxRuns = 2
  MaxMoment = 1
SPECIFICATION Spec
INVARIANTS PublishedIsThisRun
CHECK_DEADLOCK FALSE
