CONSTANTS
  MaxPathLength = 3
  CheckableKeys <- Readable
  Certs <- AllCerts
  Leaves <- AllLeaves
  Moments <- BothMoments
  MaxPool = 2
  MaxAnchors = 2
SPECIFICATION Spec
INVARIANTS TrustedHasAPath PathIsFound
CHECK_DEADLOCK FALSE
