SPECIFICATION Spec
CONSTANTS
  Sessions <- TwoSessions
  WithSub = {"a"}
  Declared <- OneName
  MaxLines = 3
  MaxMoment = 2
  MaxScanned = 2
  MaxScans = 2
  Untimed = FALSE
INVARIANTS EveryCallIsToldOnce HolesCiteTheirEvent ScanIsWhole
PROPERTIES ReadingsAgree
CHECK_DEADLOCK FALSE
