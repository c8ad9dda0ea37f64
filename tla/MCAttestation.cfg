CONSTANTS
  said = said
  other = other
  Absent = Absent
  Unread = Unread
  Garbled = Garbled
  MaxPathLength = 8
  CheckableKeys <- Readable
  Keys <- TwoKeys
  Ours = "ours"
  Bodies <- TwoBodies
  Authority <- AuthorityCert
  Anchor <- AnchorCert
  Homemade <- HomemadeCert
  MayNotBeRead <- Listed
  Skew = 1
  MaxMoment = 2
  MaxSeals = 1
  MaxStamps = 2
  MaxChanges = 1
SPECIFICATION Spec
INVARIANTS AcceptedAsSealed SealedIsAccepted AnchorsOnlyRefuse StampedByThen
CHECK_DEADLOCK FALSE
SYMMETRY Symmetry
