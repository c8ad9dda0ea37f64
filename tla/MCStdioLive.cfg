CONSTANTS
  i1 = i1
  i2 = i2
  s1 = s1
  AgentIds <- TwoIds
  AgentKinds <- OtherKinds
  ServerKinds <- AllLines
  ServerIds <- OwnIds
  Chatty = FALSE
  MaxSaid = 1
  MaxLaunches = 2
SPECIFICATION FairSpec
PROPERTIES EveryWaitEnds SessionEnds
CHECK_DEADLOCK FALSE
