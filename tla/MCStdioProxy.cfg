CONSTANTS
  i1 = i1
  i2 = i2
  s1 = s1
  AgentIds <- TwoIds
  AgentKinds <- SoundKinds
  ServerKinds <- AllLines
  ServerIds <- OwnIds
  Chatty = TRUE
  MaxSaid = 2
  MaxLaunches = 1
SPECIFICATION Spec
INVARIANTS CompleteCapture UnansweredIsDeclared SettledByOwnAnswer AgentReadsTheServer
PROPERTIES ImplementsCapture
CHECK_DEADLOCK FALSE
