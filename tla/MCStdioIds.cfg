CONSTANTS
  i1 = i1
  i2 = i2
  s1 = s1
  AgentIds <- TwoIds
  AgentKinds <- CallsOnly
  ServerKinds <- AnswersAndRequests
  ServerIds <- SharedIds
  Chatty = FALSE
  MaxSaid = 2
  MaxLaunches = 1
SPECIFICATION Spec
INVARIANTS SettledByOwnAnswer
CHECK_DEADLOCK FALSE
