CONSTANTS
  p1 = p1
  p2 = p2
  p3 = p3
  Posts <- ThreePosts
  PostKinds <- MostKinds
  AgentWaits = TRUE
SPECIFICATION FairSpec
INVARIANTS AnsweredIsRecorded RefusalIsDeclared CompleteSession
PROPERTIES EveryPostEnds
CHECK_DEADLOCK FALSE
