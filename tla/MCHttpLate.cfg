CONSTANTS
  p1 = p1
  p2 = p2
  p3 = p3
  Posts <- TwoPosts
  PostKinds <- JustCalls
  AgentWaits = FALSE
SPECIFICATION Spec
INVARIANTS CompleteSession
CHECK_DEADLOCK FALSE
