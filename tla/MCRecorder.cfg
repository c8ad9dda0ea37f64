CONSTANTS
  t1 = t1
  t2 = t2
  a = a
  b = b
  NoThread = NoThread
  Threads <- MCThreads
  Ids <- MCIds
  Bare <- MCBare
  Answers <- MCAnswers
  MaxEvents = 2
  MaxExtras = 1
  MaxLosses = 1
SPECIFICATION FairSpec
INVARIANTS CompleteVouches RowsNameTheirCall
PROPERTIES LockIsReleased
CHECK_DEADLOCK FALSE
