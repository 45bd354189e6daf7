CONSTANTS
  Attempts = {a1, a2}
  Requests = {r1}
  Frames <- EveryFrame
  Lines = {}
  NoLine = NoLine
  NoKey = NoKey
  InitialClaims = {0, 1}
  PausedAnswers = {TRUE, FALSE}
  Faults = {"refuse", "enqueue", "reportRead", "shadowRead", "identity", "send", "unmark", "planPush"}
  DeliverySecs = 1
  PushHold = 1
  NoticeHold = 1
  SeenHold = 1
  SeenKeys = 3
  MaxTime = 1
  MaxTarget = 1
  MaxKey = 1
  MaxLives = 1
SPECIFICATION FairSpec
INVARIANTS TypeOK
PROPERTY CallbacksAnswered
CHECK_DEADLOCK FALSE
