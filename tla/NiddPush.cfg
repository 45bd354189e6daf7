CONSTANTS
  Attempts = {a1, a2}
  Requests = {r1}
  Frames <- PushFrames
  Lines = {}
  NoLine = NoLine
  NoKey = NoKey
  InitialClaims = {1}
  PausedAnswers = {FALSE}
  Faults = {"send", "identity", "rowWrite", "reread"}
  DeliverySecs = 1
  PushHold = 1
  NoticeHold = 1
  SeenHold = 1
  SeenKeys = 3
  MaxTime = 3
  MaxTarget = 2
  MaxKey = 1
  MaxLives = 1
SYMMETRY Interchangeable
SPECIFICATION Spec
INVARIANTS PushRecordedIsReal
PROPERTY OwedStaysTracked
CHECK_DEADLOCK FALSE
