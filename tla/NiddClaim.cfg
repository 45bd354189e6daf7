CONSTANTS
  Attempts = {a1, a2, a3}
  Requests = {r1}
  Frames <- ClaimFrames
  Lines = {sim1, sim2}
  NoLine = NoLine
  NoKey = NoKey
  InitialClaims = {0, 1}
  PausedAnswers = {FALSE}
  Faults = {"reread", "rowWrite", "delete", "reset"}
  DeliverySecs = 1
  PushHold = 2
  NoticeHold = 3
  SeenHold = 1
  SeenKeys = 3
  MaxTime = 3
  MaxTarget = 0
  MaxKey = 3
  MaxLives = 2
SYMMETRY Interchangeable
SPECIFICATION Spec
INVARIANTS ClaimedImpliesLive ClaimMatchesKey
CHECK_DEADLOCK FALSE
