CONSTANTS
  Attempts = {a1, a2, a3, a4}
  Requests = {r1, r2}
  Frames <- CopiesFrames
  Lines = {}
  NoLine = NoLine
  NoKey = NoKey
  InitialClaims = {1}
  PausedAnswers = {TRUE, FALSE}
  Faults = {"refuse", "enqueue", "ambiguous", "reread", "rowWrite", "reset"}
  DeliverySecs = 1
  PushHold = 2
  NoticeHold = 3
  SeenHold = 1
  SeenKeys = 2
  MaxTime = 3
  MaxTarget = 0
  MaxKey = 1
  MaxLives = 1
SYMMETRY Interchangeable
SPECIFICATION Spec
INVARIANTS InFlightHeld TurnedAwayWasJudged StoredOncePerLapse
PROPERTY ImplementsIngest
CHECK_DEADLOCK FALSE
