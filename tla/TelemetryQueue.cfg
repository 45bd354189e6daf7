CONSTANTS
  Keys = {1, 2, 3}
  MaxKeys = 2
  MaxReadings = 2
  Backdate = 2
  Never = Never
  StampHold = 2
  OnlineAfter = 1
  StaleAfter = 2
  Messages = {m1, m2}
  Consumers = {c1, c2}
  Bodies <- SmallBodies
  Legacy <- OldRows
  MaxTries = 2
  Faults = {"answer", "refused", "enqueue", "killed", "drop"}
  MaxTime = 2
SYMMETRY Alike
SPECIFICATION Spec
INVARIANTS QueueTypeOK StoreHoldsNewest RecordedOnce NoStepFromItself StampCoversContact
PROPERTY MergeKeepsItsOwn
CHECK_DEADLOCK FALSE
