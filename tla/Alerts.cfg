CONSTANTS
  Never = Never
  StampHold = 0
  OnlineAfter = 0
  StaleAfter = 1
  Evaluators = {e1, e2}
  Toggles = {t1, t2}
  Conditions <- SomeConditions
  Edits <- SomeEdits
  Batches <- SmallBatches
  FlockScoped = FALSE
  Window = 2
  Faults = {"statement", "killed", "request"}
  MaxTime = 2
  MaxActs = 4
SYMMETRY Interchangeable
SPECIFICATION Spec
INVARIANTS OneMailPerTransition FiresOnlyAfterHold NoisyResolveHeld FiringKnowsItsStart HeldPigeonRests SplitOneWay BatchIsSequential
CHECK_DEADLOCK FALSE
