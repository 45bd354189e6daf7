CONSTANTS
  Managers = {m1, m2}
  Subs = {s1, s2}
  Plans = {builder}
  Free = perch
  None = None
  Handlers = {h1, h2}
  Faults = {"attach", "fetch", "answer", "killed"}
  Gaps = {1}
  MaxEvents = 4
SYMMETRY Interchangeable
SPECIFICATION Spec
INVARIANTS NothingSwallowed RowFollowsStripe
PROPERTY CustomerKept
CHECK_DEADLOCK FALSE
