CONSTANTS
  Sockets = {s1, s2}
  NoSocket = NoSocket
  Commands = {c1}
  Uploads = {}
  Faults = {}
  MaxToken = 1
  MaxTarget = 0
SYMMETRY Alike
SPECIFICATION Spec
INVARIANT CancelledByOwnSocket
CHECK_DEADLOCK FALSE
