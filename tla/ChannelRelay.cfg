CONSTANTS
  Sockets = {s1, s2, s3}
  NoSocket = NoSocket
  Commands = {c1, c2}
  Uploads = {}
  Faults = {"send", "reset"}
  MaxToken = 2
  MaxTarget = 0
SYMMETRY Alike
SPECIFICATION Spec
INVARIANTS OneOpenSocket WaitersServed
PROPERTY ImplementsRelay
CHECK_DEADLOCK FALSE
