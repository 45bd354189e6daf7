CONSTANTS
  Senders = {r1, r2}
  NoSender = NoSender
  Faults = {"read", "store", "cacheRead", "reset", "credentials"}
  SessionIdle = 1
  VerizonIdle = 3
  AccessMargin = 1
  AccessLife = 3
  MaxTime = 3
  MaxSessions = 2
  MaxLost = 1
SYMMETRY Interchangeable
SPECIFICATION Spec
INVARIANTS StrikesBounded HeldAtVerizon
PROPERTY LatchStands
CHECK_DEADLOCK FALSE
