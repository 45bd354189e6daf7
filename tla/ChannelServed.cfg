CONSTANTS
  Sockets = {s1, s2}
  NoSocket = NoSocket
  Commands = {c1}
  Uploads = {u1}
  Faults = {"delete", "reset"}
  MaxToken = 2
  MaxTarget = 1
SPECIFICATION FairSpec
INVARIANTS ChannelTypeOK OpenSocketCurrent
PROPERTY AskedIsAnswered
CHECK_DEADLOCK FALSE
