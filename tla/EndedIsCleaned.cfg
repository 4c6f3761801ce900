SPECIFICATION FairSpec
CONSTANTS
  a = a
  b = b
  c = c
  Client = {a, b}
  Admin = {}
  Room = {r1, r2}
  RoomId = {1}
  None = None
  Traffic <- OneMoveTraffic
  Quitters = {a, b}
  SendFails = FALSE
PROPERTIES EndedIsCleaned
CHECK_DEADLOCK FALSE
