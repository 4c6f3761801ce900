SPECIFICATION FairSpec
CONSTANTS
  a = a
  b = b
  c = c
  Client = {a, b}
  Admin = {}
  Room = {r1, r2}
  RoomId = {1}
  None = None
  Traffic <- ImplicitResignTraffic
  Quitters = {a}
  SendFails = FALSE
PROPERTIES ClosedIsCleaned
CHECK_DEADLOCK FALSE
