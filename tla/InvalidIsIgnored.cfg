SPECIFICATION FairSpec
CONSTANTS
  a = a
  b = b
  c = c
  Client = {a, b}
  Admin = {}
  Room = {r1, r2}
  RoomId = {1}
  None = None
  Traffic <- ResignTraffic
  Quitters = {b}
  SendFails = FALSE
PROPERTIES InvalidIsIgnored
CHECK_DEADLOCK FALSE
