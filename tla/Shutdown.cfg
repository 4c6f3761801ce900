SPECIFICATION FairSpec
CONSTANTS
  a = a
  b = b
  c = c
  Client = {a, b, c}
  Admin = {s}
  Room = {r1, r2}
  RoomId = {0, 1}
  None = None
  Traffic <- IdleTraffic
  Quitters = {}
  SendFails = FALSE
PROPERTIES ServiceStops
CHECK_DEADLOCK FALSE
