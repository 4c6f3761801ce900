SPECIFICATION FairSession
CONSTANTS
  a = a
  b = b
  Client = {a, b}
  Admin = {}
  Room = {r1}
  RoomId = {1}
  None = None
  Traffic <- NormalTraffic
  Quitters = {a, b}
  SendFails = FALSE
  Cast <- Immortal
PROPERTIES NormalGameEnds
CHECK_DEADLOCK FALSE
