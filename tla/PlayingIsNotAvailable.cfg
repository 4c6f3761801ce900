SPECIFICATION Spec
CONSTANTS
  a = a
  b = b
  c = c
  Client = {a, b, c}
  Admin = {}
  Room = {r1, r2}
  RoomId = {1}
  None = None
  Traffic <- ThirdTraffic
  Quitters = {}
  SendFails = FALSE
PROPERTIES PlayingIsNotAvailable
CHECK_DEADLOCK FALSE
