SPECIFICATION FairSpec
CONSTANTS
  a = a
  b = b
  c = c
  Client = {a, b}
  Admin = {}
  Room = {r1, r2}
  RoomId = {1}
  None = None
  Traffic <- GiveUpTraffic
  Quitters = {b}
  SendFails = TRUE
PROPERTIES MatchedAreAnswered ClosedIsRemoved PlayerCanLeave StayerIsTold
CHECK_DEADLOCK FALSE
