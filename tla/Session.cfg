SPECIFICATION FairSession
CONSTANTS
  a = a
  b = b
  Client = {a, b}
  Admin = {}
  Room = {r1}
  RoomId = {1}
  None = None
  Traffic <- SessionTraffic
  Quitters = {a, b}
  SendFails = TRUE
  Cast <- AllCasts
INVARIANTS NoSurprise InStep EndReportedOnce Boards Hands Candid
PROPERTIES ProgramsFinish SurvivorEnds
CHECK_DEADLOCK FALSE
