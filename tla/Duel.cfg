SPECIFICATION Spec
CONSTANTS
  a = a
  b = b
  c = c
  Client = {a, b}
  Admin = {}
  Room = {r1, r2}
  RoomId = {1}
  None = None
  Traffic <- DuelTraffic
  Quitters = {b}
  SendFails = TRUE
INVARIANTS NoTerminate RemovedIsJoined ColorsAsAsked WinnerIsSurvivor EndsAgree ReadyBeforeMoves MovesAlternate GameInv JoinInv
PROPERTIES IsMatch
CHECK_DEADLOCK FALSE
SYMMETRY RoomSymmetry
