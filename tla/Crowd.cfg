SPECIFICATION Spec
CONSTANTS
  a = a
  b = b
  c = c
  Client = {a, b, c}
  Admin = {}
  Room = {r1, r2}
  RoomId = {1}
  None = None
  Traffic <- CrowdTraffic
  Quitters = {a}
  SendFails = FALSE
INVARIANTS TypeOK UniqueIds RemovedUnregistered NoSelfDeadlock LockDiscipline
CHECK_DEADLOCK FALSE
SYMMETRY RoomSymmetry
