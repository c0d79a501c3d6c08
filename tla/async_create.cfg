SPECIFICATION HandlersSpec
CONSTANTS
  None = None
  Player = {p1, p2, p3}
  r1 = r1
  r2 = r2
  Room = {r1, r2}
  Capacity <- MCCapacity
  AutoDispose = {r1}
  Realtime = {r1}
  HooksThrow = TRUE
  AsyncCreate = TRUE
  MaxGroup = 2
  MaxGauge = 4

PROPERTY CreatedBeforeJoin
