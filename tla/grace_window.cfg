SPECIFICATION Spec
CONSTANTS
  None = None
  Session = {s1, s2}
  Player = {p1, p2, p3}
  Token = {t1}
  Room = {r1, r2}
  duel = duel
  hall = hall
  Key = {duel, hall}
  Required <- MCRequired
  Capacity <- MCCapacity
  AutoDispose = {duel}
  Realtime = {duel}
  HooksThrow = FALSE
  ReAuth = FALSE
  SharedToken = TRUE
  MayShutdown = FALSE
SYMMETRY Interchangeable
CHECK_DEADLOCK FALSE
INVARIANT GraceWindowHonoured
