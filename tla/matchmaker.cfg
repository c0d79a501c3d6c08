SPECIFICATION Spec
CONSTANTS
  Player = {p1, p2, p3, p4, p5}
  k0 = k0
  k2 = k2
  k3 = k3
  Key <- MCKey
  Required <- MCRequired
INVARIANTS TypeOK NoDoubleQueue NoMatchMissed GroupIsTakenOut
PROPERTY FirstInFirstOut
