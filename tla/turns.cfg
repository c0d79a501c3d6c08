SPECIFICATION FairSpec
CONSTANTS
  None = None
  Player = {p1, p2, p3, p4}
  MaxPlayers = 3
CHECK_DEADLOCK FALSE
INVARIANTS TypeOK HolderIsMember
PROPERTY EveryoneGetsTurn
