SPECIFICATION FairSpec
CONSTANTS
  None = None
  Handle = {h1, h2, h3}
  FixedStepMs = 3
  CatchUpCap = 5
  Elapsed <- MCElapsed
  Jump <- MCJump
  MaxJumps = 2
  MaxStops = 2
  OwnOnDestroy = TRUE
  MaxDebt = 100
INVARIANTS TypeOK SingleLoop
PROPERTIES LetsGo StopEndsLoops CatchesUp
CHECK_DEADLOCK FALSE
