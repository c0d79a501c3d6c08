SPECIFICATION FairSpec
CONSTANTS
  Session = {s1, s2}
  Responsive = {s1}
  Silent = {s2}
  Own = {s1}
  Interval = 2
  Lag = 1
  Delay = 2
  Timeout = 5
  MaxBuffered = 0
  MaxPacket = 1
  PingSize = 1
  Limit = 2
  Period = 2
  MaxInputs = 4
  TickGap = 2
INVARIANTS TypeOK NeverTimedOut KeptWithinBounds AtMostTwice ThrottledFairly NothingLost
PROPERTIES ContractKept SilentIsClosed CloseCompletes
