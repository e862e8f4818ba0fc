SPECIFICATION FairSpec
CONSTANTS
  Players = {p1, p2}
  MaxRetries = 1
INVARIANTS CountRepaired PlayersSuspend
PROPERTY IdleStops
