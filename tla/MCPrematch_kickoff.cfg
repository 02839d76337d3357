\* The same instance without faults, against what the handler logs when it stops a burst.
CONSTANTS
  m1 = m1
  b1 = b1
  b2 = b2
  None = None
  Matches = {m1}
  Kickoff <- KickoffAtSix
  Window = 5
  Interval = 2
  Minute = 2
  BurstSize = 2
  Slots = {b1, b2}
  LastTick = 9
  MaxFaults = 0
  MaxCrashes = 0
SPECIFICATION Spec
CHECK_DEADLOCK FALSE
PROPERTY StopsAtKickoff
