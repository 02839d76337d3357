\* One match, polls every two ticks of half a minute, two bursts of two messages at a time, faults and a restart.
CONSTANTS
  m1 = m1
  b1 = b1
  b2 = b2
  None = None
  Matches = {m1}
  Kickoff <- KickoffAtSix
  Window = 5
  Interval = 2
  Minute = 2
  BurstSize = 2
  Slots = {b1, b2}
  LastTick = 9
  MaxFaults = 2
  MaxCrashes = 1
SPECIFICATION FairSpec
CHECK_DEADLOCK FALSE
INVARIANTS TypeOK OneBurstEach KickoffTail
PROPERTY HeardAfterFaults
