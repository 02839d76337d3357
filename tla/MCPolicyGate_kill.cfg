\* Every kill switch is operated while events of every kind are checked.
CONSTANTS
  c1 = c1
  c2 = c2
  c3 = c3
  m1 = m1
  m2 = m2
  epl = epl
  None = None
  Claims = {c1}
  Matches = {m1}
  Events <- MixedEvents
  LastHour = 0
  MaxFaults = 1
  MaxExpiries = 0
  MaxTraffic = 1
  AdminScopes <- AllSwitches
  MaxEventsPerHour = 2
  MaxMessagesBot = 2
  ChatWindow = 1
  RatioNum = 3
  RatioDen = 10
SPECIFICATION GateFairSpec
INVARIANTS KillSwitchHolds
PROPERTIES ChecksEnd
