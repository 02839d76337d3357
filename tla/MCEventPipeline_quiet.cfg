\* Five events, a user who may be answered, two messages of a prematch burst, and no failure.
CONSTANTS
  c1 = c1
  c2 = c2
  m1 = m1
  epl = epl
  None = None
  Garbage = Garbage
  Claims = {c1, c2}
  Matches = {m1}
  Events <- Burst
  Log <- BurstFeed
  UseMqtt = FALSE
  MaxUsers = 1
  MaxPrematch = 2
  MaxMishaps = 0
  MaxCrashes = 0
  MaxFaults = 0
  MaxExpiries = 0
  AdminScopes = {}
  MaxMessagesBot = 9
  MaxEventsPerHour = 9
  LastHour = 0
  MaxTraffic = 0
  ChatWindow = 9
  RatioNum = 3
  RatioDen = 10
SPECIFICATION Spec
CHECK_DEADLOCK FALSE
INVARIANTS WarmUpBurst 
