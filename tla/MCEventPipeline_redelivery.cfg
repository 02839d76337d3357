\* A repeated feed, a turn of the hour, a crash at any step, and one step that fails.
CONSTANTS
  c1 = c1
  c2 = c2
  m1 = m1
  epl = epl
  None = None
  Garbage = Garbage
  Claims = {c1, c2}
  Matches = {m1}
  Events <- GoalAndCorner
  Log <- RepeatedFeed
  UseMqtt = TRUE
  MaxUsers = 0
  MaxPrematch = 0
  MaxMishaps = 1
  MaxCrashes = 1
  MaxFaults = 1
  MaxExpiries = 0
  AdminScopes = {}
  MaxMessagesBot = 9
  MaxEventsPerHour = 9
  LastHour = 1
  MaxTraffic = 0
  ChatWindow = 9
  RatioNum = 3
  RatioDen = 10
SPECIFICATION FairSpec
CHECK_DEADLOCK FALSE
INVARIANTS PipelineTypeOK SeededOncePerKey HandledBeforeCommitted
PROPERTIES PromiseKept LogDrains
