\* The global switches are operated while goals are in flight under a cap of one bot message, and one step fails.
CONSTANTS
  c1 = c1
  c2 = c2
  m1 = m1
  epl = epl
  None = None
  Garbage = Garbage
  Claims = {c1, c2}
  Matches = {m1}
  Events <- OneMatch
  Log <- LongFeed
  UseMqtt = FALSE
  MaxUsers = 0
  MaxPrematch = 0
  MaxMishaps = 1
  MaxCrashes = 0
  MaxFaults = 1
  MaxExpiries = 0
  AdminScopes <- GlobalSwitch
  MaxMessagesBot = 1
  MaxEventsPerHour = 9
  LastHour = 0
  MaxTraffic = 0
  ChatWindow = 9
  RatioNum = 3
  RatioDen = 10
SPECIFICATION Spec
CHECK_DEADLOCK FALSE
INVARIANTS KillSwitchGrace ShadowBanGrace BotMessageCap
