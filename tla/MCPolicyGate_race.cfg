\* Two claims race for the quotas of one match; a command fails, the process dies, keys lapse.
CONSTANTS
  c1 = c1
  c2 = c2
  c3 = c3
  m1 = m1
  m2 = m2
  epl = epl
  None = None
  Claims = {c1, c2}
  Matches = {m1}
  Events <- RacingPair
  LastHour = 1
  MaxFaults = 1
  MaxExpiries = 1
  MaxTraffic = 0
  AdminScopes = {}
  MaxEventsPerHour = 1
  MaxMessagesBot = 1
  ChatWindow = 1
  RatioNum = 3
  RatioDen = 10
SPECIFICATION GateSpec
SYMMETRY Symmetry
INVARIANTS TypeOK LimitOvershoot OneGrantPerKey QuotaBacked CountersLapse
