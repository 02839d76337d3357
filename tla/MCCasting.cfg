\* Two choosers, a cast of two, two failed commands and two lapsed keys.
CONSTANTS
  claim = claim
  reply = reply
  hyper = hyper
  calm = calm
  None = None
  Choosers = {claim, reply}
  Replies = {reply}
  Work <- Feed
  Cast <- OneCast
  Allowed <- Roles
  MaxFaults = 2
  MaxLapses = 2
SPECIFICATION FairSpec
CHECK_DEADLOCK FALSE
INVARIANTS CastingTypeOK PersonaRests SpeakersRotate
PROPERTIES ChoicesEnd
