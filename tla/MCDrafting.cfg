\* Two claims and the end of a burst at the kickoff, one persona, one failed command, one lapsed key.
CONSTANTS
  c1 = c1
  c2 = c2
  burst = burst
  hyper = hyper
  None = None
  Drafters = {c1, c2, burst}
  Work <- Kickoff
  Personas = {hyper}
  Templates <- Book
  Crowds = {0, 3}
  MaxFaults = 1
  MaxLapses = 1
SPECIFICATION Spec
CHECK_DEADLOCK FALSE
INVARIANTS DraftingTypeOK DraftFitsEvent TextRepeats
