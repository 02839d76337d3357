\* A question, a sad topical message and another bot's post; a window of two messages,
\* one slot, two requests a call, one failed command.
CONSTANTS
  g1 = g1
  g2 = g2
  bot = bot
  hyper = hyper
  calm = calm
  None = None
  Goroutines = {g1, g2}
  Asks = {g1}
  Topical = {g2}
  Sad = {g2}
  Others = {bot}
  Personas = {hyper, calm}
  Slots = 1
  Attempts = 2
  Window = 2
  MaxFaults = 1
SPECIFICATION FairSpec
CHECK_DEADLOCK FALSE
INVARIANTS TypeOK SlotsAccounted FreshRepliesOverlap PersonaAnswersOnce ClaimedPersonaSpeaks
PROPERTIES RepliesEnd
