\* Three claims, two events, tickets issued up to twice.
CONSTANTS
  Claims = {c1, c2, c3}
  Events = {e1, e2}
  None = None
  MaxLapses = 1
SPECIFICATION Spec
INVARIANTS TicketBound AtMostOnce
