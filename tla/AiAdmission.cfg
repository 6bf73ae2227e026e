\* Two processes, three requests for two slots.
CONSTANTS
  p1 = p1
  p2 = p2
  r1 = r1
  r2 = r2
  r3 = r3
  Processes = {p1, p2}
  Requests = {r1, r2, r3}
  Home <- MC_Home
  Limit = 2
  LeaseTicks = 2
  MaxDelay = 1
SPECIFICATION FairSpec
INVARIANTS TypeOK KeepsItsLease WithinLimit
PROPERTY SlotsComeBack
