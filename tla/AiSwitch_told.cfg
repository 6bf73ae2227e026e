\* Two processes, one request at a time on each.
CONSTANTS
  p1 = p1
  p2 = p2
  r1 = r1
  r2 = r2
  Processes = {p1, p2}
  Requests = {r1, r2}
  Home <- MC_Home
SPECIFICATION Spec
INVARIANT PauseToldHolds
