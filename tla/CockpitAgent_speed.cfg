\* One chat, one other session, versions up to 2.
CONSTANTS
  v1 = v1
  a1 = a1
  s1 = s1
  Vehicles = {v1}
  DemoVehicles = {}
  Sessions = {a1, s1}
  Agents = {a1}
  Utterances <- MC_Utterances
  ModelPlans <- MC_ModelPlans
  ManualRequests <- MC_ManualRequests
  MaxVersion = 2
SPECIFICATION Spec
INVARIANT StatedSpeedBlocksDoor
