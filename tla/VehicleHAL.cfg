\* One vehicle, two concurrent sessions, versions up to 2.
CONSTANTS
  v1 = v1
  s1 = s1
  s2 = s2
  Vehicles = {v1}
  DemoVehicles = {}
  Sessions = {s1, s2}
  RawRequests <- MC_RawRequests
  ExpectedVersions = {0, 1, 2}
  MaxVersion = 2
SPECIFICATION FairSpec
INVARIANTS TypeOK NoLostUpdate AuditReplay
PROPERTIES HistoryOnlyGrows CallsEnd ImplementsTwin
