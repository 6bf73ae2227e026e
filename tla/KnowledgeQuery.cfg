SPECIFICATION Spec
CONSTANTS
  i1 = i1
  i2 = i2
  a1 = a1
  a2 = a2
  r1 = r1
  r2 = r2
  c1 = c1
  c2 = c2
  Ingesters = {i1, i2}
  Sources = {"manual"}
  Contents = {c1, c2}
  MaxVersion = 3
  Askers = {a1, a2}
  RequestIds = {r1, r2}
  MaxRetries = 2
SYMMETRY Symmetry
INVARIANTS
  TypeOK
  IndexMatches
  OneVersionFound
  AuditSupportsAnswer
PROPERTY
  VersionCountsChanges
