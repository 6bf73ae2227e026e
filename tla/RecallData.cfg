SPECIFICATION FairSpec
CONSTANTS
  s1 = s1
  s2 = s2
  mA = mA
  mB = mB
  c1 = c1
  c2 = c2
  Requests = {s1, s2}
  Models = {mA, mB}
  Catalog <- MC_Catalog
  Threshold = 2
  RecoveryTicks = 2
INVARIANTS
  TypeOK
  OpenMeansRecentFailures
  WholeFetches
  EntriesVouchForStored
PROPERTIES
  FailedRefreshKeepsRows
  LetsTryAgain
