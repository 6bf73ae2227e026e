SPECIFICATION Spec
CONSTANTS
  s1 = s1
  s2 = s2
  user = user
  Sessions = {s1, s2}
  Subjects = {user}
  Who <- MC_Who
  Classes = {"user"}
  TextLimit <- MC_TextLimit
  AigcLimit <- MC_AigcLimit
  DiagnosisLimit <- MC_DiagnosisLimit
  ThemeCost = 0
  ImageCost = 1
  ImageBudget = 1
  VlmCost = 1
  VlmBudget = 1
  DailyBudget = 1
  MaxDay = 1
SYMMETRY Symmetry
INVARIANTS
  TypeOK
  QuotaHolds
  ImageBudgetOvershoot
  VlmBudgetOvershoot
  DailyBudgetOvershoot
  CostsAreBacked
