SPECIFICATION Spec
CONSTANTS
  f1 = f1
  f2 = f2
  o1 = o1
  Vehicle = "demo"
  Sessions = {f1, f2, o1}
  Tasks = {f1, f2}
  Others = {o1}
  Presses <- MC_Presses
  ThemeTemp = 24
  OthersTemp = 30
  MaxVersion = 3
SYMMETRY Symmetry
INVARIANTS
  TypeOK
  AppliedIsWhole
  RunTellsWhatHappened
  ShownWasReal
  OneThemePerDialog
  RefreshSeesTheTheme
