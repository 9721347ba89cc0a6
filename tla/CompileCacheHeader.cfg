CONSTANTS
  f1 = f1
  f2 = f2
  h = h
  t1 = t1
  t2 = t2
  s1 = s1
  s2 = s2
  Files <- MCFiles
  Header = h
  Texts <- MCTexts
  Including <- MCIncluding
  Sessions <- MCOneSession
  Editable <- MCSources
  Modes = {"run", "recompile"}
  Outcomes = {"clean"}
  MaxOpens = 3
  MaxEdits = 1
  MaxFaults = 0
  Dead = Dead
  None = None
SPECIFICATION Spec
PROPERTY CompileCurrent
CHECK_DEADLOCK FALSE
