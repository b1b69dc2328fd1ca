CONSTANTS
  Files = {f1, f2}
  Placeholders = {f2}
  Tasks = {}
  NoTask = NoTask
  NoFile = NoFile
  MaxEntries = 2
  Deleters = {d1}
  Starters = {r1, r2}
  MaxId = 2
SPECIFICATION MonitorSpec
INVARIANTS
  MonitorTypeOK
  PrintIsLogged
PROPERTIES
  KeepsLog
  InProgressIsKept
