CONSTANTS
  Clients = {c1, c2, c3}
  MaxRestarts = 1
  KeepRunning = FALSE
SPECIFICATION ManagerFairSpec
INVARIANTS
  ManagerTypeOK
  RefsCountHolders
  NoLeak
PROPERTIES
  HooksInOrder
  WantedIsServed
  RequestsReachWorker
