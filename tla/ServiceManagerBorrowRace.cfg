CONSTANTS
  Clients = {c1, c2}
  MaxRestarts = 0
  KeepRunning = FALSE
SPECIFICATION ManagerFairSpec
INVARIANT BorrowedIsWanted
