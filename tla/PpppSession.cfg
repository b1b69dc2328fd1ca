SPECIFICATION SessionFairSpec
INVARIANT SessionInv
PROPERTIES
  CloseReturns
  SessionSettles
