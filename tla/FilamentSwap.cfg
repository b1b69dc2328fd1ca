CONSTANTS
  Starters = {s1, s2}
  Confirmers = {c1, c2}
  MaxSwaps = 3
  NoSwap = NoSwap
SPECIFICATION FairSpec
CHECK_DEADLOCK FALSE
INVARIANTS
  TypeOK
  SwapIsOrderly
PROPERTIES
  NoResurrection
  ActivePhaseEnds
