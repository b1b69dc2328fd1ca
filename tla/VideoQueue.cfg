CONSTANTS
  Viewers = {v1, v2}
  Controls = {k1}
  Downloads = {d1}
  Casts = {{v1, v2}, {v1, k1}, {v1, d1}, {k1, d1}}
SPECIFICATION VideoFairSpec
INVARIANT VideoInv
PROPERTIES
  WatchedIsStreamed
