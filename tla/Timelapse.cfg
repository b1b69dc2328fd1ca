CONSTANTS
  Files = {f1}
  Manual = manual
  Api = {"start", "pause", "stop", "resume", "dismiss", "delete"}
  QueueCap = 1
  Lead = 1
  MaxDirs = 2
  MaxFrames = 2
  MaxStops = 1
  MaxRequests = 1
  NoCapture = NoCapture
SPECIFICATION FairSpec
CHECK_DEADLOCK FALSE
INVARIANTS
  TypeOK
  VideosDoNotMix
  CaptureFollowsPrint
PROPERTY PauseEnds
