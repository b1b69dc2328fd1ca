\* The nine small components, each on its own instance.
SPECIFICATION Spec
CONSTANTS
  ZRequests = {r1, r2}
  NoReport = NoReport
  Steps = {1, 2}
  MaxReports = 2
  AlertKeys = {k1, k2}
  Pages = {g1}
  NoCursor = NoCursor
  AlertBufferSize = 2
  MaxAlerts = 6
  MaxStream = 8
  ChunkSize = 2
  BufferSize = 4
  FrameCap = 1
  Badges = {b1, b2}
  ppppMaxRetries = 1
  TapSize = 2
  FullPercent = 2
  Interval = 1
  MaxValue = 1
  HaValues = {v1, v2}
  HaQueue = 1
  Requests = {q1, q2}
  StoredFiles = {f1, f2}
  Sources = {usb, onboard}
  Reports = 2
  Drain = 2
  ReplyBuffer = 1
  MaxOnTheWay = 2
  MaxSummaries = 1
  LogCapacity = 3
  MaxLines = 7
  Uploads = {u1, u2}
  Reprints = {h1}
  Names = {n1, n2}
  NoUpload = NoUpload
  MaxKills = 1
INVARIANTS
  PeripheralsTypeOK
  NothingIsMissed
  FramesAreThePictures
  OutsideIsTold
PROPERTIES
  QuietChangeIsTrue
  BadgeCatchesUp
CHECK_DEADLOCK FALSE
