CONSTANTS
  Requests = {r1, r2}
  NoRequest = NoRequest
  QueueCap = 1
  Blocks = 2
  MaxClients = 2
  MaxReplies = 1
SPECIFICATION FairSpec
CHECK_DEADLOCK FALSE
INVARIANTS
  TypeOK
  StartsWholeFile
PROPERTIES
  SuccessMeansAccepted
  UploadsEnd
