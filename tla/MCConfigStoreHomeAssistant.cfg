CONSTANTS
  p1 = p1
  p2 = p2
  SNs = {p1, p2}
  NoSN = NoSN
  Absent = Absent
  Torn = Torn
  Unsupported = {}
  CloudLists <- MCLists
  Settings = {"ha"}
  Requests = {r1}
  MaxBoots = 1
SPECIFICATION ConfigFairSpec
PROPERTY
  HomeAssistantStarts
CHECK_DEADLOCK FALSE
