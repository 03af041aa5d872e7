CONSTANTS
  ann = ann
  bob = bob
  v1 = v1
  v2 = v2
  v3 = v3
  Pair = {ann, bob}
  Views = {v1, v2}
  MaxMsgs = 2
  MaxCovers = 0
  MaxErrors = 0
SPECIFICATION FairSpec
PROPERTIES
  OpenChatGetsSeen
CHECK_DEADLOCK FALSE
