CONSTANTS
  Streams <- MCStreams
  Commands <- MCCommands
  NETWORK_BUF_SIZE = 9
  MSG_SIZE = 18
  DefaultPtr = {"null", "message"}
SPECIFICATION FairSpec
INVARIANTS
  InOrder
  BytesAccounted
  RefusedForLength
PROPERTIES
  AllTaken
CHECK_DEADLOCK FALSE
