CONSTANTS
  Streams <- MCStreams
  Commands <- MCCommands
  NETWORK_BUF_SIZE = 9
  MSG_SIZE = 18
  DefaultPtr = {"null"}
SPECIFICATION Spec
INVARIANTS
  NeverTraps
CHECK_DEADLOCK FALSE
