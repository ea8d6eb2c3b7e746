SPECIFICATION FairSpec
CONSTANTS
  Conns = {c1}
  Streams <- MCStreams
  Handled <- MCHandled
  MaxCuts = 0
  Requests = {}
  Responses = {}
  Urls = {}
PROPERTIES KeptAliveServed
CHECK_DEADLOCK FALSE
