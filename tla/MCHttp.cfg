SPECIFICATION FairSpec
CONSTANTS
  Conns = {c1}
  Streams <- MCStreams
  Handled <- MCHandled
  MaxCuts = 2
  Requests <- MCBodiesAllowed
  Responses <- MCResponses
  Urls <- MCUrls
INVARIANTS
  MessagesParse
  UrlsParse
  HandledAsSent
  AnswersMatch
PROPERTIES
  Answered
  ConnectionsEnd
CHECK_DEADLOCK FALSE
