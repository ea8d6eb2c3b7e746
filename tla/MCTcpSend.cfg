CONSTANTS
  small1 = small1
  small2 = small2
  large = large
  null = null
  Message <- MCMessage
  Size <- MCSize
  NETWORK_BUF_SIZE = 14
SPECIFICATION FairSpec
INVARIANTS
  Conservation
  FlagHasOwner
  FrontStaysPut
  LargeMessagesIntact
PROPERTIES
  OneWriteAtATime
  EventuallyWritten
  ImplementsChannel
CHECK_DEADLOCK FALSE
