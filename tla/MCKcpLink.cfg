SPECIFICATION FairSpecLink
CONSTANTS
  Session = {s1}
  Endpoint = {e1}
  Uid = {u1}
  Worker = {w1}
  SerialID = {1}
  Loops = 1
  None = None
  Message = {m1, big}
  Pure = {p1}
  Big = {big}
  Second = {1}
  PongTimeout = 1
INVARIANTS
  LiveStays
PROPERTIES
  ClientKnows
  HalfOpenEnds
  ImplementsChannel
CHECK_DEADLOCK FALSE
