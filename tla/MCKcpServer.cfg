CONSTANTS
  Session = {s1, s2}
  Endpoint = {e1}
  Uid = {u1}
  Worker = {w1, w2}
  SerialID = {1, 2}
  Loops = 1
  None = None
SPECIFICATION FairSpec
INVARIANTS
  JoinsOnce
  KnownIsPolled
PROPERTIES
  ClosedStopsRunning
  PreSessionsDrain
CHECK_DEADLOCK FALSE
