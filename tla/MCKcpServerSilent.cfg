CONSTANTS
  Session = {s1, s2}
  Endpoint = {e1}
  Uid = {u1}
  Worker = {w1, w2}
  SerialID = {1, 2}
  Loops = 1
  None = None
SPECIFICATION FairSpec
PROPERTY
  SilentTimesOut
CHECK_DEADLOCK FALSE
