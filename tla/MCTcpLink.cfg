CONSTANTS
  s1 = s1
  s2 = s2
  w1 = w1
  w2 = w2
  Session = {s1, s2}
  Uid = {u1}
  Worker = {w1, w2}
  Home <- MCHomes
  None = None
  MaxReads = 1
  Client = {s1}
SPECIFICATION FairSpecLink
INVARIANTS
  DisplacedClosed
  EndedIsRemoved
PROPERTIES
  NoForeignRemoval
  HandshakeEnds
  ClosedLeavesTable
  SidesAgree
CHECK_DEADLOCK FALSE
