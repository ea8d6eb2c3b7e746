CONSTANTS
  a = a
  b = b
  c = c
  d = d
  main = main
  multi = multi
  none = none
  t0 = t0
  tm = tm
  tw = tw
  tx = tx
  Task = {a, b, c, d}
  Service = {main, multi}
  Executer <- MCExecuter
  ReturnTo <- MCReturnTo
  Thread = {tm, tw, tx}
  ServiceOf <- MCServiceOf
  CallerThread = tm
  Programs <- MCOutOfOrder
  None = None
SPECIFICATION FairSpec
INVARIANTS
  ObjectsOutliveUse
  AwaitsReturn
  ResumedOnce
  WaitersAreAwaited
PROPERTIES
  AwaitsFinish
CHECK_DEADLOCK FALSE
