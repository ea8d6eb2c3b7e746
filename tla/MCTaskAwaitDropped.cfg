CONSTANTS
  a = a
  b = b
  c = c
  d = d
  main = main
  multi = multi
  none = none
  t0 = t0
  tm = tm
  tw = tw
  tx = tx
  Task = {c}
  Service = {main, none}
  Executer <- MCDroppedExecuter
  ReturnTo <- MCDroppedExecuter
  Thread = {t0, tm}
  ServiceOf <- MCDroppedServiceOf
  CallerThread = t0
  Programs <- MCDropped
  None = None
SPECIFICATION Spec
INVARIANT
  WaitersAreAwaited
CHECK_DEADLOCK FALSE
