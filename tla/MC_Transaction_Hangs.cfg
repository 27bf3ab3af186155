SPECIFICATION FairSpec
CONSTANTS
  t1 = t1
  t2 = t2
  Transactions = {t1, t2}
  MayRefuse = FALSE
CHECK_DEADLOCK FALSE
PROPERTY TimeoutCancels
