SPECIFICATION FairSpec
CONSTANTS
  t1 = t1
  t2 = t2
  Transactions = {t1, t2}
  MayRefuse = TRUE
CHECK_DEADLOCK FALSE
INVARIANT RouteTypeOK
 
INVARIANT LateNeverWrites
PROPERTY Delisted
PROPERTY Settles
