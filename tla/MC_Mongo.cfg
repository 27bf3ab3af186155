SPECIFICATION FairSpec
CONSTANTS
  d1 = d1
  a = a
  ac = ac
  ab = ab
  b0 = b0
  None = None
  Keys <- MCKeys
  DatabaseOf <- MCDatabaseOf
  Branch <- MCBranch
  Matched <- MCMatched
  Last = 2
  Contents = {v1, v2}
  MaxCalls = 2
INVARIANT TypeOK
INVARIANT ReadsSeeLatest
INVARIANT RetryAhead
PROPERTY Drains
