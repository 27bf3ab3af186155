SPECIFICATION FairSpec
CONSTANTS
  parent = parent
  child = child
  v1 = v1
  v2 = v2
  st1 = st1
  st2 = st2
  q1 = q1
  None = None
  Paths = {parent, child}
  Values = {v1, v2}
  Statements = {st1, st2}
  Queries = {q1}
  MayFail = TRUE
  Subtree <- MCSubtree
  Records <- MCRecords
INVARIANT TypeOK
INVARIANT OverlayDrains
INVARIANT RegularReads
INVARIANT LastWriteStays
PROPERTY TableCatchesUp
