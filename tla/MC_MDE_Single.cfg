SPECIFICATION FairSpec
CONSTANTS
  a = a
  b = b
  s1 = s1
  s2 = s2
  t1 = t1
  Names = {a, b}
  Indexes = {0, 1}
  Short = {s1, s2}
  Long = {t1}
  Ops = {o1}
  o1 = o1
  Refusable = {}
  Paths <- MCPaths
  Writes <- MCWrites
INVARIANT TypeOK
INVARIANT NoOrphans
INVARIANT ReadsDocument
PROPERTY Implements
PROPERTY Answered
