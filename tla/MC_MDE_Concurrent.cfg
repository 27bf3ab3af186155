SPECIFICATION Spec
CONSTANTS
  a = a
  b = b
  s1 = s1
  s2 = s2
  t1 = t1
  o1 = o1
  o2 = o2
  Names = {a, b}
  Indexes = {}
  Short = {s1, s2}
  Long = {t1}
  Ops = {o1, o2}
  Refusable <- MCRefusable
  Paths <- MCPaths
  Writes <- MCWrites
SYMMETRY Calls
PROPERTY Footprint
PROPERTY DisjointWritesSurvive
