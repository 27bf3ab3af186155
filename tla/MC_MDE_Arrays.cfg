SPECIFICATION Spec
CONSTANTS
  b = b
  s1 = s1
  s2 = s2
  o1 = o1
  Names = {b}
  Indexes = {0, 1}
  Short = {s1, s2}
  Long = {}
  Ops = {o1}
  Refusable = {}
  Paths <- MCPaths
  Writes <- MCWrites
PROPERTY EntriesCanBeEdited
