SPECIFICATION FairSpec
CONSTANTS
  Null = Null
  Children = {c, d}
  Values = {m1, m2, o}
  Matching = {m1, m2}
  Queries = {q}
  MaxWaiting = 2
INVARIANT TypeOK
INVARIANT InStep
PROPERTY Arrives
