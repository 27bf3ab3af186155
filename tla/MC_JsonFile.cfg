SPECIFICATION FairSpec
CONSTANTS
  None = None
  Torn = Torn
  Unread = Unread
  Databases = {d1, d2}
  Paths = {p1, p2}
  Contents = {c1}
  Patient = TRUE
INVARIANT TypeOK
INVARIANT NothingForgotten
PROPERTY IsDurableStore
PROPERTY SavedWhenQuiet
