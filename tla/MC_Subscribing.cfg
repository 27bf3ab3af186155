SPECIFICATION FairSpec
CONSTANTS
  AnyEvent = AnyEvent
  Events = {value, child_added}
  MaxSockets = 2
  MaxTries = 2
  MaxCallbacks = 1
  MaxRequests = 2
CHECK_DEADLOCK FALSE
INVARIANT TypeOK
INVARIANT ListsAgree
INVARIANT InSync
PROPERTY Settles
