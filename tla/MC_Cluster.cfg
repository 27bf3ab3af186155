SPECIFICATION Spec
CONSTANTS
  w1 = w1
  w2 = w2
  Workers = {w1, w2}
  Master = Master
  All = All
  MaxEvents = 2
SYMMETRY Interchangeable
CHECK_DEADLOCK FALSE
INVARIANT TypeOK
INVARIANT HeardOnceInOrder
INVARIANT HearsAll
INVARIANT PeersKnown
