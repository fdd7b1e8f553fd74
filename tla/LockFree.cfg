\* Two threads of each kind: two calls each when they keep out of each other's way,
\* one each with any overlap.
SPECIFICATION FairQueueSpec
CONSTANTS
  Pushers = {p1, p2}
  Poppers = {g1, g2}
  Limit = 2
  FreeLimit = 1
  Entry = Entry
  Null = Null
INVARIANTS
  Consistent
  PushesStay
PROPERTIES
  ImplementsFifo
  Termination
