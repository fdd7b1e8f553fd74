\* Two threads of each kind with two calls each; in SimpleQueueImpl main makes
\* all four calls of BasicEnqueue.
SPECIFICATION FairSpec
CONSTANTS
  Enqueuers = {e1, e2}
  Main = e1
  Dequeuers = {d1, d2}
  PutLimit = 2
  GetLimit = 2
  Hd = Hd
  Null = Null
  Behind = Behind
  Nobody = Nobody
INVARIANTS
  WellLinked
  NeverMisses
PROPERTIES
  ImplementsFifo
