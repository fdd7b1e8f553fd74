\* A round fits into the ring; the later ones wrap around.
SPECIFICATION FairSpec
CONSTANTS
  NumThreads = 2
  NumSamples = 6
  MaxSize = 7
  Null = Null
INVARIANTS
  RoundDrained
  LinesComplete

  
