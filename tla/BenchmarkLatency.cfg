SPECIFICATION FairSpec
CONSTANTS
  Arguments <- MCArguments
  NumSamples = 7
  Nobody = Nobody
  NoSample = NoSample
INVARIANTS
  TypeOK
  StartsTogether
  CopyInBounds
  MergedOnce
  QueuesDrained

  
