SPECIFICATION FairSpec
CONSTANTS
  Arguments <- MCOdd
  NumSamples = 4
  Nobody = Nobody
  NoSample = NoSample
PROPERTIES
  Completes
CHECK_DEADLOCK FALSE
