\* Three workers with two requests each; the tasks fill the server's ring exactly.
SPECIFICATION FairSpec
CONSTANTS
  Workers = {w1, w2, w3}
  Server = server
  NumSamples = 2
  MaxSize = 6
INVARIANTS
  Exchange
  ServerCounts
  Complete
PROPERTIES
  Termination
