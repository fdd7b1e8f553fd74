\* Three queues, and six or seven values: in case 8 the seventh is one more than
\* there are slots.
SPECIFICATION FairSpec
CONSTANTS
  QueueTypes = {4, 8}
  SampleCounts = {6, 7}
  NumThreads = 3
INVARIANTS
  TakenOnce
PROPERTIES
  ImplementsTickets
  Termination
