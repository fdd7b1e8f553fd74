SPECIFICATION FairSpec
CONSTANTS
  Enqueuers = {e1, e2}
  Dequeuers = {d1, d2}
  MaxSize = 5
  NumSamples = 5
  ChecksEmpty = TRUE
CONSTANTS
  Null = Null
  Fail = Fail
  EnqSamples <- MCEnqSamples
  DeqSamples <- MCDeqSamples
INVARIANTS
  TypeOK
  StoredUntilTaken
  FifoMatch
  AllAccountedFor
PROPERTIES
  SlotDiscipline
  Termination
  ImplementsTicketFifo
