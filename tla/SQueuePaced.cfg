\* Three times more elements than slots, and one Dequeue more per thread than
\* there are elements for.  Only states in which no index is a whole ring ahead
\* of a ticket in use are expanded.
SPECIFICATION Spec
CONSTANTS
  Enqueuers = {e1, e2}
  Dequeuers = {d1, d2}
  MaxSize = 2
  NumSamples = 6
  EnqSamples = 3
  DeqSamples = 4
  ChecksEmpty = TRUE
CONSTANTS
  Null = Null
  Fail = Fail
SYMMETRY Symmetry
CONSTRAINT Paced
INVARIANTS
  TicketsOwned
  SafeWhilePaced
CHECK_DEADLOCK FALSE
