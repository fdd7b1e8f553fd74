\* Four enqueues more than dequeues, and two slots: the indices go round the array,
\* every semaphore reaches both ends, and the enqueuers end up blocked.
SPECIFICATION FairSpec
CONSTANTS
  Enqueuers = {e1, e2}
  Dequeuers = {d1, d2}
  QueueSize = 2
  EnqTasks = 4
  DeqTasks = 2
  Unset = Unset
  Nobody = Nobody
INVARIANTS
  IndInv
  BlocksOnlyWhenUnbalanced
PROPERTIES
  ImplementsFifo
CHECK_DEADLOCK FALSE
