\* What main runs, the OpenMP lock, the atomic add, and the thread's own counter:
\* rounds of one, two and four threads.
SPECIFICATION BenchSpec
CONSTANTS
  Runs = {0, 5, 6}
  TotalThreads = 4
  NumSamples = 2
  NoOwner = NoOwner
INVARIANTS
  CounterExact
  LinesOwn
