SPECIFICATION Spec
CONSTANTS
  f1 = f1  f2 = f2
  w1 = w1  w2 = w2
  NoWorker = NoWorker
  NoFile = NoFile
  Files = {f1, f2}
  Workers = {w1, w2}
  MaxTries = 2
  MaxRetries = 1
  RetryCap = 2
  MaxFaults = 2
SYMMETRY Interchangeable
INVARIANTS
  ReceivedKept
  BooksAgree
  QueuedOwed
CHECK_DEADLOCK FALSE
