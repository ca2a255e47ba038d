SPECIFICATION FairOutbox
CONSTANTS
  s1 = s1  s2 = s2
  w1 = w1  w2 = w2
  NoSession = NoSession
  NoWorker = NoWorker
  Sessions = {s1, s2}
  Workers = {w1, w2}
  MaxPasswords = 0
  MaxFaults = 1
CHECK_DEADLOCK FALSE
INVARIANTS
  InvalidateLasts
PROPERTY
  IntentsDone
