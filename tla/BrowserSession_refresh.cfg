SPECIFICATION FairSpec
CONSTANTS
  s1 = s1  s2 = s2  s3 = s3  s4 = s4
  a = a  b = b
  NoSession = NoSession
  Sessions = {s1, s2, s3}
  Tabs = {a, b}
  MaxPasswords = 0
  MaxLosses = 1
  MaxRefusals = 2
CHECK_DEADLOCK FALSE
INVARIANTS
  DeniedIsOver
  StoredNewest
PROPERTY
  RefreshEnds
