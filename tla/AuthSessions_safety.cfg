SPECIFICATION AuthSpec
CONSTANTS
  s1 = s1  s2 = s2  s3 = s3  s4 = s4
  NoSession = NoSession
  Sessions = {s1, s2, s3, s4}
  MaxPasswords = 1
SYMMETRY Interchangeable
CHECK_DEADLOCK FALSE
INVARIANTS
  OneActive
  TransactionsAccepted
PROPERTY
  FamilySpec
