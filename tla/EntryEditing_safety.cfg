SPECIFICATION Spec
CONSTANTS
  u1 = u1
  u2 = u2
  f1 = f1
  f2 = f2
  e1 = e1
  e2 = e2
  t1 = t1
  s0 = s0
  s1 = s1
  s2 = s2
  Users = {u1, u2}
  Files = {f1, f2}
  Entries = {e1, e2}
  Tasks = {t1}
  PlatformRole <- MCPlatformRole
  MemberRole <- MCMemberRole
  FileOf <- MCFileOf
  SaveRequests <- MCSaveRequests
  FlagRequests <- MCFlagRequests
  Seed <- MCSeed
  Sources <- MCSources
  Edited <- MCEdited
  TaskFiles <- MCTaskFiles
  MaxVersion <- MCMaxVersion
SYMMETRY MCSymmetry
INVARIANTS
  CountsExact
  VersionNamesContent
  LedgerAgrees
  Attributed
CHECK_DEADLOCK FALSE
