SPECIFICATION Spec
CONSTANTS
  boss = boss
  mia = mia
  xen = xen
  root = root
  c1 = c1
  Nobody = Nobody
  Users = {boss, mia, xen, root}
  Owner = boss
  Comments = {c1}
  Addresses = {"near", "far"}
  AddressOf <- MCAddressOf
  FirstPlatform <- MCFirstPlatform
  FirstProject <- MCFirstProject
  Intents <- MCIntents
  UserLimit = 1
  AddressLimit = 2
  MaxInFlight = 2
  MaxApplications = 2
INVARIANTS
  AttemptsBounded
  ProjectSound
  AuditReplays
PROPERTIES
  RankRespected
  VerdictsStand
