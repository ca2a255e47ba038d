SPECIFICATION Spec
CONSTANTS
  j1 = j1  j2 = j2  j3 = j3
  p1 = p1
  w1 = w1  w2 = w2
  NoJob = NoJob
  NoWorker = NoWorker
  NoProject = NoProject
  Jobs = {j1, j2, j3}
  Projects = {p1}
  Workers = {w1, w2}
  RequestKinds = {"lexical", "upload"}
  Budget <- TwoAttempts
  RetryCap = 3
  MaxFaults = 2
SYMMETRY Interchangeable
INVARIANTS
  FencedExecution
  OnePurge
  CleanupOwed
  NoOrphans
PROPERTIES
  LifeSpec
