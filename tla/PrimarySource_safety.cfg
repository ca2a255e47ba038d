SPECIFICATION Spec
CONSTANTS
  w1 = w1  w2 = w2
  NoJob = NoJob
  NoWorker = NoWorker
  NoText = NoText
  NoTotal = NoTotal
  LangSets <- Everything
  LastJob = 4
  Workers = {w1, w2}
  LastEntry = 2
  Uploaded = 1
  Budget = 2
  RetryCap = 3
  MaxChanges = 2
  MaxEdits = 1
  MaxFaults = 1
SYMMETRY Interchangeable
INVARIANTS
  VectorCurrent
  LexicalCurrent
  RebuildOwed
