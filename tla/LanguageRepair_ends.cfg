SPECIFICATION LegacySpec
CONSTANTS
  w1 = w1  w2 = w2
  NoJob = NoJob
  NoWorker = NoWorker
  NoText = NoText
  NoTotal = NoTotal
  LangSets <- Translated
  LastJob = 4
  Legacy <- Untidy
  MaxRepairs = 1
  Workers = {w1, w2}
  LastEntry = 2
  Uploaded = 2
  Budget = 1
  RetryCap = 2
  MaxChanges = 1
  MaxEdits = 0
  MaxFaults = 1
PROPERTY
  SearchReturns
INVARIANT
  RepairSound
