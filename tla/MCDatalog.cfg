SPECIFICATION FairSpec
CONSTANTS
  Cap = 2
  Wrap = 4
  Staging = 1
  MaxLen = 2
  MaxRecords = 3
  MaxSessions = 2
INVARIANTS
  FileIsWhole
  LossIsCounted
PROPERTIES
  ImplementsQueue
  WorkshopClosesLog
