SPECIFICATION FairSpec
CONSTANTS
  Rates = 2
  MaxRetries = 2
  MaxRecoveries = 1
  MaxFaults = 2
INVARIANTS
  TypeOK
  DriverIsThere
  ListenOnlyIsScan
  OneReply
PROPERTIES
  BusRestarts
  ScanEnds
  CommandIsAnswered
