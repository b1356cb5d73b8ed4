SPECIFICATION FairSpec
CONSTANTS
  MaxPrompts = 2
  MaxFaults = 1
  Clients = {c1, c2}
  NoClient = NoClient
  QueueDepth = 1
INVARIANTS
  CardIsOwed
PROPERTIES
  CentralLeaves
  SilentTunerYields
  OrphanEnds
CHECK_DEADLOCK FALSE
