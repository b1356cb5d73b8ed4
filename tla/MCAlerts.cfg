SPECIFICATION FairSpec
CONSTANTS
  BuiltIns = 1
  Users = 1
  MinActive = 2
  ClearHold = 1
INVARIANTS
  TypeOK
  AckEndsWithAlert
  ScreenIsOwed
PROPERTIES
  LostDataKeepsTakeover
  NoDataRaisesNothing
  TapIsHeard
  AlertReachesDriver
