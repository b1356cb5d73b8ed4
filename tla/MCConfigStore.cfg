\* Three documents tell every case apart: one that loads, one refused, one unreadable,
\* beside the embedded default.
CONSTANTS
  good = good
  refused = refused
  garbage = garbage
  default = default
  Absent = Absent
  Torn = Torn
  Good <- MCGood
  Refused <- MCRefused
  Unreadable <- MCUnreadable
  Default = default
SPECIFICATION FairSpec
INVARIANTS
  TypeOK
  SafeFallback
  AckMeansCommitted
  VerdictHonest
PROPERTIES
 PendingSettles
 ImplementsRegister
