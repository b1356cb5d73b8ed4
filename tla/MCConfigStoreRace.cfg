CONSTANTS
  good = good
  refused = refused
  garbage = garbage
  default = default
  Absent = Absent
  Torn = Torn
  Good <- MCGood
  Refused <- MCRefused
  Unreadable <- MCUnreadable
  Default = default
SPECIFICATION Spec
INVARIANT AppliedIsNotRefused
