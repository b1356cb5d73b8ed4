\* Three uploads: one given up half way, one that meets what it left, one more.
CONSTANTS
  Totals <- MCTotals
  MaxUploads = 3
SPECIFICATION FairSpec
INVARIANTS
  TypeOK
  SlotIsOwned
  DiskIsWhole
  OkMeansCommitted
PROPERTY
  SlotIsReleased
