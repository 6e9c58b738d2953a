SPECIFICATION ILSpec
CONSTANTS
  Obj = {d1, d2, d3}
  NULL = NULL
SYMMETRY Symmetry
INVARIANTS
  ILInv
  PendingUnique
  CommittedAddresses
  JumpsAgree
  LookupByAddress
PROPERTY
  CommitKeepsListing
CHECK_DEADLOCK FALSE
