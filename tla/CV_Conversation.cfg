SPECIFICATION FairSpec
CONSTANTS
  MaxSends = 4
  Calls = {c1, c2, c3}
INVARIANTS
  TypeOK
  NothingLeaks
PROPERTIES
  KeepsHistory
  SendEnds
