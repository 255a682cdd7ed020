CONSTANTS
  A = A
  B = B
  P = P
  Accounts = {A, B, P}
  Root = A
  Programs <- MCPrograms
  MaxBlocks = 7
  MaxFailures = 1
SPECIFICATION Spec
CHECK_DEADLOCK FALSE
INVARIANTS
  TypeOK
  PathComplete
  Tracks
  ConsequenceFound
  PointsMatter
PROPERTY
  NeverBack
