CONSTANTS
  A = A
  B = B
  C = C
  P = P
  Accounts = {A, B, C, P}
  Root = A
  Codeless = {P}
  Granularity = 2
  Words = 2
  Programs <- MCPrograms
  Analyzers <- MCAnalyzers
  MaxCalls = 3
SPECIFICATION Spec
CHECK_DEADLOCK FALSE
INVARIANTS
  TypeOK
  Complete
  SinksSeen
  Precise
