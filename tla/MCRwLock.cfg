CONSTANTS
  a = a
  b = b
  c = c
  Threads <- ThreeThreads
  CurMod = 8
  SpuriousCAS = TRUE
  MaxCalls = 4
SPECIFICATION FairSpec
INVARIANTS
  TypeOK
  WriterExclusion
  WritersInTicketOrder
  CountersExact
PROPERTY
  EveryCallReturns
