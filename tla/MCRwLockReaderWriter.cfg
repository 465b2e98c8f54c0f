CONSTANTS
  a = a
  b = b
  c = c
  Threads <- TwoThreads
  CurMod = 8
  SpuriousCAS = FALSE
  MaxCalls = 3
SPECIFICATION Spec
INVARIANT
  ReaderWriterExclusion
