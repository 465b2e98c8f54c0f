CONSTANTS
  a = a
  b = b
  c = c
  d = d
  Threads <- FourThreads
  LockMod = 16
SPECIFICATION FairSpec
INVARIANTS
  TypeOK
  MutualExclusion
  WordCountsClaims
PROPERTIES
  LockNotLeftFree
  ImplementsAbstractLock
