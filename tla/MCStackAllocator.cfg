CONSTANTS
  a = a
  b = b
  c = c
  NoPage = NoPage
  Threads <- ThreeThreads
  RegionOff = 1
  HeapSize = 9
  Header = 1
  Sizes <- OneOrTwo
  CanShrink = FALSE
  MaxHeapOff = 12
SPECIFICATION Spec
INVARIANTS
  TypeOK
  PagesSeparate
  AccountingExact
PROPERTY
  ImplementsAllocator
SYMMETRY Interchangeable
CHECK_DEADLOCK FALSE
