CONSTANTS
  a = a
  b = b
  NoPage = NoPage
  Threads <- TwoThreads
  RegionOff = 1
  HeapSize = 15
  Header = 1
  ClassSizes <- OneClass
  NumLanes = 2
  CounterMod = 3
  Sizes <- SmallAndLarge
  MaxHeapOff = 16
SPECIFICATION Spec
INVARIANTS
  PagesSeparate
  PageInOnePlace
  AccountingExact
PROPERTY
  ImplementsAllocator
SYMMETRY Interchangeable
CHECK_DEADLOCK FALSE
