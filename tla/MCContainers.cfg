CONSTANTS
  o1 = o1
  o2 = o2
  v1 = v1
  v2 = v2
  a1 = a1
  a2 = a2
  Null = Null
  Raw = Raw
  Objects <- TwoObjects
  Values <- TwoValues
  Allocators <- TwoAllocators
  Literals <- TwoTexts
  Cells <- FourCells
  Blocks <- TwelveBlocks
  MaxLength = 3
  GrowthStep = 1
  SSO = 2
  Keys <- SomeKeys
  BucketCounts <- OneOrThree
  MaxEntries = 2
SYMMETRY Symmetry
VIEW View
SPECIFICATION ContainersSpec
INVARIANTS
  OwnedOnce
  HeadersAgree
PROPERTIES
  ImplementsContents
  IterationComplete
