CONSTANTS
  p1 = p1
  p2 = p2
  p3 = p3
  o1 = o1
  v1 = v1
  v2 = v2
  Producers <- TwoProducers
  Observers = {}
  Values <- OneValue
  Unread = Unread
  Stale = Stale
  Depth = 1
  Builds <- EitherOrder
  MaxEmplace = 3
SPECIFICATION FairSpec
PROPERTIES
  EmplaceReturns
  EveryEntryDelivered
