CONSTANTS
  p = p
  q = q
  c = c
  v1 = v1
  v2 = v2
  Producers <- OneProducer
  Consumers <- OneConsumer
  Threads <- ThreeThreads
  Values <- TwoValues
  Stale = Stale
  Depths <- SmallDepths
  CanResize = TRUE
  Builds <- EitherBuild
  MaxEmplace = 4
  Stalled = {}
  MaxCalls = 5
SPECIFICATION TicketFairSpec
INVARIANT
  NothingLost
PROPERTIES
  ImplementsFifo
  ImplementsTicketedFifo
  EveryCallReturns
CHECK_DEADLOCK FALSE
