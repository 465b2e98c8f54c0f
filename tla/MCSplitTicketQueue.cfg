CONSTANTS
  p = p
  q = q
  c = c
  d = d
  Producers <- TwoProducers
  Consumers <- TwoConsumers
  NumSplits = 2
  Depth = 1
  CounterMod = 3
  MaxItems = 3
SPECIFICATION SplitsFairSpec
INVARIANTS
  EveryTicketOnce
PROPERTIES
  RefusalIsJustified
  EveryTicketPopped
