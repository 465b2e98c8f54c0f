CONSTANTS
  p1 = p1
  p2 = p2
  p3 = p3
  o1 = o1
  v1 = v1
  v2 = v2
  Producers <- ThreeProducers
  Observers <- OneObserver
  Values <- TwoValues
  Unread = Unread
  Stale = Stale
  Depth = 2
  Builds <- SourceOrder
  MaxEmplace = 3
SPECIFICATION Spec
SYMMETRY AnyProducer
INVARIANTS
  TypeOK
  EntryExclusive
  DeliveredInOrder
  MarkedIsPrepared
  SizeNeverOverstated
PROPERTY
  ImplementsTicketFifo
