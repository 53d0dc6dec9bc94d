\* Two usable slots and five requests: the ring fills up, wraps twice, and a
\* request can run out of retries.
SPECIFICATION FairSpec
CONSTANTS
  MaxLen = 3
  MaxRequests = 5
  MaxRetries = 1
INVARIANTS
  TypeOK
  NoSlotShared
  Fifo
  IInv
PROPERTIES
  QuietAfterEnd
  Delivery
  ResponderReturns
  ImplementsChannel
