SPECIFICATION FairSpec
CONSTANTS
  Event = {1, 2}
  Drain = {d1, d2}
  Limit = 2
  MaxAttempts = 2
  MaxFaults = 1
INVARIANTS NothingLost RepublishCounted
PROPERTIES ImplementsDelivery 

CHECK_DEADLOCK FALSE
