SPECIFICATION FairInboundSpec
CONSTANTS
  Workers = {w1, w2}
  BatchLimit = 2
  MaxUpdates = 3
  MaxEvents = 2
INVARIANTS
  OffsetNeverAhead
  StopNeverLost
  AuditTrail
PROPERTY StopEventuallyConsumed
CHECK_DEADLOCK FALSE
