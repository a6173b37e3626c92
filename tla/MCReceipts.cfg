CONSTANTS
  MaxMessages = 2
  QueueCapacity = 1
  PendingLimit = 2
  MaxClock = 1
  MaxCrashes = 1
  bob = bob
  r1 = r1
  r2 = r2
  Recipients = {bob}
  Requests = {r1, r2}
  Erasable = {1}
SYMMETRY MCSymmetry
SPECIFICATION ReceiptsSpec
INVARIANTS
  AckedStaysRead
  ReceiptsFollowRecord
