SPECIFICATION Spec
CONSTANTS
  MaxMessages = 3
  QueueCapacity = 1
  PendingLimit = 2
  MaxClock = 2
  MaxCrashes = 1
INVARIANTS
  NoResurrection
  AcceptedIsKept
  StoredInCreationOrder
  TotalIsExact
  LastMessageIsNewest
  IndInv
PROPERTIES
  ImplementsBoard
  EveryAcceptedSettles
