SPECIFICATION ServiceSpec
CONSTANTS
  MaxMessages = 2
  QueueCapacity = 1
  PendingLimit = 1
  MaxClock = 2
  DedupTTL = 1
  MaxCrashes = 1
  ann = ann
  c1 = c1
  c2 = c2
  Accounts <- MCAccounts
  Sends <- MCTwoSends
  Readers <- MCAccounts
  Deleters <- MCAccounts
CONSTRAINT MCFewRequests
SYMMETRY MCSymmetry
INVARIANTS
  OneMessagePerClientId
  RefusedCanRetry
  PageHidesErased
  PageMissesOnlyMoved
