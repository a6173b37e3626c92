SPECIFICATION ServiceSpec
CONSTANTS
  MaxMessages = 2
  QueueCapacity = 1
  PendingLimit = 1
  MaxClock = 2
  DedupTTL = 1
  MaxCrashes = 0
  ann = ann
  c1 = c1
  c2 = c2
  Accounts <- MCAccounts
  Sends <- MCOneSend
  Readers <- MCAccounts
  Deleters <- MCAccounts
INVARIANT SentIsAccepted
