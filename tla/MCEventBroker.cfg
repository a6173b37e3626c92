CONSTANTS
  ann = ann
  bob = bob
  ann1 = ann1
  ann2 = ann2
  ann3 = ann3
  bob1 = bob1
  v1 = v1
  v2 = v2
  Accounts = {ann, bob}
  Conversations = {v1, v2}
  Clients = {ann1, ann2, ann3, bob1}
  AccountOf <- MCAccountOf
  MaxEventChanges = 1
  MaxEventAccounts = 1
  MaxEventWaiters = 3
  MaxEventWaitersPerAccount = 2
  MaxVersion = 2
  MayRestart = TRUE
SYMMETRY MCSymmetry
SPECIFICATION Spec
INVARIANTS
  TypeOK
  LimitsHold
  NoLostWakeup
  CursorComplete
