CONSTANTS
  ann = ann
  bob = bob
  h1 = h1
  h2 = h2
  Accounts = {ann, bob}
  Devices = {"phone"}
  Handlers = {h1, h2}
  Workers = {"w1"}
  QueueCapacity = 1
  MaxTokens = 2
  MaxRecords = 2
SYMMETRY MCSymmetry
SPECIFICATION Spec
INVARIANTS
  TypeOK
  RegistrationSticks
  DeletedLeavesNoTrace
