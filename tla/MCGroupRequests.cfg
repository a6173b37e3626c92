CONSTANTS
  ann = ann
  bob = bob
  h1 = h1
  h2 = h2
  Accounts = {ann, bob}
  Founder = ann
  Handlers = {h1, h2}
  MaxRequests = 2
  MaxFailures = 1
SYMMETRY MCSymmetry
VIEW MCView
SPECIFICATION RequestsSpec
INVARIANTS
  FewPending
  AdmissionsBounded
  CacheFollowsEntries
