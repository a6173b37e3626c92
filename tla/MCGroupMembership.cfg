CONSTANTS
  ann = ann
  bob = bob
  cid = cid
  h1 = h1
  h2 = h2
  Accounts = {ann, bob, cid}
  Founder = ann
  Handlers = {h1, h2}
SYMMETRY MCSymmetry
SPECIFICATION Spec
INVARIANTS
  OneOwnerUnlessRaced
  CacheFollows
