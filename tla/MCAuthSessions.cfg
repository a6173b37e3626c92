CONSTANTS
  h1 = h1
  h2 = h2
  s1 = s1
  s2 = s2
  s3 = s3
  Handlers = {h1, h2}
  Signups = {"signup"}
  Logins = {"login"}
  Sessions = {s1, s2, s3}
  MaxAccounts = 2
  MaxToken = 3
  MaxUncounted = 1
  AttemptLimit = 2
SYMMETRY MCSymmetry
VIEW MCView
SPECIFICATION Spec
INVARIANTS
  TypeOK
  GuessesBounded
  CodeOpensFew
  LogoutIsFinal
  DeletionEndsSessions
