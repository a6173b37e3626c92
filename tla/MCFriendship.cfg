CONSTANTS
  a = a
  b = b
  h1 = h1
  h2 = h2
  r1 = r1
  r2 = r2
  r3 = r3
  Pair = {a, b}
  Handlers = {h1, h2}
  FriendRequests = {r1, r2, r3}
  MaxFriendships = 2
  FriendsOnly = FALSE
SYMMETRY MCSymmetry
SPECIFICATION Spec
INVARIANTS
  TypeOK
  BlockedStayApart
  OneBondByConsent
  FewConversations
