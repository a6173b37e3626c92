CONSTANTS
  c1 = c1
  c2 = c2
  i1 = i1
  none = none
  k1 = k1
  k2 = k2
  Callers = {c1, c2}
  ClientIds = {i1}
  NoClientId = none
  Keys = {k1, k2}
  Limit <- MCLimit
  Window <- MCWindow
  Penalty = 3
  TTL = 6
  MaxEntries = 1
  MaxLag <- MCMaxLag
  MaxClock <- MCMaxClock
SPECIFICATION Spec
SYMMETRY MCSymmetry
INVARIANTS
  WindowHolds
  PenaltyServed
PROPERTIES
  PenaltyEarned
  DedupHolds
