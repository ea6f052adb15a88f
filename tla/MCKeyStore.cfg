SPECIFICATION FairSpec
CONSTANTS
  p1 = p1
  p2 = p2
  k1 = k1
  k2 = k2
  Files = {1, 2}
  Repositories = {p1, p2}
  Identities = {k1, k2}
  NoKey = NoKey
  Absent = Absent
  Bad = Bad
  MaxRelinks = 2
  MaxFaults = 1
INVARIANTS AlwaysReady OthersKept
PROPERTY Converges
