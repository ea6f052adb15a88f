SPECIFICATION Spec
CONSTANTS
  p1 = p1
  p2 = p2
  k1 = k1
  k2 = k2
  Users = {u1}
  Projects = {p1, p2}
  Keys = {k1, k2}
  NoKey = NoKey
  Levels <- MCLevels
  Secrets <- MCSecrets
  Requests = {r1}
CONSTRAINT Unanswered
INVARIANTS AllowedIsEntitled EntitledIsAllowed
