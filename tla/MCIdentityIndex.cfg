SPECIFICATION FairSpec
CONSTANTS
  f1 = f1
  f2 = f2
  u1 = u1
  u2 = u2
  Fps = {f1, f2}
  Users = {u1, u2}
  NoUser = NoUser
  Projects = {p1}
  Legacy <- OneLegacy
  Poll = poll
  Hooks = {h1}
  Requests = {r1}
  Outages = TRUE
  MaxChanges = 1
CONSTRAINTS StartsOnboarded
INVARIANTS NoLockout Witnessed
PROPERTIES Converges Served
