SPECIFICATION Spec
CONSTANTS
  prod = prod
  stage = stage
  dev = dev
  maint = maint
  m1 = m1
  m2 = m2
  c0 = c0
  c1 = c1
  c2 = c2
  Envs = {prod, stage}
  Users = {dev, maint}
  MRs = {m1, m2}
  Author <- MCAuthor
  Contents = {c0, c1, c2}
  Empty = c0
  Elsewhere = Elsewhere
  NoSection = NoSection
  NoSig = NoSig
  Levels = {0, 30, 50}
  Undeclared = Undeclared
  Collapsed = Collapsed
  NoPolicy = NoPolicy
  Unasked = Unasked
  Unregistered = Unregistered
  Edits <- MCEdits
  PolicyEdits <- MCPolicyEdits
  MaxChanges = 1
  MaxCommits = 2
  MaxFaults = 1
CONSTRAINTS Starts Begins Later
INVARIANTS FailsClosed
CHECK_DEADLOCK FALSE
