SPECIFICATION FairSpec
CONSTANTS
  prod = prod
  stage = stage
  k1 = k1
  k2 = k2
  k3 = k3
  k4 = k4
  b1 = b1
  b2 = b2
  Brokers = {b1, b2}
  Envs = {prod}
  Keys = {k1, k2, k3, k4}
  NoKey = NoKey
  Unreadable = Unreadable
  Static <- MCStaticProd
  FanOut = TRUE
  ReadErrors = TRUE
  MaxFaults = 2
INVARIANTS HeldKeys
PROPERTIES KeepsIdentity Converges
