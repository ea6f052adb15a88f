SPECIFICATION Spec
CONSTANTS
  prod = prod
  stage = stage
  k1 = k1
  k2 = k2
  k3 = k3
  k4 = k4
  b1 = b1
  b2 = b2
  Brokers = {b1, b2}
  Envs = {prod}
  Keys = {k1, k2, k3}
  NoKey = NoKey
  Unreadable = Unreadable
  Static <- MCStaticNone
  FanOut = TRUE
  ReadErrors = TRUE
  MaxFaults = 1
PROPERTY AdoptsExisting
