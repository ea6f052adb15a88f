SPECIFICATION FairSpec
CONSTANTS
  Brokers = {b1, b2}
  Nonces = {n1, n2}
  Requests = {r1, r2}
  NoPeer = NoPeer
  MaxNonces = 1
  TTL = 1
  MaxTime = 2
INVARIANTS SingleUse RedeemedInTime DeniedForCause CapacityBound
PROPERTIES ImplementsToken NoLiveEviction Answered
CHECK_DEADLOCK FALSE
