SPECIFICATION LeaseSpec
CONSTANTS
  i1 = i1
  i2 = i2
  o1 = o1
  o2 = o2
  Token = {l1, l2}
  Slots = 1
  Execution = {e1}
  Instance = {i1, i2}
  Owner = {o1, o2}
  InstanceOf <- TwoGardens
  Bucket <- OwnBucket
  Request = {r1, r2}
  Mortal = {o1}
  NoOne = NoOne
SYMMETRY Symmetry
INVARIANTS
  LeasesExclusive
  DenyProtected
  OpenOnlyWhileHeld
  NoStaleFlows
PROPERTIES
  ActiveKept
