SPECIFICATION LeaseSpec
CONSTANTS
  i1 = i1
  i2 = i2
  o1 = o1
  o2 = o2
  Token = {l1}
  Slots = 1
  Execution = {e1}
  Instance = {i1}
  Owner = {o1}
  InstanceOf <- OneGarden
  Bucket <- OwnBucket
  Request = {r1}
  Mortal = {o1}
  NoOne = NoOne
PROPERTIES
  ReleaseRemovesAll
