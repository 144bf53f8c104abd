SPECIFICATION VmFairSpec
CONSTANTS
  Id = {v1, v2}
  Budget = 2
  Amounts = {1, 2}
  ResultLimit = 1
  Hosted = {v1}
  MaxFaults = 1
  None = None
CHECK_DEADLOCK FALSE
INVARIANTS
  HostReserved
  WithinBudget
  CertificateRespected
  LeaseOutlivesVmm
PROPERTIES
  ImplementsReservations
  RetainedKept
  ShutdownTruth
  StopEnds
  RecoveryEnds
