SPECIFICATION FairSpec
CONSTANTS
  p1 = p1
  p2 = p2
  s1 = s1
  s2 = s2
  Proc = {p1, p2}
  Seed = {s1, s2}
  Requests <- MCRequests
  MaxLines <- MCMaxLines
  MaxFaults = 1
CHECK_DEADLOCK FALSE
INVARIANTS
  RepliesComplete
  ClientTruth
  CurrentSwitched
  UnitsFollowCurrent
PROPERTIES
  RequestsEnd
