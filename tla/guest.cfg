SPECIFICATION FairSpec
CONSTANTS
  Proc <- MCProc
  Guest = Guest
  MaxChunks = 1
  MaxInbox = 1
INVARIANTS
  NoReuse
  ExitedComplete
  WireWellFormed
  KillsOwnChildren
PROPERTIES
  DisconnectEnds
CHECK_DEADLOCK FALSE
