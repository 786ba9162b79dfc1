CONSTANTS
  MaxVars = 2
  MaxClauses = 2
  ClauseLen = 2
  CyclesWidth = 3
  BufSize = 10
  Packets <- MCPackets
SPECIFICATION FairSpec
INVARIANTS TypeOK WritesMapped RunsOnlyWhilePolled ReadsOwnResult HostAnswer
PROPERTY ImplementsService
