CONSTANTS
  MaxVars = 2
  MaxClauses = 2
  ClauseLen = 1
  CyclesWidth = 3
  Requests <- MCRequests
SPECIFICATION Spec
INVARIANTS TypeOK StartPulse NoStaleDone
PROPERTIES AckAnswersRequest EngineSpec
