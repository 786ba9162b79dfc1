CONSTANTS
  MaxVars = 2
  MaxClauses = 2
  ClauseLen = 2
  CyclesWidth = 3
  VarsIn <- MCVarsIn
  ClausesIn <- MCClausesIn
  LitsIn <- MCLitsIn
SPECIFICATION FairSpec
INVARIANTS TypeOK SearchInv DoneMeansIdle AnswerExact AnswerMeansSatisfiable
PROPERTY Termination
