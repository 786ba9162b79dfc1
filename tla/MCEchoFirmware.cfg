CONSTANTS
  Depth = 2
  Word = {0, 1, 2, 3}
  WordBytes = 2
  Radix = 2
  Buffers <- MCBuffers
SPECIFICATION FwSpec
INVARIANTS ReadsLastWrite MemInv EchoIdentity
PROPERTIES LegalMaster CallReturns
