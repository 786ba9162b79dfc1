CONSTANTS
  Sizes <- TwoClients
  MaxTimeouts <- TwoTimeouts
  Interrupted = {1, 2}
  MaxPcbs = 2
  MemSize = 3072
  Mss = 1460
  SndBuf = 2920
  QueueLen = 8
  Hdr = 80
  Raw = 24
  SynOpt = 4
CHECK_DEADLOCK FALSE
SPECIFICATION Spec
INVARIANT OneClient
