CONSTANTS
  TxSlots = 2
  RxSlots = 2
  SlotSize = 2
  Word = {0, 1, 2}
  Frames <- MCFrames
  RxFrames <- MCRxFrames
  TimerPeriod = 16
  TicksPerMs = 2
  U32 = 64
  ArpInterval = 4
  TcpInterval = 1
  PoolSize = 2
  MaxLag = 3
  Traffic <- MCTraffic
SPECIFICATION LoopSpec
INVARIANTS TypeOK TxIntact CopiesOldest TcpTimerOnce DueOrder PoolSuffices
PROPERTIES SendsInOrder ReceivesInOrder LoopGoesOn
