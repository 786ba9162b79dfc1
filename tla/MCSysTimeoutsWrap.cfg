CONSTANTS
  TimerPeriod = 24
  TicksPerMs = 2
  U32 = 64
  ArpInterval = 4
  TcpInterval = 1
  PoolSize = 2
  MaxLag = 1
SPECIFICATION FairSpec
PROPERTY WrapHarmless
