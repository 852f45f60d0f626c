CONSTANTS
  Markets <- MCMarkets
  CalmMarkets <- MCCalmMarkets
  Stage1Cycles = 1
  Stage2Cycles = 2
  Stage3Cycles = 3
  HardCluster = 1
  KillCluster = 2
  Window = 3
  ClusterWindow = 2
  ProbeAge = 2
  History = 3
  MaxLosses = 2
  CoolCycles = 1
  MaxChunks = 2

SPECIFICATION Spec
INVARIANTS TypeOK
PROPERTIES QuotesStopAfterToxicCluster LockIsFinal DefenceLatches PauseEnds CalmsDown
