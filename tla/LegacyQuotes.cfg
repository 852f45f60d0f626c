SPECIFICATION LegacySpec
CONSTANTS
  LossStreakLimit = 1
  CooldownCycles = 2
  MaxCooldownCycles = 0
  MinNotional = 2
  TimeoutCycles = 1
  TimeoutPct = 50
  MaxMissPct = 50
  MaxMissRise = 1
  PullbackDrop = 2
  ZoneDrop <- MCZoneDrop
  ZonePct <- MCZonePct
  MaxLoops = 3
  Prices = {2}
  ReserveLevels = {1}
  QuoteReserves = {0, 2}
  StartBase = 6
  StartQuote = 1
  PreservePct = 0
  BaseTrade = 5
  MaxTrade = 3
  BoostPct = 100
  PositionCap = 8
  ReentryCap = 8
  Premium = 1
  StaleCycles = 1
  TradeSizes = {0, 3}
  LevelOnePct = 80
  FailsafeCycles = 2
  TimeStopCycles = 2
  MaxHoldCycles = 3
  ForceSize = 2
  ExitCap = 4
INVARIANT RangeMakerQuotesSells
