SPECIFICATION ProcessSpec
CONSTANTS
  LossStreakLimit = 2
  CooldownCycles = 0
  MaxCooldownCycles = 0
  MinNotional = 2
  TimeoutCycles = 1
  TimeoutPct = 50
  MaxMissPct = 50
  MaxMissRise = 1
  PullbackDrop = 2
  ZoneDrop <- MCZoneDrop
  ZonePct <- MCZonePct
  MaxLoops = 2
  Prices = {1, 3}
  ReserveLevels = {1, 9}
  QuoteReserves = {0}
  StartBase = 5
  StartQuote = 4
  PreservePct = 0
  BaseTrade = 4
  MaxTrade = 3
  BoostPct = 150
  PositionCap = 20
  ReentryCap = 20
  Premium = 0
  StaleCycles = 0
  MaxRestarts = 1
  FreshStart = FALSE
INVARIANTS
  ProcessTypeOK
  OnlyReentryTrades
  BudgetFunded
PROPERTIES
  LevelTwiceOnlyAfterRestart
