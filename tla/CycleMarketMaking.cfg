SPECIFICATION Spec
CONSTANTS
  LossStreakLimit = 2
  CooldownCycles = 0
  MaxCooldownCycles = 0
  MinNotional = 2
  TimeoutCycles = 2
  TimeoutPct = 50
  MaxMissPct = 50
  MaxMissRise = 1
  PullbackDrop = 2
  ZoneDrop <- MCZoneDrop
  ZonePct <- MCZonePct
  MaxLoops = 2
  Prices = {2}
  ReserveLevels = {1}
  QuoteReserves = {0}
  StartBase = 4
  StartQuote = 4
  PreservePct = 60
  BaseTrade = 4
  MaxTrade = 3
  BoostPct = 150
  PositionCap = 6
  ReentryCap = 7
  Premium = 0
  StaleCycles = 0
INVARIANT
  MarketMakingPlaceable
