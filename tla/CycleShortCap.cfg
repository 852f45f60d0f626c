SPECIFICATION Spec
CONSTANTS
  LossStreakLimit = 2
  CooldownCycles = 4
  MaxCooldownCycles = 3
  MinNotional = 2
  TimeoutCycles = 2
  TimeoutPct = 50
  MaxMissPct = 50
  MaxMissRise = 1
  PullbackDrop = 2
  ZoneDrop <- MCZoneDrop
  ZonePct <- MCZonePct
  MaxLoops = 5
  Prices = {2}
  ReserveLevels = {0, 1}
  QuoteReserves = {0}
  StartBase = 4
  StartQuote = 2
  PreservePct = 60
  BaseTrade = 4
  MaxTrade = 3
  BoostPct = 100
  PositionCap = 5
  ReentryCap = 6
  Premium = 1
  StaleCycles = 2
INVARIANTS
  SyncedState
  OnlyReentryTrades
  CooldownBounded
PROPERTIES
  SellsPauseAfterLosses
