SPECIFICATION Spec
CONSTANTS
  LossStreakLimit = 2
  CooldownCycles = 0
  MaxCooldownCycles = 0
  MinNotional = 2
  TimeoutCycles = 2
  TimeoutPct = 50
  MaxMissPct = 50
  MaxMissRise = 1
  PullbackDrop = 2
  ZoneDrop <- MCZoneDrop
  ZonePct <- MCZonePct
  MaxLoops = 4
  Prices = {2, 4}
  ReserveLevels = {0, 1}
  QuoteReserves = {0, 2}
  StartBase = 3
  StartQuote = 2
  PreservePct = 60
  BaseTrade = 4
  MaxTrade = 6
  BoostPct = 150
  PositionCap = 8
  ReentryCap = 9
  Premium = 0
  StaleCycles = 0
INVARIANTS
  TypeOK
  BudgetFunded
