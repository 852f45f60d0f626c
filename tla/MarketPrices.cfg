SPECIFICATION Spec
CONSTANTS
  Urls <- MCUrls
  Host <- MCHost
  MaxRetries = 2
  PriceTtl = 2
  MinInterval = 2
  LoopTime = 1
  CallTime = 1
  AgeCap = 3
INVARIANTS TypeOK CacheIsYoung AllAskedBeforeStale
PROPERTIES PricesComeBack
