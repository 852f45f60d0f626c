SPECIFICATION Spec
CONSTANTS
  Urls <- MCUrls
  MaxRetries = 1
  PolicyLayers <- MCBalanced
  Risks <- MCCalm
  Sizes = {3}
  MaxTrade = 2
  MinNotional = 1
  GasShareLimit = 50
  PrivateEnabled = TRUE
  CowEnabled = TRUE
  CowPair = TRUE
  CowMin = 2
  MaxOrders = 1
INVARIANTS FillsAreRouted
