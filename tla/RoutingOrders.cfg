SPECIFICATION Spec
CONSTANTS
  Urls <- MCUrls
  MaxRetries = 1
  PolicyLayers <- MCPolicyLayers
  Risks <- MCRisks
  Sizes = {1, 3}
  MaxTrade = 2
  MinNotional = 1
  GasShareLimit = 50
  PrivateEnabled = TRUE
  CowEnabled = TRUE
  CowPair = TRUE
  CowMin = 2
  MaxOrders = 2
INVARIANTS TypeOK PublicOnlyWhenSafe TwiceOnlyAfterLostAnswer
PROPERTIES SentIsApproved ApprovedIsSent
