CONSTANTS
  Accounts = {alice, hook}
  Hook = hook
  Nobody = nobody
  Datas = {"x", "y"}
  MaxTokens = 2
  MaxProofs = 1
  MaxDepth = 2
SPECIFICATION AgenticSpec



PROPERTY
  TransfersAreGated

