CONSTANTS
  Loop = Loop
  Bot = Bot
  Pipelines <- MCPipelines
  MarketPrices = "market_prices"
  Cutoff = 1
SPECIFICATION FairRefreshSpec
INVARIANTS EmbeddingsAreCurrent OverlapIsAccounted
PROPERTIES MemoryIsReached RowsEnd
