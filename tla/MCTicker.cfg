CONSTANTS
  Gecko = Gecko
  Paprika = Paprika
  Exchange = {Bitstamp, Bitfinex}
  Null = Null
  Failed = Failed
  Ticker <- MCTicker
  Worlds <- MCShared
  Limit = 9
  CommoditySymbol = {"paxg"}
  DerivativeSymbol = {"weth"}
  DerivativeName = {"wrapped x"}
  StableChange = 5
  MinProviders = 1
  MinCap = 2
  MinVolume = 1
  MinTurnover = 50
  MinAge = 90
  MinSources = 2
  MaxNames = 8
  TotalBps = 10000
  CapBps = 2500
SPECIFICATION SelectionSpec
INVARIANT
  PricedAsItself
CHECK_DEADLOCK FALSE
