CONSTANTS
  Symbol = {a, b, c}
  Price = {1, 2, 3}
  NoPrice = 0
  Parts = 2
  Notional = 12
  BaseLevel = 2
  Scale = 1
  MaxEpoch = 2
SYMMETRY Interchangeable
SPECIFICATION Spec
INVARIANT
  TypeOK
PROPERTIES
  LevelMovesWithPrices
  ImplementsChainedIndex
