CONSTANTS
  Venue = {a, b, c, d}
  Liar = d
  Honest <- MCHonest
  Forged <- MCForged
  Lowest = 100
  Highest = 110
  NoQuote = NoQuote
  MinSources = 2
  MaxDeviation = 500
SPECIFICATION Spec
INVARIANT
  OneSourceMovesLittle
CHECK_DEADLOCK FALSE
