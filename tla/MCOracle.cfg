CONSTANTS
  Address = {alice, bob}
  NoAddress = NoAddress
  U32Max = 3
  TotalWeight = 2
  Value <- MCValue
  Basket <- MCBasket
  MaxTime = 2
SPECIFICATION OracleSpec
INVARIANTS
  OracleTypeOK
  PublishedIsPrefix
  PublishedIsValid
  WeightsAddUp
  PublishedInOrder
PROPERTIES
  WriteOnce
  ImplementsFeedLog
