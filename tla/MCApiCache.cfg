CONSTANTS
  Address = {alice}
  NoAddress = NoAddress
  U32Max = 1
  TotalWeight = 1
  Value <- MCValue
  Basket <- MCBasket
  MaxTime = 3
  Request = {q1, q2}
  Ttl = 2
  MaxLatency = 1
SYMMETRY Interchangeable
SPECIFICATION Spec
INVARIANTS
  TypeOK
  EpochEntriesAreTrue
PROPERTIES
  LatestIsRecent
  AbsenceIsCurrent
