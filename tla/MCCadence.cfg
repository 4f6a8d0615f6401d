CONSTANTS
  Job = {}
  Local = {l1, l2, l3}
  Fixture = {}
  NoRun = NoRun
  Host = Host
  FixtureDir = FixtureDir
  Repo = Repo
  Admin = admin
  PublisherKey = {k1}
  Address = {admin, k1}
  NoAddress = NoAddress
  U32Max = 2
  TotalWeight = 2
  Value <- MCValue
  Basket <- MCBasket
  Level = 1
  Weights <- MCWeights
  MaxTime = 2
  Due = 2
SPECIFICATION Spec
INVARIANT
  CadenceHolds
