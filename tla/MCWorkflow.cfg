CONSTANTS
  Job = {j1, j2}
  Local = {}
  Fixture = {f1}
  NoRun = NoRun
  Host = Host
  FixtureDir = FixtureDir
  Repo = Repo
  Admin = admin
  PublisherKey = {k1}
  Address = {admin, k1}
  NoAddress = NoAddress
  U32Max = 1
  TotalWeight = 1
  Value <- MCValue
  Basket <- MCBasketOfTwo
  Level = 1
  Weights <- MCWeightsOfTwo
  MaxTime = 1
  Due = 1
SPECIFICATION FairSpec
INVARIANT
  FixturesStayApart
PROPERTY
  RunsEnd
