CONSTANTS
  Job = {j1}
  Local = {l1, l2}
  Fixture = {}
  NoRun = NoRun
  Host = Host
  FixtureDir = FixtureDir
  Repo = Repo
  Admin = admin
  PublisherKey = {k1, k2}
  Address = {admin, k1, k2}
  NoAddress = NoAddress
  U32Max = 2
  TotalWeight = 2
  Value <- MCValue
  Basket <- MCBasket
  Level = 1
  Weights <- MCWeights
  MaxTime = 1
  Due = 1
SYMMETRY Interchangeable
SPECIFICATION Spec
INVARIANTS
  TypeOK
  Continuity
  StateIsPublished
  SaveNotShared
  SuccessIsDurable
  JobsKeepCadence
PROPERTY
  StateNeverRegresses
