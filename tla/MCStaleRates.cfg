SPECIFICATION Spec
CONSTANTS
  FixedPrecision = 2
  One = 100
  SecondsInYear = 40
  Time <- Clock
  alice = alice
  bob = bob
  treasury = treasury
  stx = stx
  usd = usd
  stable = stable
  User = {alice, bob}
  Treasury = treasury
  Asset = {stx, usd}
  EMode = {}
  NoMode = NoMode
  NoAsset = NoAsset
  Param <- StandardParam
  EModeParam <- StableEMode
  HealthThreshold = 100
  Caller <- Liquidating
  Amount = {50, 1000}
  MaxValue = 1000
  Price <- Falling
  Deposit <- Endowment
  MaxHeight = 0
  MaxBurn = 0
  StatusOf = {}
  BorrowingOf = {}
  UsageOf = {}
  IsolationOf = {}
  IsoBorrowOf = {}
  GraceOf = {}
  TypeOf = {}
  Switched = {}
  Risk = {}
  Ceiling = {}
  Borrowable0 = {usd}
  Collateral0 = {stx, usd}
  Isolated0 = {}
  BorrowableIso0 = {}
  AssetEMode0 <- NoEMode0
INVARIANTS
  RatesFollowUtilization
CHECK_DEADLOCK FALSE
