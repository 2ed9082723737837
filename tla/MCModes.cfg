SPECIFICATION Spec
CONSTANTS
  FixedPrecision = 2
  One = 100
  SecondsInYear = 40
  Time <- Clock
  alice = alice
  bob = bob
  treasury = treasury
  stx = stx
  usd = usd
  stable = stable
  User = {alice, bob}
  Treasury = treasury
  Asset = {stx, usd, stable}
  EMode = {stablecoins}
  NoMode = NoMode
  NoAsset = NoAsset
  Param <- FreeParam
  EModeParam <- StableEMode
  HealthThreshold = 100
  Caller <- Switching
  Amount = {25, 50, 1000}
  MaxValue = 1000
  Price <- Steady
  Deposit <- Endowment
  MaxHeight = 0
  MaxBurn = 1
  StatusOf = {}
  BorrowingOf = {}
  UsageOf = {}
  IsolationOf = {}
  IsoBorrowOf = {usd}
  GraceOf = {}
  TypeOf = {}
  Switched = {stablecoins}
  Risk = {}
  Ceiling = {}
  Borrowable0 = {usd, stable}
  Collateral0 = {stx, stable}
  Isolated0 = {stx}
  BorrowableIso0 = {usd, stable}
  AssetEMode0 <- StableEMode0
INVARIANTS
  EModeCoherent
  IsolationExclusive
CHECK_DEADLOCK FALSE
