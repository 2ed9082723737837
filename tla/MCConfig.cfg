SPECIFICATION Spec
CONSTANTS
  FixedPrecision = 2
  One = 100
  SecondsInYear = 40
  Time <- Clock
  alice = alice
  bob = bob
  treasury = treasury
  stx = stx
  usd = usd
  stable = stable
  User = {alice, bob}
  Treasury = treasury
  Asset = {stx, usd}
  EMode = {stablecoins}
  NoMode = NoMode
  NoAsset = NoAsset
  Param <- CollateralParam
  EModeParam <- StableEMode
  HealthThreshold = 100
  Caller <- LiquidatingModes
  Amount = {50, 1000}
  MaxValue = 1000
  Price <- Falling
  Deposit <- LeanEndowment
  MaxHeight = 0
  MaxBurn = 0
  StatusOf = {stx, usd}
  BorrowingOf = {usd}
  UsageOf = {stx}
  IsolationOf = {}
  IsoBorrowOf = {}
  GraceOf = {}
  TypeOf = {usd}
  Switched = {}
  Risk <- PhasedOut
  Ceiling = {}
  Borrowable0 = {usd}
  Collateral0 = {stx}
  Isolated0 = {}
  BorrowableIso0 = {}
  AssetEMode0 <- StableEMode0
PROPERTIES
  FrozenUntouched
  StaysHealthy
CHECK_DEADLOCK FALSE
