SPECIFICATION Spec
CONSTANTS
  FixedPrecision = 2
  One = 100
  SecondsInYear = 40
  Time <- Clock
  alice = alice
  bob = bob
  treasury = treasury
  stx = stx
  usd = usd
  stable = stable
  User = {alice, bob}
  Treasury = treasury
  Asset = {stx, usd}
  EMode = {}
  NoMode = NoMode
  NoAsset = NoAsset
  Param <- StandardParam
  EModeParam <- StableEMode
  HealthThreshold = 100
  Caller <- Liquidating
  Amount = {50, 1000}
  MaxValue = 1000
  Price <- Collapsing
  Deposit <- LeanEndowment
  MaxHeight = 1
  MaxBurn = 0
  StatusOf = {}
  BorrowingOf = {}
  UsageOf = {}
  IsolationOf = {stx}
  IsoBorrowOf = {}
  GraceOf = {}
  TypeOf = {}
  Switched = {}
  Risk = {}
  Ceiling = {60}
  Borrowable0 = {usd}
  Collateral0 = {stx, usd}
  Isolated0 = {}
  BorrowableIso0 = {usd}
  AssetEMode0 <- NoEMode0
INVARIANTS
  BorrowListsExact
PROPERTIES
  StaysHealthy
  LiquidationBounded
  NothingMadeOrLost
  InterestAccruesOnce
  IsolatedDebtTracked
CHECK_DEADLOCK FALSE
