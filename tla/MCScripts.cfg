CONSTANTS
  Scripts = {"initializePool", "sendFunds", "drawdown", "makePayment", "claimRewards", "redeemHtlc", "refundHtlc"}
  SlowScripts = {"initializePool", "sendFunds"}
  BlockSizes = {2, 3, 4}
  Dues = {12500, 250000}
SPECIFICATION Spec
INVARIANTS
  TypeOK
  NoNonceGap
  NothingRefused
  RevealAfterEscrow
  FeesAsStated
  ProofFitsAtDepth
PROPERTIES
  ScriptsEnd
  GoalReached
