SPECIFICATION Spec
CONSTANTS
  FixedPrecision = 3
  One = 1000
  SecondsInYear = 40
  Time <- Clock
  alice = alice
  bob = bob
  User = {alice, bob}
  Amount = {10}
  Held0 <- EarlyHolder
  MaxBalance = 20
  WorthOfMax = 400
  Growth = {0, 10}
  Rate = {0, 800}
  Price <- Prices
  Precision <- Decimals
  Fund = 100
  Taken = {100}
  MaxStarts = 1
  MaxHeight = 2
INVARIANTS
  TypeOK
  HookNeverBlocks
  PaidOnce
PROPERTIES
  RewardsSettled
  RewardsOnlyGrow
CHECK_DEADLOCK FALSE
