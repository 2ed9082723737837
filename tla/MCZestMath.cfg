SPECIFICATION Spec
CONSTANTS
  FixedPrecision = 1
  One = 10
  SecondsInYear = 100
  Time <- Clock
  MaxHeight = 2
  MaxAmount = 40
  MaxFactor = 25
  MaxDecimals = 3
INVARIANTS
  FactorRoundTrip
  AccrualNeverShrinks
  ExchangeIsFair
  TaylorIsAccurate
CHECK_DEADLOCK FALSE
