SPECIFICATION Spec
CONSTANTS
  Mantissa = 14
  Scale = 17
  MaxExponent = 8
  MaxCount = 5
  MaxClock = 5
  MaxDelay = 4
  Alphas <- AllAlphas
INVARIANTS
  TypeOK
  MeansQuantile
  QuantilesOrdered
CHECK_DEADLOCK FALSE
