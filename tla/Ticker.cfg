SPECIFICATION Spec
CONSTANTS
  Replica = {t1, t2}
  Currency = {"USD", "EUR", "GBP"}
  Code = {"USD", "EUR", "GBP"}
  Table <- Dollars
  Rates = {100, 1200}
  Scale = 1000
  Limit = 1000
  Unit = {1, 10, 100, 1000}
  Scientific = {10000}
  Request <- Prices
  TTL = 2
  Latency = 1
  None = None
  MaxTime = 4
  MaxMoves = 1
  MaxRequests = 3
  MaxCrashes = 1
SYMMETRY Replicas
INVARIANTS QuoteIsFresh AsOfIsHonest ConversionIsNearest
