SPECIFICATION Spec
CONSTANTS
  alice = alice
  bob = bob
  Users = {alice, bob}
  RAY = 10000
  WAD = 10000
  PERCENTAGE_FACTOR = 10000
  WAD_RAY_RATIO = 10
  SECONDS_PER_YEAR = 1
  Rates = {1000, 5000}
  Amounts = {200, 500}
  MaxTime = 3
  MaxAverage = 10000
  MaxBalance = 700
  MaxCalls = 5
CHECK_DEADLOCK FALSE
SYMMETRY Symmetry
INVARIANTS TypeOK RatesWithinMarket
PROPERTIES DebtsMoveByAmount TotalMovesWithDebts
