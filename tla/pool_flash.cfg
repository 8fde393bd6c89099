SPECIFICATION Spec
CONSTANTS
  alice = alice
  bob = bob
  celo = celo
  cusd = cusd
  moo = moo
  Users = {alice, bob}
  Treasury = treasury
  Reserves = {cusd}
  NoLoan = NoLoan
  RAY = 100
  WAD = 10000
  PERCENTAGE_FACTOR = 10000
  Amounts = {20}
  UintMax = 1000
  Prices <- CusdPrice
  Ltv <- CusdHalf
  Threshold <- CusdThreshold
  Bonus <- CusdBonus
  ReserveFactor <- CusdHalf
  Borrowable = {cusd}
  StableBorrowable = {cusd}
  LIQUIDATION_CLOSE_FACTOR_PERCENT = 5000
  maxStableRateBorrowSizePercent = 5000
  flashLoanPremiumTotal = 2000
  REBALANCE_UP_USAGE_RATIO_THRESHOLD = 95
  IndexSteps = {}
  MaxIndex = 110
  MaxScaled <- CusdSupply
  FlashAmounts = {20}
  Freezable = {cusd}
  PauseCalls = {TRUE, FALSE}
  MaxLiquidity = 70
SYMMETRY Symmetry
PROPERTIES BackingKept
