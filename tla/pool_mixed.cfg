SPECIFICATION Spec
CONSTANTS
  alice = alice
  bob = bob
  celo = celo
  cusd = cusd
  moo = moo
  Users = {alice, bob}
  Treasury = treasury
  Reserves = {celo, moo, cusd}
  NoLoan = NoLoan
  RAY = 10
  WAD = 10000
  PERCENTAGE_FACTOR = 100
  Amounts = {10}
  UintMax = 1000
  Prices <- MixedPrices
  Ltv <- MixedLtv
  Threshold <- MixedThreshold
  Bonus <- MixedBonus
  ReserveFactor <- MixedFactor
  Borrowable = {cusd}
  StableBorrowable = {}
  LIQUIDATION_CLOSE_FACTOR_PERCENT = 50
  maxStableRateBorrowSizePercent = 2500
  flashLoanPremiumTotal = 9
  REBALANCE_UP_USAGE_RATIO_THRESHOLD = 9
  IndexSteps = {}
  MaxIndex = 10
  MaxScaled <- MixedSupply
  FlashAmounts = {}
  Freezable = {}
  PauseCalls = {TRUE, FALSE}
  MaxLiquidity = 30
SYMMETRY Symmetry
PROPERTIES MarginKept CollateralPaidFor
