SPECIFICATION GraceSpec
CONSTANTS
  alice = alice
  bob = bob
  celo = celo
  cusd = cusd
  Users = {alice, bob}
  Treasury = treasury
  Reserves = {celo, cusd}
  NoLoan = NoLoan
  RAY = 10
  WAD = 10000
  PERCENTAGE_FACTOR = 10000
  Amounts = {10}
  UintMax = 1000
  Prices <- SteadyPrices
  Ltv <- HalfLtv
  Threshold <- HighThreshold
  Bonus <- TenPercentBonus
  ReserveFactor <- NothingToTreasury
  Borrowable = {cusd}
  StableBorrowable = {cusd}
  LIQUIDATION_CLOSE_FACTOR_PERCENT = 5000
  maxStableRateBorrowSizePercent = 5000
  flashLoanPremiumTotal = 9
  REBALANCE_UP_USAGE_RATIO_THRESHOLD = 9
  IndexSteps = {10}
  MaxIndex = 20
  MaxScaled <- SmallSupply
  FlashAmounts = {}
  Freezable = {cusd}
  PauseCalls = {}
  MaxLiquidity = 20
  Upgrades = {"LendingPool", "LendingPoolWithGracePeriod"}
SYMMETRY Symmetry
INVARIANTS GraceTypeOK DebtRepayable
PROPERTIES Spec NothingLeaves
