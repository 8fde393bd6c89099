SPECIFICATION Spec
CONSTANTS
  alice = alice
  bob = bob
  celo = celo
  cusd = cusd
  moo = moo
  Users = {alice, bob}
  Treasury = treasury
  Reserves = {celo, cusd}
  NoLoan = NoLoan
  RAY = 10
  WAD = 10000
  PERCENTAGE_FACTOR = 10000
  Amounts = {20}
  UintMax = 1000
  Prices <- SteadyPrices
  Ltv <- HalfLtv
  Threshold <- TightThreshold
  Bonus <- TenPercentBonus
  ReserveFactor <- HalfToTreasury
  Borrowable = {cusd}
  StableBorrowable = {cusd}
  LIQUIDATION_CLOSE_FACTOR_PERCENT = 5000
  maxStableRateBorrowSizePercent = 5000
  flashLoanPremiumTotal = 9
  REBALANCE_UP_USAGE_RATIO_THRESHOLD = 9
  IndexSteps = {2}
  MaxIndex = 12
  MaxScaled <- SmallSupply
  FlashAmounts = {}
  Freezable = {}
  PauseCalls = {}
  MaxLiquidity = 60
SYMMETRY Symmetry
INVARIANTS TypeOK DebtFlagged ExactExit
PROPERTIES MarginKept BackingKept
