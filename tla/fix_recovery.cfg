SPECIFICATION FixSpec
CONSTANTS
  moolaFix = moolaFix
  OwnedWallet = OwnedWallet
  exploiterAddress = exploiterAddress
  testAccount = testAccount
  ally = ally
  trader = trader
  mooPool = mooPool
  supplier = supplier
  debtor = debtor
  celo = celo
  cusd = cusd
  moo = moo
  Celo = celo
  Cusd = cusd
  Moo = moo
  Users = {moolaFix, OwnedWallet, exploiterAddress, testAccount, ally, trader, mooPool, supplier, debtor}
  Treasury = treasury
  Reserves = {celo, cusd, moo}
  Collected <- CollectedReserves
  MemReserves <- MemOfCelo
  Exploited <- SmallStates
  Supplies = {75, 83}
  ExploiterDebts = {110, 117}
  Contributions = {55, 60}
  Indexes = {100, 103, 110}
  testAmount = 20
  testLoan = 1
  Upgrades = {"LendingPoolWithGracePeriod"}
  NoLoan = NoLoan
  RAY = 100
  WAD = 10000
  PERCENTAGE_FACTOR = 10000
  Amounts = {}
  UintMax = 100000
  Prices <- SteadyPrices
  Ltv <- CusdLtv
  Threshold <- CusdThreshold
  Bonus <- TenPercentBonus
  ReserveFactor <- NothingToTreasury
  Borrowable = {celo, cusd, moo}
  StableBorrowable = {celo, cusd}
  LIQUIDATION_CLOSE_FACTOR_PERCENT = 5000
  maxStableRateBorrowSizePercent = 2500
  flashLoanPremiumTotal = 9
  REBALANCE_UP_USAGE_RATIO_THRESHOLD = 95
  IndexSteps = {}
  MaxIndex = 200
  MaxScaled <- Unbounded
  FlashAmounts = {}
  Freezable = {moo}
  PauseCalls = {TRUE, FALSE}
  MaxLiquidity = 1000
CHECK_DEADLOCK FALSE
INVARIANTS FixTypeOK LossBorneOnce BadDebtGone Handover
PROPERTIES Completes
