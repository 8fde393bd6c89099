---------------------------- MODULE LendingPool ----------------------------
(***************************************************************************)
(* The lending pool (LendingPool.sol, revision 3) with the ledgers of its  *)
(* tokens (AToken, VariableDebtToken, StableDebtToken), the collateral     *)
(* manager and the libraries they call.  One action is one external call   *)
(* that does not revert: a call that reverts leaves no trace on the chain. *)
(*                                                                         *)
(* Indexes, and the stable debt of a user, are kept as they stand at the   *)
(* current block; the step Accrue is the passage of time.  What the        *)
(* contracts settle lazily, the treasury's share of the interest, is kept  *)
(* in `accrued` until the next updateState.                                *)
(***************************************************************************)
EXTENDS RayMath, FiniteSetsExt

CONSTANTS
  Users,              \* accounts that call the pool
  Treasury,           \* AToken._treasury, which receives the reserve factor
  Reserves,           \* the listed assets, all active
  Amounts,            \* amounts a caller may ask for
  FlashAmounts,       \* amounts a flash loan may ask for
  UintMax,            \* type(uint256).max, "everything"
  Prices,             \* [Reserves -> set of prices the oracle may report]
  Ltv, Threshold, Bonus, ReserveFactor,  \* [Reserves -> percentage]
  Borrowable, StableBorrowable,          \* reserves with these flags set
  LIQUIDATION_CLOSE_FACTOR_PERCENT,
  maxStableRateBorrowSizePercent,
  flashLoanPremiumTotal,
  REBALANCE_UP_USAGE_RATIO_THRESHOLD,
  IndexSteps,         \* by how much an index may grow in one Accrue
  MaxIndex,           \* bound on the indexes
  MaxScaled,          \* [Reserves -> bound on the scaled supply of the aToken]
  MaxLiquidity,       \* bound on the cash of a reserve
  Freezable,          \* reserves the pool admin may freeze and unfreeze
  PauseCalls,         \* arguments of setPause the emergency admin may use
  NoLoan              \* no flash loan is outstanding

Accounts == Users \cup {Treasury}

HEALTH_FACTOR_LIQUIDATION_THRESHOLD == WAD

ASSUME AmountsAssumption == Amounts \cup FlashAmounts \subseteq Nat /\ UintMax \in Nat
ASSUME AccountsAssumption == Treasury \notin Users /\ IsFiniteSet(Users)
ASSUME ReservesAssumption == IsFiniteSet(Reserves)  \* at most _maxNumberOfReserves
ASSUME PricesAssumption == \A r \in Reserves : Prices[r] \subseteq Nat \ {0}
ASSUME IndexAssumption == IndexSteps \subseteq Nat /\ MaxIndex \in Nat
ASSUME PercentagesAssumption ==
         /\ ReserveFactor \in [Reserves -> 0..PERCENTAGE_FACTOR]
         /\ Threshold \in [Reserves -> 0..PERCENTAGE_FACTOR]
         /\ Ltv \in [Reserves -> 0..PERCENTAGE_FACTOR]
         /\ Bonus \in [Reserves -> Nat \ {0}]
         \* LendingPoolConfigurator.configureReserveAsCollateral
         /\ \A r \in Reserves : Ltv[r] <= Threshold[r]
ASSUME FactorsAssumption ==
         /\ LIQUIDATION_CLOSE_FACTOR_PERCENT \in 0..PERCENTAGE_FACTOR
         /\ flashLoanPremiumTotal \in Nat

ASSUME AdminAssumption == Freezable \subseteq Reserves /\ PauseCalls \subseteq BOOLEAN
ASSUME LoanAssumption == NoLoan \notin [receiver : Users, asset : Reserves, amount : Nat]

VARIABLES
  aScaled,             \* AToken._balances: scaled balance by reserve, account
  aTotal,              \* AToken._totalSupply by reserve
  vScaled,             \* VariableDebtToken._balances
  vTotal,              \* VariableDebtToken._totalSupply
  stable,              \* StableDebtToken.balanceOf, compounded up to now
  sTotal,              \* StableDebtToken.totalSupply, compounded up to now
  liquidityIndex,      \* getReserveNormalizedIncome
  variableBorrowIndex, \* getReserveNormalizedVariableDebt
  accrued,             \* interest whose treasury share is not yet minted
  liquidity,           \* underlying held by the aToken contract
  usingAsCollateral,   \* the collateral bits of a user's configuration
  borrowing,           \* the borrowing bits of a user's configuration
  price,               \* oracle price by reserve
  frozen,              \* reserves whose frozen bit is set
  paused,              \* LendingPoolStorage._paused
  loan                 \* the flash loan being executed, or NoLoan

aTokenVars == <<aScaled, aTotal>>
debtVars   == <<vScaled, vTotal, stable, sTotal>>
indexVars  == <<liquidityIndex, variableBorrowIndex>>
configVars == <<usingAsCollateral, borrowing>>
envVars    == <<price, frozen, paused>>
vars == <<aTokenVars, debtVars, indexVars, accrued, liquidity, configVars,
          envVars, loan>>

-----------------------------------------------------------------------------
(* Balances.                                                               *)

aBalance(u, r) == rayMul(aScaled[r][u], liquidityIndex[r])

variableDebt(u, r) == rayMul(vScaled[r][u], variableBorrowIndex[r])

currentDebt(u, r) == stable[r][u] + variableDebt(u, r)

totalDebt(r) == sTotal[r] + rayMul(vTotal[r], variableBorrowIndex[r])

-----------------------------------------------------------------------------
(* GenericLogic, over any aToken ledger so that a transfer can be judged   *)
(* by the balances it leaves.                                              *)

CollateralOf(u) == {r \in usingAsCollateral[u] : Threshold[r] # 0}

CollateralValue(ledger, u, r) ==
  IF r \in CollateralOf(u) THEN price[r] * rayMul(ledger[r][u], liquidityIndex[r]) ELSE 0

DebtValue(u, r) == IF r \in borrowing[u] THEN price[r] * currentDebt(u, r) ELSE 0

totalCollateralInETH(ledger, u) ==
  SumFunction([r \in Reserves |-> CollateralValue(ledger, u, r)])

totalDebtInETH(u) == SumFunction([r \in Reserves |-> DebtValue(u, r)])

\* The collateral of u, each reserve weighted by a percentage.
Weighted(percentage, ledger, u) ==
  SumFunction([r \in Reserves |-> CollateralValue(ledger, u, r) * percentage[r]])

\* The average of a percentage over the collateral of u, weighted by value.
WeightedAverage(percentage, ledger, u) ==
  LET total == totalCollateralInETH(ledger, u)
  IN IF total > 0 THEN Weighted(percentage, ledger, u) \div total ELSE 0

\* calculateHealthFactorFromBalances(...) >= the liquidation threshold
HealthFactorOk(collateral, debt, threshold) ==
  debt # 0 => wadDiv(percentMul(collateral, threshold), debt)
                >= HEALTH_FACTOR_LIQUIDATION_THRESHOLD

HealthyWith(ledger, u) ==
  HealthFactorOk(totalCollateralInETH(ledger, u), totalDebtInETH(u),
                 WeightedAverage(Threshold, ledger, u))

Healthy(u) == HealthyWith(aScaled, u)

\* Fault: looks at the health factor before the balance decreases.
balanceDecreaseAllowed_Before(u, r, amount) == Healthy(u)

balanceDecreaseAllowed(u, r, amount) ==
  LET collateral == totalCollateralInETH(aScaled, u)
      decrease == price[r] * amount
      left == collateral - decrease
      threshold == (collateral * WeightedAverage(Threshold, aScaled, u)
                      - decrease * Threshold[r]) \div left
  IN \/ borrowing[u] = {}
     \/ r \notin usingAsCollateral[u]
     \/ Threshold[r] = 0
     \/ totalDebtInETH(u) = 0
     \/ left > 0 /\ HealthFactorOk(left, totalDebtInETH(u), threshold)

-----------------------------------------------------------------------------
(* ReserveLogic.updateState on the reserves S: the treasury receives its   *)
(* share of the interest accrued since the previous update.                *)

treasuryShare(r) == percentMul(accrued[r], ReserveFactor[r])

treasuryScaled(r) == rayDiv(treasuryShare(r), liquidityIndex[r])

updatedScaled(S) ==
  [r \in Reserves |->
     IF r \in S THEN [aScaled[r] EXCEPT ![Treasury] = @ + treasuryScaled(r)]
                ELSE aScaled[r]]

updatedTotal(S) ==
  [r \in Reserves |-> IF r \in S THEN aTotal[r] + treasuryScaled(r) ELSE aTotal[r]]

\* Fault: the interest accrued is minted to the treasury but not reset.
UpdateStateAndMove_Again(S, r, u, d) ==
  /\ aScaled[r][u] + d >= 0 /\ updatedTotal(S)[r] + d >= 0
  /\ aScaled' = [updatedScaled(S) EXCEPT ![r][u] = @ + d]
  /\ aTotal' = [updatedTotal(S) EXCEPT ![r] = @ + d]
  /\ UNCHANGED accrued

\* updateState(S) followed by a mint (d > 0) or a burn (d < 0) of u's aTokens.
UpdateStateAndMove(S, r, u, d) ==
  /\ aScaled[r][u] + d >= 0 /\ updatedTotal(S)[r] + d >= 0
  /\ aScaled' = [updatedScaled(S) EXCEPT ![r][u] = @ + d]
  /\ aTotal' = [updatedTotal(S) EXCEPT ![r] = @ + d]
  /\ accrued' = [r2 \in Reserves |-> IF r2 \in S THEN 0 ELSE accrued[r2]]

UpdateState(S) ==
  /\ aScaled' = updatedScaled(S)
  /\ aTotal' = updatedTotal(S)
  /\ accrued' = [r2 \in Reserves |-> IF r2 \in S THEN 0 ELSE accrued[r2]]

\* Underlying paid into, and out of, the aToken contract.
Receive(r, amount) ==
  /\ liquidity[r] + amount <= MaxLiquidity
  /\ liquidity' = [liquidity EXCEPT ![r] = @ + amount]

\* Fault: pays without looking at the cash there is.
Pay_Unguarded(r, amount) ==
  liquidity' = [liquidity EXCEPT ![r] = @ - amount]

Pay(r, amount) ==
  /\ amount <= liquidity[r]
  /\ liquidity' = [liquidity EXCEPT ![r] = @ - amount]

\* VariableDebtToken.mint and burn; both refuse a scaled amount of zero.
MintVariable(u, r, amount) ==
  LET amountScaled == rayDiv(amount, variableBorrowIndex[r])
  IN /\ amountScaled # 0
     /\ vScaled' = [vScaled EXCEPT ![r][u] = @ + amountScaled]
     /\ vTotal' = [vTotal EXCEPT ![r] = @ + amountScaled]

BurnVariable(u, r, amount) ==
  LET amountScaled == rayDiv(amount, variableBorrowIndex[r])
  IN /\ amountScaled # 0
     /\ amountScaled <= vScaled[r][u] /\ amountScaled <= vTotal[r]
     /\ vScaled' = [vScaled EXCEPT ![r][u] = @ - amountScaled]
     /\ vTotal' = [vTotal EXCEPT ![r] = @ - amountScaled]

\* StableDebtToken.mint and burn.  The total compounds at an average rate, so
\* it need not be the sum of the balances: burn stops it at zero.
MintStable(u, r, amount) ==
  /\ stable' = [stable EXCEPT ![r][u] = @ + amount]
  /\ sTotal' = [sTotal EXCEPT ![r] = @ + amount]

BurnStable(u, r, amount) ==
  /\ amount <= stable[r][u]
  /\ stable' = [stable EXCEPT ![r][u] = @ - amount]
  /\ sTotal' = [sTotal EXCEPT ![r] = IF @ <= amount THEN 0 ELSE @ - amount]

setUsingAsCollateral(u, r, use) ==
  usingAsCollateral' =
    [usingAsCollateral EXCEPT ![u] = IF use THEN @ \cup {r} ELSE @ \ {r}]

setBorrowing(u, r, isBorrowing) ==
  borrowing' = [borrowing EXCEPT ![u] = IF isBorrowing THEN @ \cup {r} ELSE @ \ {r}]

-----------------------------------------------------------------------------
(* The operations of the pool.                                             *)

\* deposit: anyone pays `amount` and u receives the aTokens.
Deposit(u, r, amount) ==
  LET amountScaled == rayDiv(amount, liquidityIndex[r])
  IN /\ ~paused
     /\ amount # 0 /\ r \notin frozen
     /\ amountScaled # 0
     /\ aTotal[r] + amountScaled <= MaxScaled[r]
     /\ UpdateStateAndMove({r}, r, u, amountScaled)
     /\ Receive(r, amount)
     /\ IF aScaled[r][u] = 0 THEN setUsingAsCollateral(u, r, TRUE)
                             ELSE UNCHANGED usingAsCollateral
     /\ UNCHANGED <<debtVars, indexVars, borrowing, envVars, loan>>

\* withdraw: UintMax asks for the whole balance.
Withdraw(u, r, amount) ==
  LET userBalance == aBalance(u, r)
      amountToWithdraw == IF amount = UintMax THEN userBalance ELSE amount
      amountScaled == rayDiv(amountToWithdraw, liquidityIndex[r])
  IN /\ ~paused
     /\ amountToWithdraw # 0 /\ amountToWithdraw <= userBalance
     /\ balanceDecreaseAllowed(u, r, amountToWithdraw)
     /\ amountScaled # 0
     /\ UpdateStateAndMove({r}, r, u, 0 - amountScaled)
     /\ Pay(r, amountToWithdraw)
     /\ IF amountToWithdraw = userBalance THEN setUsingAsCollateral(u, r, FALSE)
                                          ELSE UNCHANGED usingAsCollateral
     /\ UNCHANGED <<debtVars, indexVars, borrowing, envVars, loan>>

\* Fault: the collateral needed leaves out the debt there is already.
validateBorrow_NewDebtOnly(u, r, amount, mode) ==
  LET ltv == WeightedAverage(Ltv, aScaled, u)
  IN /\ r \notin frozen /\ amount # 0 /\ r \in Borrowable
     /\ Healthy(u)
     /\ ltv # 0
     /\ percentDiv(price[r] * amount, ltv) <= totalCollateralInETH(aScaled, u)
     /\ mode = "stable" => r \in StableBorrowable

validateBorrow(u, r, amount, mode) ==
  LET collateral == totalCollateralInETH(aScaled, u)
      debt == totalDebtInETH(u)
      ltv == WeightedAverage(Ltv, aScaled, u)
      threshold == WeightedAverage(Threshold, aScaled, u)
  IN /\ r \notin frozen /\ amount # 0 /\ r \in Borrowable
     /\ collateral > 0
     /\ debt # 0 => wadDiv(percentMul(collateral, threshold), debt)
                      > HEALTH_FACTOR_LIQUIDATION_THRESHOLD
     /\ ltv # 0   \* percentDiv refuses to divide by zero
     /\ percentDiv(debt + price[r] * amount, ltv) <= collateral
     /\ mode = "stable" =>
          /\ r \in StableBorrowable
          /\ \/ r \notin usingAsCollateral[u]
             \/ Ltv[r] = 0
             \/ amount > aBalance(u, r)
          /\ amount <= percentMul(liquidity[r], maxStableRateBorrowSizePercent)

\* _executeBorrow up to the release of the funds, which only borrow does.
\* The credit delegation of a borrow on behalf of u is not modelled: u stands
\* for the account that owes, and a refused allowance is a reverted call.
ExecuteBorrow(u, r, amount, mode) ==
  /\ validateBorrow(u, r, amount, mode)
  /\ UpdateState({r})
  /\ \/ /\ mode = "stable"
        /\ MintStable(u, r, amount)
        /\ IF stable[r][u] = 0 THEN setBorrowing(u, r, TRUE) ELSE UNCHANGED borrowing
        /\ UNCHANGED <<vScaled, vTotal>>
     \/ /\ mode = "variable"
        /\ MintVariable(u, r, amount)
        /\ IF vScaled[r][u] = 0 THEN setBorrowing(u, r, TRUE) ELSE UNCHANGED borrowing
        /\ UNCHANGED <<stable, sTotal>>
  /\ UNCHANGED <<indexVars, usingAsCollateral, envVars>>

Borrow(u, r, amount, mode) ==
  /\ ~paused
  /\ ExecuteBorrow(u, r, amount, mode)
  /\ Pay(r, amount)
  /\ UNCHANGED loan

\* repay by u itself (self) or by anyone else, who may not pass UintMax.
Repay(u, r, amount, mode, self) ==
  LET debt == IF mode = "stable" THEN stable[r][u] ELSE variableDebt(u, r)
      paybackAmount == IF amount < debt THEN amount ELSE debt
  IN /\ ~paused
     /\ amount > 0 /\ debt > 0
     /\ amount # UintMax \/ self
     /\ UpdateState({r})
     /\ IF mode = "stable"
          THEN BurnStable(u, r, paybackAmount) /\ UNCHANGED <<vScaled, vTotal>>
          ELSE BurnVariable(u, r, paybackAmount) /\ UNCHANGED <<stable, sTotal>>
     /\ IF currentDebt(u, r) - paybackAmount = 0
          THEN setBorrowing(u, r, FALSE) ELSE UNCHANGED borrowing
     /\ Receive(r, paybackAmount)
     /\ UNCHANGED <<indexVars, usingAsCollateral, envVars, loan>>

\* swapBorrowRateMode: `mode` is the mode the debt has now.
SwapBorrowRateMode(u, r, mode) ==
  LET debt == IF mode = "stable" THEN stable[r][u] ELSE variableDebt(u, r)
  IN /\ ~paused
     /\ r \notin frozen
     /\ debt > 0
     /\ UpdateState({r})
     /\ \/ /\ mode = "stable"
           /\ BurnStable(u, r, debt)
           /\ MintVariable(u, r, debt)
        \/ /\ mode = "variable"
           /\ r \in StableBorrowable
           /\ \/ r \notin usingAsCollateral[u]
              \/ Ltv[r] = 0
              \/ currentDebt(u, r) > aBalance(u, r)
           /\ BurnVariable(u, r, debt)
           /\ MintStable(u, r, debt)
     /\ UNCHANGED <<indexVars, liquidity, configVars, envVars, loan>>

\* rebalanceStableBorrowRate burns and mints u's stable debt at a new rate,
\* which reverts when there is none.  Its condition on the liquidity rate is
\* left open: rates are not part of this module.
RebalanceStableBorrowRate(u, r) ==
  /\ ~paused
  /\ totalDebt(r) # 0
  /\ rayDiv(totalDebt(r), liquidity[r] + totalDebt(r))
       >= REBALANCE_UP_USAGE_RATIO_THRESHOLD
  /\ stable[r][u] > 0
  /\ UpdateState({r})
  /\ UNCHANGED <<debtVars, indexVars, liquidity, configVars, envVars, loan>>

SetUserUseReserveAsCollateral(u, r, useAsCollateral) ==
  /\ ~paused
  /\ aBalance(u, r) > 0
  /\ useAsCollateral \/ balanceDecreaseAllowed(u, r, aBalance(u, r))
  /\ setUsingAsCollateral(u, r, useAsCollateral)
  /\ UNCHANGED <<aTokenVars, debtVars, indexVars, accrued, liquidity, borrowing,
                 envVars, loan>>

-----------------------------------------------------------------------------
(* AToken._transfer and the pool's finalizeTransfer, which judges the      *)
(* sender by the balances the transfer leaves and the flags it found.      *)

moved(ledger, from, to, r, amountScaled) ==
  [[ledger EXCEPT ![r][from] = @ - amountScaled] EXCEPT ![r][to] = @ + amountScaled]

movedScaled(from, to, r, amountScaled) ==
  moved(aScaled, from, to, r, amountScaled)

Transfer(from, to, r, amount) ==
  LET amountScaled == rayDiv(amount, liquidityIndex[r])
      emptied == from # to /\ aBalance(from, r) = amount
      firstReceived == from # to /\ aBalance(to, r) = 0 /\ amount # 0
  IN /\ ~paused
     /\ amountScaled <= aScaled[r][from]
     /\ from # to => amount <= aBalance(from, r)
     /\ HealthyWith(movedScaled(from, to, r, amountScaled), from)
     /\ aScaled' = movedScaled(from, to, r, amountScaled)
     /\ usingAsCollateral' =
          [[usingAsCollateral EXCEPT ![from] = IF emptied THEN @ \ {r} ELSE @]
             EXCEPT ![to] = IF firstReceived THEN @ \cup {r} ELSE @]
     /\ UNCHANGED <<aTotal, debtVars, indexVars, accrued, liquidity, borrowing,
                    envVars, loan>>

-----------------------------------------------------------------------------
(* LendingPoolCollateralManager.                                           *)

\* Fault: seizes for the debt asked for, repays the debt that may be repaid.
liquidationAmounts_Uncapped(u, c, d, debtToCover) ==
  LET maxLiquidatableDebt ==
        percentMul(currentDebt(u, d), LIQUIDATION_CLOSE_FACTOR_PERCENT)
      cover == IF debtToCover > maxLiquidatableDebt THEN maxLiquidatableDebt
                                                    ELSE debtToCover
      wanted == percentMul(price[d] * debtToCover, Bonus[c]) \div price[c]
      balance == aBalance(u, c)
  IN [debt |-> cover, collateral |-> IF wanted <= balance THEN wanted ELSE balance]

\* What a liquidation that asks to cover debtToCover takes from u: the debt of
\* asset d it repays and the collateral of asset c it seizes, bonus included.
liquidationAmounts(u, c, d, debtToCover) ==
  LET maxLiquidatableDebt ==
        percentMul(currentDebt(u, d), LIQUIDATION_CLOSE_FACTOR_PERCENT)
      cover == IF debtToCover > maxLiquidatableDebt THEN maxLiquidatableDebt
                                                    ELSE debtToCover
      wanted == percentMul(price[d] * cover, Bonus[c]) \div price[c]
      balance == aBalance(u, c)
      debtAmountNeeded == percentDiv((price[c] * balance) \div price[d], Bonus[c])
  IN IF wanted <= balance
       THEN [debt |-> cover, collateral |-> wanted]
       ELSE [debt |-> IF debtAmountNeeded < cover THEN debtAmountNeeded ELSE cover,
             collateral |-> balance]

\* The variable debt is repaid first, the stable debt with what remains.
BurnDebtForLiquidation(u, d, debt) ==
  LET variable == variableDebt(u, d)
  IN IF variable >= debt
       THEN BurnVariable(u, d, debt) /\ UNCHANGED <<stable, sTotal>>
       ELSE /\ IF variable > 0 THEN BurnVariable(u, d, variable)
                               ELSE UNCHANGED <<vScaled, vTotal>>
            /\ BurnStable(u, d, debt - variable)

LiquidationCall(liquidator, u, c, d, debtToCover, receiveAToken) ==
  LET amounts == liquidationAmounts(u, c, d, debtToCover)
      amountScaled == rayDiv(amounts.collateral, liquidityIndex[c])
      firstReceived == receiveAToken /\ aBalance(liquidator, c) = 0
      emptied == amounts.collateral = aBalance(u, c)
      paid == IF receiveAToken THEN 0 ELSE amounts.collateral
  IN /\ ~paused
     /\ ~Healthy(u)
     /\ Threshold[c] > 0 /\ c \in usingAsCollateral[u]
     /\ currentDebt(u, d) > 0
     /\ paid <= liquidity[c]
     /\ BurnDebtForLiquidation(u, d, amounts.debt)
     /\ amountScaled <= aScaled[c][u]
     /\ IF receiveAToken
          THEN /\ aScaled' = moved(updatedScaled({d}), u, liquidator, c, amountScaled)
               /\ aTotal' = updatedTotal({d})
               /\ accrued' = [accrued EXCEPT ![d] = 0]
          ELSE /\ amountScaled # 0
               /\ UpdateStateAndMove({c, d}, c, u, 0 - amountScaled)
     /\ usingAsCollateral' =
          [[usingAsCollateral EXCEPT
              ![liquidator] = IF firstReceived THEN @ \cup {c} ELSE @]
             EXCEPT ![u] = IF emptied THEN @ \ {c} ELSE @]
     /\ liquidity[d] + amounts.debt <= MaxLiquidity
     /\ liquidity' = [[liquidity EXCEPT ![c] = @ - paid] EXCEPT ![d] = @ + amounts.debt]
     /\ UNCHANGED <<indexVars, borrowing, envVars, loan>>

-----------------------------------------------------------------------------
(* flashLoan of one asset.  The receiver's executeOperation runs between   *)
(* the two halves and may call the pool again; nested loans are not        *)
(* modelled.  A loan that is not settled reverts the whole transaction.    *)

premium(amount) == (amount * flashLoanPremiumTotal) \div PERCENTAGE_FACTOR

FlashLoan(receiver, r, amount) ==
  /\ ~paused
  /\ loan = NoLoan
  /\ Pay(r, amount)
  /\ loan' = [receiver |-> receiver, asset |-> r, amount |-> amount]
  /\ UNCHANGED <<aTokenVars, debtVars, indexVars, accrued, configVars, envVars>>

\* ReserveLogic.cumulateToLiquidityIndex: the premium is shared by suppliers.
cumulatedIndex(r, totalLiquidity, amount) ==
  rayMul(rayDiv(amount, totalLiquidity) + RAY, liquidityIndex[r])

\* Fault: credits the suppliers with a premium that is not pulled back.
FlashLoanRepay_Unpaid ==
  /\ loan # NoLoan
  /\ LET r == loan.asset
         totalSupply == rayMul(updatedTotal({r})[r], liquidityIndex[r])
     IN /\ totalSupply # 0
        /\ cumulatedIndex(r, totalSupply, premium(loan.amount)) <= MaxIndex
        /\ UpdateState({r})
        /\ liquidityIndex' = [liquidityIndex EXCEPT
             ![r] = cumulatedIndex(r, totalSupply, premium(loan.amount))]
        /\ Receive(r, loan.amount)
  /\ loan' = NoLoan
  /\ UNCHANGED <<debtVars, variableBorrowIndex, configVars, envVars>>

\* Mode NONE: the amount and the premium are pulled back from the receiver.
FlashLoanRepay ==
  /\ loan # NoLoan
  /\ LET r == loan.asset
         totalSupply == rayMul(updatedTotal({r})[r], liquidityIndex[r])
     IN /\ totalSupply # 0
        /\ cumulatedIndex(r, totalSupply, premium(loan.amount)) <= MaxIndex
        /\ UpdateState({r})
        /\ liquidityIndex' = [liquidityIndex EXCEPT
             ![r] = cumulatedIndex(r, totalSupply, premium(loan.amount))]
        /\ Receive(r, loan.amount + premium(loan.amount))
  /\ loan' = NoLoan
  /\ UNCHANGED <<debtVars, variableBorrowIndex, configVars, envVars>>

\* Another mode: the amount becomes a debt of u, nothing is paid back.
FlashLoanBorrow(u, mode) ==
  /\ loan # NoLoan
  /\ ExecuteBorrow(u, loan.asset, loan.amount, mode)
  /\ loan' = NoLoan
  /\ UNCHANGED liquidity

-----------------------------------------------------------------------------
(* What the pool's surroundings do: time, the oracle and the admins.       *)

\* Time passes for reserve r.  Interest runs only while the liquidity rate is
\* positive, that is while something is borrowed; the variable index grows
\* only while there is variable debt (ReserveLogic._updateIndexes).
Accrue(r) ==
  /\ loan = NoLoan
  /\ totalDebt(r) > 0
  /\ \E income, debt \in IndexSteps :
       /\ income <= debt
       /\ liquidityIndex[r] + income <= MaxIndex
       /\ variableBorrowIndex[r] + debt <= MaxIndex
       /\ liquidityIndex' = [liquidityIndex EXCEPT ![r] = @ + income]
       /\ variableBorrowIndex' = [variableBorrowIndex EXCEPT
            ![r] = IF vTotal[r] # 0 THEN @ + debt ELSE @]
       /\ stable' = [stable EXCEPT
            ![r] = [u \in Accounts |-> rayMul(stable[r][u], RAY + debt)]]
       /\ sTotal' = [sTotal EXCEPT ![r] = rayMul(@, RAY + debt)]
  /\ UNCHANGED <<aTokenVars, vScaled, vTotal, liquidity, configVars, envVars, loan>>
  /\ accrued' = [accrued EXCEPT ![r] = @ + (totalDebt(r)' - totalDebt(r))]

SetPrice(r, p) ==
  /\ loan = NoLoan
  /\ price' = [price EXCEPT ![r] = p]
  /\ UNCHANGED <<aTokenVars, debtVars, indexVars, accrued, liquidity, configVars,
                 frozen, paused, loan>>

\* LendingPoolConfigurator.freezeReserve and unfreezeReserve.
SetFreeze(r, val) ==
  /\ loan = NoLoan
  /\ frozen' = IF val THEN frozen \cup {r} ELSE frozen \ {r}
  /\ UNCHANGED <<aTokenVars, debtVars, indexVars, accrued, liquidity, configVars,
                 price, paused, loan>>

\* LendingPool.setPause
SetPause(val) ==
  /\ loan = NoLoan
  /\ paused' = val
  /\ UNCHANGED <<aTokenVars, debtVars, indexVars, accrued, liquidity, configVars,
                 price, frozen, loan>>

-----------------------------------------------------------------------------
noBalance == [r \in Reserves |-> [u \in Accounts |-> 0]]

Init ==
  /\ aScaled = noBalance /\ aTotal = [r \in Reserves |-> 0]
  /\ vScaled = noBalance /\ vTotal = [r \in Reserves |-> 0]
  /\ stable = noBalance /\ sTotal = [r \in Reserves |-> 0]
  /\ liquidityIndex = [r \in Reserves |-> RAY]
  /\ variableBorrowIndex = [r \in Reserves |-> RAY]
  /\ accrued = [r \in Reserves |-> 0]
  /\ liquidity = [r \in Reserves |-> 0]
  /\ usingAsCollateral = [u \in Accounts |-> {}]
  /\ borrowing = [u \in Accounts |-> {}]
  /\ price \in [Reserves -> UNION {Prices[r] : r \in Reserves}]
  /\ \A r \in Reserves : price[r] \in Prices[r]
  /\ frozen = {}
  /\ paused = FALSE
  /\ loan = NoLoan

Modes == {"stable", "variable"}

UserStep(u) ==
  \E r \in Reserves :
    \/ \E amount \in Amounts :
         \/ Deposit(u, r, amount)
         \/ \E mode \in Modes : Borrow(u, r, amount, mode)
         \/ \E to \in Users : Transfer(u, to, r, amount)
    \/ \E amount \in Amounts \cup {UintMax} :
         \/ Withdraw(u, r, amount)
         \/ \E mode \in Modes, self \in BOOLEAN : Repay(u, r, amount, mode, self)
    \/ \E amount \in FlashAmounts : FlashLoan(u, r, amount)
    \/ \E mode \in Modes : SwapBorrowRateMode(u, r, mode)
    \/ RebalanceStableBorrowRate(u, r)
    \/ \E use \in BOOLEAN : SetUserUseReserveAsCollateral(u, r, use)

LiquidationStep ==
  \E liquidator, u \in Users, c, d \in Reserves,
     debtToCover \in Amounts \cup {UintMax}, receiveAToken \in BOOLEAN :
       LiquidationCall(liquidator, u, c, d, debtToCover, receiveAToken)

FlashLoanSettles ==
  \/ FlashLoanRepay
  \/ \E u \in Users, mode \in Modes : FlashLoanBorrow(u, mode)

EnvironmentStep ==
  \/ \E r \in Reserves : Accrue(r)
  \/ \E r \in Reserves : \E p \in Prices[r] : SetPrice(r, p)
  \/ \E r \in Freezable, val \in BOOLEAN : SetFreeze(r, val)
  \/ \E val \in PauseCalls : SetPause(val)

Next ==
  \/ \E u \in Users : UserStep(u)
  \/ LiquidationStep
  \/ FlashLoanSettles
  \/ EnvironmentStep

Spec == Init /\ [][Next]_vars
-----------------------------------------------------------------------------
(* Properties.                                                             *)

Ledger == [Reserves -> [Accounts -> Nat]]

(* Every table holds naturals (SafeMath refuses a negative balance), flags *)
(* name listed reserves, and indexes never fall below one ray.             *)
TypeOK ==
  /\ aScaled \in Ledger /\ vScaled \in Ledger /\ stable \in Ledger
  /\ aTotal \in [Reserves -> Nat] /\ vTotal \in [Reserves -> Nat]
  /\ sTotal \in [Reserves -> Nat] /\ price \in [Reserves -> Nat \ {0}]
  /\ accrued \in [Reserves -> Nat] /\ liquidity \in [Reserves -> Nat]
  /\ liquidityIndex \in [Reserves -> {i \in Nat : i >= RAY}]
  /\ variableBorrowIndex \in [Reserves -> {i \in Nat : i >= RAY}]
  /\ usingAsCollateral \in [Accounts -> SUBSET Reserves]
  /\ borrowing \in [Accounts -> SUBSET Reserves]
  /\ frozen \subseteq Reserves /\ paused \in BOOLEAN
  /\ loan = NoLoan \/ loan \in [receiver : Users, asset : Reserves, amount : Nat]

(* A debt never escapes the health factor: whoever owes anything in a      *)
(* reserve, at a stable or a variable rate, has its borrowing bit set.     *)
(* Borrow sets the bit on the first borrowing of either kind, repay clears *)
(* it by comparing compounded balances, and neither a swap nor a           *)
(* liquidation touches it.                                                 *)
DebtFlagged ==
  \A u \in Users, r \in Reserves :
    vScaled[r][u] > 0 \/ stable[r][u] > 0 => r \in borrowing[u]

(* What the thresholds of u's collateral cover beyond u's debt, without    *)
(* any rounding, in ETH times PERCENTAGE_FACTOR.                           *)
Margin(u) == Weighted(Threshold, aScaled, u) - PERCENTAGE_FACTOR * totalDebtInETH(u)

(* Half a scaled unit in units of the asset, rounded up: what a mint or a  *)
(* burn may miss its amount by.  At an index of one ray amounts are exact. *)
halfUnit(index) == IF index = RAY THEN 0 ELSE 1 + index \div (2 * RAY)

(* What half-up rounding can lose in a step: a unit of ETH and half a unit *)
(* of the last digit of the health factor, and half a scaled unit of       *)
(* balance and of debt in each reserve.                                    *)
Dust(u) ==
  PERCENTAGE_FACTOR *
    (1 + totalDebtInETH(u) \div (2 * WAD)
       + SumFunction([r \in Reserves |-> price[r] *
           (halfUnit(liquidityIndex[r]) + halfUnit(variableBorrowIndex[r]))]))

(* An account that passes the pool's health check still has its debt       *)
(* covered, up to dust, after any user operation, flash loan or            *)
(* liquidation: only time and prices take its cover away.  (The health     *)
(* factor itself may fall below one: the pool averages the thresholds of   *)
(* several collaterals with rounding.)                                     *)
MarginKept ==
  [][\A u \in Users : Healthy(u) /\ Margin(u)' < 0 - Dust(u) => EnvironmentStep]_vars

(* Whoever takes collateral from an unhealthy account repays its debt: the *)
(* value that leaves is at most the bonus on the value repaid, up to dust  *)
(* and to the two units of debt that debtAmountNeeded may round away. No   *)
(* withdrawal, transfer, flag change or partial liquidation gets round it  *)
(* (LendingPoolCollateralManager.liquidationCall). It is a property of     *)
(* values as small as those of an instance: where an unhealthy account     *)
(* owes and holds much, the rounding of its average threshold and of its   *)
(* health factor lets more than Dust go by.                                *)
CollateralPaidFor ==
  [][\A u \in Users :
       LET taken == totalCollateralInETH(aScaled, u) - totalCollateralInETH(aScaled, u)'
           repaid == totalDebtInETH(u) - totalDebtInETH(u)'
           units == 2 * SumFunction([r \in borrowing[u] |-> price[r]])
           bonus == CHOOSE b \in Range(Bonus) : \A b2 \in Range(Bonus) : b2 <= b
       IN ~Healthy(u) /\ taken > 0 =>
            \/ taken * PERCENTAGE_FACTOR <= bonus * (repaid + units) + Dust(u)
            \/ EnvironmentStep]_vars

(* A whole balance can always be closed: the amount a token reports burns  *)
(* exactly the scaled balance behind it, for deposits (withdraw of UintMax) *)
(* and for variable debts (repay of UintMax), whatever the indexes.        *)
ExactExit ==
  \A u \in Users, r \in Reserves :
    /\ rayDiv(aBalance(u, r), liquidityIndex[r]) = aScaled[r][u]
    /\ rayDiv(variableDebt(u, r), variableBorrowIndex[r]) = vScaled[r][u]

(* What the suppliers of r (and the treasury, minted or not) are owed, and *)
(* what backs it: cash, cash lent in a flash loan, and debts; times RAY.   *)
claims(r) ==
  SumFunction(aScaled[r]) * liquidityIndex[r] + RAY * treasuryShare(r)

backing(r) ==
  RAY * (liquidity[r] + SumFunction(stable[r])
           + IF loan # NoLoan /\ loan.asset = r THEN loan.amount ELSE 0)
    + SumFunction(vScaled[r]) * variableBorrowIndex[r]

(* Half a scaled unit for each of the two amounts an operation may mint or *)
(* burn at the liquidity index (one is the treasury's) and for a debt.     *)
rounding(r) == liquidityIndex[r]' + ((variableBorrowIndex[r] + 1) \div 2)

(* The rounding of the index that shares the premium of a flash loan: half *)
(* a unit for each scaled unit there is and for what it was worth.         *)
shared(r) ==
  IF liquidityIndex[r]' # liquidityIndex[r]
    THEN (aTotal[r]' + rayMul(aTotal[r]', liquidityIndex[r])) \div 2
    ELSE 0

KeepsBacked(r) ==
  (claims(r) - backing(r))' <= (claims(r) - backing(r)) + rounding(r) + shared(r)

(* No operation makes suppliers owed more than it adds to what backs them, *)
(* beyond these roundings (ReserveLogic.updateState and                    *)
(* cumulateToLiquidityIndex, the mint and burn of the three tokens).       *)
BackingKept ==
  [][\A r \in Reserves : KeepsBacked(r) \/ EnvironmentStep]_vars
=============================================================================
