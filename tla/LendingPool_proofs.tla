------------------------- MODULE LendingPool_proofs -------------------------
(***************************************************************************)
(* Theorems about LendingPool for every set of users and reserves, every   *)
(* parameter and every amount: type correctness, that no debt escapes the  *)
(* borrowing flag, that every balance can be closed exactly, that every    *)
(* scaled unit of an aToken is held by an account, that no call makes a    *)
(* reserve owe its suppliers more than it adds to what backs them, and     *)
(* that no call leaves a healthy account with a debt it does not cover.    *)
(***************************************************************************)
EXTENDS LendingPool, RayMath_proofs

-----------------------------------------------------------------------------
(* What the building blocks of the actions do to the types.                *)

(* Balances and debts are naturals.                                        *)
LEMMA BalancesNat ==
  ASSUME TypeOK, NEW u \in Users, NEW r \in Reserves
  PROVE  /\ aBalance(u, r) \in Nat /\ variableDebt(u, r) \in Nat
         /\ stable[r][u] \in Nat /\ currentDebt(u, r) \in Nat
         /\ aScaled[r][u] \in Nat /\ vScaled[r][u] \in Nat
<1>1. u \in Accounts
  BY DEF Accounts
<1>2. /\ aScaled[r][u] \in Nat /\ vScaled[r][u] \in Nat /\ stable[r][u] \in Nat
      /\ liquidityIndex[r] \in Nat /\ variableBorrowIndex[r] \in Nat
  BY <1>1 DEF TypeOK, Ledger
<1>3. /\ rayMul(aScaled[r][u], liquidityIndex[r]) \in Nat
      /\ rayMul(vScaled[r][u], variableBorrowIndex[r]) \in Nat
  BY <1>2, RayNat
<1> QED BY <1>2, <1>3 DEF aBalance, variableDebt, currentDebt

(* A scaled amount is a natural: the indexes are positive.                 *)
LEMMA ScaledNat ==
  ASSUME TypeOK, NEW r \in Reserves, NEW amount \in Nat
  PROVE  /\ rayDiv(amount, liquidityIndex[r]) \in Nat
         /\ rayDiv(amount, variableBorrowIndex[r]) \in Nat
<1>1. /\ liquidityIndex[r] \in Nat /\ liquidityIndex[r] > 0
      /\ variableBorrowIndex[r] \in Nat /\ variableBorrowIndex[r] > 0
  BY RayAssumption DEF TypeOK
<1> QED BY <1>1, RayNat

LEMMA TreasuryNat ==
  ASSUME TypeOK, NEW r \in Reserves
  PROVE  treasuryScaled(r) \in Nat
<1>1. treasuryShare(r) \in Nat
  BY PercentNat, PercentagesAssumption DEF TypeOK, treasuryShare
<1> QED BY <1>1, ScaledNat DEF treasuryScaled

(* The ledger after updateState on the reserves S.                         *)
LEMMA UpdatedTypes ==
  ASSUME TypeOK, NEW S
  PROVE  /\ updatedScaled(S) \in Ledger
         /\ updatedTotal(S) \in [Reserves -> Nat]
         /\ [r \in Reserves |-> IF r \in S THEN 0 ELSE accrued[r]] \in [Reserves -> Nat]
<1>1. \A r \in Reserves : treasuryScaled(r) \in Nat
  BY TreasuryNat
<1>2. updatedScaled(S) \in Ledger
  BY <1>1 DEF TypeOK, Ledger, updatedScaled, Accounts
<1> QED BY <1>1, <1>2 DEF TypeOK, updatedTotal

LEMMA UpdateStateTypes ==
  ASSUME TypeOK, NEW S, UpdateState(S)
  PROVE  aScaled' \in Ledger /\ aTotal' \in [Reserves -> Nat]
           /\ accrued' \in [Reserves -> Nat]
  BY UpdatedTypes DEF UpdateState

LEMMA UpdateStateAndMoveTypes ==
  ASSUME TypeOK, NEW S, NEW r \in Reserves, NEW u \in Users, NEW d \in Int,
         UpdateStateAndMove(S, r, u, d)
  PROVE  aScaled' \in Ledger /\ aTotal' \in [Reserves -> Nat]
           /\ accrued' \in [Reserves -> Nat]
<1>1. u \in Accounts /\ u # Treasury
  BY AccountsAssumption DEF Accounts
<1>2. updatedScaled(S)[r][u] = aScaled[r][u]
  BY <1>1 DEF updatedScaled, TypeOK, Ledger
<1>3. aScaled' \in Ledger
  BY <1>1, <1>2, UpdatedTypes DEF UpdateStateAndMove, Ledger
<1>4. aTotal' \in [Reserves -> Nat]
  BY UpdatedTypes DEF UpdateStateAndMove
<1> QED BY <1>3, <1>4, UpdatedTypes DEF UpdateStateAndMove

LEMMA CashTypes ==
  ASSUME TypeOK, NEW r \in Reserves, NEW amount \in Nat,
         Receive(r, amount) \/ Pay(r, amount)
  PROVE  liquidity' \in [Reserves -> Nat]
  BY DEF TypeOK, Receive, Pay

LEMMA VariableTypes ==
  ASSUME TypeOK, NEW r \in Reserves, NEW u \in Users, NEW amount \in Nat,
         MintVariable(u, r, amount) \/ BurnVariable(u, r, amount)
  PROVE  vScaled' \in Ledger /\ vTotal' \in [Reserves -> Nat]
<1>1. u \in Accounts
  BY DEF Accounts
<1>2. rayDiv(amount, variableBorrowIndex[r]) \in Nat
  BY ScaledNat
<1>3. CASE MintVariable(u, r, amount)
  BY <1>1, <1>2, <1>3 DEF MintVariable, TypeOK, Ledger
<1>4. CASE BurnVariable(u, r, amount)
  BY <1>1, <1>2, <1>4 DEF BurnVariable, TypeOK, Ledger
<1> QED BY <1>3, <1>4

LEMMA StableTypes ==
  ASSUME TypeOK, NEW r \in Reserves, NEW u \in Users, NEW amount \in Nat,
         MintStable(u, r, amount) \/ BurnStable(u, r, amount)
  PROVE  stable' \in Ledger /\ sTotal' \in [Reserves -> Nat]
<1>1. u \in Accounts
  BY DEF Accounts
<1>2. CASE MintStable(u, r, amount)
  BY <1>1, <1>2 DEF MintStable, TypeOK, Ledger
<1>3. CASE BurnStable(u, r, amount)
  BY <1>1, <1>3 DEF BurnStable, TypeOK, Ledger
<1> QED BY <1>2, <1>3

LEMMA FlagTypes ==
  ASSUME TypeOK, NEW u \in Users, NEW r \in Reserves, NEW val \in BOOLEAN
  PROVE  /\ setUsingAsCollateral(u, r, val) => usingAsCollateral' \in [Accounts -> SUBSET Reserves]
         /\ setBorrowing(u, r, val) => borrowing' \in [Accounts -> SUBSET Reserves]
  BY DEF TypeOK, setUsingAsCollateral, setBorrowing

-----------------------------------------------------------------------------
(* One lemma per operation: its step keeps TypeOK.                         *)

LEMMA DepositTypes ==
  ASSUME TypeOK, NEW u \in Users, NEW r \in Reserves, NEW amount \in Amounts,
         Deposit(u, r, amount)
  PROVE  TypeOK'
<1>1. amount \in Nat
  BY AmountsAssumption
<1>2. rayDiv(amount, liquidityIndex[r]) \in Nat
  BY <1>1, ScaledNat
<1>3. aScaled' \in Ledger /\ aTotal' \in [Reserves -> Nat] /\ accrued' \in [Reserves -> Nat]
  BY <1>2, UpdateStateAndMoveTypes DEF Deposit
<1>4. liquidity' \in [Reserves -> Nat]
  BY <1>1, CashTypes DEF Deposit
<1>5. usingAsCollateral' \in [Accounts -> SUBSET Reserves]
  BY FlagTypes DEF Deposit, TypeOK
<1> QED BY <1>3, <1>4, <1>5 DEF Deposit, TypeOK, debtVars, indexVars, envVars

LEMMA WithdrawTypes ==
  ASSUME TypeOK, NEW u \in Users, NEW r \in Reserves,
         NEW amount \in Amounts \cup {UintMax}, Withdraw(u, r, amount)
  PROVE  TypeOK'
<1> DEFINE out == IF amount = UintMax THEN aBalance(u, r) ELSE amount
           scaled == rayDiv(out, liquidityIndex[r])
<1>1. out \in Nat
  BY AmountsAssumption, BalancesNat
<1>2. scaled \in Nat
  <2> HIDE DEF out
  <2> QED BY <1>1, ScaledNat
<1>3. UpdateStateAndMove({r}, r, u, 0 - scaled) /\ Pay(r, out)
  BY DEF Withdraw
<1>4. aScaled' \in Ledger /\ aTotal' \in [Reserves -> Nat] /\ accrued' \in [Reserves -> Nat]
  <2> HIDE DEF scaled
  <2>1. 0 - scaled \in Int
    BY <1>2
  <2> QED BY <1>3, <2>1, UpdateStateAndMoveTypes
<1>5. liquidity' \in [Reserves -> Nat]
  <2> HIDE DEF out
  <2> QED BY <1>1, <1>3, CashTypes
<1>6. usingAsCollateral' \in [Accounts -> SUBSET Reserves]
  BY FlagTypes DEF Withdraw, TypeOK
<1> QED BY <1>4, <1>5, <1>6 DEF Withdraw, TypeOK, debtVars, indexVars, envVars

LEMMA ExecuteBorrowTypes ==
  ASSUME TypeOK, NEW u \in Users, NEW r \in Reserves, NEW amount \in Nat,
         NEW mode, ExecuteBorrow(u, r, amount, mode)
  PROVE  /\ aScaled' \in Ledger /\ vScaled' \in Ledger /\ stable' \in Ledger
         /\ aTotal' \in [Reserves -> Nat] /\ vTotal' \in [Reserves -> Nat]
         /\ sTotal' \in [Reserves -> Nat] /\ accrued' \in [Reserves -> Nat]
         /\ borrowing' \in [Accounts -> SUBSET Reserves]
<1>1. aScaled' \in Ledger /\ aTotal' \in [Reserves -> Nat] /\ accrued' \in [Reserves -> Nat]
  BY UpdateStateTypes DEF ExecuteBorrow
<1>2. /\ vScaled' \in Ledger /\ vTotal' \in [Reserves -> Nat]
      /\ stable' \in Ledger /\ sTotal' \in [Reserves -> Nat]
  BY VariableTypes, StableTypes DEF ExecuteBorrow, TypeOK
<1>3. borrowing' \in [Accounts -> SUBSET Reserves]
  BY FlagTypes DEF ExecuteBorrow, TypeOK
<1> QED BY <1>1, <1>2, <1>3

LEMMA BorrowTypes ==
  ASSUME TypeOK, NEW u \in Users, NEW r \in Reserves, NEW amount \in Amounts,
         NEW mode, Borrow(u, r, amount, mode)
  PROVE  TypeOK'
<1>1. amount \in Nat
  BY AmountsAssumption
<1>2. liquidity' \in [Reserves -> Nat]
  BY <1>1, CashTypes DEF Borrow
<1>3. ExecuteBorrow(u, r, amount, mode)
  BY DEF Borrow
<1> QED BY <1>1, <1>2, <1>3, ExecuteBorrowTypes
        DEF Borrow, ExecuteBorrow, TypeOK, indexVars, envVars

LEMMA RepayTypes ==
  ASSUME TypeOK, NEW u \in Users, NEW r \in Reserves,
         NEW amount \in Amounts \cup {UintMax}, NEW mode \in Modes, NEW self,
         Repay(u, r, amount, mode, self)
  PROVE  TypeOK'
<1> DEFINE debt == IF mode = "stable" THEN stable[r][u] ELSE variableDebt(u, r)
           payback == IF amount < debt THEN amount ELSE debt
<1>1. payback \in Nat
  BY AmountsAssumption, BalancesNat
<1>2. /\ UpdateState({r}) /\ Receive(r, payback)
      /\ IF mode = "stable"
           THEN BurnStable(u, r, payback) /\ UNCHANGED <<vScaled, vTotal>>
           ELSE BurnVariable(u, r, payback) /\ UNCHANGED <<stable, sTotal>>
  BY DEF Repay
<1>3. aScaled' \in Ledger /\ aTotal' \in [Reserves -> Nat] /\ accrued' \in [Reserves -> Nat]
  BY <1>2, UpdateStateTypes
<1>4. /\ vScaled' \in Ledger /\ vTotal' \in [Reserves -> Nat]
      /\ stable' \in Ledger /\ sTotal' \in [Reserves -> Nat]
      /\ liquidity' \in [Reserves -> Nat]
  <2> HIDE DEF payback
  <2> QED BY <1>1, <1>2, VariableTypes, StableTypes, CashTypes DEF TypeOK
<1>5. borrowing' \in [Accounts -> SUBSET Reserves]
  BY FlagTypes DEF Repay, TypeOK
<1> QED BY <1>3, <1>4, <1>5 DEF Repay, TypeOK, indexVars, envVars

LEMMA SwapTypes ==
  ASSUME TypeOK, NEW u \in Users, NEW r \in Reserves, NEW mode \in Modes,
         SwapBorrowRateMode(u, r, mode)
  PROVE  TypeOK'
<1> DEFINE debt == IF mode = "stable" THEN stable[r][u] ELSE variableDebt(u, r)
<1>1. debt \in Nat
  BY BalancesNat
<1>2. /\ UpdateState({r})
      /\ \/ BurnStable(u, r, debt) /\ MintVariable(u, r, debt)
         \/ BurnVariable(u, r, debt) /\ MintStable(u, r, debt)
  BY DEF SwapBorrowRateMode
<1>3. aScaled' \in Ledger /\ aTotal' \in [Reserves -> Nat] /\ accrued' \in [Reserves -> Nat]
  BY <1>2, UpdateStateTypes
<1>4. /\ vScaled' \in Ledger /\ vTotal' \in [Reserves -> Nat]
      /\ stable' \in Ledger /\ sTotal' \in [Reserves -> Nat]
  <2> HIDE DEF debt
  <2> QED BY <1>1, <1>2, VariableTypes, StableTypes
<1> QED BY <1>3, <1>4
        DEF SwapBorrowRateMode, TypeOK, indexVars, configVars, envVars

LEMMA RebalanceTypes ==
  ASSUME TypeOK, NEW u \in Users, NEW r \in Reserves,
         RebalanceStableBorrowRate(u, r)
  PROVE  TypeOK'
<1>1. aScaled' \in Ledger /\ aTotal' \in [Reserves -> Nat] /\ accrued' \in [Reserves -> Nat]
  BY UpdateStateTypes DEF RebalanceStableBorrowRate
<1> QED BY <1>1 DEF RebalanceStableBorrowRate, TypeOK, debtVars, indexVars,
                    configVars, envVars

LEMMA SetUseTypes ==
  ASSUME TypeOK, NEW u \in Users, NEW r \in Reserves, NEW use \in BOOLEAN,
         SetUserUseReserveAsCollateral(u, r, use)
  PROVE  TypeOK'
<1>1. usingAsCollateral' \in [Accounts -> SUBSET Reserves]
  BY FlagTypes DEF SetUserUseReserveAsCollateral
<1> QED BY <1>1 DEF SetUserUseReserveAsCollateral, TypeOK, aTokenVars, debtVars,
                    indexVars, envVars

(* Moving no more than the sender has leaves a ledger of naturals.         *)
LEMMA MovedTypes ==
  ASSUME NEW F \in Ledger, NEW from \in Accounts, NEW to \in Accounts,
         NEW r \in Reserves, NEW s \in Nat, s <= F[r][from]
  PROVE  moved(F, from, to, r, s) \in Ledger
<1> DEFINE G == [F EXCEPT ![r][from] = @ - s]
<1>1. G \in [Reserves -> [Accounts -> Nat]]
  BY DEF Ledger
<1>2. moved(F, from, to, r, s) = [G EXCEPT ![r][to] = @ + s]
  BY DEF moved
<1> HIDE DEF G
<1> QED BY <1>1, <1>2 DEF Ledger

LEMMA TransferTypes ==
  ASSUME TypeOK, NEW from \in Users, NEW to \in Users, NEW r \in Reserves,
         NEW amount \in Amounts, Transfer(from, to, r, amount)
  PROVE  TypeOK'
<1> DEFINE scaled == rayDiv(amount, liquidityIndex[r])
<1>1. scaled \in Nat
  BY AmountsAssumption, ScaledNat
<1>2. scaled <= aScaled[r][from] /\ aScaled' = movedScaled(from, to, r, scaled)
  BY DEF Transfer
<1>3. from \in Accounts /\ to \in Accounts
  BY DEF Accounts
<1>4. aScaled' \in Ledger
  <2> HIDE DEF scaled
  <2> QED BY <1>1, <1>2, <1>3, MovedTypes DEF movedScaled, TypeOK
<1>5. usingAsCollateral' \in [Accounts -> SUBSET Reserves]
  <2> DEFINE U == [Accounts -> SUBSET Reserves]
  <2>1. \A F \in U, b \in BOOLEAN :
           /\ [F EXCEPT ![from] = IF b THEN @ \ {r} ELSE @] \in U
           /\ [F EXCEPT ![to] = IF b THEN @ \cup {r} ELSE @] \in U
    OBVIOUS
  <2>2. PICK b \in BOOLEAN, c \in BOOLEAN :
           usingAsCollateral' =
             [[usingAsCollateral EXCEPT ![from] = IF b THEN @ \ {r} ELSE @]
                EXCEPT ![to] = IF c THEN @ \cup {r} ELSE @]
    BY DEF Transfer
  <2> DEFINE F == [usingAsCollateral EXCEPT ![from] = IF b THEN @ \ {r} ELSE @]
  <2>3. /\ usingAsCollateral \in U
        /\ usingAsCollateral' = [F EXCEPT ![to] = IF c THEN @ \cup {r} ELSE @]
    BY <2>2 DEF TypeOK
  <2>4. F \in U
    BY <2>3
  <2> HIDE DEF U, F
  <2>5. usingAsCollateral' \in U
    BY <2>1, <2>3, <2>4
  <2> QED BY <2>5 DEF U
<1>6. UNCHANGED <<aTotal, debtVars, indexVars, accrued, liquidity, borrowing, envVars, loan>>
  BY Zenon DEF Transfer
<1> QED BY <1>4, <1>5, <1>6 DEF TypeOK, debtVars, indexVars, envVars

(* What a liquidation repays and seizes are naturals: prices are positive. *)
LEMMA LiquidationAmountsNat ==
  ASSUME TypeOK, NEW u \in Users, NEW c \in Reserves, NEW d \in Reserves,
         NEW debtToCover \in Nat
  PROVE  /\ liquidationAmounts(u, c, d, debtToCover).debt \in Nat
         /\ liquidationAmounts(u, c, d, debtToCover).collateral \in Nat
<1> DEFINE max == percentMul(currentDebt(u, d), LIQUIDATION_CLOSE_FACTOR_PERCENT)
           cover == IF debtToCover > max THEN max ELSE debtToCover
           wanted == percentMul(price[d] * cover, Bonus[c]) \div price[c]
           balance == aBalance(u, c)
           needed == percentDiv((price[c] * balance) \div price[d], Bonus[c])
<1>1. /\ price[c] \in Nat \ {0} /\ price[d] \in Nat \ {0}
      /\ Bonus[c] \in Nat \ {0} /\ balance \in Nat
  BY BalancesNat, PercentagesAssumption DEF TypeOK
<1>2. max \in Nat
  BY BalancesNat, PercentNat, FactorsAssumption
<1>3. cover \in Nat
  <2> HIDE DEF max
  <2> QED BY <1>2
<1>4. wanted \in Nat
  <2> HIDE DEF cover
  <2>1. price[d] * cover \in Nat
    BY <1>1, <1>3, ProductNat
  <2>2. percentMul(price[d] * cover, Bonus[c]) \in Nat
    BY <1>1, <2>1, PercentNat
  <2>3. \A n \in Nat, p \in Nat \ {0} : n \div p \in Nat
    OBVIOUS
  <2> QED BY <1>1, <2>2, <2>3
<1>5. needed \in Nat
  <2> HIDE DEF balance
  <2>1. price[c] * balance \in Nat
    BY <1>1, ProductNat
  <2>2. \A n \in Nat, p \in Nat \ {0} : n \div p \in Nat
    OBVIOUS
  <2>3. (price[c] * balance) \div price[d] \in Nat
    <3> DEFINE m == price[c] * balance
    <3>1. m \in Nat
      BY <2>1
    <3> HIDE DEF m
    <3>2. m \div price[d] \in Nat
      BY <1>1, <2>2, <3>1
    <3> QED BY <3>2 DEF m
  <2>4. \A n \in Nat, p \in Nat \ {0} : percentDiv(n, p) \in Nat
    BY PercentNat
  <2> HIDE DEF needed
  <2>5. percentDiv((price[c] * balance) \div price[d], Bonus[c]) \in Nat
    BY <1>1, <2>3, <2>4
  <2> QED BY <2>5 DEF needed
<1>6. liquidationAmounts(u, c, d, debtToCover) =
        IF wanted <= balance
          THEN [debt |-> cover, collateral |-> wanted]
          ELSE [debt |-> IF needed < cover THEN needed ELSE cover,
                collateral |-> balance]
  BY DEF liquidationAmounts
<1> HIDE DEF cover, wanted, balance, needed
<1> QED BY <1>1, <1>3, <1>4, <1>5, <1>6

LEMMA BurnDebtTypes ==
  ASSUME TypeOK, NEW u \in Users, NEW d \in Reserves, NEW debt \in Nat,
         BurnDebtForLiquidation(u, d, debt)
  PROVE  /\ vScaled' \in Ledger /\ vTotal' \in [Reserves -> Nat]
         /\ stable' \in Ledger /\ sTotal' \in [Reserves -> Nat]
<1>1. variableDebt(u, d) \in Nat
  BY BalancesNat
<1>2. CASE variableDebt(u, d) >= debt
  BY <1>2, VariableTypes DEF BurnDebtForLiquidation, TypeOK
<1>3. CASE ~(variableDebt(u, d) >= debt)
  <2>1. debt - variableDebt(u, d) \in Nat
    BY <1>1, <1>3
  <2>2. stable' \in Ledger /\ sTotal' \in [Reserves -> Nat]
    BY <1>3, <2>1, StableTypes DEF BurnDebtForLiquidation
  <2>3. vScaled' \in Ledger /\ vTotal' \in [Reserves -> Nat]
    BY <1>1, <1>3, VariableTypes DEF BurnDebtForLiquidation, TypeOK
  <2> QED BY <2>2, <2>3
<1> QED BY <1>2, <1>3

LEMMA LiquidationTypes ==
  ASSUME TypeOK, NEW liquidator \in Users, NEW u \in Users, NEW c \in Reserves,
         NEW d \in Reserves, NEW debtToCover \in Amounts \cup {UintMax},
         NEW receiveAToken \in BOOLEAN,
         LiquidationCall(liquidator, u, c, d, debtToCover, receiveAToken)
  PROVE  TypeOK'
<1> DEFINE amounts == liquidationAmounts(u, c, d, debtToCover)
           scaled == rayDiv(amounts.collateral, liquidityIndex[c])
           paid == IF receiveAToken THEN 0 ELSE amounts.collateral
<1>1. amounts.debt \in Nat /\ amounts.collateral \in Nat
  <2>1. debtToCover \in Nat
    BY AmountsAssumption
  <2> QED BY <2>1, LiquidationAmountsNat
<1> HIDE DEF amounts
<1>2. scaled \in Nat
  BY <1>1, ScaledNat
<1> HIDE DEF scaled
<1>3. /\ paid <= liquidity[c]
      /\ BurnDebtForLiquidation(u, d, amounts.debt)
      /\ scaled <= aScaled[c][u]
      /\ IF receiveAToken
           THEN /\ aScaled' = moved(updatedScaled({d}), u, liquidator, c, scaled)
                /\ aTotal' = updatedTotal({d})
                /\ accrued' = [accrued EXCEPT ![d] = 0]
           ELSE UpdateStateAndMove({c, d}, c, u, 0 - scaled)
      /\ liquidity' =
           [[liquidity EXCEPT ![c] = @ - paid] EXCEPT ![d] = @ + amounts.debt]
  BY DEF LiquidationCall, amounts, scaled
<1>4. aScaled' \in Ledger /\ aTotal' \in [Reserves -> Nat] /\ accrued' \in [Reserves -> Nat]
  <2>1. CASE receiveAToken
    <3>1. u \in Accounts /\ liquidator \in Accounts /\ u # Treasury
      BY AccountsAssumption DEF Accounts
    <3>2. updatedScaled({d}) \in Ledger /\ updatedTotal({d}) \in [Reserves -> Nat]
      BY UpdatedTypes
    <3>3. updatedScaled({d})[c][u] = aScaled[c][u]
      BY <3>1 DEF updatedScaled, TypeOK, Ledger
    <3> DEFINE ledger == updatedScaled({d})
               total == updatedTotal({d})
    <3> HIDE DEF ledger, total
    <3>4. /\ aScaled' = moved(ledger, u, liquidator, c, scaled)
          /\ aTotal' = total /\ accrued' = [accrued EXCEPT ![d] = 0]
      BY <1>3, <2>1 DEF ledger, total
    <3>5. aScaled' \in Ledger
      <4>1. ledger \in Ledger /\ scaled <= ledger[c][u]
        BY <1>3, <3>2, <3>3 DEF ledger
      <4> QED BY <1>2, <3>1, <3>4, <4>1, MovedTypes
    <3>6. aTotal' \in [Reserves -> Nat]
      BY <3>2, <3>4 DEF total
    <3>7. accrued' \in [Reserves -> Nat]
      BY <3>4 DEF TypeOK
    <3> QED BY <3>5, <3>6, <3>7
  <2>2. CASE ~receiveAToken
    <3>1. 0 - scaled \in Int /\ UpdateStateAndMove({c, d}, c, u, 0 - scaled)
      BY <1>2, <1>3, <2>2
    <3> QED BY <3>1, UpdateStateAndMoveTypes
  <2> QED BY <2>1, <2>2
<1>5. liquidity' \in [Reserves -> Nat]
  <2> DEFINE left == [liquidity EXCEPT ![c] = @ - paid]
  <2>1. left \in [Reserves -> Nat]
    BY <1>1, <1>3 DEF TypeOK
  <2>2. liquidity' = [left EXCEPT ![d] = @ + amounts.debt]
    BY <1>3
  <2> HIDE DEF left
  <2> QED BY <1>1, <2>1, <2>2
<1>6. /\ vScaled' \in Ledger /\ vTotal' \in [Reserves -> Nat]
      /\ stable' \in Ledger /\ sTotal' \in [Reserves -> Nat]
  BY <1>1, <1>3, BurnDebtTypes
<1>7. usingAsCollateral' \in [Accounts -> SUBSET Reserves]
  <2> DEFINE first == receiveAToken /\ aBalance(liquidator, c) = 0
             marked == [usingAsCollateral EXCEPT
                          ![liquidator] = IF first THEN @ \cup {c} ELSE @]
             emptied == liquidationAmounts(u, c, d, debtToCover).collateral
                          = aBalance(u, c)
  <2>1. usingAsCollateral' = [marked EXCEPT ![u] = IF emptied THEN @ \ {c} ELSE @]
    BY DEF LiquidationCall
  <2> HIDE DEF first, emptied
  <2>2. marked \in [Accounts -> SUBSET Reserves]
    BY DEF TypeOK
  <2> HIDE DEF marked
  <2> QED BY <2>1, <2>2
<1> QED BY <1>4, <1>5, <1>6, <1>7 DEF LiquidationCall, TypeOK, indexVars, envVars

LEMMA PremiumNat == ASSUME NEW amount \in Nat PROVE premium(amount) \in Nat
<1> DEFINE m == amount * flashLoanPremiumTotal
<1>1. m \in Nat
  BY ProductNat, FactorsAssumption
<1> HIDE DEF m
<1>2. m \div PERCENTAGE_FACTOR \in Nat
  BY <1>1, PercentageAssumption
<1> QED BY <1>2 DEF premium, m

LEMMA FlashLoanTypes ==
  ASSUME TypeOK, NEW receiver \in Users, NEW r \in Reserves,
         NEW amount \in FlashAmounts, FlashLoan(receiver, r, amount)
  PROVE  TypeOK'
<1>1. amount \in Nat
  BY AmountsAssumption
<1>2. liquidity' \in [Reserves -> Nat]
  BY <1>1, CashTypes DEF FlashLoan
<1> QED BY <1>1, <1>2 DEF FlashLoan, TypeOK, aTokenVars, debtVars, indexVars,
                          configVars, envVars

(* The premium of a flash loan never lowers the index it is added to.      *)
LEMMA CumulatedIndexGrows ==
  ASSUME TypeOK, NEW r \in Reserves, NEW totalLiquidity \in Nat \ {0},
         NEW amount \in Nat
  PROVE  /\ cumulatedIndex(r, totalLiquidity, amount) \in Nat
         /\ cumulatedIndex(r, totalLiquidity, amount) >= liquidityIndex[r]
<1> DEFINE factor == rayDiv(amount, totalLiquidity) + RAY
<1>1. factor \in Nat /\ factor >= RAY
  <2>1. rayDiv(amount, totalLiquidity) \in Nat
    BY RayNat
  <2> QED BY <2>1, RayAssumption
<1>2. liquidityIndex[r] \in Nat
  BY DEF TypeOK
<1> HIDE DEF factor
<1>3. rayMul(factor, liquidityIndex[r]) \in Nat
  BY <1>1, <1>2, RayNat
<1>4. rayMul(factor, liquidityIndex[r]) >= liquidityIndex[r]
  BY <1>1, <1>2, RayMulGrows
<1> QED BY <1>3, <1>4 DEF cumulatedIndex, factor

LEMMA FlashLoanRepayTypes ==
  ASSUME TypeOK, FlashLoanRepay
  PROVE  TypeOK'
<1> DEFINE r == loan.asset
           totalSupply == rayMul(updatedTotal({r})[r], liquidityIndex[r])
           index == cumulatedIndex(r, totalSupply, premium(loan.amount))
<1>1. loan \in [receiver : Users, asset : Reserves, amount : Nat]
  BY DEF FlashLoanRepay, TypeOK
<1>2. r \in Reserves /\ loan.amount \in Nat /\ premium(loan.amount) \in Nat
  BY <1>1, PremiumNat
<1>3. /\ totalSupply # 0
      /\ UpdateState({r})
      /\ liquidityIndex' = [liquidityIndex EXCEPT ![r] = index]
      /\ Receive(r, loan.amount + premium(loan.amount))
  BY DEF FlashLoanRepay
<1>4. totalSupply \in Nat
  <2>1. updatedTotal({r})[r] \in Nat /\ liquidityIndex[r] \in Nat
    BY <1>2, UpdatedTypes DEF TypeOK
  <2> QED BY <2>1, RayNat
<1> HIDE DEF r, totalSupply
<1>5. index \in Nat /\ index >= RAY
  <2>1. index \in Nat /\ index >= liquidityIndex[r]
    BY <1>2, <1>3, <1>4, CumulatedIndexGrows
  <2> HIDE DEF index
  <2> QED BY <1>2, <2>1, RayAssumption DEF TypeOK
<1> HIDE DEF index
<1>6. aScaled' \in Ledger /\ aTotal' \in [Reserves -> Nat] /\ accrued' \in [Reserves -> Nat]
  BY <1>3, UpdateStateTypes
<1>7. liquidityIndex' \in [Reserves -> {i \in Nat : i >= RAY}]
  BY <1>3, <1>5 DEF TypeOK
<1>8. liquidity' \in [Reserves -> Nat]
  BY <1>2, <1>3, CashTypes
<1> QED BY <1>6, <1>7, <1>8 DEF FlashLoanRepay, TypeOK, debtVars, configVars, envVars

LEMMA FlashLoanBorrowTypes ==
  ASSUME TypeOK, NEW u \in Users, NEW mode, FlashLoanBorrow(u, mode)
  PROVE  TypeOK'
<1>1. loan.asset \in Reserves /\ loan.amount \in Nat
  BY DEF FlashLoanBorrow, TypeOK
<1>2. ExecuteBorrow(u, loan.asset, loan.amount, mode)
  BY DEF FlashLoanBorrow
<1> QED BY <1>1, <1>2, ExecuteBorrowTypes
        DEF FlashLoanBorrow, ExecuteBorrow, TypeOK, indexVars, envVars

(* Interest only adds: debts and indexes grow, so what accrues is not      *)
(* negative.                                                               *)
LEMMA AccrueTypes ==
  ASSUME TypeOK, NEW r \in Reserves, Accrue(r)
  PROVE  TypeOK'
<1>1. PICK income \in IndexSteps, debt \in IndexSteps :
        /\ liquidityIndex' = [liquidityIndex EXCEPT ![r] = @ + income]
        /\ variableBorrowIndex' = [variableBorrowIndex EXCEPT
              ![r] = IF vTotal[r] # 0 THEN @ + debt ELSE @]
        /\ stable' = [stable EXCEPT
              ![r] = [u \in Accounts |-> rayMul(stable[r][u], RAY + debt)]]
        /\ sTotal' = [sTotal EXCEPT ![r] = rayMul(@, RAY + debt)]
  BY DEF Accrue
<1>2. income \in Nat /\ debt \in Nat /\ RAY + debt \in Nat /\ RAY + debt >= RAY
  BY IndexAssumption, RayAssumption
<1>3. liquidityIndex' \in [Reserves -> {i \in Nat : i >= RAY}]
  BY <1>1, <1>2, RayAssumption DEF TypeOK
<1>4. /\ variableBorrowIndex' \in [Reserves -> {i \in Nat : i >= RAY}]
      /\ variableBorrowIndex'[r] \in Nat
      /\ variableBorrowIndex[r] \in Nat
      /\ variableBorrowIndex'[r] >= variableBorrowIndex[r]
  BY <1>1, <1>2, RayAssumption DEF TypeOK
<1>5. stable' \in Ledger
  <2>1. \A u \in Accounts : rayMul(stable[r][u], RAY + debt) \in Nat
    <3> TAKE u \in Accounts
    <3>1. stable[r][u] \in Nat
      BY DEF TypeOK, Ledger
    <3> QED BY <1>2, <3>1, RayNat
  <2> DEFINE row == [u \in Accounts |-> rayMul(stable[r][u], RAY + debt)]
  <2>2. row \in [Accounts -> Nat] /\ stable' = [stable EXCEPT ![r] = row]
    BY <1>1, <2>1
  <2> HIDE DEF row
  <2> QED BY <2>2 DEF TypeOK, Ledger
<1>6. sTotal[r] \in Nat /\ vTotal[r] \in Nat
  BY DEF TypeOK
<1>7. rayMul(sTotal[r], RAY + debt) \in Nat /\ rayMul(sTotal[r], RAY + debt) >= sTotal[r]
  BY <1>2, <1>6, RayNat, RayMulGrows
<1>8. /\ sTotal' \in [Reserves -> Nat] /\ sTotal'[r] \in Nat /\ sTotal'[r] >= sTotal[r]
  BY <1>1, <1>7 DEF TypeOK
<1>9. vTotal' = vTotal
  BY DEF Accrue
<1>10. /\ rayMul(vTotal[r], variableBorrowIndex[r]) \in Nat
       /\ rayMul(vTotal[r], variableBorrowIndex'[r]) \in Nat
       /\ rayMul(vTotal[r], variableBorrowIndex[r]) <= rayMul(vTotal[r], variableBorrowIndex'[r])
  BY <1>4, <1>6, RayNat, RayMulMonotone
<1>11. totalDebt(r)' - totalDebt(r) \in Nat
  BY <1>6, <1>8, <1>9, <1>10 DEF totalDebt
<1>12. accrued' \in [Reserves -> Nat]
  <2> DEFINE interest == totalDebt(r)' - totalDebt(r)
  <2>1. accrued' = [accrued EXCEPT ![r] = @ + interest]
    BY DEF Accrue
  <2>2. interest \in Nat
    BY <1>11
  <2> HIDE DEF interest
  <2> QED BY <2>1, <2>2 DEF TypeOK
<1> QED BY <1>3, <1>4, <1>5, <1>8, <1>9, <1>12
        DEF Accrue, TypeOK, aTokenVars, configVars, envVars

LEMMA EnvironmentTypes ==
  ASSUME TypeOK, EnvironmentStep
  PROVE  TypeOK'
<1>1. ASSUME NEW r \in Reserves, Accrue(r) PROVE TypeOK'
  BY <1>1, AccrueTypes
<1>2. ASSUME NEW r \in Reserves, NEW p \in Prices[r], SetPrice(r, p) PROVE TypeOK'
  BY <1>2, PricesAssumption DEF SetPrice, TypeOK, aTokenVars, debtVars, indexVars,
     configVars
<1>3. ASSUME NEW r \in Freezable, NEW val \in BOOLEAN, SetFreeze(r, val) PROVE TypeOK'
  BY <1>3, AdminAssumption DEF SetFreeze, TypeOK, aTokenVars, debtVars, indexVars, configVars
<1>4. ASSUME NEW val \in PauseCalls, SetPause(val) PROVE TypeOK'
  BY <1>4, AdminAssumption DEF SetPause, TypeOK, aTokenVars, debtVars, indexVars, configVars
<1> QED BY <1>1, <1>2, <1>3, <1>4 DEF EnvironmentStep

-----------------------------------------------------------------------------
(* Type correctness: no sequence of calls of the pool drives a balance, a  *)
(* debt, a supply or the cash of a reserve negative, an index below one    *)
(* ray, or a flag to a reserve that is not listed.                         *)

LEMMA InitTypes == Init => TypeOK
<1> SUFFICES ASSUME Init PROVE TypeOK
  OBVIOUS
<1>1. noBalance \in Ledger
  BY DEF noBalance, Ledger
<1>2. price \in [Reserves -> Nat \ {0}]
  BY PricesAssumption DEF Init
<1>3. RAY \in {i \in Nat : i >= RAY}
  BY RayAssumption
<1> QED BY <1>1, <1>2, <1>3 DEF Init, TypeOK

LEMMA NextTypes == TypeOK /\ [Next]_vars => TypeOK'
<1> SUFFICES ASSUME TypeOK, [Next]_vars PROVE TypeOK'
  OBVIOUS
<1>1. ASSUME NEW u \in Users, UserStep(u) PROVE TypeOK'
  <2>1. PICK r \in Reserves :
          \/ \E amount \in Amounts :
               \/ Deposit(u, r, amount)
               \/ \E mode \in Modes : Borrow(u, r, amount, mode)
               \/ \E to \in Users : Transfer(u, to, r, amount)
          \/ \E amount \in Amounts \cup {UintMax} :
               \/ Withdraw(u, r, amount)
               \/ \E mode \in Modes, self \in BOOLEAN : Repay(u, r, amount, mode, self)
          \/ \E amount \in FlashAmounts : FlashLoan(u, r, amount)
          \/ \E mode \in Modes : SwapBorrowRateMode(u, r, mode)
          \/ RebalanceStableBorrowRate(u, r)
          \/ \E use \in BOOLEAN : SetUserUseReserveAsCollateral(u, r, use)
    BY <1>1 DEF UserStep
  <2> QED BY <2>1, DepositTypes, BorrowTypes, TransferTypes, WithdrawTypes,
             RepayTypes, FlashLoanTypes, SwapTypes, RebalanceTypes, SetUseTypes
<1>2. ASSUME LiquidationStep PROVE TypeOK'
  BY <1>2, LiquidationTypes DEF LiquidationStep
<1>3. ASSUME FlashLoanSettles PROVE TypeOK'
  BY <1>3, FlashLoanRepayTypes, FlashLoanBorrowTypes DEF FlashLoanSettles
<1>4. ASSUME EnvironmentStep PROVE TypeOK'
  BY <1>4, EnvironmentTypes
<1>5. ASSUME UNCHANGED vars PROVE TypeOK'
  BY <1>5 DEF vars, TypeOK, aTokenVars, debtVars, indexVars, configVars, envVars
<1> QED BY <1>1, <1>2, <1>3, <1>4, <1>5 DEF Next

THEOREM TypeCorrect == Spec => []TypeOK
  BY InitTypes, NextTypes, PTL DEF Spec

-----------------------------------------------------------------------------
(* No debt escapes the borrowing flags.  The invariant is inductive on top *)
(* of TypeOK, which supplies the indexes of at least one ray that make a   *)
(* positive scaled debt visible and a repaid balance burn it whole.        *)

IInv == TypeOK /\ DebtFlagged

(* A step that leaves the flags alone and gives no one a first debt.       *)
LEMMA NoFirstDebt ==
  ASSUME DebtFlagged, borrowing' = borrowing,
         \A u \in Users, r \in Reserves :
           /\ vScaled'[r][u] > 0 => vScaled[r][u] > 0 \/ stable[r][u] > 0
           /\ stable'[r][u] > 0 => vScaled[r][u] > 0 \/ stable[r][u] > 0
  PROVE  DebtFlagged'
  BY DEF DebtFlagged

(* Mints and burns touch one account's debt in one reserve.                *)
LEMMA BurnVariableLocal ==
  ASSUME TypeOK, NEW u \in Users, NEW r \in Reserves, NEW amount \in Nat,
         BurnVariable(u, r, amount)
  PROVE  /\ vScaled'[r][u] = vScaled[r][u] - rayDiv(amount, variableBorrowIndex[r])
         /\ \A w \in Users, q \in Reserves :
              /\ vScaled'[q][w] \in Nat /\ vScaled[q][w] \in Nat
              /\ vScaled'[q][w] <= vScaled[q][w]
              /\ <<q, w>> # <<r, u>> => vScaled'[q][w] = vScaled[q][w]
<1> DEFINE scaled == rayDiv(amount, variableBorrowIndex[r])
<1>1. scaled \in Nat
  BY ScaledNat
<1>2. scaled <= vScaled[r][u] /\ vScaled' = [vScaled EXCEPT ![r][u] = @ - scaled]
  BY DEF BurnVariable
<1>3. Users \subseteq Accounts
  BY DEF Accounts
<1> HIDE DEF scaled
<1>4. /\ vScaled'[r][u] = vScaled[r][u] - scaled
      /\ \A w \in Users, q \in Reserves :
              /\ vScaled'[q][w] \in Nat /\ vScaled[q][w] \in Nat
              /\ vScaled'[q][w] <= vScaled[q][w]
              /\ <<q, w>> # <<r, u>> => vScaled'[q][w] = vScaled[q][w]
  BY <1>1, <1>2, <1>3 DEF TypeOK, Ledger
<1> QED BY <1>4 DEF scaled

LEMMA BurnStableLocal ==
  ASSUME TypeOK, NEW u \in Users, NEW r \in Reserves, NEW amount \in Nat,
         BurnStable(u, r, amount)
  PROVE  /\ stable'[r][u] = stable[r][u] - amount
         /\ \A w \in Users, q \in Reserves :
              /\ stable'[q][w] \in Nat /\ stable[q][w] \in Nat
              /\ stable'[q][w] <= stable[q][w]
              /\ <<q, w>> # <<r, u>> => stable'[q][w] = stable[q][w]
<1>1. Users \subseteq Accounts
  BY DEF Accounts
<1> QED BY <1>1 DEF BurnStable, TypeOK, Ledger

LEMMA MintVariableLocal ==
  ASSUME TypeOK, NEW u \in Users, NEW r \in Reserves, NEW amount,
         MintVariable(u, r, amount)
  PROVE  \A w \in Users, q \in Reserves :
            <<q, w>> # <<r, u>> => vScaled'[q][w] = vScaled[q][w]
<1>1. Users \subseteq Accounts
  BY DEF Accounts
<1> QED BY <1>1 DEF MintVariable, TypeOK, Ledger

LEMMA MintStableLocal ==
  ASSUME TypeOK, NEW u \in Users, NEW r \in Reserves, NEW amount,
         MintStable(u, r, amount)
  PROVE  \A w \in Users, q \in Reserves :
            <<q, w>> # <<r, u>> => stable'[q][w] = stable[q][w]
<1>1. Users \subseteq Accounts
  BY DEF Accounts
<1> QED BY <1>1 DEF MintStable, TypeOK, Ledger

(* A debt token reports a positive debt exactly when it records one.       *)
LEMMA VariableDebtPositive ==
  ASSUME TypeOK, NEW u \in Users, NEW r \in Reserves
  PROVE  /\ variableDebt(u, r) > 0 <=> vScaled[r][u] > 0
         /\ rayDiv(variableDebt(u, r), variableBorrowIndex[r]) = vScaled[r][u]
<1> DEFINE s == vScaled[r][u]
           i == variableBorrowIndex[r]
<1>1. s \in Nat /\ i \in Nat /\ i >= RAY
  BY BalancesNat DEF TypeOK
<1>2. variableDebt(u, r) = rayMul(s, i)
  BY DEF variableDebt
<1> HIDE DEF s, i
<1>3. s > 0 => rayMul(s, i) > 0
  BY <1>1, ScaledPositive
<1>4. rayDiv(rayMul(s, i), i) = s
  BY <1>1, RoundTrip
<1>5. rayMul(0, i) = 0
  BY <1>1, MulZero
<1>6. s = 0 \/ s > 0
  BY <1>1
<1> QED BY <1>2, <1>3, <1>4, <1>5, <1>6 DEF s, i

LEMMA ExecuteBorrowFlagged ==
  ASSUME IInv, NEW u \in Users, NEW r \in Reserves, NEW amount \in Nat,
         NEW mode, ExecuteBorrow(u, r, amount, mode)
  PROVE  DebtFlagged'
<1> USE DEF IInv
<1>1. borrowing[u] \in SUBSET Reserves /\ u \in Accounts
  BY DEF TypeOK, Accounts
<1>2. r \in borrowing'[u]
  <2>1. setBorrowing(u, r, TRUE) => r \in borrowing'[u]
    BY <1>1 DEF setBorrowing, TypeOK
  <2>2. vScaled[r][u] > 0 \/ stable[r][u] > 0 => r \in borrowing[u]
    BY DEF DebtFlagged
  <2>3. vScaled[r][u] \in Nat /\ stable[r][u] \in Nat
    BY BalancesNat
  <2>4. \/ setBorrowing(u, r, TRUE)
        \/ borrowing' = borrowing /\ (vScaled[r][u] # 0 \/ stable[r][u] # 0)
    BY Zenon DEF ExecuteBorrow
  <2>5. CASE setBorrowing(u, r, TRUE)
    BY <2>1, <2>5
  <2>6. CASE borrowing' = borrowing /\ (vScaled[r][u] # 0 \/ stable[r][u] # 0)
    <3>1. vScaled[r][u] > 0 \/ stable[r][u] > 0
      BY <2>3, <2>6
    <3> QED BY <2>2, <2>6, <3>1
  <2> QED BY <2>4, <2>5, <2>6, Zenon
<1>3. \A w \in Users : borrowing[w] \subseteq borrowing'[w]
  BY <1>1 DEF ExecuteBorrow, setBorrowing, TypeOK, Accounts
<1>4. ASSUME NEW w \in Users, NEW q \in Reserves, <<q, w>> # <<r, u>>,
             vScaled'[q][w] > 0 \/ stable'[q][w] > 0
      PROVE  q \in borrowing'[w]
  <2>1. \/ MintStable(u, r, amount) /\ vScaled' = vScaled
        \/ MintVariable(u, r, amount) /\ stable' = stable
    BY Zenon DEF ExecuteBorrow
  <2>2. vScaled'[q][w] = vScaled[q][w]
    <3>1. CASE MintVariable(u, r, amount)
      BY <1>4, <3>1, MintVariableLocal
    <3> QED BY <2>1, <3>1
  <2>3. stable'[q][w] = stable[q][w]
    <3>1. CASE MintStable(u, r, amount)
      BY <1>4, <3>1, MintStableLocal
    <3> QED BY <2>1, <3>1
  <2> QED BY <1>3, <1>4, <2>2, <2>3 DEF DebtFlagged
<1> QED BY <1>2, <1>4 DEF DebtFlagged

LEMMA RepayFlagged ==
  ASSUME IInv, NEW u \in Users, NEW r \in Reserves,
         NEW amount \in Amounts \cup {UintMax}, NEW mode \in Modes, NEW self,
         Repay(u, r, amount, mode, self)
  PROVE  DebtFlagged'
<1> USE DEF IInv
<1> DEFINE x == stable[r][u]
           y == variableDebt(u, r)
           debt == IF mode = "stable" THEN x ELSE y
           payback == IF amount < debt THEN amount ELSE debt
<1>1. x \in Nat /\ y \in Nat /\ amount \in Nat /\ currentDebt(u, r) = x + y
  BY BalancesNat, AmountsAssumption DEF currentDebt
<1>2. /\ IF mode = "stable"
           THEN BurnStable(u, r, payback) /\ UNCHANGED <<vScaled, vTotal>>
           ELSE BurnVariable(u, r, payback) /\ UNCHANGED <<stable, sTotal>>
      /\ IF currentDebt(u, r) - payback = 0
           THEN setBorrowing(u, r, FALSE) ELSE UNCHANGED borrowing
  BY DEF Repay
<1> HIDE DEF x, y
<1>3. payback \in Nat /\ payback <= debt
  BY <1>1
<1>4. \A w \in Users, q \in Reserves :
        /\ vScaled'[q][w] > 0 => vScaled[q][w] > 0
        /\ stable'[q][w] > 0 => stable[q][w] > 0
  <2> HIDE DEF payback
  <2>1. CASE mode = "stable"
    <3>1. BurnStable(u, r, payback) /\ vScaled' = vScaled
      BY <1>2, <2>1
    <3> QED BY <1>3, <3>1, BurnStableLocal
  <2>2. CASE mode # "stable"
    <3>1. BurnVariable(u, r, payback) /\ stable' = stable
      BY <1>2, <2>2
    <3> QED BY <1>3, <3>1, BurnVariableLocal
  <2> QED BY <2>1, <2>2
<1>5. CASE x + y - payback # 0
  <2>1. borrowing' = borrowing
    BY <1>1, <1>2, <1>5
  <2> QED BY <1>4, <2>1, NoFirstDebt
<1>6. CASE x + y - payback = 0
  <2>1. vScaled'[r][u] = 0 /\ stable'[r][u] = 0
    <3>1. CASE mode = "stable"
      <4>1. payback = x /\ y = 0
        BY <1>1, <1>3, <1>6, <3>1
      <4>2. BurnStable(u, r, x) /\ vScaled' = vScaled
        <5> HIDE DEF payback
        <5> QED BY <1>2, <3>1, <4>1
      <4>3. stable'[r][u] = 0
        BY <1>1, <4>2, BurnStableLocal DEF x
      <4>4. vScaled[r][u] = 0
        BY <4>1, VariableDebtPositive, BalancesNat DEF y
      <4> QED BY <4>2, <4>3, <4>4
    <3>2. CASE mode # "stable"
      <4>1. payback = y /\ x = 0
        BY <1>1, <1>3, <1>6, <3>2
      <4>2. BurnVariable(u, r, y) /\ stable' = stable
        <5> HIDE DEF payback
        <5> QED BY <1>2, <3>2, <4>1
      <4>3. vScaled'[r][u] = vScaled[r][u] - rayDiv(y, variableBorrowIndex[r])
        BY <1>1, <4>2, BurnVariableLocal
      <4>4. rayDiv(y, variableBorrowIndex[r]) = vScaled[r][u] /\ vScaled[r][u] \in Nat
        BY VariableDebtPositive, BalancesNat DEF y
      <4> QED BY <4>1, <4>2, <4>3, <4>4 DEF x
    <3> QED BY <3>1, <3>2
  <2>2. setBorrowing(u, r, FALSE)
    <3> HIDE DEF payback
    <3>1. currentDebt(u, r) - payback = 0
      BY <1>1, <1>3, <1>6
    <3> QED BY <1>2, <3>1, Zenon
  <2>3. \A w \in Users, q \in Reserves :
          <<q, w>> # <<r, u>> /\ q \in borrowing[w] => q \in borrowing'[w]
    BY <2>2 DEF setBorrowing, TypeOK, Accounts
  <2> QED BY <1>4, <2>1, <2>3 DEF DebtFlagged
<1> QED BY <1>5, <1>6

LEMMA SwapFlagged ==
  ASSUME IInv, NEW u \in Users, NEW r \in Reserves, NEW mode \in Modes,
         SwapBorrowRateMode(u, r, mode)
  PROVE  DebtFlagged'
<1> USE DEF IInv
<1>1. borrowing' = borrowing
  BY DEF SwapBorrowRateMode, configVars
<1>2. vScaled[r][u] > 0 \/ stable[r][u] > 0
  BY VariableDebtPositive DEF SwapBorrowRateMode
<1>3. ASSUME NEW w \in Users, NEW q \in Reserves, <<q, w>> # <<r, u>>
      PROVE  vScaled'[q][w] = vScaled[q][w] /\ stable'[q][w] = stable[q][w]
  <2> DEFINE debt == IF mode = "stable" THEN stable[r][u] ELSE variableDebt(u, r)
  <2>1. debt \in Nat
    BY BalancesNat
  <2>2. \/ BurnStable(u, r, debt) /\ MintVariable(u, r, debt)
        \/ BurnVariable(u, r, debt) /\ MintStable(u, r, debt)
    BY DEF SwapBorrowRateMode
  <2> HIDE DEF debt
  <2>3. CASE BurnStable(u, r, debt) /\ MintVariable(u, r, debt)
    <3>1. stable'[q][w] = stable[q][w]
      BY <1>3, <2>1, <2>3, BurnStableLocal
    <3>2. vScaled'[q][w] = vScaled[q][w]
      BY <1>3, <2>3, MintVariableLocal
    <3> QED BY <3>1, <3>2
  <2>4. CASE BurnVariable(u, r, debt) /\ MintStable(u, r, debt)
    <3>1. vScaled'[q][w] = vScaled[q][w]
      BY <1>3, <2>1, <2>4, BurnVariableLocal
    <3>2. stable'[q][w] = stable[q][w]
      BY <1>3, <2>4, MintStableLocal
    <3> QED BY <3>1, <3>2
  <2> QED BY <2>2, <2>3, <2>4, Zenon
<1> QED BY <1>1, <1>2, <1>3 DEF DebtFlagged

LEMMA LiquidationFlagged ==
  ASSUME IInv, NEW liquidator \in Users, NEW u \in Users, NEW c \in Reserves,
         NEW d \in Reserves, NEW debtToCover \in Amounts \cup {UintMax},
         NEW receiveAToken,
         LiquidationCall(liquidator, u, c, d, debtToCover, receiveAToken)
  PROVE  DebtFlagged'
<1> USE DEF IInv
<1> DEFINE debt == liquidationAmounts(u, c, d, debtToCover).debt
<1>1. debt \in Nat
  BY LiquidationAmountsNat, AmountsAssumption
<1>2. BurnDebtForLiquidation(u, d, debt) /\ borrowing' = borrowing
  BY DEF LiquidationCall
<1> HIDE DEF debt
<1>3. variableDebt(u, d) \in Nat
  BY BalancesNat
<1>4. \/ BurnVariable(u, d, debt)
      \/ BurnVariable(u, d, variableDebt(u, d))
      \/ vScaled' = vScaled
  BY <1>2 DEF BurnDebtForLiquidation
<1>5. \/ stable' = stable
      \/ BurnStable(u, d, debt - variableDebt(u, d)) /\ debt - variableDebt(u, d) \in Nat
  BY <1>1, <1>2, <1>3 DEF BurnDebtForLiquidation
<1>6. \A w \in Users, q \in Reserves : vScaled'[q][w] > 0 => vScaled[q][w] > 0
  BY <1>1, <1>3, <1>4, BurnVariableLocal
<1>7. \A w \in Users, q \in Reserves : stable'[q][w] > 0 => stable[q][w] > 0
  <2>1. CASE stable' = stable
    BY <2>1
  <2>2. CASE BurnStable(u, d, debt - variableDebt(u, d)) /\ debt - variableDebt(u, d) \in Nat
    BY <2>2, BurnStableLocal
  <2> QED BY <1>5, <2>1, <2>2
<1> QED BY <1>2, <1>6, <1>7, NoFirstDebt

(* Interest multiplies a stable debt: none appears where there was none.   *)
LEMMA AccrueFlagged ==
  ASSUME IInv, NEW r \in Reserves, Accrue(r)
  PROVE  DebtFlagged'
<1> USE DEF IInv
<1>1. PICK debt \in IndexSteps :
        stable' = [stable EXCEPT
              ![r] = [u \in Accounts |-> rayMul(stable[r][u], RAY + debt)]]
  BY DEF Accrue
<1>2. vScaled' = vScaled /\ borrowing' = borrowing
  BY DEF Accrue, configVars
<1>3. rayMul(0, RAY + debt) = 0
  BY MulZero, IndexAssumption, RayAssumption
<1>4. ASSUME NEW u \in Users, NEW q \in Reserves, stable'[q][u] > 0
      PROVE  stable[q][u] > 0
  <2>1. stable[q][u] \in Nat /\ u \in Accounts
    BY BalancesNat DEF Accounts
  <2>2. stable'[q][u] = IF q = r THEN rayMul(stable[q][u], RAY + debt) ELSE stable[q][u]
    BY <1>1, <2>1 DEF TypeOK, Ledger
  <2>3. stable[q][u] # 0
    BY <1>3, <1>4, <2>2
  <2> QED BY <2>1, <2>3
<1> QED BY <1>2, <1>4, NoFirstDebt

LEMMA UnchangedFlagged ==
  ASSUME DebtFlagged, UNCHANGED <<vScaled, stable, borrowing>>
  PROVE  DebtFlagged'
  BY DEF DebtFlagged

LEMMA NextFlagged == IInv /\ [Next]_vars => DebtFlagged'
<1> SUFFICES ASSUME IInv, [Next]_vars PROVE DebtFlagged'
  OBVIOUS
<1> USE DEF IInv
<1>1. ASSUME NEW u \in Users, UserStep(u) PROVE DebtFlagged'
  <2>1. PICK r \in Reserves :
          \/ \E amount \in Amounts :
               \/ Deposit(u, r, amount)
               \/ \E mode \in Modes : Borrow(u, r, amount, mode)
               \/ \E to \in Users : Transfer(u, to, r, amount)
          \/ \E amount \in Amounts \cup {UintMax} :
               \/ Withdraw(u, r, amount)
               \/ \E mode \in Modes, self \in BOOLEAN : Repay(u, r, amount, mode, self)
          \/ \E amount \in FlashAmounts : FlashLoan(u, r, amount)
          \/ \E mode \in Modes : SwapBorrowRateMode(u, r, mode)
          \/ RebalanceStableBorrowRate(u, r)
          \/ \E use \in BOOLEAN : SetUserUseReserveAsCollateral(u, r, use)
    BY <1>1 DEF UserStep
  <2>2. ASSUME NEW amount \in Amounts, NEW mode \in Modes, Borrow(u, r, amount, mode)
        PROVE  DebtFlagged'
    BY <2>2, ExecuteBorrowFlagged, AmountsAssumption DEF Borrow
  <2>3. ASSUME NEW amount \in Amounts \cup {UintMax}, NEW mode \in Modes,
               NEW self \in BOOLEAN, Repay(u, r, amount, mode, self)
        PROVE  DebtFlagged'
    BY <2>3, RepayFlagged
  <2>4. ASSUME NEW mode \in Modes, SwapBorrowRateMode(u, r, mode) PROVE DebtFlagged'
    BY <2>4, SwapFlagged
  <2>5. ASSUME NEW amount, NEW to, NEW use,
               \/ Deposit(u, r, amount) \/ Transfer(u, to, r, amount)
               \/ Withdraw(u, r, amount) \/ FlashLoan(u, r, amount)
               \/ RebalanceStableBorrowRate(u, r)
               \/ SetUserUseReserveAsCollateral(u, r, use)
        PROVE  DebtFlagged'
    BY <2>5, UnchangedFlagged DEF Deposit, Transfer, Withdraw, FlashLoan, configVars,
       RebalanceStableBorrowRate, SetUserUseReserveAsCollateral, debtVars
  <2> QED BY <2>1, <2>2, <2>3, <2>4, <2>5
<1>2. ASSUME LiquidationStep PROVE DebtFlagged'
  BY <1>2, LiquidationFlagged DEF LiquidationStep
<1>3. ASSUME FlashLoanSettles PROVE DebtFlagged'
  <2>1. CASE FlashLoanRepay
    BY <2>1, UnchangedFlagged DEF FlashLoanRepay, debtVars, configVars
  <2>2. ASSUME NEW u \in Users, NEW mode \in Modes, FlashLoanBorrow(u, mode)
        PROVE  DebtFlagged'
    <3>1. loan.asset \in Reserves /\ loan.amount \in Nat
      BY <2>2 DEF FlashLoanBorrow, TypeOK
    <3> QED BY <2>2, <3>1, ExecuteBorrowFlagged DEF FlashLoanBorrow
  <2> QED BY <1>3, <2>1, <2>2 DEF FlashLoanSettles
<1>4. ASSUME EnvironmentStep PROVE DebtFlagged'
  BY <1>4, AccrueFlagged, UnchangedFlagged
     DEF EnvironmentStep, SetPrice, SetFreeze, SetPause, debtVars, configVars
<1>5. ASSUME UNCHANGED vars PROVE DebtFlagged'
  BY <1>5, UnchangedFlagged DEF vars, debtVars, configVars
<1> QED BY <1>1, <1>2, <1>3, <1>4, <1>5 DEF Next

(* Whoever owes anything has its borrowing flag set, so every health check *)
(* sees every debt: in any execution, for any parameters.                  *)
THEOREM DebtsAreFlagged == Spec => []DebtFlagged
<1>1. Init => IInv
  <2>1. Init => DebtFlagged
    BY DEF Init, DebtFlagged, noBalance, Accounts
  <2> QED BY <2>1, InitTypes DEF IInv
<1>2. IInv /\ [Next]_vars => IInv'
  BY NextTypes, NextFlagged DEF IInv
<1>3. IInv => DebtFlagged
  BY DEF IInv
<1> QED BY <1>1, <1>2, <1>3, PTL DEF Spec

(* Every balance can be closed exactly, whatever the indexes have become:  *)
(* the rounding of WadRayMath never leaves dust behind a full withdrawal   *)
(* or repayment, and never makes one revert.                               *)
THEOREM ExitsAreExact == Spec => []ExactExit
<1>1. TypeOK => ExactExit
  <2> SUFFICES ASSUME TypeOK, NEW u \in Users, NEW r \in Reserves
               PROVE  /\ rayDiv(aBalance(u, r), liquidityIndex[r]) = aScaled[r][u]
                      /\ rayDiv(variableDebt(u, r), variableBorrowIndex[r]) = vScaled[r][u]
    BY DEF ExactExit
  <2>1. aScaled[r][u] \in Nat /\ liquidityIndex[r] \in Nat /\ liquidityIndex[r] >= RAY
    BY BalancesNat DEF TypeOK
  <2>2. rayDiv(rayMul(aScaled[r][u], liquidityIndex[r]), liquidityIndex[r]) = aScaled[r][u]
    BY <2>1, RoundTrip
  <2> QED BY <2>2, VariableDebtPositive DEF aBalance
<1> QED BY <1>1, TypeCorrect, PTL

-----------------------------------------------------------------------------
(* Solvency.  What a reserve owes and what backs it are sums over accounts;  *)
(* an operation moves a few amounts, rounded at the indexes.                 *)

LEMMA AccountsFinite == IsFiniteSet(Accounts)
  BY AccountsAssumption, FS_AddElement DEF Accounts

(* The reserve in sums: scaled deposits, scaled debts, and what is exact.    *)
supplied(r) == SumFunction(aScaled[r])
lent(r) == SumFunction(vScaled[r])
cash(r) == liquidity[r] + IF loan # NoLoan /\ loan.asset = r THEN loan.amount ELSE 0
money(r) == cash(r) + SumFunction(stable[r])

LEMMA SumsNat ==
  ASSUME TypeOK, NEW r \in Reserves
  PROVE  /\ supplied(r) \in Nat /\ lent(r) \in Nat /\ money(r) \in Nat
         /\ cash(r) \in Nat /\ SumFunction(stable[r]) \in Nat
         /\ treasuryShare(r) \in Nat /\ treasuryScaled(r) \in Nat
<1>1. /\ aScaled[r] \in [Accounts -> Nat] /\ vScaled[r] \in [Accounts -> Nat]
      /\ stable[r] \in [Accounts -> Nat] /\ liquidity[r] \in Nat
      /\ loan # NoLoan => loan.amount \in Nat
  BY DEF TypeOK, Ledger
<1>2. \A f \in [Accounts -> Nat] : SumFunction(f) \in Nat
  BY AccountsFinite, SumType
<1>3. treasuryShare(r) \in Nat
  BY PercentNat, PercentagesAssumption DEF TypeOK, treasuryShare
<1> QED BY <1>1, <1>2, <1>3, TreasuryNat DEF supplied, lent, money, cash

LEMMA ClaimsBacking ==
  ASSUME TypeOK, NEW r \in Reserves
  PROVE  /\ claims(r) = supplied(r) * liquidityIndex[r] + RAY * treasuryShare(r)
         /\ backing(r) = RAY * money(r) + lent(r) * variableBorrowIndex[r]
         /\ claims(r) \in Int /\ backing(r) \in Int
<1>1. /\ supplied(r) \in Nat /\ lent(r) \in Nat /\ money(r) \in Nat
      /\ treasuryShare(r) \in Nat /\ RAY \in Nat
      /\ liquidityIndex[r] \in Nat /\ variableBorrowIndex[r] \in Nat
  BY SumsNat, RayAssumption DEF TypeOK
<1>2. /\ supplied(r) * liquidityIndex[r] \in Nat /\ RAY * treasuryShare(r) \in Nat
      /\ RAY * money(r) \in Nat /\ lent(r) * variableBorrowIndex[r] \in Nat
  BY <1>1, ProductNat
<1>3. claims(r) = supplied(r) * liquidityIndex[r] + RAY * treasuryShare(r)
  BY DEF claims, supplied
<1>4. backing(r) = RAY * money(r) + lent(r) * variableBorrowIndex[r]
  <2>1. /\ liquidity[r] \in Nat /\ SumFunction(stable[r]) \in Nat
        /\ loan # NoLoan => loan.amount \in Nat
    BY SumsNat DEF TypeOK
  <2> QED BY <2>1 DEF backing, money, cash, lent
<1> QED BY <1>2, <1>3, <1>4

LEMMA BackingNext ==
  ASSUME TypeOK', NEW r \in Reserves
  PROVE  backing(r)' = RAY * money(r)' + lent(r)' * variableBorrowIndex'[r]
<1>1. /\ stable'[r] \in [Accounts -> Nat] /\ liquidity'[r] \in Nat
      /\ loan' # NoLoan => loan'.amount \in Nat
  BY DEF TypeOK, Ledger
<1>2. SumFunction(stable'[r]) \in Nat
  BY <1>1, AccountsFinite, SumType
<1> QED BY <1>1, <1>2 DEF backing, money, cash, lent

ClaimsTyped ==
  \A r \in Reserves : claims(r) \in Int /\ backing(r) \in Int /\ treasuryShare(r) \in Nat

LEMMA ClaimsInt == (TypeOK => ClaimsTyped) /\ (TypeOK' => ClaimsTyped')
<1>1. TypeOK => ClaimsTyped
  BY ClaimsBacking, SumsNat DEF ClaimsTyped
<1>2. (TypeOK => ClaimsTyped)'
  BY <1>1, PTL
<1> QED BY <1>1, <1>2

(* A scaled amount is worth the amount, up to half the index.                *)
LEMMA ScaledWorth ==
  ASSUME NEW x \in Nat, NEW i \in Nat \ {0}
  PROVE  /\ rayDiv(x, i) \in Nat /\ rayDiv(x, i) * i \in Nat /\ RAY * x \in Nat
         /\ rayDiv(x, i) * i <= RAY * x + (i \div 2)
         /\ RAY * x <= rayDiv(x, i) * i + (i \div 2)
         /\ i \div 2 \in Nat /\ 2 * (i \div 2) <= i
<1> DEFINE n == x * RAY + (i \div 2)
<1>1. /\ x * RAY \in Nat /\ i \div 2 \in Nat /\ 2 * (i \div 2) <= i /\ i <= 2 * (i \div 2) + 1
  BY ProductNat, RayAssumption
<1>2. n \in Int
  BY <1>1
<1> HIDE DEF n
<1>3. /\ n \div i \in Int /\ i * (n \div i) <= n /\ n < i * (n \div i) + i
  BY <1>2, QuotientBounds
<1>4. rayDiv(x, i) = n \div i
  BY DEF rayDiv, n
<1>5. rayDiv(x, i) \in Nat
  BY RayNat
<1> DEFINE q == rayDiv(x, i)
<1>6. i * q = q * i /\ q * i \in Nat /\ RAY * x = x * RAY
  BY <1>5, ProductNat, RayAssumption
<1>7. q * i <= n /\ n < q * i + i /\ n = RAY * x + (i \div 2)
  BY <1>3, <1>4, <1>6 DEF n
<1> HIDE DEF q
<1>8. q * i <= RAY * x + (i \div 2) /\ RAY * x <= q * i + (i \div 2)
  BY <1>1, <1>6, <1>7
<1> QED BY <1>1, <1>5, <1>6, <1>8 DEF q

(* Deposits move by d scaled units, and the treasury may be minted its share.*)
Deposits(r, d) ==
  \/ /\ accrued'[r] = accrued[r]
     /\ supplied(r)' = supplied(r) + d /\ aTotal'[r] = aTotal[r] + d
  \/ /\ accrued'[r] = 0
     /\ supplied(r)' = supplied(r) + d + treasuryScaled(r)
     /\ aTotal'[r] = aTotal[r] + d + treasuryScaled(r)

(* What one reserve sees of an operation: deposits move by d scaled units,   *)
(* debts by e, and money by m.                                               *)
Moves(r, d, e, m) ==
  /\ liquidityIndex'[r] = liquidityIndex[r]
  /\ variableBorrowIndex'[r] = variableBorrowIndex[r]
  /\ Deposits(r, d)
  /\ lent(r)' = lent(r) + e
  /\ money(r)' = money(r) + m

Distribute == \A a, b, c \in Int : (a + b) * c = a * c + b * c /\ a * c \in Int

LEMMA Distributes == Distribute
  BY DEF Distribute

LEMMA ClaimsAfter ==
  ASSUME TypeOK, NEW r \in Reserves, NEW d \in Int, Deposits(r, d)
  PROVE  supplied(r)' * liquidityIndex[r] + RAY * treasuryShare(r)'
           <= claims(r) + d * liquidityIndex[r] + (liquidityIndex[r] \div 2)
<1> DEFINE L == liquidityIndex[r]
           S == supplied(r)
           t == treasuryScaled(r)
           share == treasuryShare(r)
<1>1. /\ S \in Nat /\ t \in Nat /\ share \in Nat /\ L \in Nat \ {0} /\ RAY \in Nat
  BY SumsNat, RayAssumption DEF TypeOK
<1>2. /\ t * L \in Nat /\ RAY * share \in Nat /\ L \div 2 \in Nat
      /\ t * L <= RAY * share + (L \div 2)
  BY <1>1, ScaledWorth DEF treasuryScaled
<1>3. claims(r) = S * L + RAY * share
  BY ClaimsBacking
<1> DEFINE after == supplied(r)' * L + RAY * treasuryShare(r)'
<1>4. after = supplied(r)' * L + RAY * treasuryShare(r)'
  OBVIOUS
<1>5. CASE accrued'[r] = accrued[r] /\ supplied(r)' = S + d
  <2>1. treasuryShare(r)' = share
    BY <1>5 DEF treasuryShare
  <2> HIDE DEF S, L, t, share, after
  <2>2. (S + d) * L = S * L + d * L /\ S * L \in Int /\ d * L \in Int
    BY <1>1, Distributes DEF Distribute
  <2>3. after <= claims(r) + d * L + (L \div 2)
    BY <1>2, <1>3, <1>4, <1>5, <2>1, <2>2
  <2> QED BY <2>3 DEF L, after
<1>6. CASE accrued'[r] = 0 /\ supplied(r)' = S + d + t
  <2>1. treasuryShare(r)' = 0
    <3>1. ReserveFactor[r] \in Nat /\ PERCENTAGE_FACTOR \in Nat \ {0}
      BY PercentagesAssumption, PercentageAssumption
    <3>2. 0 * ReserveFactor[r] = 0
      BY <3>1
    <3>3. (PERCENTAGE_FACTOR \div 2) \div PERCENTAGE_FACTOR = 0
      <4> DEFINE h == PERCENTAGE_FACTOR \div 2
      <4>1. h \in Int /\ PERCENTAGE_FACTOR * 0 <= h /\ h < PERCENTAGE_FACTOR * 0 + PERCENTAGE_FACTOR
        BY <3>1
      <4> HIDE DEF h
      <4>2. h \div PERCENTAGE_FACTOR = 0
        BY <3>1, <4>1, QuotientUnique
      <4> QED BY <4>2 DEF h
    <3>4. percentMul(0, ReserveFactor[r]) = 0
      BY <3>1, <3>2, <3>3 DEF percentMul
    <3> QED BY <1>6, <3>4 DEF treasuryShare
  <2> HIDE DEF S, L, t, share, after
  <2>2. (S + d + t) * L = S * L + d * L + t * L /\ S * L \in Int /\ d * L \in Int
    <3>1. (S + d) * L = S * L + d * L /\ S * L \in Int /\ d * L \in Int
      BY <1>1, Distributes DEF Distribute
    <3>2. S + d \in Int
      BY <1>1
    <3>3. ((S + d) + t) * L = (S + d) * L + t * L
      BY <1>1, <3>2, Distributes DEF Distribute
    <3> QED BY <3>1, <3>3
  <2>3. RAY * treasuryShare(r)' = 0
    BY <1>1, <2>1
  <2>4. after = S * L + d * L + t * L
    <3>1. supplied(r)' * L = (S + d + t) * L
      BY <1>6
    <3> DEFINE product == (S + d + t) * L
               parts == S * L + d * L + t * L
    <3>2. product = parts /\ parts \in Int
      BY <1>2, <2>2
    <3> HIDE DEF product, parts
    <3>3. after = product + 0
      BY <1>4, <2>3, <3>1 DEF product
    <3> QED BY <3>2, <3>3 DEF parts
  <2>5. after <= claims(r) + d * L + (L \div 2)
    BY <1>2, <1>3, <2>2, <2>4
  <2> QED BY <2>5 DEF L, after
<1> QED BY <1>5, <1>6 DEF Deposits

LEMMA BackingAfter ==
  ASSUME TypeOK, TypeOK', NEW r \in Reserves, NEW e \in Int, NEW m \in Int,
         variableBorrowIndex'[r] = variableBorrowIndex[r],
         lent(r)' = lent(r) + e, money(r)' = money(r) + m
  PROVE  backing(r)' = backing(r) + RAY * m + e * variableBorrowIndex[r]
<1> DEFINE V == variableBorrowIndex[r]
           E == lent(r)
           M == money(r)
<1>1. /\ E \in Nat /\ M \in Nat /\ V \in Nat /\ RAY \in Nat
  BY SumsNat, RayAssumption DEF TypeOK
<1>2. backing(r) = RAY * M + E * V
  BY ClaimsBacking
<1>3. backing(r)' = RAY * (M + m) + (E + e) * V
  <2>1. backing(r)' = RAY * money(r)' + lent(r)' * V
    BY BackingNext
  <2> QED BY <2>1
<1> HIDE DEF V, E, M
<1>4. (E + e) * V = E * V + e * V /\ E * V \in Int /\ e * V \in Int
  BY <1>1, Distributes DEF Distribute
<1>5. RAY * (M + m) = RAY * M + RAY * m /\ RAY * M \in Int /\ RAY * m \in Int
  BY <1>1
<1> QED BY <1>2, <1>3, <1>4, <1>5 DEF V

(* q scaled units stand for the amount a, or the opposites of both.          *)
Stands(i, q, a) ==
  /\ q \in Int /\ a \in Int
  /\ q * i - RAY * a <= i \div 2 /\ RAY * a - q * i <= i \div 2

LEMMA Standing ==
  ASSUME NEW i \in Nat \ {0}, NEW a \in Nat
  PROVE  /\ Stands(i, 0, 0) /\ Stands(i, rayDiv(a, i), a)
         /\ Stands(i, 0 - rayDiv(a, i), 0 - a)
<1> DEFINE q == rayDiv(a, i)
<1>1. /\ q \in Nat /\ q * i \in Nat /\ RAY * a \in Nat /\ i \div 2 \in Nat
      /\ q * i <= RAY * a + (i \div 2) /\ RAY * a <= q * i + (i \div 2)
  BY ScaledWorth
<1> HIDE DEF q
<1>2. Stands(i, 0, 0)
  BY <1>1, RayAssumption DEF Stands
<1>3. Stands(i, q, a)
  BY <1>1 DEF Stands
<1>4. (0 - q) * i = 0 - q * i /\ RAY * (0 - a) = 0 - RAY * a
  BY <1>1, RayAssumption
<1>5. Stands(i, 0 - q, 0 - a)
  BY <1>1, <1>4 DEF Stands
<1> QED BY <1>2, <1>3, <1>5 DEF q

(* A reserve stays backed if what moves in its deposits and in its debts     *)
(* stands for what moves in its money.                                       *)
Balanced(r) ==
  \E d, e, a, b \in Int :
    /\ Stands(liquidityIndex[r], d, a) /\ Stands(variableBorrowIndex[r], e, b)
    /\ Moves(r, d, e, a - b)

RoundsOnly(r) == (claims(r) - backing(r))' <= (claims(r) - backing(r)) + rounding(r)

LEMMA BalancedKept ==
  ASSUME TypeOK, TypeOK', NEW r \in Reserves, Balanced(r)
  PROVE  RoundsOnly(r)
<1>1. PICK d, e, a, b \in Int :
        /\ Stands(liquidityIndex[r], d, a) /\ Stands(variableBorrowIndex[r], e, b)
        /\ Moves(r, d, e, a - b)
  BY DEF Balanced
<1> DEFINE L == liquidityIndex[r]
           V == variableBorrowIndex[r]
           dL == d * L
           eV == e * V
           Ra == RAY * a
           Rb == RAY * b
<1>2. /\ L \in Nat /\ V \in Nat /\ RAY \in Nat /\ liquidityIndex'[r] = L
  BY <1>1, RayAssumption DEF TypeOK, Moves
<1>3. dL \in Int /\ eV \in Int /\ Ra \in Int /\ Rb \in Int /\ RAY * (a - b) = Ra - Rb
  BY <1>2
<1>4. /\ claims(r) \in Int /\ backing(r) \in Int
      /\ claims(r)' \in Int /\ backing(r)' \in Int
  BY ClaimsInt DEF ClaimsTyped
<1>5. claims(r)' <= claims(r) + dL + (L \div 2) /\ backing(r)' = backing(r) + (Ra - Rb) + eV
  <2>1. claims(r)' = supplied(r)' * L + RAY * treasuryShare(r)'
    BY <1>2 DEF claims, supplied
  <2>2. supplied(r)' * L + RAY * treasuryShare(r)' <= claims(r) + dL + (L \div 2)
    BY <1>1, ClaimsAfter DEF Moves
  <2>3. backing(r)' = backing(r) + (Ra - Rb) + eV
    BY <1>1, <1>3, BackingAfter DEF Moves
  <2> QED BY <2>1, <2>2, <2>3
<1>6. dL - Ra <= L \div 2 /\ Rb - eV <= V \div 2
  BY <1>1 DEF Stands
<1>7. /\ L \div 2 \in Int /\ V \div 2 \in Int /\ 2 * (L \div 2) <= L
      /\ V \div 2 <= (V + 1) \div 2 /\ (V + 1) \div 2 \in Int
  BY <1>2
<1>8. rounding(r) = L + ((V + 1) \div 2)
  BY <1>2 DEF rounding
<1> HIDE DEF L, V, dL, eV, Ra, Rb
<1> QED BY <1>2, <1>3, <1>4, <1>5, <1>6, <1>7, <1>8 DEF RoundsOnly

-----------------------------------------------------------------------------
(* The building blocks in these terms.                                       *)

(* One account of one row of a ledger changes by d.                          *)
LEMMA ListMove ==
  ASSUME NEW f \in [Accounts -> Nat], NEW g \in [Accounts -> Nat], NEW u \in Accounts,
         \A v \in Accounts \ {u} : g[v] = f[v]
  PROVE  SumFunction(g) = SumFunction(f) + (g[u] - f[u])
<1>1. f \in [Accounts -> Int] /\ g \in [Accounts -> Int] /\ f[u] \in Int /\ g[u] \in Int
  OBVIOUS
<1>2. SumFunction(g) = SumFunction(f) + g[u] - f[u]
  BY <1>1, AccountsFinite, SumUpdate
<1>3. SumFunction(f) \in Nat
  BY AccountsFinite, SumType
<1> QED BY <1>1, <1>2, <1>3

Changed(F, G, r, u, d) ==
  /\ G[r][u] - F[r][u] = d
  /\ \A x \in Reserves, v \in Accounts : x # r \/ v # u => G[x][v] = F[x][v]

LEMMA RowMove ==
  ASSUME NEW F \in Ledger, NEW G \in Ledger, NEW r \in Reserves, NEW u \in Accounts,
         NEW d \in Int, Changed(F, G, r, u, d), NEW x \in Reserves
  PROVE  SumFunction(G[x]) = SumFunction(F[x]) + IF x = r THEN d ELSE 0
<1>1. F[x] \in [Accounts -> Nat] /\ G[x] \in [Accounts -> Nat]
  BY DEF Ledger
<1>2. CASE x = r
  <2>1. (\A v \in Accounts \ {u} : G[x][v] = F[x][v]) /\ G[x][u] - F[x][u] = d
    BY <1>2 DEF Changed
  <2>2. SumFunction(G[x]) = SumFunction(F[x]) + d
    BY <1>1, <2>1, ListMove
  <2> QED BY <1>2, <2>2
<1>3. CASE x # r
  <2>1. G[x] = F[x]
    BY <1>1, <1>3 DEF Changed
  <2>2. SumFunction(F[x]) \in Nat
    BY <1>1, AccountsFinite, SumType
  <2> QED BY <1>3, <2>1, <2>2
<1> QED BY <1>2, <1>3

LEMMA LedgerChange ==
  ASSUME NEW F \in Ledger, NEW r \in Reserves, NEW u \in Accounts, NEW d \in Int
  PROVE  Changed(F, [F EXCEPT ![r][u] = F[r][u] + d], r, u, d)
  BY DEF Changed, Ledger

LEMMA UpdatedSum ==
  ASSUME TypeOK, NEW S, NEW r \in Reserves
  PROVE  SumFunction(updatedScaled(S)[r])
           = supplied(r) + IF r \in S THEN treasuryScaled(r) ELSE 0
<1>1. Treasury \in Accounts /\ aScaled[r] \in [Accounts -> Nat] /\ treasuryScaled(r) \in Nat
      /\ supplied(r) \in Nat
  BY SumsNat DEF Accounts, TypeOK, Ledger
<1>2. updatedScaled(S)[r] \in [Accounts -> Nat]
  BY UpdatedTypes DEF Ledger
<1>3. CASE r \in S
  <2> DEFINE g == updatedScaled(S)[r]
             f == aScaled[r]
  <2>1. /\ g[Treasury] - f[Treasury] = treasuryScaled(r)
        /\ \A v \in Accounts \ {Treasury} : g[v] = f[v]
    BY <1>1, <1>3 DEF updatedScaled
  <2>2. f \in [Accounts -> Nat] /\ g \in [Accounts -> Nat]
    BY <1>1, <1>2
  <2> HIDE DEF f, g
  <2>3. SumFunction(g) = SumFunction(f) + treasuryScaled(r)
    BY <1>1, <2>1, <2>2, ListMove
  <2> QED BY <1>3, <2>3 DEF supplied, f, g
<1>4. CASE r \notin S
  BY <1>1, <1>4 DEF updatedScaled, supplied
<1> QED BY <1>3, <1>4

LEMMA UpdateStateDeposits ==
  ASSUME TypeOK, NEW S, UpdateState(S), NEW r \in Reserves
  PROVE  Deposits(r, 0)
<1>1. supplied(r)' = supplied(r) + IF r \in S THEN treasuryScaled(r) ELSE 0
  BY UpdatedSum DEF UpdateState, supplied
<1>2. supplied(r) \in Nat /\ treasuryScaled(r) \in Nat /\ aTotal[r] \in Nat
  BY SumsNat DEF TypeOK
<1> QED BY <1>1, <1>2 DEF UpdateState, Deposits, updatedTotal

LEMMA MoveDeposits ==
  ASSUME TypeOK, NEW S, NEW r \in Reserves, NEW u \in Users, NEW d \in Int,
         UpdateStateAndMove(S, r, u, d), NEW x \in Reserves
  PROVE  Deposits(x, IF x = r THEN d ELSE 0)
<1>1. /\ SumFunction(updatedScaled(S)[x])
           = supplied(x) + IF x \in S THEN treasuryScaled(x) ELSE 0
      /\ supplied(x) \in Nat /\ treasuryScaled(x) \in Nat
  BY UpdatedSum, SumsNat
<1>2. /\ aScaled' \in Ledger /\ updatedScaled(S) \in Ledger /\ u \in Accounts
  BY UpdateStateAndMoveTypes, UpdatedTypes DEF Accounts
<1>3. SumFunction(aScaled'[x])
        = SumFunction(updatedScaled(S)[x]) + IF x = r THEN d ELSE 0
  <2>1. aScaled' = [updatedScaled(S) EXCEPT ![r][u] = updatedScaled(S)[r][u] + d]
    BY DEF UpdateStateAndMove
  <2>2. Changed(updatedScaled(S), aScaled', r, u, d)
    BY <1>2, <2>1, LedgerChange
  <2> QED BY <1>2, <2>2, RowMove
<1>4. aTotal'[x] = aTotal[x] + (IF x = r THEN d ELSE 0)
                    + (IF x \in S THEN treasuryScaled(x) ELSE 0)
  BY <1>1 DEF UpdateStateAndMove, updatedTotal, TypeOK
<1>5. accrued'[x] = IF x \in S THEN 0 ELSE accrued[x]
  BY DEF UpdateStateAndMove
<1> DEFINE e == IF x = r THEN d ELSE 0
<1>6. e \in Int /\ aTotal[x] \in Nat
  BY DEF TypeOK
<1>7. supplied(x)' = supplied(x) + (IF x \in S THEN treasuryScaled(x) ELSE 0) + e
  BY <1>1, <1>3 DEF supplied
<1>8. aTotal'[x] = aTotal[x] + e + (IF x \in S THEN treasuryScaled(x) ELSE 0)
  BY <1>4
<1> HIDE DEF e
<1>9. Deposits(x, e)
  <2>1. CASE x \in S
    BY <1>1, <1>5, <1>6, <1>7, <1>8, <2>1 DEF Deposits
  <2>2. CASE x \notin S
    BY <1>1, <1>5, <1>6, <1>7, <1>8, <2>2 DEF Deposits
  <2> QED BY <2>1, <2>2
<1> QED BY <1>9 DEF e

LEMMA VariableLent ==
  ASSUME TypeOK, NEW u \in Users, NEW r \in Reserves, NEW amount \in Nat, NEW x \in Reserves
  PROVE  /\ MintVariable(u, r, amount) =>
              lent(x)' = lent(x) + IF x = r THEN rayDiv(amount, variableBorrowIndex[r]) ELSE 0
         /\ BurnVariable(u, r, amount) =>
              lent(x)' = lent(x) + IF x = r THEN 0 - rayDiv(amount, variableBorrowIndex[r]) ELSE 0
<1> DEFINE q == rayDiv(amount, variableBorrowIndex[r])
<1>1. q \in Nat /\ u \in Accounts /\ lent(x) \in Nat /\ vScaled \in Ledger
  BY ScaledNat, SumsNat DEF Accounts, TypeOK
<1>2. ASSUME NEW d \in Int, vScaled' \in Ledger,
             Changed(vScaled, vScaled', r, u, d)
      PROVE  lent(x)' = lent(x) + IF x = r THEN d ELSE 0
  BY <1>1, <1>2, RowMove DEF lent
<1>3. ASSUME MintVariable(u, r, amount)
      PROVE  lent(x)' = lent(x) + IF x = r THEN q ELSE 0
  <2>1. vScaled' = [vScaled EXCEPT ![r][u] = vScaled[r][u] + q]
    BY <1>3 DEF MintVariable
  <2> HIDE DEF q
  <2>2. vScaled' \in Ledger
    BY <1>3, VariableTypes
  <2>3. Changed(vScaled, [vScaled EXCEPT ![r][u] = vScaled[r][u] + q], r, u, q) /\ q \in Int
    BY <1>1, LedgerChange
  <2> QED BY <1>2, <2>1, <2>2, <2>3
<1>4. ASSUME BurnVariable(u, r, amount)
      PROVE  lent(x)' = lent(x) + IF x = r THEN 0 - q ELSE 0
  <2>1. vScaled' = [vScaled EXCEPT ![r][u] = vScaled[r][u] - q]
    BY <1>4 DEF BurnVariable
  <2>2. vScaled[r][u] - q = vScaled[r][u] + (0 - q) /\ 0 - q \in Int
    BY <1>1 DEF Ledger
  <2>3. vScaled' = [vScaled EXCEPT ![r][u] = vScaled[r][u] + (0 - q)]
    BY <2>1, <2>2
  <2> DEFINE d == 0 - q
  <2>4. d \in Int /\ vScaled' = [vScaled EXCEPT ![r][u] = vScaled[r][u] + d]
    BY <2>2, <2>3
  <2> HIDE DEF d
  <2>5. Changed(vScaled, vScaled', r, u, d) /\ vScaled' \in Ledger
    BY <1>1, <1>4, <2>4, LedgerChange, VariableTypes
  <2>6. lent(x)' = lent(x) + IF x = r THEN d ELSE 0
    BY <1>2, <2>4, <2>5
  <2> QED BY <2>6 DEF d
<1> QED BY <1>3, <1>4

LEMMA StableLent ==
  ASSUME TypeOK, NEW u \in Users, NEW r \in Reserves, NEW amount \in Nat, NEW x \in Reserves
  PROVE  /\ MintStable(u, r, amount) =>
              SumFunction(stable'[x]) = SumFunction(stable[x]) + IF x = r THEN amount ELSE 0
         /\ BurnStable(u, r, amount) =>
              SumFunction(stable'[x]) = SumFunction(stable[x]) - IF x = r THEN amount ELSE 0
<1>1. u \in Accounts /\ SumFunction(stable[x]) \in Nat /\ stable \in Ledger
  BY SumsNat DEF Accounts, TypeOK
<1>2. ASSUME NEW d \in Int, stable' \in Ledger,
             Changed(stable, stable', r, u, d)
      PROVE  SumFunction(stable'[x]) = SumFunction(stable[x]) + IF x = r THEN d ELSE 0
  BY <1>1, <1>2, RowMove
<1>3. ASSUME MintStable(u, r, amount)
      PROVE  SumFunction(stable'[x]) = SumFunction(stable[x]) + IF x = r THEN amount ELSE 0
  <2>1. stable' = [stable EXCEPT ![r][u] = stable[r][u] + amount]
    BY <1>3 DEF MintStable
  <2>2. stable' \in Ledger
    BY <1>3, StableTypes
  <2>3. Changed(stable, [stable EXCEPT ![r][u] = stable[r][u] + amount], r, u, amount)
    BY <1>1, LedgerChange
  <2> QED BY <1>2, <2>1, <2>2, <2>3
<1>4. ASSUME BurnStable(u, r, amount)
      PROVE  SumFunction(stable'[x]) = SumFunction(stable[x]) - IF x = r THEN amount ELSE 0
  <2>1. stable' = [stable EXCEPT ![r][u] = stable[r][u] - amount]
    BY <1>4 DEF BurnStable
  <2>2. stable[r][u] - amount = stable[r][u] + (0 - amount) /\ 0 - amount \in Int
    BY <1>1 DEF Ledger
  <2>3. stable' = [stable EXCEPT ![r][u] = stable[r][u] + (0 - amount)]
    BY <2>1, <2>2
  <2> DEFINE d == 0 - amount
  <2>4. d \in Int /\ stable' = [stable EXCEPT ![r][u] = stable[r][u] + d]
    BY <2>2, <2>3
  <2> HIDE DEF d
  <2>5. Changed(stable, stable', r, u, d) /\ stable' \in Ledger
    BY <1>1, <1>4, <2>4, LedgerChange, StableTypes
  <2>6. SumFunction(stable'[x]) = SumFunction(stable[x]) + IF x = r THEN d ELSE 0
    BY <1>2, <2>4, <2>5
  <2> QED BY <1>1, <2>6 DEF d
<1> QED BY <1>3, <1>4
-----------------------------------------------------------------------------
(* The operations.                                                           *)

(* The debts of r grow by what stands for n, some at a variable rate, some   *)
(* at a stable one.                                                          *)
Debts(r, n) ==
  \E e, b, s \in Int :
    /\ Stands(variableBorrowIndex[r], e, b) /\ b + s = n
    /\ lent(r)' = lent(r) + e
    /\ SumFunction(stable'[r]) = SumFunction(stable[r]) + s

LEMMA IndexNat ==
  ASSUME TypeOK, NEW r \in Reserves
  PROVE  liquidityIndex[r] \in Nat \ {0} /\ variableBorrowIndex[r] \in Nat \ {0}
  BY RayAssumption DEF TypeOK

LEMMA MovesBalance ==
  ASSUME TypeOK, NEW r \in Reserves, NEW d \in Int, NEW a \in Int, NEW n \in Int,
         Stands(liquidityIndex[r], d, a), Deposits(r, d), Debts(r, n),
         cash(r)' = cash(r) + (a - n),
         liquidityIndex'[r] = liquidityIndex[r],
         variableBorrowIndex'[r] = variableBorrowIndex[r]
  PROVE  Balanced(r)
<1>1. PICK e \in Int, b \in Int, s \in Int :
        /\ Stands(variableBorrowIndex[r], e, b) /\ b + s = n
        /\ lent(r)' = lent(r) + e
        /\ SumFunction(stable'[r]) = SumFunction(stable[r]) + s
  BY DEF Debts
<1>2. cash(r) \in Nat /\ SumFunction(stable[r]) \in Nat
  BY SumsNat
<1>3. money(r)' = money(r) + (a - b)
  BY <1>1, <1>2 DEF money
<1>4. Moves(r, d, e, a - b)
  BY <1>1, <1>3 DEF Moves
<1> QED BY <1>1, <1>4 DEF Balanced

LEMMA NoDebts ==
  ASSUME TypeOK, UNCHANGED debtVars, NEW r \in Reserves
  PROVE  Debts(r, 0)
<1>1. lent(r) \in Nat /\ SumFunction(stable[r]) \in Nat
  BY SumsNat
<1>2. Stands(variableBorrowIndex[r], 0, 0)
  BY IndexNat, Standing
<1>3. vScaled' = vScaled /\ stable' = stable
  BY DEF debtVars
<1>4. lent(r)' = lent(r) + 0 /\ SumFunction(stable'[r]) = SumFunction(stable[r]) + 0
  BY <1>1, <1>3 DEF lent
<1> QED BY <1>2, <1>4 DEF Debts

LEMMA VariableDebts ==
  ASSUME TypeOK, NEW u \in Users, NEW r \in Reserves, NEW amount \in Nat,
         UNCHANGED <<stable, sTotal>>, NEW x \in Reserves
  PROVE  /\ MintVariable(u, r, amount) => Debts(x, IF x = r THEN amount ELSE 0)
         /\ BurnVariable(u, r, amount) => Debts(x, IF x = r THEN 0 - amount ELSE 0)
<1> DEFINE q == rayDiv(amount, variableBorrowIndex[r])
<1>1. lent(x) \in Nat /\ SumFunction(stable[x]) \in Nat
  BY SumsNat
<1>2. /\ Stands(variableBorrowIndex[x], 0, 0) /\ Stands(variableBorrowIndex[r], q, amount)
      /\ Stands(variableBorrowIndex[r], 0 - q, 0 - amount)
  BY IndexNat, Standing
<1>3. SumFunction(stable'[x]) = SumFunction(stable[x]) + 0
  BY <1>1
<1>4. ASSUME NEW e \in Int, NEW b \in Int, Stands(variableBorrowIndex[x], e, b),
             lent(x)' = lent(x) + e
      PROVE  Debts(x, b)
  <2>1. b + 0 = b
    OBVIOUS
  <2> QED BY <1>3, <1>4, <2>1 DEF Debts
<1>5. q \in Nat
  BY ScaledNat
<1> HIDE DEF q
<1>6. ASSUME MintVariable(u, r, amount) PROVE Debts(x, IF x = r THEN amount ELSE 0)
  <2>1. lent(x)' = lent(x) + IF x = r THEN q ELSE 0
    BY <1>6, VariableLent DEF q
  <2>2. CASE x = r
    BY <1>2, <1>4, <1>5, <2>1, <2>2
  <2>3. CASE x # r
    BY <1>2, <1>4, <2>1, <2>3
  <2> QED BY <2>2, <2>3
<1>7. ASSUME BurnVariable(u, r, amount) PROVE Debts(x, IF x = r THEN 0 - amount ELSE 0)
  <2>1. lent(x)' = lent(x) + IF x = r THEN 0 - q ELSE 0
    BY <1>7, VariableLent DEF q
  <2>2. CASE x = r
    BY <1>2, <1>4, <1>5, <2>1, <2>2
  <2>3. CASE x # r
    BY <1>2, <1>4, <2>1, <2>3
  <2> QED BY <2>2, <2>3
<1> QED BY <1>6, <1>7

LEMMA StableDebts ==
  ASSUME TypeOK, NEW u \in Users, NEW r \in Reserves, NEW amount \in Nat,
         UNCHANGED <<vScaled, vTotal>>, NEW x \in Reserves
  PROVE  /\ MintStable(u, r, amount) => Debts(x, IF x = r THEN amount ELSE 0)
         /\ BurnStable(u, r, amount) => Debts(x, IF x = r THEN 0 - amount ELSE 0)
<1>1. lent(x) \in Nat /\ SumFunction(stable[x]) \in Nat
  BY SumsNat
<1>2. Stands(variableBorrowIndex[x], 0, 0) /\ lent(x)' = lent(x) + 0
  BY <1>1, IndexNat, Standing DEF lent
<1>3. ASSUME NEW s \in Int, SumFunction(stable'[x]) = SumFunction(stable[x]) + s
      PROVE  Debts(x, s)
  <2>1. 0 + s = s
    OBVIOUS
  <2> QED BY <1>2, <1>3, <2>1 DEF Debts
<1>4. ASSUME MintStable(u, r, amount) PROVE Debts(x, IF x = r THEN amount ELSE 0)
  BY <1>3, <1>4, StableLent
<1>5. ASSUME BurnStable(u, r, amount) PROVE Debts(x, IF x = r THEN 0 - amount ELSE 0)
  <2> DEFINE s == IF x = r THEN 0 - amount ELSE 0
  <2>1. SumFunction(stable'[x]) = SumFunction(stable[x]) - IF x = r THEN amount ELSE 0
    BY <1>5, StableLent
  <2>2. s \in Int /\ SumFunction(stable'[x]) = SumFunction(stable[x]) + s
    BY <1>1, <2>1
  <2> HIDE DEF s
  <2>3. Debts(x, s)
    BY <1>3, <2>2
  <2> QED BY <2>3 DEF s
<1> QED BY <1>4, <1>5

(* A debt that is minted in one mode and burnt in the other.                 *)
LEMMA BothDebts ==
  ASSUME TypeOK, NEW u \in Users, NEW r \in Reserves, NEW m \in Nat, NEW n \in Nat,
         NEW x \in Reserves
  PROVE  /\ MintVariable(u, r, m) /\ BurnStable(u, r, n)
              => Debts(x, IF x = r THEN m - n ELSE 0)
         /\ BurnVariable(u, r, m) /\ MintStable(u, r, n)
              => Debts(x, IF x = r THEN n - m ELSE 0)
         /\ BurnVariable(u, r, m) /\ BurnStable(u, r, n)
              => Debts(x, IF x = r THEN 0 - (m + n) ELSE 0)
<1> DEFINE q == rayDiv(m, variableBorrowIndex[r])
<1>1. lent(x) \in Nat /\ SumFunction(stable[x]) \in Nat /\ q \in Nat
  BY SumsNat, ScaledNat
<1>2. /\ Stands(variableBorrowIndex[x], 0, 0) /\ Stands(variableBorrowIndex[r], q, m)
      /\ Stands(variableBorrowIndex[r], 0 - q, 0 - m)
  BY IndexNat, Standing
<1>3. ASSUME NEW e \in Int, NEW b \in Int, NEW s \in Int,
             Stands(variableBorrowIndex[x], e, b), lent(x)' = lent(x) + e,
             SumFunction(stable'[x]) = SumFunction(stable[x]) + s
      PROVE  Debts(x, b + s)
  BY <1>3 DEF Debts
<1>4. /\ MintVariable(u, r, m) => lent(x)' = lent(x) + IF x = r THEN q ELSE 0
      /\ BurnVariable(u, r, m) => lent(x)' = lent(x) + IF x = r THEN 0 - q ELSE 0
  BY VariableLent
<1>5. /\ MintStable(u, r, n) =>
           SumFunction(stable'[x]) = SumFunction(stable[x]) + IF x = r THEN n ELSE 0
      /\ BurnStable(u, r, n) =>
           SumFunction(stable'[x]) = SumFunction(stable[x]) + IF x = r THEN 0 - n ELSE 0
  <2>1. BurnStable(u, r, n) =>
          SumFunction(stable'[x]) = SumFunction(stable[x]) - IF x = r THEN n ELSE 0
    BY StableLent
  <2> QED BY <1>1, <2>1, StableLent
<1> HIDE DEF q
<1>6. CASE x # r
  <2>1. ASSUME lent(x)' = lent(x) + 0, SumFunction(stable'[x]) = SumFunction(stable[x]) + 0
        PROVE  Debts(x, 0)
    <3>1. Debts(x, 0 + 0)
      BY <1>2, <1>3, <2>1
    <3> QED BY <3>1
  <2> QED BY <1>4, <1>5, <1>6, <2>1
<1>7. CASE x = r
  <2>1. ASSUME MintVariable(u, r, m), BurnStable(u, r, n) PROVE Debts(x, m - n)
    <3>1. Debts(x, m + (0 - n)) /\ m + (0 - n) = m - n
      BY <1>1, <1>2, <1>3, <1>4, <1>5, <1>7, <2>1
    <3> QED BY <3>1
  <2>2. ASSUME BurnVariable(u, r, m), MintStable(u, r, n) PROVE Debts(x, n - m)
    <3>1. Debts(x, (0 - m) + n) /\ (0 - m) + n = n - m
      BY <1>1, <1>2, <1>3, <1>4, <1>5, <1>7, <2>2
    <3> QED BY <3>1
  <2>3. ASSUME BurnVariable(u, r, m), BurnStable(u, r, n) PROVE Debts(x, 0 - (m + n))
    <3>1. Debts(x, (0 - m) + (0 - n)) /\ (0 - m) + (0 - n) = 0 - (m + n)
      BY <1>1, <1>2, <1>3, <1>4, <1>5, <1>7, <2>3
    <3> QED BY <3>1
  <2> QED BY <1>7, <2>1, <2>2, <2>3
<1> QED BY <1>6, <1>7

LEMMA CashMoves ==
  ASSUME TypeOK, NEW r \in Reserves, NEW amount \in Nat, UNCHANGED loan, NEW x \in Reserves
  PROVE  /\ Receive(r, amount) => cash(x)' = cash(x) + IF x = r THEN amount ELSE 0
         /\ Pay(r, amount) => cash(x)' = cash(x) + IF x = r THEN 0 - amount ELSE 0
<1>1. /\ liquidity[x] \in Nat /\ liquidity \in [Reserves -> Nat]
      /\ loan # NoLoan => loan.amount \in Nat
  BY DEF TypeOK
<1> QED BY <1>1 DEF Receive, Pay, cash

(* What deposits and withdrawals move, reserve by reserve.                   *)
LEMMA StandsAt ==
  ASSUME TypeOK, NEW r \in Reserves, NEW amount \in Nat, NEW x \in Reserves
  PROVE  /\ Stands(liquidityIndex[x], 0, 0)
         /\ Stands(liquidityIndex[x],
                   IF x = r THEN rayDiv(amount, liquidityIndex[r]) ELSE 0,
                   IF x = r THEN amount ELSE 0)
         /\ Stands(liquidityIndex[x],
                   IF x = r THEN 0 - rayDiv(amount, liquidityIndex[r]) ELSE 0,
                   IF x = r THEN 0 - amount ELSE 0)
<1>1. /\ Stands(liquidityIndex[x], 0, 0)
      /\ Stands(liquidityIndex[r], rayDiv(amount, liquidityIndex[r]), amount)
      /\ Stands(liquidityIndex[r], 0 - rayDiv(amount, liquidityIndex[r]), 0 - amount)
  BY IndexNat, Standing
<1> QED BY <1>1

LEMMA DepositBalanced ==
  ASSUME TypeOK, NEW u \in Users, NEW r \in Reserves, NEW amount \in Amounts,
         Deposit(u, r, amount), NEW x \in Reserves
  PROVE  Balanced(x)
<1> DEFINE q == rayDiv(amount, liquidityIndex[r])
           d == IF x = r THEN q ELSE 0
           a == IF x = r THEN amount ELSE 0
<1>1. amount \in Nat /\ q \in Nat
  BY AmountsAssumption, ScaledNat
<1>2. Stands(liquidityIndex[x], d, a) /\ d \in Int /\ a \in Int /\ a - 0 = a
  BY <1>1, StandsAt
<1>3. Deposits(x, d)
  <2>1. UpdateStateAndMove({r}, r, u, q)
    BY DEF Deposit
  <2> HIDE DEF q
  <2> QED BY <1>1, <2>1, MoveDeposits
<1>4. Debts(x, 0)
  BY NoDebts DEF Deposit
<1>5. cash(x)' = cash(x) + a
  BY <1>1, CashMoves DEF Deposit
<1>6. liquidityIndex' = liquidityIndex /\ variableBorrowIndex' = variableBorrowIndex
  BY DEF Deposit, indexVars
<1> HIDE DEF d, a
<1> QED BY <1>2, <1>3, <1>4, <1>5, <1>6, MovesBalance

LEMMA WithdrawBalanced ==
  ASSUME TypeOK, NEW u \in Users, NEW r \in Reserves,
         NEW amount \in Amounts \cup {UintMax}, Withdraw(u, r, amount), NEW x \in Reserves
  PROVE  Balanced(x)
<1> DEFINE out == IF amount = UintMax THEN aBalance(u, r) ELSE amount
           q == rayDiv(out, liquidityIndex[r])
           d == IF x = r THEN 0 - q ELSE 0
           a == IF x = r THEN 0 - out ELSE 0
<1>1. out \in Nat
  BY AmountsAssumption, BalancesNat
<1>2. UpdateStateAndMove({r}, r, u, 0 - q) /\ Pay(r, out)
  BY DEF Withdraw
<1>3. /\ UNCHANGED debtVars /\ UNCHANGED loan
      /\ liquidityIndex' = liquidityIndex /\ variableBorrowIndex' = variableBorrowIndex
  BY DEF Withdraw, indexVars
<1> HIDE DEF out
<1>4. q \in Nat
  BY <1>1, ScaledNat
<1>5. Stands(liquidityIndex[x], d, a) /\ d \in Int /\ a \in Int /\ a - 0 = a
  BY <1>1, <1>4, StandsAt
<1>6. Deposits(x, d)
  <2> HIDE DEF q
  <2>1. 0 - q \in Int
    BY <1>4
  <2> QED BY <1>2, <2>1, MoveDeposits
<1>7. Debts(x, 0)
  BY <1>3, NoDebts
<1>8. cash(x)' = cash(x) + a
  BY <1>1, <1>2, <1>3, CashMoves
<1> HIDE DEF d, a
<1> QED BY <1>3, <1>5, <1>6, <1>7, <1>8, MovesBalance

(* An operation that updates the state of a reserve and moves only debts and *)
(* cash, by the same amount.                                                 *)
LEMMA DebtBalanced ==
  ASSUME TypeOK, NEW S, UpdateState(S), NEW x \in Reserves, NEW n \in Int, Debts(x, n),
         cash(x)' = cash(x) + (0 - n), UNCHANGED indexVars
  PROVE  Balanced(x)
<1>1. Deposits(x, 0)
  BY UpdateStateDeposits
<1>2. Stands(liquidityIndex[x], 0, 0)
  BY IndexNat, Standing
<1>3. liquidityIndex' = liquidityIndex /\ variableBorrowIndex' = variableBorrowIndex
  BY DEF indexVars
<1> QED BY <1>1, <1>2, <1>3, MovesBalance

LEMMA ExecuteBorrowDebts ==
  ASSUME TypeOK, NEW u \in Users, NEW r \in Reserves, NEW amount \in Nat, NEW mode,
         ExecuteBorrow(u, r, amount, mode), NEW x \in Reserves
  PROVE  Debts(x, IF x = r THEN amount ELSE 0)
<1>1. \/ MintStable(u, r, amount) /\ UNCHANGED <<vScaled, vTotal>>
      \/ MintVariable(u, r, amount) /\ UNCHANGED <<stable, sTotal>>
  BY DEF ExecuteBorrow
<1> QED BY <1>1, StableDebts, VariableDebts

LEMMA BorrowBalanced ==
  ASSUME TypeOK, NEW u \in Users, NEW r \in Reserves, NEW amount \in Amounts, NEW mode,
         Borrow(u, r, amount, mode), NEW x \in Reserves
  PROVE  Balanced(x)
<1> DEFINE n == IF x = r THEN amount ELSE 0
<1>1. amount \in Nat /\ n \in Int
  BY AmountsAssumption
<1>2. Debts(x, n)
  BY <1>1, ExecuteBorrowDebts DEF Borrow
<1>3. cash(x)' = cash(x) + (0 - n)
  BY <1>1, CashMoves DEF Borrow
<1>4. UpdateState({r}) /\ UNCHANGED indexVars
  BY DEF Borrow, ExecuteBorrow
<1> HIDE DEF n
<1> QED BY <1>1, <1>2, <1>3, <1>4, DebtBalanced

LEMMA RepayBalanced ==
  ASSUME TypeOK, NEW u \in Users, NEW r \in Reserves,
         NEW amount \in Amounts \cup {UintMax}, NEW mode \in Modes, NEW self,
         Repay(u, r, amount, mode, self), NEW x \in Reserves
  PROVE  Balanced(x)
<1> DEFINE debt == IF mode = "stable" THEN stable[r][u] ELSE variableDebt(u, r)
           pay == IF amount < debt THEN amount ELSE debt
           n == IF x = r THEN 0 - pay ELSE 0
<1>1. pay \in Nat /\ n \in Int
  BY AmountsAssumption, BalancesNat
<1>2. /\ UpdateState({r}) /\ UNCHANGED <<indexVars, loan>> /\ Receive(r, pay)
      /\ \/ BurnStable(u, r, pay) /\ UNCHANGED <<vScaled, vTotal>>
         \/ BurnVariable(u, r, pay) /\ UNCHANGED <<stable, sTotal>>
  BY DEF Repay
<1> HIDE DEF pay
<1>3. Debts(x, n)
  BY <1>1, <1>2, StableDebts, VariableDebts
<1>4. cash(x)' = cash(x) + (0 - n)
  BY <1>1, <1>2, CashMoves
<1> HIDE DEF n
<1> QED BY <1>1, <1>2, <1>3, <1>4, DebtBalanced

LEMMA SwapBalanced ==
  ASSUME TypeOK, NEW u \in Users, NEW r \in Reserves, NEW mode \in Modes,
         SwapBorrowRateMode(u, r, mode), NEW x \in Reserves
  PROVE  Balanced(x)
<1> DEFINE debt == IF mode = "stable" THEN stable[r][u] ELSE variableDebt(u, r)
<1>1. debt \in Nat
  BY BalancesNat
<1>2. /\ UpdateState({r}) /\ UNCHANGED <<indexVars, liquidity, loan>>
      /\ \/ BurnStable(u, r, debt) /\ MintVariable(u, r, debt)
         \/ BurnVariable(u, r, debt) /\ MintStable(u, r, debt)
  BY DEF SwapBorrowRateMode
<1> HIDE DEF debt
<1>3. Debts(x, IF x = r THEN debt - debt ELSE 0) /\ debt - debt = 0
  BY <1>1, <1>2, BothDebts
<1>4. Debts(x, 0) /\ cash(x)' = cash(x) + (0 - 0)
  BY <1>2, <1>3, SumsNat DEF cash
<1> QED BY <1>2, <1>4, DebtBalanced

LEMMA RebalanceBalanced ==
  ASSUME TypeOK, NEW u \in Users, NEW r \in Reserves,
         RebalanceStableBorrowRate(u, r), NEW x \in Reserves
  PROVE  Balanced(x)
<1>1. /\ UpdateState({r}) /\ UNCHANGED <<debtVars, indexVars, liquidity, loan>>
  BY DEF RebalanceStableBorrowRate
<1>2. Debts(x, 0) /\ cash(x)' = cash(x) + (0 - 0)
  BY <1>1, NoDebts, SumsNat DEF cash
<1> QED BY <1>1, <1>2, DebtBalanced

(* The ledger of deposits keeps its sums.                                    *)
LEMMA SameDeposits ==
  ASSUME TypeOK, NEW x \in Reserves, supplied(x)' = supplied(x),
         UNCHANGED <<aTotal, accrued, debtVars, indexVars>>, cash(x)' = cash(x)
  PROVE  Balanced(x)
<1>1. supplied(x) \in Nat /\ aTotal[x] \in Nat /\ cash(x) \in Nat
  BY SumsNat DEF TypeOK
<1>2. Deposits(x, 0) /\ cash(x)' = cash(x) + (0 - 0)
  BY <1>1 DEF Deposits
<1>3. Stands(liquidityIndex[x], 0, 0) /\ Debts(x, 0)
  BY NoDebts, StandsAt
<1>4. liquidityIndex' = liquidityIndex /\ variableBorrowIndex' = variableBorrowIndex
  BY DEF indexVars
<1> QED BY <1>2, <1>3, <1>4, MovesBalance

LEMMA SetUseBalanced ==
  ASSUME TypeOK, NEW u \in Users, NEW r \in Reserves, NEW use \in BOOLEAN,
         SetUserUseReserveAsCollateral(u, r, use), NEW x \in Reserves
  PROVE  Balanced(x)
<1>1. UNCHANGED <<aTokenVars, debtVars, indexVars, accrued, liquidity, loan>>
  BY DEF SetUserUseReserveAsCollateral
<1>2. supplied(x)' = supplied(x) /\ cash(x)' = cash(x) /\ aTotal' = aTotal
  BY <1>1 DEF supplied, cash, aTokenVars
<1> QED BY <1>1, <1>2, SameDeposits

LEMMA FlashLoanBalanced ==
  ASSUME TypeOK, NEW receiver \in Users, NEW r \in Reserves, NEW amount \in FlashAmounts,
         FlashLoan(receiver, r, amount), NEW x \in Reserves
  PROVE  Balanced(x)
<1>1. /\ UNCHANGED <<aTokenVars, debtVars, indexVars, accrued>>
      /\ loan = NoLoan /\ loan' = [receiver |-> receiver, asset |-> r, amount |-> amount]
      /\ liquidity' = [liquidity EXCEPT ![r] = @ - amount]
  BY DEF FlashLoan, Pay
<1>2. amount \in Nat /\ liquidity \in [Reserves -> Nat]
  BY AmountsAssumption DEF TypeOK
<1>3. loan' # NoLoan /\ loan'.asset = r /\ loan'.amount = amount
  BY <1>1, <1>2, LoanAssumption
<1>4. supplied(x)' = supplied(x) /\ aTotal' = aTotal
  BY <1>1 DEF supplied, aTokenVars
<1>5. cash(x)' = cash(x)
  <2>1. cash(x) = liquidity[x] /\ liquidity[x] \in Nat
    BY <1>1, <1>2 DEF cash
  <2>2. cash(x)' = liquidity'[x] + IF r = x THEN amount ELSE 0
    BY <1>3 DEF cash
  <2>3. liquidity'[x] = IF r = x THEN liquidity[x] - amount ELSE liquidity[x]
    BY <1>1, <1>2
  <2> QED BY <1>2, <2>1, <2>2, <2>3
<1> QED BY <1>1, <1>4, <1>5, SameDeposits

LEMMA FlashLoanBorrowBalanced ==
  ASSUME TypeOK, NEW u \in Users, NEW mode, FlashLoanBorrow(u, mode), NEW x \in Reserves
  PROVE  Balanced(x)
<1> DEFINE r == loan.asset
           amount == loan.amount
           n == IF x = r THEN amount ELSE 0
<1>1. loan # NoLoan /\ r \in Reserves /\ amount \in Nat /\ n \in Int /\ liquidity[x] \in Nat
  BY DEF FlashLoanBorrow, TypeOK
<1>2. ExecuteBorrow(u, r, amount, mode) /\ loan' = NoLoan /\ liquidity' = liquidity
  BY DEF FlashLoanBorrow
<1>3. cash(x)' = cash(x) + (0 - n)
  BY <1>1, <1>2 DEF cash
<1>4. Debts(x, n)
  <2> HIDE DEF r, amount
  <2> QED BY <1>1, <1>2, ExecuteBorrowDebts
<1>5. UpdateState({r}) /\ UNCHANGED indexVars
  BY <1>2 DEF ExecuteBorrow
<1> HIDE DEF n
<1> QED BY <1>1, <1>3, <1>4, <1>5, DebtBalanced

(* What leaves one account of a row and enters another.                      *)
LEMMA PairMove ==
  ASSUME NEW F \in Ledger, NEW r \in Reserves, NEW from \in Accounts, NEW to \in Accounts,
         NEW s \in Nat, s <= F[r][from], NEW x \in Reserves
  PROVE  SumFunction(moved(F, from, to, r, s)[x]) = SumFunction(F[x])
<1> DEFINE d == 0 - s
           G == [F EXCEPT ![r][from] = @ - s]
           H == [G EXCEPT ![r][to] = @ + s]
<1>1. d \in Int
  OBVIOUS
<1>2. G \in Ledger /\ Changed(F, G, r, from, d)
  <2>1. F[r][from] - s \in Nat /\ F[r][from] \in Nat
    BY DEF Ledger
  <2>2. G \in Ledger
    BY <2>1 DEF Ledger
  <2>3. G[r][from] = F[r][from] - s
    BY DEF Ledger
  <2>4. \A y \in Reserves, v \in Accounts : y # r \/ v # from => G[y][v] = F[y][v]
    BY DEF Ledger
  <2> HIDE DEF G
  <2> QED BY <2>1, <2>2, <2>3, <2>4 DEF Changed
<1> HIDE DEF G
<1>3. H \in Ledger /\ Changed(G, H, r, to, s)
  <2>1. G[r][to] + s \in Nat /\ G[r][to] \in Nat
    BY <1>2 DEF Ledger
  <2>2. H \in Ledger
    BY <1>2, <2>1 DEF Ledger
  <2>3. H[r][to] = G[r][to] + s
    BY <1>2 DEF Ledger
  <2>4. \A y \in Reserves, v \in Accounts : y # r \/ v # to => H[y][v] = G[y][v]
    BY <1>2 DEF Ledger
  <2> HIDE DEF H
  <2> QED BY <2>1, <2>2, <2>3, <2>4 DEF Changed
<1>4. moved(F, from, to, r, s) = H
  BY DEF moved, G
<1> HIDE DEF H
<1>5. SumFunction(G[x]) = SumFunction(F[x]) + IF x = r THEN d ELSE 0
  <2> HIDE DEF d
  <2> QED BY <1>1, <1>2, RowMove
<1>6. SumFunction(H[x]) = SumFunction(G[x]) + IF x = r THEN s ELSE 0
  BY <1>2, <1>3, RowMove
<1>7. SumFunction(F[x]) \in Nat
  BY AccountsFinite, SumType DEF Ledger
<1> QED BY <1>4, <1>5, <1>6, <1>7

LEMMA TransferBalanced ==
  ASSUME TypeOK, NEW from \in Users, NEW to \in Users, NEW r \in Reserves,
         NEW amount \in Amounts, Transfer(from, to, r, amount), NEW x \in Reserves
  PROVE  Balanced(x)
<1> DEFINE s == rayDiv(amount, liquidityIndex[r])
<1>1. s \in Nat /\ from \in Accounts /\ to \in Accounts /\ aScaled \in Ledger
  BY AmountsAssumption, ScaledNat DEF Accounts, TypeOK
<1>2. /\ s <= aScaled[r][from]
      /\ aScaled' = moved(aScaled, from, to, r, s)
      /\ UNCHANGED <<aTotal, debtVars, indexVars, accrued, liquidity, loan>>
  BY DEF Transfer, movedScaled
<1> HIDE DEF s
<1>3. supplied(x)' = supplied(x)
  BY <1>1, <1>2, PairMove DEF supplied
<1>4. cash(x)' = cash(x)
  BY <1>2 DEF cash
<1> QED BY <1>2, <1>3, <1>4, SameDeposits

LEMMA BurnDebts ==
  ASSUME TypeOK, NEW u \in Users, NEW d \in Reserves, NEW debt \in Nat,
         BurnDebtForLiquidation(u, d, debt), NEW x \in Reserves
  PROVE  Debts(x, IF x = d THEN 0 - debt ELSE 0)
<1> DEFINE m == variableDebt(u, d)
           n == debt - m
<1>1. m \in Nat
  BY BalancesNat
<1>2. CASE m >= debt
  BY <1>2, VariableDebts DEF BurnDebtForLiquidation
<1>3. CASE ~(m >= debt)
  <2>1. n \in Nat /\ m + n = debt /\ (m = 0 => n = debt)
    BY <1>1, <1>3
  <2>2. /\ BurnStable(u, d, n)
        /\ \/ m > 0 /\ BurnVariable(u, d, m)
           \/ ~(m > 0) /\ UNCHANGED <<vScaled, vTotal>>
    BY <1>3 DEF BurnDebtForLiquidation
  <2> HIDE DEF m, n
  <2>3. CASE BurnVariable(u, d, m)
    <3>1. Debts(x, IF x = d THEN 0 - (m + n) ELSE 0)
      BY <1>1, <2>1, <2>2, <2>3, BothDebts
    <3> QED BY <2>1, <3>1
  <2>4. CASE ~(m > 0) /\ UNCHANGED <<vScaled, vTotal>>
    <3>1. n = debt
      BY <1>1, <2>1, <2>4
    <3> QED BY <2>2, <2>4, <3>1, StableDebts
  <2> QED BY <2>2, <2>3, <2>4
<1> QED BY <1>2, <1>3

LEMMA LiquidationBalanced ==
  ASSUME TypeOK, NEW liquidator \in Users, NEW u \in Users, NEW c \in Reserves,
         NEW d \in Reserves, NEW debtToCover \in Amounts \cup {UintMax},
         NEW receiveAToken \in BOOLEAN,
         LiquidationCall(liquidator, u, c, d, debtToCover, receiveAToken),
         NEW x \in Reserves
  PROVE  Balanced(x)
<1> DEFINE debt == liquidationAmounts(u, c, d, debtToCover).debt
           seized == liquidationAmounts(u, c, d, debtToCover).collateral
           s == rayDiv(seized, liquidityIndex[c])
           paid == IF receiveAToken THEN 0 ELSE seized
           n == IF x = d THEN 0 - debt ELSE 0
           a == IF x = c THEN 0 - paid ELSE 0
<1>1. debt \in Nat /\ seized \in Nat
  <2>1. debtToCover \in Nat
    BY AmountsAssumption
  <2> QED BY <2>1, LiquidationAmountsNat
<1>2. /\ BurnDebtForLiquidation(u, d, debt) /\ s <= aScaled[c][u]
      /\ IF receiveAToken
           THEN /\ aScaled' = moved(updatedScaled({d}), u, liquidator, c, s)
                /\ aTotal' = updatedTotal({d})
                /\ accrued' = [accrued EXCEPT ![d] = 0]
           ELSE UpdateStateAndMove({c, d}, c, u, 0 - s)
      /\ liquidity' = [[liquidity EXCEPT ![c] = @ - paid] EXCEPT ![d] = @ + debt]
      /\ UNCHANGED <<indexVars, loan>>
  BY DEF LiquidationCall
<1>3. liquidityIndex' = liquidityIndex /\ variableBorrowIndex' = variableBorrowIndex
  BY <1>2 DEF indexVars
<1> HIDE DEF debt, seized
<1>4. s \in Nat /\ paid \in Nat /\ n \in Int /\ a \in Int
  <2>1. s \in Nat
    BY <1>1, ScaledNat
  <2> HIDE DEF s
  <2> QED BY <1>1, <2>1
<1>5. Stands(liquidityIndex[x], 0, 0)
      /\ Stands(liquidityIndex[x], IF x = c THEN 0 - s ELSE 0, IF x = c THEN 0 - seized ELSE 0)
  BY <1>1, StandsAt
<1> HIDE DEF s
<1>6. Debts(x, n)
  BY <1>1, <1>2, BurnDebts
<1>7. cash(x)' = cash(x) + (a - n)
  <2>1. /\ liquidity \in [Reserves -> Nat] /\ (loan # NoLoan => loan.amount \in Nat)
    BY DEF TypeOK
  <2> HIDE DEF paid
  <2>2. liquidity'[x] = liquidity[x] + (a - n)
    <3> DEFINE left == [liquidity EXCEPT ![c] = @ - paid]
    <3>1. left[x] = liquidity[x] + a /\ left \in [Reserves -> Int] /\ left[x] \in Int
      BY <1>4, <2>1
    <3>2. liquidity' = [left EXCEPT ![d] = @ + debt]
      BY <1>2
    <3> HIDE DEF left, a
    <3> QED BY <1>1, <1>4, <2>1, <3>1, <3>2
  <2> HIDE DEF a, n
  <2> QED BY <1>2, <1>4, <2>1, <2>2 DEF cash
<1>8. CASE receiveAToken
  <2>1. a = 0
    BY <1>8
  <2>2. supplied(x)' = SumFunction(updatedScaled({d})[x])
    <3> DEFINE F == updatedScaled({d})
    <3>1. u \in Accounts /\ liquidator \in Accounts /\ u # Treasury
      BY AccountsAssumption DEF Accounts
    <3>2. F \in Ledger
      BY UpdatedTypes
    <3>3. F[c][u] = aScaled[c][u]
      BY <3>1 DEF updatedScaled, TypeOK, Ledger
    <3>4. aScaled' = moved(F, u, liquidator, c, s)
      BY <1>2, <1>8
    <3> HIDE DEF F
    <3>5. SumFunction(moved(F, u, liquidator, c, s)[x]) = SumFunction(F[x])
      BY <1>2, <1>4, <3>1, <3>2, <3>3, PairMove
    <3> QED BY <3>4, <3>5 DEF F, supplied
  <2>3. supplied(x)' = supplied(x) + IF x = d THEN treasuryScaled(x) ELSE 0
    BY <2>2, UpdatedSum
  <2>4. supplied(x) \in Nat /\ treasuryScaled(x) \in Nat /\ aTotal[x] \in Nat
    BY SumsNat DEF TypeOK
  <2>5. /\ aTotal'[x] = IF x = d THEN aTotal[x] + treasuryScaled(x) ELSE aTotal[x]
        /\ accrued'[x] = IF x = d THEN 0 ELSE accrued[x]
    BY <1>2, <1>8 DEF updatedTotal, TypeOK
  <2>6. Deposits(x, 0)
    BY <2>3, <2>4, <2>5 DEF Deposits
  <2> HIDE DEF a, n
  <2> QED BY <1>3, <1>4, <1>5, <1>6, <1>7, <2>1, <2>6, MovesBalance
<1>9. CASE ~receiveAToken
  <2> DEFINE q == IF x = c THEN 0 - s ELSE 0
  <2>1. 0 - s \in Int /\ q \in Int
    BY <1>4
  <2>2. Deposits(x, q)
    BY <1>2, <1>9, <2>1, MoveDeposits
  <2>3. Stands(liquidityIndex[x], q, a)
    BY <1>5, <1>9
  <2> HIDE DEF a, n, q
  <2> QED BY <1>3, <1>4, <1>6, <1>7, <2>1, <2>2, <2>3, MovesBalance
<1> QED BY <1>8, <1>9
-----------------------------------------------------------------------------
(* The premium of a flash loan is shared by raising the liquidity index.     *)

LEMMA MulRounds ==
  ASSUME NEW a \in Nat, NEW b \in Nat
  PROVE  /\ rayMul(a, b) \in Nat /\ a * b \in Nat
         /\ RAY * rayMul(a, b) <= a * b + halfRAY
         /\ a * b < RAY * rayMul(a, b) + halfRAY
<1> DEFINE n == a * b + halfRAY
           q == rayMul(a, b)
<1>1. a * b \in Nat /\ q \in Nat /\ halfRAY \in Nat /\ RAY = 2 * halfRAY /\ RAY \in Nat \ {0}
  BY ProductNat, RayNat, HalfRay, RayAssumption
<1>2. n \in Int
  BY <1>1
<1>3. q = n \div RAY
  BY DEF rayMul
<1> HIDE DEF n, q
<1>4. RAY * q <= n /\ n < RAY * q + RAY
  BY <1>1, <1>2, <1>3, QuotientBounds
<1>5. n = a * b + halfRAY
  BY DEF n
<1> DEFINE m == RAY * q
           p == a * b
<1>6. m \in Nat
  BY <1>1, ProductNat
<1> HIDE DEF m, p
<1>7. m <= p + halfRAY /\ p < m + halfRAY
  <2>1. m <= n /\ n < m + RAY /\ n = p + halfRAY /\ p \in Nat
    BY <1>1, <1>4, <1>5 DEF m, p
  <2> QED BY <1>1, <1>6, <2>1
<1> QED BY <1>1, <1>7 DEF m, p, q

(* The arithmetic of cumulateToLiquidityIndex: what the index adds to the    *)
(* claims of A scaled units, worth T, is the premium up to roundings.        *)
LEMMA IndexRise ==
  ASSUME NEW q \in Nat, NEW L \in Nat, L >= RAY
  PROVE  /\ rayMul(q + RAY, L) \in Nat
         /\ rayMul(q + RAY, L) - L >= q
         /\ RAY * (rayMul(q + RAY, L) - L) <= q * L + halfRAY
<1> DEFINE N == rayMul(q + RAY, L)
<1>1. RAY \in Nat \ {0} /\ halfRAY \in Nat \ {0} /\ RAY = 2 * halfRAY /\ q + RAY \in Nat
  BY HalfRay, RayAssumption
<1>2. N \in Nat /\ RAY * N <= (q + RAY) * L + halfRAY /\ (q + RAY) * L < RAY * N + halfRAY
  BY <1>1, MulRounds
<1>3. (q + RAY) * L = q * L + RAY * L /\ q * L \in Nat /\ RAY * L \in Nat
  BY <1>1, ProductNat, Distributes DEF Distribute
<1>4. q * RAY <= q * L /\ q * RAY \in Nat
  BY <1>1, ProductMonotone
<1> HIDE DEF N
<1> DEFINE qL == q * L
           RL == RAY * L
           RN == RAY * N
           qR == q * RAY
<1>5. RN \in Nat
  BY <1>1, <1>2, ProductNat
<1>6. /\ RAY * (N - L) = RN - RL
      /\ RAY * (N - L - q) = RN - RL - qR
  BY <1>1, <1>2
<1>7. /\ RN <= qL + RL + halfRAY /\ qL + RL < RN + halfRAY /\ qR <= qL
      /\ qL \in Nat /\ RL \in Nat /\ qR \in Nat
  BY <1>2, <1>3, <1>4
<1> HIDE DEF qL, RL, RN, qR
<1>8. RAY * (N - L) <= qL + halfRAY
  BY <1>1, <1>5, <1>6, <1>7
<1>9. N - L - q >= 0
  <2> DEFINE k == N - L - q
  <2>1. k \in Int /\ RAY * k > 0 - RAY
    BY <1>1, <1>2, <1>5, <1>6, <1>7
  <2> HIDE DEF k
  <2>2. k >= 0
    <3> SUFFICES ASSUME k <= 0 - 1 PROVE FALSE
      BY <2>1
    <3>1. RAY * k <= RAY * (0 - 1)
      BY <1>1, <2>1
    <3> QED BY <1>1, <2>1, <3>1
  <2> QED BY <2>2 DEF k
<1> QED BY <1>2, <1>8, <1>9 DEF N, qL

LEMMA PremiumShared ==
  ASSUME NEW A \in Nat, NEW L \in Nat, L >= RAY, NEW p \in Nat, rayMul(A, L) # 0
  PROVE  LET T == rayMul(A, L)
             N == rayMul(rayDiv(p, T) + RAY, L)
         IN N \in Nat /\ N >= L /\ 2 * (A * (N - L)) <= 2 * (RAY * p) + T + A + (N - L)
<1> DEFINE T == rayMul(A, L)
           q == rayDiv(p, T)
           N == rayMul(q + RAY, L)
           D == N - L
<1>1. RAY \in Nat \ {0} /\ halfRAY \in Nat \ {0} /\ RAY = 2 * halfRAY
  BY HalfRay, RayAssumption
<1>2. T \in Nat \ {0} /\ A * L \in Nat /\ A * L < RAY * T + halfRAY
  BY MulRounds
<1> HIDE DEF T
<1>3. /\ q \in Nat /\ q * T \in Nat /\ RAY * p \in Nat /\ T \div 2 \in Nat
      /\ q * T <= RAY * p + (T \div 2) /\ 2 * (T \div 2) <= T
  BY <1>2, ScaledWorth
<1> HIDE DEF q
<1>4. N \in Nat /\ N - L >= q /\ RAY * (N - L) <= q * L + halfRAY
  BY <1>3, IndexRise
<1>5. N >= L /\ D \in Nat /\ D >= q /\ RAY * D <= q * L + halfRAY
  BY <1>3, <1>4
<1> HIDE DEF N, D
<1>6. A * (RAY * D) <= A * (q * L + halfRAY)
  BY <1>1, <1>3, <1>5, ProductNat, ProductMonotone
<1>7. q * (A * L) <= q * (RAY * T + halfRAY)
  <2>1. RAY * T + halfRAY \in Nat
    BY <1>1, <1>2, ProductNat
  <2> QED BY <1>2, <1>3, <2>1, ProductMonotone
<1> DEFINE AD == A * D
           qT == q * T
<1>8. AD \in Nat /\ qT \in Nat
  BY <1>3, <1>5, ProductNat
<1>9. /\ A * (RAY * D) = halfRAY * (2 * AD)
      /\ A * (q * L + halfRAY) = q * (A * L) + halfRAY * A
      /\ q * (RAY * T + halfRAY) = halfRAY * (2 * qT + q)
  BY <1>1, <1>2, <1>3, <1>5
<1> HIDE DEF AD, qT
<1>10. halfRAY * (2 * AD) <= halfRAY * (2 * qT + q) + halfRAY * A
  <2> DEFINE x == q * (A * L)
             y == halfRAY * (2 * qT + q)
             z == halfRAY * A
             w == halfRAY * (2 * AD)
  <2>1. x \in Int /\ y \in Int /\ z \in Int /\ w \in Int
    BY <1>1, <1>2, <1>3, <1>8
  <2>2. w <= x + z /\ x <= y
    BY <1>6, <1>7, <1>9
  <2> HIDE DEF x, y, z, w
  <2>3. w <= y + z
    BY <2>1, <2>2
  <2> QED BY <2>3 DEF w, y, z
<1>11. 2 * AD <= 2 * qT + q + A
  <2> DEFINE x == 2 * AD
             y == 2 * qT + q + A
  <2>1. x \in Int /\ y \in Int
    BY <1>3, <1>8
  <2>2. halfRAY * (2 * qT + q) + halfRAY * A = halfRAY * y
    BY <1>1, <1>3, <1>8
  <2>3. halfRAY * x <= halfRAY * y
    BY <1>10, <2>2
  <2> HIDE DEF x, y
  <2>4. x <= y
    <3> SUFFICES ASSUME x >= y + 1 PROVE FALSE
      BY <2>1
    <3>1. x - y \in Nat \ {0} /\ halfRAY * (x - y) = halfRAY * x - halfRAY * y
      BY <1>1, <2>1
    <3>2. halfRAY * (x - y) > 0
      BY <1>1, <3>1
    <3>3. halfRAY * x \in Int /\ halfRAY * y \in Int
      BY <1>1, <2>1
    <3> QED BY <2>3, <3>1, <3>2, <3>3
  <2> QED BY <2>4 DEF x, y
<1>12. 2 * AD <= 2 * (RAY * p) + T + A + D
  <2>1. qT <= RAY * p + (T \div 2)
    BY <1>3 DEF qT
  <2> DEFINE rp == RAY * p
             t == T \div 2
  <2>2. rp \in Nat /\ t \in Nat /\ qT <= rp + t /\ 2 * t <= T
    BY <1>3, <2>1
  <2> HIDE DEF rp, t
  <2>3. 2 * AD <= 2 * rp + T + A + D
    BY <1>2, <1>3, <1>5, <1>8, <1>11, <2>2
  <2> QED BY <2>3 DEF rp
<1> QED BY <1>4, <1>5, <1>12 DEF T, q, N, D, AD

(* Every scaled unit in the total supply of an aToken belongs to an account. *)
SupplyIsHeld == \A r \in Reserves : aTotal[r] = supplied(r)

LEMMA FlashLoanRepayMoves ==
  ASSUME TypeOK, FlashLoanRepay, NEW x \in Reserves
  PROVE  /\ Deposits(x, 0) /\ lent(x)' = lent(x)
         /\ variableBorrowIndex'[x] = variableBorrowIndex[x]
         /\ money(x)' = money(x) + IF x = loan.asset THEN premium(loan.amount) ELSE 0
<1>1. loan # NoLoan /\ loan.amount \in Nat /\ premium(loan.amount) \in Nat
  BY PremiumNat DEF FlashLoanRepay, TypeOK
<1>2. /\ UpdateState({loan.asset})
      /\ Receive(loan.asset, loan.amount + premium(loan.amount))
      /\ loan' = NoLoan
      /\ vScaled' = vScaled /\ stable' = stable /\ variableBorrowIndex' = variableBorrowIndex
  BY DEF FlashLoanRepay, debtVars
<1>3. Deposits(x, 0)
  BY <1>2, UpdateStateDeposits
<1>4. SumFunction(stable[x]) \in Nat /\ liquidity \in [Reserves -> Nat]
  BY SumsNat DEF TypeOK
<1>5. /\ money(x) = liquidity[x] + SumFunction(stable[x])
                      + IF x = loan.asset THEN loan.amount ELSE 0
      /\ liquidity[x] \in Nat
  BY <1>1, <1>4 DEF money, cash
<1>6. money(x)' = liquidity'[x] + SumFunction(stable[x])
  <2>1. liquidity'[x] \in Int
    BY <1>1, <1>2, <1>4 DEF Receive
  <2> QED BY <1>2, <1>4, <2>1 DEF money, cash
<1>7. liquidity'[x]
        = liquidity[x] + IF x = loan.asset THEN loan.amount + premium(loan.amount) ELSE 0
  BY <1>1, <1>2, <1>4 DEF Receive
<1> QED BY <1>1, <1>2, <1>3, <1>4, <1>5, <1>6, <1>7 DEF lent

(* The other reserves only see their deposits, debts and money unchanged.    *)
LEMMA FlashLoanRepayElsewhere ==
  ASSUME TypeOK, FlashLoanRepay, NEW x \in Reserves, x # loan.asset
  PROVE  Balanced(x)
<1>1. /\ Deposits(x, 0) /\ lent(x)' = lent(x) /\ money(x)' = money(x) + 0
      /\ variableBorrowIndex'[x] = variableBorrowIndex[x]
  BY FlashLoanRepayMoves
<1>2. lent(x)' = lent(x) + 0 /\ 0 - 0 = 0
  BY <1>1, SumsNat
<1>3. liquidityIndex'[x] = liquidityIndex[x]
  BY DEF FlashLoanRepay, TypeOK
<1>4. Moves(x, 0, 0, 0 - 0)
  BY <1>1, <1>2, <1>3 DEF Moves
<1>5. Stands(liquidityIndex[x], 0, 0) /\ Stands(variableBorrowIndex[x], 0, 0)
  BY IndexNat, Standing
<1> QED BY <1>4, <1>5 DEF Balanced

LEMMA FlashLoanRepayKept ==
  ASSUME TypeOK, TypeOK', SupplyIsHeld', FlashLoanRepay, NEW r \in Reserves, r = loan.asset
  PROVE  KeepsBacked(r)
<1> DEFINE L == liquidityIndex[r]
           V == variableBorrowIndex[r]
           A == aTotal'[r]
           T == rayMul(A, L)
           p == premium(loan.amount)
           N == rayMul(rayDiv(p, T) + RAY, L)
           D == N - L
           AD == A * D
           Rp == RAY * p
           share == RAY * treasuryShare(r)'
           AL == A * L
<1>1. /\ L \in Nat /\ L >= RAY /\ V \in Nat /\ V >= 1 /\ A \in Nat /\ RAY \in Nat \ {0}
  BY RayAssumption DEF TypeOK
<1>2. p \in Nat
  BY PremiumNat DEF FlashLoanRepay, TypeOK
<1>3. A = updatedTotal({r})[r] /\ T # 0 /\ liquidityIndex'[r] = N
  BY DEF FlashLoanRepay, UpdateState, cumulatedIndex, TypeOK
<1>4. N \in Nat /\ N >= L /\ 2 * AD <= 2 * Rp + T + A + D
  BY <1>1, <1>2, <1>3, PremiumShared
<1>5. /\ Deposits(r, 0) /\ lent(r)' = lent(r) + 0 /\ money(r)' = money(r) + p
      /\ variableBorrowIndex'[r] = variableBorrowIndex[r]
  BY FlashLoanRepayMoves, SumsNat
<1>6. backing(r)' = backing(r) + Rp
  <2>1. backing(r)' = backing(r) + Rp + 0 * V
    BY <1>2, <1>5, BackingAfter
  <2>2. backing(r) \in Int /\ Rp \in Int /\ 0 * V = 0
    BY <1>1, <1>2, ClaimsBacking
  <2> QED BY <2>1, <2>2
<1>7. AL + share <= claims(r) + (L \div 2)
  <2>1. supplied(r)' = A
    BY DEF SupplyIsHeld
  <2>2. supplied(r)' * L + share <= claims(r) + 0 * L + (L \div 2)
    BY <1>5, ClaimsAfter
  <2>3. claims(r) \in Int /\ 0 * L = 0
    BY <1>1, ClaimsBacking
  <2> QED BY <2>1, <2>2, <2>3
<1>8. claims(r)' = AL + AD + share
  <2>1. claims(r)' = supplied(r)' * N + share
    BY <1>3 DEF claims, supplied
  <2>2. supplied(r)' = A
    BY DEF SupplyIsHeld
  <2> HIDE DEF N, A
  <2>3. A * N = AL + AD
    BY <1>1, <1>4
  <2> QED BY <2>1, <2>2, <2>3
<1>9. /\ claims(r) \in Int /\ backing(r) \in Int /\ claims(r)' \in Int /\ backing(r)' \in Int
  BY ClaimsInt DEF ClaimsTyped
<1>10. AL \in Nat /\ share \in Int /\ AD \in Int /\ Rp \in Nat /\ T \in Nat
  <2>1. AL \in Nat /\ Rp \in Nat /\ T \in Nat
    BY <1>1, <1>2, ProductNat, RayNat
  <2>2. AD \in Int
    <3> HIDE DEF N, A
    <3> QED BY <1>1, <1>4
  <2>3. share \in Int
    <3>1. treasuryShare(r)' \in Nat
      BY ClaimsInt DEF ClaimsTyped
    <3> QED BY <1>1, <3>1
  <2> QED BY <2>1, <2>2, <2>3
<1>11. rounding(r) = N + ((V + 1) \div 2)
  BY <1>3 DEF rounding
<1>12. shared(r) = IF N # L THEN (A + T) \div 2 ELSE 0
  BY <1>3 DEF shared
<1> HIDE DEF AD, Rp, share, AL, T, A, N, V
<1>13. /\ L \div 2 \in Int /\ 2 * (L \div 2) <= L /\ (V + 1) \div 2 >= 1 /\ (V + 1) \div 2 \in Int
       /\ (A + T) \div 2 \in Int /\ 2 * ((A + T) \div 2) + 1 >= A + T
  BY <1>1, <1>10
<1> HIDE DEF L
<1>14. CASE N = L
  <2>1. AD = 0
    BY <1>1, <1>4, <1>14 DEF AD
  <2> QED BY <1>1, <1>4, <1>6, <1>7, <1>8, <1>9, <1>10, <1>11, <1>12, <1>13, <1>14, <2>1
         DEF KeepsBacked
<1>15. CASE N # L
  BY <1>1, <1>4, <1>6, <1>7, <1>8, <1>9, <1>10, <1>11, <1>12, <1>13, <1>15
     DEF KeepsBacked
<1> QED BY <1>14, <1>15

-----------------------------------------------------------------------------
(* The theorems.                                                             *)

(* Every call but the repayment of a flash loan.                             *)
LEMMA StepBalanced ==
  ASSUME TypeOK, Next, ~EnvironmentStep, ~FlashLoanRepay, NEW x \in Reserves
  PROVE  Balanced(x)
<1>1. ASSUME NEW u \in Users, UserStep(u) PROVE Balanced(x)
  <2>1. PICK r \in Reserves :
          \/ \E amount \in Amounts :
               \/ Deposit(u, r, amount)
               \/ \E mode \in Modes : Borrow(u, r, amount, mode)
               \/ \E to \in Users : Transfer(u, to, r, amount)
          \/ \E amount \in Amounts \cup {UintMax} :
               \/ Withdraw(u, r, amount)
               \/ \E mode \in Modes, self \in BOOLEAN : Repay(u, r, amount, mode, self)
          \/ \E amount \in FlashAmounts : FlashLoan(u, r, amount)
          \/ \E mode \in Modes : SwapBorrowRateMode(u, r, mode)
          \/ RebalanceStableBorrowRate(u, r)
          \/ \E use \in BOOLEAN : SetUserUseReserveAsCollateral(u, r, use)
    BY <1>1 DEF UserStep
  <2> QED BY <2>1, DepositBalanced, BorrowBalanced, TransferBalanced, WithdrawBalanced,
             RepayBalanced, FlashLoanBalanced, SwapBalanced, RebalanceBalanced,
             SetUseBalanced
<1>2. ASSUME LiquidationStep PROVE Balanced(x)
  BY <1>2, LiquidationBalanced DEF LiquidationStep
<1>3. ASSUME FlashLoanSettles PROVE Balanced(x)
  BY <1>3, FlashLoanBorrowBalanced DEF FlashLoanSettles
<1> QED BY <1>1, <1>2, <1>3 DEF Next

(* Every step moves the supply of an aToken with what the accounts hold.     *)
LEMMA NextHeld == TypeOK /\ SupplyIsHeld /\ [Next]_vars => SupplyIsHeld'
<1> SUFFICES ASSUME TypeOK, SupplyIsHeld, [Next]_vars, NEW r \in Reserves
             PROVE  aTotal'[r] = supplied(r)'
  BY DEF SupplyIsHeld
<1>1. /\ aTotal[r] = supplied(r) /\ aTotal[r] \in Nat /\ supplied(r) \in Nat
      /\ treasuryScaled(r) \in Nat
  BY SumsNat DEF SupplyIsHeld, TypeOK
<1>2. ASSUME NEW d \in Int, Deposits(r, d) PROVE aTotal'[r] = supplied(r)'
  BY <1>1, <1>2 DEF Deposits
<1>3. CASE UNCHANGED vars
  BY <1>1, <1>3 DEF vars, aTokenVars, supplied
<1>4. CASE EnvironmentStep
  <2>1. UNCHANGED aTokenVars
    BY <1>4 DEF EnvironmentStep, Accrue, SetPrice, SetFreeze, SetPause
  <2> QED BY <1>1, <2>1 DEF aTokenVars, supplied
<1>5. CASE FlashLoanRepay
  BY <1>2, <1>5, FlashLoanRepayMoves
<1>6. CASE Next /\ ~EnvironmentStep /\ ~FlashLoanRepay
  <2>1. PICK d \in Int : Deposits(r, d)
    BY <1>6, StepBalanced DEF Balanced, Moves
  <2> QED BY <1>2, <2>1
<1> QED BY <1>3, <1>4, <1>5, <1>6

LEMMA InitHeld == Init => SupplyIsHeld
<1> SUFFICES ASSUME Init, NEW r \in Reserves PROVE aTotal[r] = supplied(r)
  BY DEF SupplyIsHeld
<1>1. aScaled[r] = [u \in Accounts |-> 0] /\ aTotal[r] = 0
  BY DEF Init, noBalance
<1> QED BY <1>1, AccountsFinite, SumZero DEF supplied

(* Every scaled aToken counted by totalSupply is held by some account, the   *)
(* treasury included, whatever was minted, burnt, moved or seized.           *)
THEOREM SupplyHeld == Spec => []SupplyIsHeld
<1>1. TypeOK /\ SupplyIsHeld /\ [Next]_vars => (TypeOK /\ SupplyIsHeld)'
  BY NextTypes, NextHeld
<1> QED BY <1>1, InitTypes, InitHeld, PTL DEF Spec

LEMMA NextKept ==
  TypeOK /\ TypeOK' /\ SupplyIsHeld' /\ [Next]_vars
    => [\A r \in Reserves : KeepsBacked(r) \/ EnvironmentStep]_vars
<1> SUFFICES ASSUME TypeOK, TypeOK', SupplyIsHeld', Next, ~EnvironmentStep, NEW r \in Reserves
             PROVE  KeepsBacked(r)
  OBVIOUS
<1>1. CASE FlashLoanRepay /\ r = loan.asset
  BY <1>1, FlashLoanRepayKept
<1>2. CASE ~(FlashLoanRepay /\ r = loan.asset)
  <2>1. Balanced(r)
    BY <1>2, StepBalanced, FlashLoanRepayElsewhere
  <2>2. RoundsOnly(r)
    BY <2>1, BalancedKept
  <2>3. liquidityIndex'[r] = liquidityIndex[r] /\ liquidityIndex[r] \in Nat
        /\ variableBorrowIndex[r] \in Nat
    BY <2>1 DEF Balanced, Moves, TypeOK
  <2>4. shared(r) = 0 /\ rounding(r) \in Int
    BY <2>3 DEF shared, rounding
  <2>5. claims(r) \in Int /\ backing(r) \in Int
    BY ClaimsInt DEF ClaimsTyped
  <2> QED BY <2>2, <2>4, <2>5 DEF RoundsOnly, KeepsBacked
<1> QED BY <1>1, <1>2

(* No call of the pool makes suppliers owed more than it adds to what backs  *)
(* them, beyond the roundings the property names: over any users, reserves,  *)
(* percentages, prices and indexes.                                          *)
THEOREM ReservesStayBacked == Spec => BackingKept
  BY NextKept, TypeCorrect, SupplyHeld, PTL DEF BackingKept, Spec

-----------------------------------------------------------------------------
(* The margin.  Who passes the health check has its debt covered exactly,  *)
(* but for a slack (HealthCovers); what the pool then grants is covered    *)
(* too (DecreaseCovered, BorrowCovered); and a step moves the two sums,    *)
(* collateral and debt, by what it moves one entry of them.                *)

(* An account that passes the health check covers its debt, but for half a   *)
(* unit of the product with the threshold and of the health factor.          *)
LEMMA HealthCovers ==
  ASSUME NEW c \in Nat, NEW t \in Int, NEW d \in Nat, NEW w \in Int,
         c * t <= w, d # 0, HealthFactorOk(c, d, t)
  PROVE  PERCENTAGE_FACTOR * d <= w + PERCENTAGE_FACTOR * (1 + (d \div (2 * WAD)))
<1> DEFINE P == PERCENTAGE_FACTOR
           n == c * t + (P \div 2)
           x == n \div P
           m == x * WAD + (d \div 2)
           q == d \div (2 * WAD)
<1>1. P \in Nat \ {0} /\ WAD \in Nat \ {0} /\ 2 * WAD \in Nat \ {0} /\ c * t \in Int
  BY PercentageAssumption, WadAssumption
<1>2. x \in Int /\ P * x <= n /\ n \in Int
  <2>1. n \in Int
    BY <1>1
  <2> HIDE DEF P, n
  <2> QED BY <1>1, <2>1, QuotientBounds
<1>3. m \div d >= WAD
  BY DEF HealthFactorOk, wadDiv, percentMul, HEALTH_FACTOR_LIQUIDATION_THRESHOLD
<1>4. d * WAD <= x * WAD + (d \div 2)
  <2>1. m \in Int
    <3> HIDE DEF x
    <3> QED BY <1>1, <1>2
  <2>2. d * (m \div d) <= m /\ m \div d \in Int
    <3> HIDE DEF m
    <3> QED BY <2>1, QuotientBounds
  <2>3. d * WAD <= d * (m \div d)
    <3> DEFINE k == m \div d
    <3> HIDE DEF m, k
    <3>1. k \in Int /\ k >= WAD
      BY <1>3, <2>2 DEF k
    <3>2. k \in Nat
      BY <1>1, <3>1
    <3>3. d * WAD <= d * k
      BY <1>1, <3>1, <3>2, ProductMonotone
    <3> QED BY <3>3 DEF k
  <2>4. d * (m \div d) \in Int /\ d * WAD \in Int
    BY <1>1, <2>2
  <2>5. d * WAD <= m
    <3> HIDE DEF m
    <3> QED BY <2>1, <2>2, <2>3, <2>4
  <2> QED BY <2>5
<1>5. q \in Nat /\ d < (2 * WAD) * q + 2 * WAD
  <2>1. q \in Int /\ d < (2 * WAD) * q + 2 * WAD
    BY <1>1, QuotientBounds
  <2>2. q \in Nat
    BY <1>1
  <2> QED BY <2>1, <2>2
<1>6. d - x <= q
  <2> HIDE DEF x, q
  <2>1. d \div 2 <= WAD * q + WAD /\ WAD * q \in Int
    BY <1>1, <1>5
  <2>2. (d \div 2) < WAD * (q + 1)
    <3>1. 2 * (d \div 2) <= d
      OBVIOUS
    <3>2. (2 * WAD) * q + 2 * WAD = 2 * (WAD * (q + 1)) /\ WAD * (q + 1) \in Int
      BY <1>1, <1>5
    <3> QED BY <1>5, <3>1, <3>2
  <2>3. (d - x) * WAD <= d \div 2
    <3>1. (d - x) * WAD = d * WAD - x * WAD /\ d * WAD \in Int /\ x * WAD \in Int
      BY <1>1, <1>2
    <3> QED BY <1>4, <3>1
  <2>4. (d - x) * WAD < (q + 1) * WAD
    <3>1. WAD * (q + 1) = (q + 1) * WAD /\ WAD * (q + 1) \in Int /\ (d - x) * WAD \in Int
      BY <1>1, <1>2, <1>5
    <3> QED BY <2>2, <2>3, <3>1
  <2>5. \A a, b \in Int : a * WAD < b * WAD => a < b
    BY <1>1
  <2>6. d - x < q + 1
    BY <1>2, <1>5, <2>4, <2>5
  <2> QED BY <1>2, <1>5, <2>6
<1>7. P * d <= P * x + P * q
  <2> HIDE DEF P, x, q
  <2>1. d <= x + q
    BY <1>2, <1>5, <1>6
  <2>2. x + q \in Nat
    BY <1>2, <1>5, <2>1
  <2>3. P * d <= P * (x + q)
    BY <1>1, <2>1, <2>2, ProductMonotone
  <2>4. P * (x + q) = P * x + P * q
    BY <1>1, <1>2, <1>5
  <2> QED BY <2>3, <2>4
<1>8. P * (1 + q) = P + P * q /\ P * q \in Int /\ P * x \in Int /\ P * d \in Int
  <2> HIDE DEF P, x, q
  <2> QED BY <1>1, <1>2, <1>5
<1>9. n <= w + P
  <2> DEFINE z == c * t
  <2>1. z \in Int /\ z <= w /\ n = z + (P \div 2)
    BY <1>1
  <2> HIDE DEF n, P, z
  <2> QED BY <1>1, <2>1
<1>10. P * d <= w + P * (1 + q)
  <2> DEFINE A == P * d
             B == P * x
             C == P * q
             E == P * (1 + q)
  <2>1. A \in Int /\ B \in Int /\ C \in Int /\ E = P + C /\ A <= B + C /\ B <= n /\ n <= w + P
        /\ n \in Int /\ P \in Int
    BY <1>1, <1>2, <1>7, <1>8, <1>9
  <2> HIDE DEF A, B, C, E, n, P, x, q
  <2>2. A <= w + E
    BY <2>1
  <2> QED BY <2>2 DEF A, E
<1> QED BY <1>10

(* A mint of an amount raises a balance by it, but for half a scaled unit.   *)
LEMMA MintRise ==
  ASSUME NEW v \in Nat, NEW a \in Nat, NEW i \in Nat, i >= RAY
  PROVE  /\ halfUnit(i) \in Nat
         /\ rayMul(v + rayDiv(a, i), i) <= rayMul(v, i) + a + halfUnit(i)
<1> DEFINE s == rayDiv(a, i)
           h == halfUnit(i)
<1>1. i \in Nat \ {0} /\ RAY \in Nat \ {0} /\ 2 * RAY \in Nat \ {0}
  BY RayAssumption
<1>2. /\ s \in Nat /\ s * i \in Nat /\ RAY * a \in Nat
      /\ s * i <= RAY * a + (i \div 2) /\ i \div 2 \in Nat /\ 2 * (i \div 2) <= i
  BY <1>1, ScaledWorth
<1>3. h \in Nat /\ (i # RAY => i \div 2 <= RAY * h)
  <2> DEFINE k == i \div (2 * RAY)
  <2>1. k \in Nat /\ i < (2 * RAY) * k + 2 * RAY
    <3>1. k \in Int /\ i < (2 * RAY) * k + 2 * RAY
      BY <1>1, QuotientBounds
    <3>2. k \in Nat
      BY <1>1
    <3> QED BY <3>1, <3>2
  <2>2. h = IF i = RAY THEN 0 ELSE 1 + k
    BY DEF halfUnit
  <2> HIDE DEF k, h
  <2>3. (2 * RAY) * k + 2 * RAY = 2 * (RAY * (1 + k)) /\ RAY * (1 + k) \in Int
    BY <1>1, <2>1
  <2>4. i # RAY => i \div 2 <= RAY * h
    BY <1>2, <2>1, <2>2, <2>3
  <2> QED BY <2>1, <2>2, <2>4
<1>4. s * i <= RAY * (a + h)
  <2>1. RAY * (a + h) = RAY * a + RAY * h /\ RAY * h \in Nat /\ RAY * a \in Nat
    <3> HIDE DEF h
    <3> QED BY <1>1, <1>3, ProductNat
  <2>2. CASE i # RAY
    <3> DEFINE A == s * i
               B == RAY * a
               C == RAY * h
    <3>1. A <= B + (i \div 2) /\ i \div 2 <= C /\ A \in Nat /\ B \in Nat /\ C \in Nat
      BY <1>2, <1>3, <2>1, <2>2
    <3> HIDE DEF A, B, C
    <3>2. A <= B + C
      BY <1>2, <3>1
    <3> QED BY <2>1, <3>2 DEF A, B, C
  <2>3. CASE i = RAY
    <3>1. s = a
      <4>1. rayMul(a, i) = a
        <5>1. a * RAY \in Nat /\ RAY * a = a * RAY
          BY <1>1, ProductNat
        <5>2. (a * RAY + halfRAY) \div RAY = a
          <6> DEFINE n == a * RAY + halfRAY
          <6>1. n \in Int /\ RAY * a <= n /\ n < RAY * a + RAY
            BY <5>1, HalfRay, <1>1
          <6> HIDE DEF n
          <6>2. n \div RAY = a
            BY <1>1, <6>1, QuotientUnique
          <6> QED BY <6>2 DEF n
        <5> QED BY <2>3, <5>2 DEF rayMul
      <4>2. rayDiv(rayMul(a, i), i) = a
        BY RoundTrip
      <4> QED BY <4>1, <4>2
    <3>2. s * i = RAY * a
      <4> HIDE DEF s
      <4> QED BY <1>1, <2>3, <3>1
    <3> DEFINE A == s * i
               B == RAY * a
               C == RAY * h
    <3>3. A = B /\ B \in Nat /\ C \in Nat
      BY <2>1, <3>2
    <3> HIDE DEF A, B, C
    <3>4. A <= B + C
      BY <3>3
    <3> QED BY <2>1, <3>4 DEF A, B, C
  <2> QED BY <2>2, <2>3
<1>5. (v + s) * i = v * i + s * i /\ v * i \in Nat /\ (v + s) * i \in Nat
  <2> HIDE DEF s
  <2> QED BY <1>2, ProductNat
<1> DEFINE p == v * i
           b == rayMul(v, i)
           k == a + h
           e == rayMul(v + s, i)
<1>6. b \in Nat /\ p + halfRAY < RAY * b + RAY /\ p + halfRAY \in Int
  <2> DEFINE n == p + halfRAY
  <2>1. n \in Int /\ b = n \div RAY
    BY <1>5, HalfRay DEF rayMul
  <2>2. b \in Nat
    BY RayNat
  <2> HIDE DEF n, b, p
  <2>3. n < RAY * b + RAY
    BY <1>1, <2>1, QuotientBounds
  <2> QED BY <2>1, <2>2, <2>3 DEF n
<1>7. e \in Nat /\ RAY * e <= p + s * i + halfRAY
  <2> DEFINE n == (v + s) * i + halfRAY
  <2>1. n \in Int /\ e = n \div RAY /\ v + s \in Nat
    BY <1>2, <1>5, HalfRay DEF rayMul
  <2>2. e \in Nat
    <3> HIDE DEF s
    <3> QED BY <2>1, RayNat
  <2> HIDE DEF n, e
  <2>3. RAY * e <= n
    BY <1>1, <2>1, QuotientBounds
  <2> QED BY <1>5, <2>2, <2>3 DEF n
<1>8. RAY * e < RAY * (b + k + 1)
  <2>1. RAY * (b + k + 1) = RAY * b + RAY * k + RAY /\ k \in Nat
    <3>1. k \in Nat
      BY <1>3
    <3> HIDE DEF b, k
    <3> QED BY <1>1, <1>6, <3>1
  <2> DEFINE A == RAY * e
             B == RAY * b
             C == RAY * k
             S == s * i
  <2>2. /\ A \in Int /\ B \in Int /\ C \in Int /\ S \in Int /\ p \in Int /\ halfRAY \in Int
        /\ S <= C /\ p + halfRAY < B + RAY /\ A <= p + S + halfRAY /\ RAY \in Int
    <3>1. A \in Int /\ B \in Int /\ C \in Int
      <4> HIDE DEF e, b, k
      <4> QED BY <1>1, <1>6, <1>7, <2>1
    <3> QED BY <1>1, <1>2, <1>4, <1>5, <1>6, <1>7, HalfRay, <3>1
  <2> HIDE DEF A, B, C, S, p
  <2>3. A < B + C + RAY
    BY <2>2
  <2> QED BY <2>1, <2>3 DEF A, B, C
<1>9. e <= b + k
  <2>1. k \in Nat
    BY <1>3
  <2> HIDE DEF e, b, k
  <2>2. \A x, y \in Int : RAY * x < RAY * y => x < y
    BY <1>1
  <2>3. e < b + k + 1
    BY <1>6, <1>7, <1>8, <2>1, <2>2
  <2> QED BY <1>6, <1>7, <2>1, <2>3
<1>10. e <= b + a + h
  <2> HIDE DEF e, b, h
  <2> QED BY <1>3, <1>6, <1>7, <1>9
<1> QED BY <1>3, <1>10

(* The values that the account data of u add up are naturals.              *)
LEMMA LedgerValues ==
  ASSUME TypeOK, NEW ledger \in Ledger, NEW u \in Users
  PROVE  /\ \A r \in Reserves : CollateralValue(ledger, u, r) \in Nat /\ DebtValue(u, r) \in Nat
         /\ totalCollateralInETH(ledger, u) \in Nat /\ totalDebtInETH(u) \in Nat
<1>1. ASSUME NEW r \in Reserves
      PROVE  CollateralValue(ledger, u, r) \in Nat /\ DebtValue(u, r) \in Nat
  <2>1. /\ price[r] \in Nat /\ currentDebt(u, r) \in Nat /\ liquidityIndex[r] \in Nat
        /\ ledger[r][u] \in Nat
    <3>1. currentDebt(u, r) \in Nat
      BY BalancesNat
    <3>2. price[r] \in Nat /\ liquidityIndex[r] \in Nat
      BY DEF TypeOK
    <3>3. ledger[r][u] \in Nat
      BY DEF Accounts, Ledger
    <3> QED BY <3>1, <3>2, <3>3
  <2>2. /\ price[r] * currentDebt(u, r) \in Nat
        /\ price[r] * rayMul(ledger[r][u], liquidityIndex[r]) \in Nat
    BY <2>1, RayNat, ProductNat
  <2> QED BY <2>2 DEF CollateralValue, DebtValue
<1>2. /\ [r \in Reserves |-> CollateralValue(ledger, u, r)] \in [Reserves -> Nat]
      /\ [r \in Reserves |-> DebtValue(u, r)] \in [Reserves -> Nat]
  BY <1>1
<1>3. \A f \in [Reserves -> Nat] : SumFunction(f) \in Nat
  BY ReservesAssumption, SumType
<1> QED BY <1>1, <1>2, <1>3 DEF totalCollateralInETH, totalDebtInETH

(* The average is at most what it averages, and no percentage exceeds 100%. *)
LEMMA Averages ==
  ASSUME TypeOK, NEW ledger \in Ledger, NEW u \in Users,
         NEW p \in [Reserves -> 0..PERCENTAGE_FACTOR]
  PROVE  /\ Weighted(p, ledger, u) \in Nat /\ WeightedAverage(p, ledger, u) \in Nat
         /\ totalCollateralInETH(ledger, u) * WeightedAverage(p, ledger, u)
              <= Weighted(p, ledger, u)
         /\ WeightedAverage(p, ledger, u) <= PERCENTAGE_FACTOR
<1> DEFINE f == [r \in Reserves |-> CollateralValue(ledger, u, r)]
           g == [r \in Reserves |-> CollateralValue(ledger, u, r) * p[r]]
           h == [r \in Reserves |-> PERCENTAGE_FACTOR * CollateralValue(ledger, u, r)]
           c == totalCollateralInETH(ledger, u)
           w == Weighted(p, ledger, u)
           a == WeightedAverage(p, ledger, u)
<1>1. ASSUME NEW r \in Reserves
      PROVE  /\ CollateralValue(ledger, u, r) \in Nat
             /\ CollateralValue(ledger, u, r) * p[r] \in Nat
             /\ PERCENTAGE_FACTOR * CollateralValue(ledger, u, r) \in Nat
             /\ CollateralValue(ledger, u, r) * p[r]
                  <= PERCENTAGE_FACTOR * CollateralValue(ledger, u, r)
  <2> DEFINE x == CollateralValue(ledger, u, r)
  <2>1. x \in Nat
    BY LedgerValues
  <2>2. p[r] \in Nat /\ PERCENTAGE_FACTOR \in Nat /\ p[r] <= PERCENTAGE_FACTOR
    BY PercentageAssumption
  <2> HIDE DEF x
  <2>3. x * p[r] <= x * PERCENTAGE_FACTOR /\ x * p[r] \in Nat /\ x * PERCENTAGE_FACTOR \in Nat
    BY <2>1, <2>2, ProductMonotone
  <2>4. x * PERCENTAGE_FACTOR = PERCENTAGE_FACTOR * x
    BY <2>1, <2>2
  <2> QED BY <2>1, <2>3, <2>4 DEF x
<1>2. f \in [Reserves -> Nat] /\ g \in [Reserves -> Nat] /\ h \in [Reserves -> Nat]
  BY <1>1
<1>3. \A x \in Reserves : h[x] = PERCENTAGE_FACTOR * f[x] /\ g[x] <= h[x]
  BY <1>1
<1>4. c = SumFunction(f) /\ w = SumFunction(g)
  BY DEF totalCollateralInETH, Weighted
<1>5. c \in Nat /\ w \in Nat
  <2> HIDE DEF f, g
  <2> QED BY <1>2, <1>4, ReservesAssumption, SumType
<1>6. w <= PERCENTAGE_FACTOR * c
  <2>1. SumFunction(h) = PERCENTAGE_FACTOR * SumFunction(f)
    <3> HIDE DEF f, g, h
    <3>1. f \in [Reserves -> Int] /\ h \in [Reserves -> Int] /\ PERCENTAGE_FACTOR \in Int
      BY <1>2, PercentageAssumption
    <3> QED BY <1>3, <3>1, ReservesAssumption, SumScale
  <2>2. SumFunction(g) <= SumFunction(h)
    <3> HIDE DEF f, g, h
    <3> QED BY <1>2, <1>3, ReservesAssumption, SumMonotone
  <2> HIDE DEF f, g, h, c, w
  <2> QED BY <1>4, <2>1, <2>2
<1>7. a = IF c > 0 THEN w \div c ELSE 0
  BY DEF WeightedAverage
<1> HIDE DEF f, g, h, c, w, a
<1>8. CASE c > 0
  <2>1. c \in Nat \ {0} /\ a = w \div c
    BY <1>5, <1>7, <1>8
  <2>2. a \in Int /\ c * a <= w
    BY <1>5, <2>1, QuotientBounds
  <2>3. a \in Nat
    BY <1>5, <2>1
  <2>4. a <= PERCENTAGE_FACTOR
    <3>1. PERCENTAGE_FACTOR \in Nat
      BY PercentageAssumption
    <3>2. c * a <= c * PERCENTAGE_FACTOR
      <4>1. c * PERCENTAGE_FACTOR = PERCENTAGE_FACTOR * c /\ c * a \in Int
            /\ c * PERCENTAGE_FACTOR \in Int
        BY <1>5, <2>3, <3>1
      <4> QED BY <1>5, <1>6, <2>2, <4>1
    <3>3. \A x, y \in Int : c * x <= c * y => x <= y
      BY <2>1
    <3> QED BY <2>3, <3>1, <3>2, <3>3
  <2> QED BY <1>5, <2>2, <2>3, <2>4 DEF a, c, w
<1>9. CASE c = 0
  <2>1. a = 0
    BY <1>7, <1>9
  <2>2. c * a = 0
    BY <1>9, <2>1
  <2> QED BY <1>5, <2>1, <2>2, PercentageAssumption DEF a, c, w
<1> QED BY <1>5, <1>8, <1>9

(* What the health check may let slip, and what Dust allows beyond it.     *)
Slack(u) == PERCENTAGE_FACTOR * (1 + (totalDebtInETH(u) \div (2 * WAD)))

(* Dust holds the slack and half a scaled unit of any one reserve.         *)
LEMMA DustParts ==
  ASSUME TypeOK, NEW u \in Users
  PROVE  /\ Slack(u) \in Nat /\ Dust(u) \in Nat /\ PERCENTAGE_FACTOR <= Slack(u)
         /\ \A r \in Reserves :
              /\ price[r] * halfUnit(liquidityIndex[r]) \in Nat
              /\ price[r] * halfUnit(variableBorrowIndex[r]) \in Nat
              /\ Slack(u) + PERCENTAGE_FACTOR * (price[r] * halfUnit(liquidityIndex[r])) <= Dust(u)
              /\ Slack(u) + PERCENTAGE_FACTOR * (price[r] * halfUnit(variableBorrowIndex[r])) <= Dust(u)
         /\ Slack(u) <= Dust(u)
<1> DEFINE P == PERCENTAGE_FACTOR
           f == [r \in Reserves |-> price[r] *
                   (halfUnit(liquidityIndex[r]) + halfUnit(variableBorrowIndex[r]))]
           S == SumFunction(f)
           q == totalDebtInETH(u) \div (2 * WAD)
<1>1. P \in Nat \ {0}
  BY PercentageAssumption
<1>2. q \in Nat
  <2>1. totalDebtInETH(u) \in Nat
    BY LedgerValues DEF TypeOK
  <2> QED BY <2>1, WadAssumption
<1>3. ASSUME NEW r \in Reserves
      PROVE  /\ price[r] * halfUnit(liquidityIndex[r]) \in Nat
             /\ price[r] * halfUnit(variableBorrowIndex[r]) \in Nat
             /\ f[r] \in Nat
             /\ price[r] * halfUnit(liquidityIndex[r]) <= f[r]
             /\ price[r] * halfUnit(variableBorrowIndex[r]) <= f[r]
  <2> DEFINE a == halfUnit(liquidityIndex[r])
             b == halfUnit(variableBorrowIndex[r])
             x == price[r]
  <2>1. x \in Nat /\ a \in Nat /\ b \in Nat
    <3>1. /\ price[r] \in Nat
          /\ liquidityIndex[r] \in Nat /\ liquidityIndex[r] >= RAY
          /\ variableBorrowIndex[r] \in Nat /\ variableBorrowIndex[r] >= RAY
      BY DEF TypeOK
    <3> QED BY <3>1, MintRise
  <2>2. f[r] = x * (a + b)
    OBVIOUS
  <2> HIDE DEF a, b, x, f
  <2>3. x * a \in Nat /\ x * b \in Nat /\ x * (a + b) = x * a + x * b
    BY <2>1, ProductNat
  <2> QED BY <2>2, <2>3 DEF a, b, x
<1>4. f \in [Reserves -> Nat]
  BY <1>3
<1>5. S \in Nat /\ \A r \in Reserves : f[r] <= S
  <2> HIDE DEF f
  <2> QED BY <1>4, ReservesAssumption, SumType, SumEntry
<1>6. Slack(u) = P * (1 + q) /\ Dust(u) = P * (1 + q + S)
  BY DEF Slack, Dust
<1> HIDE DEF P, f, S, q
<1>7. P * (1 + q + S) = P * (1 + q) + P * S /\ P * (1 + q) = P + P * q
      /\ P * S \in Nat /\ P * (1 + q) \in Nat /\ P * q \in Nat
  BY <1>1, <1>2, <1>5, ProductNat
<1>8. \A y \in Nat : y <= S => P * (1 + q) + P * y <= P * (1 + q + S)
  <2> TAKE y \in Nat
  <2> HAVE y <= S
  <2>1. P * y <= P * S /\ P * y \in Nat
    BY <1>1, <1>5, ProductMonotone
  <2> QED BY <1>7, <2>1
<1>9. ASSUME NEW r \in Reserves
      PROVE  /\ P * (1 + q) + P * (price[r] * halfUnit(liquidityIndex[r])) <= P * (1 + q + S)
             /\ P * (1 + q) + P * (price[r] * halfUnit(variableBorrowIndex[r])) <= P * (1 + q + S)
  <2> DEFINE a == price[r] * halfUnit(liquidityIndex[r])
             b == price[r] * halfUnit(variableBorrowIndex[r])
  <2>1. a \in Nat /\ b \in Nat /\ a <= f[r] /\ b <= f[r] /\ f[r] \in Nat /\ f[r] <= S
    BY <1>3, <1>5
  <2> HIDE DEF a, b
  <2>2. a <= S /\ b <= S
    BY <1>5, <2>1
  <2>3. P * (1 + q) + P * a <= P * (1 + q + S) /\ P * (1 + q) + P * b <= P * (1 + q + S)
    BY <1>8, <2>1, <2>2
  <2> QED BY <2>3 DEF a, b
<1>10. /\ P * (1 + q) \in Nat /\ P * (1 + q + S) \in Nat /\ P <= P * (1 + q)
       /\ P * (1 + q) <= P * (1 + q + S)
  BY <1>1, <1>7
<1> QED BY <1>3, <1>6, <1>9, <1>10 DEF P

(* The thresholds of u's collateral, as Margin adds them up.               *)
worthOf(u, r) == CollateralValue(aScaled, u, r) * Threshold[r]
worth(u) == Weighted(Threshold, aScaled, u)

worthRow(u) == [r \in Reserves |-> worthOf(u, r)]
debtRow(u) == [r \in Reserves |-> DebtValue(u, r)]

Typed ==
  \A u \in Users :
    /\ worth(u) \in Nat /\ totalDebtInETH(u) \in Nat
    /\ worth(u) = SumFunction(worthRow(u)) /\ totalDebtInETH(u) = SumFunction(debtRow(u))
    /\ worthRow(u) \in [Reserves -> Int] /\ debtRow(u) \in [Reserves -> Int]
    /\ Margin(u) = worth(u) - PERCENTAGE_FACTOR * totalDebtInETH(u)
    /\ \A r \in Reserves :
         /\ worthOf(u, r) \in Nat /\ DebtValue(u, r) \in Nat
         /\ worthRow(u)[r] = worthOf(u, r) /\ debtRow(u)[r] = DebtValue(u, r)

(* Everything the margin adds up is a natural, before a step and after.    *)
LEMMA MarginTyped == (TypeOK => Typed) /\ (TypeOK' => Typed')
<1>1. TypeOK => Typed
  <2> SUFFICES ASSUME TypeOK, NEW u \in Users
               PROVE  /\ worth(u) \in Nat /\ totalDebtInETH(u) \in Nat
                      /\ \A r \in Reserves : worthOf(u, r) \in Nat /\ DebtValue(u, r) \in Nat
    BY DEF Typed, worth, worthOf, worthRow, debtRow, Weighted, Margin, totalDebtInETH
  <2>1. aScaled \in Ledger /\ Threshold \in [Reserves -> 0..PERCENTAGE_FACTOR]
    BY PercentagesAssumption DEF TypeOK
  <2>2. worth(u) \in Nat /\ totalDebtInETH(u) \in Nat
    BY <2>1, Averages, LedgerValues DEF worth
  <2>3. ASSUME NEW r \in Reserves PROVE worthOf(u, r) \in Nat /\ DebtValue(u, r) \in Nat
    <3>1. CollateralValue(aScaled, u, r) \in Nat /\ DebtValue(u, r) \in Nat
      BY <2>1, LedgerValues
    <3>2. Threshold[r] \in Nat
      BY <2>1
    <3> QED BY <3>1, <3>2, ProductNat DEF worthOf
  <2> QED BY <2>2, <2>3
<1>2. (TypeOK => Typed)'
  BY <1>1, PTL
<1> QED BY <1>1, <1>2

(* A step moves a sum by no more than it moves the entries.                *)
LEMMA WorthMoves ==
  ASSUME TypeOK, TypeOK', NEW v \in Users, NEW r \in Reserves, NEW e \in Int,
         \A q \in Reserves \ {r} : worthOf(v, q) <= worthOf(v, q)',
         worthOf(v, r) - e <= worthOf(v, r)'
  PROVE  worth(v) - e <= worth(v)'
<1> DEFINE f == worthRow(v)
           g == worthRow(v)'
<1>1. /\ worth(v) = SumFunction(f) /\ worth(v)' = SumFunction(g)
      /\ f \in [Reserves -> Int] /\ g \in [Reserves -> Int]
  BY MarginTyped DEF Typed
<1>2. (\A q \in Reserves \ {r} : f[q] <= g[q]) /\ f[r] - e <= g[r]
  BY MarginTyped DEF Typed
<1> HIDE DEF f, g
<1>3. SumFunction(f) - e <= SumFunction(g)
  BY <1>1, <1>2, ReservesAssumption, SumCompare
<1> QED BY <1>1, <1>3

(* The same for the debts.                                                 *)
LEMMA DebtMoves ==
  ASSUME TypeOK, TypeOK', NEW v \in Users, NEW r \in Reserves, NEW e \in Int,
         \A q \in Reserves \ {r} : DebtValue(v, q)' <= DebtValue(v, q),
         DebtValue(v, r)' <= DebtValue(v, r) + e
  PROVE  totalDebtInETH(v)' <= totalDebtInETH(v) + e
<1> DEFINE f == debtRow(v)'
           g == debtRow(v)
<1>1. /\ totalDebtInETH(v)' = SumFunction(f) /\ totalDebtInETH(v) = SumFunction(g)
      /\ f \in [Reserves -> Int] /\ g \in [Reserves -> Int]
      /\ totalDebtInETH(v) \in Nat /\ totalDebtInETH(v)' \in Nat
  BY MarginTyped DEF Typed
<1>2. (\A q \in Reserves \ {r} : f[q] <= g[q]) /\ f[r] - e <= g[r]
  <2>1. f[r] \in Int /\ g[r] \in Int /\ f[r] <= g[r] + e
    BY MarginTyped DEF Typed
  <2>2. \A q \in Reserves \ {r} : f[q] <= g[q]
    BY MarginTyped DEF Typed
  <2> HIDE DEF f, g
  <2> QED BY <2>1, <2>2
<1> HIDE DEF f, g
<1>3. SumFunction(f) - e <= SumFunction(g)
  BY <1>1, <1>2, ReservesAssumption, SumCompare
<1> QED BY <1>1, <1>3

(* What the health check says of the margin, on any ledger.                *)
LEMMA HealthyCovers ==
  ASSUME TypeOK, NEW ledger \in Ledger, NEW u \in Users, HealthyWith(ledger, u)
  PROVE  PERCENTAGE_FACTOR * totalDebtInETH(u)
           <= Weighted(Threshold, ledger, u) + Slack(u)
<1> DEFINE c == totalCollateralInETH(ledger, u)
           d == totalDebtInETH(u)
           t == WeightedAverage(Threshold, ledger, u)
           w == Weighted(Threshold, ledger, u)
<1>1. c \in Nat /\ d \in Nat /\ w \in Nat /\ t \in Nat /\ c * t <= w
  BY LedgerValues, Averages, PercentagesAssumption
<1>2. HealthFactorOk(c, d, t)
  BY DEF HealthyWith
<1>3. Slack(u) = PERCENTAGE_FACTOR * (1 + (d \div (2 * WAD))) /\ Slack(u) \in Nat
  BY DustParts DEF Slack
<1> HIDE DEF c, d, t, w
<1>4. CASE d # 0
  <2>1. PERCENTAGE_FACTOR * d <= w + PERCENTAGE_FACTOR * (1 + (d \div (2 * WAD)))
    <3>1. t \in Int /\ w \in Int
      BY <1>1
    <3> QED BY <1>1, <1>2, <1>4, <3>1, HealthCovers
  <2> QED BY <1>3, <2>1 DEF d, w
<1>5. CASE d = 0
  <2>1. PERCENTAGE_FACTOR * d = 0
    BY <1>5, PercentageAssumption
  <2>2. PERCENTAGE_FACTOR * d <= w + Slack(u)
    BY <1>1, <1>3, <2>1
  <2> QED BY <2>2 DEF d, w
<1> QED BY <1>4, <1>5

(* Without borrowing bits the account data show no debt.                   *)
LEMMA NoBorrowing ==
  ASSUME NEW u \in Users, borrowing[u] = {}
  PROVE  totalDebtInETH(u) = 0
<1> DEFINE f == [r \in Reserves |-> DebtValue(u, r)]
<1>1. f = [r \in Reserves |-> 0]
  BY DEF DebtValue
<1>2. totalDebtInETH(u) = SumFunction(f)
  BY DEF totalDebtInETH
<1> HIDE DEF f
<1> QED BY <1>1, <1>2, ReservesAssumption, SumZero

(* What balanceDecreaseAllowed grants leaves the debt covered.             *)
LEMMA DecreaseCovered ==
  ASSUME TypeOK, NEW u \in Users, NEW r \in Reserves, NEW amount \in Nat,
         balanceDecreaseAllowed(u, r, amount)
  PROVE  \/ totalDebtInETH(u) = 0
         \/ r \notin CollateralOf(u)
         \/ PERCENTAGE_FACTOR * totalDebtInETH(u) + (price[r] * amount) * Threshold[r]
              <= worth(u) + Slack(u)
<1> DEFINE c == totalCollateralInETH(aScaled, u)
           d == totalDebtInETH(u)
           a == WeightedAverage(Threshold, aScaled, u)
           w == worth(u)
           x == price[r] * amount
           k == Threshold[r]
           left == c - x
           n == c * a - x * k
           t == n \div left
<1>1. c \in Nat /\ d \in Nat /\ w \in Nat /\ a \in Nat /\ c * a <= w
  BY LedgerValues, Averages, PercentagesAssumption DEF worth, TypeOK
<1>2. x \in Nat /\ k \in Nat
  BY ProductNat, PercentagesAssumption DEF TypeOK
<1>3. \/ borrowing[u] = {}
      \/ r \notin usingAsCollateral[u] \/ k = 0
      \/ d = 0
      \/ left > 0 /\ HealthFactorOk(left, d, t)
  BY DEF balanceDecreaseAllowed
<1>4. Slack(u) = PERCENTAGE_FACTOR * (1 + (d \div (2 * WAD))) /\ Slack(u) \in Nat
  BY DustParts DEF Slack
<1>5. CASE borrowing[u] = {}
  BY <1>5, NoBorrowing
<1>6. CASE r \notin usingAsCollateral[u] \/ k = 0
  BY <1>6 DEF CollateralOf
<1>7. CASE d # 0 /\ left > 0 /\ HealthFactorOk(left, d, t)
  <2> HIDE DEF c, d, a, w, x, k
  <2>1. left \in Nat \ {0} /\ n \in Int /\ c * a \in Nat /\ x * k \in Nat
    BY <1>1, <1>2, <1>7, ProductNat
  <2>2. t \in Int /\ left * t <= n
    <3> HIDE DEF left, n
    <3> QED BY <2>1, QuotientBounds
  <2>3. n <= w - x * k /\ w - x * k \in Int
    <3> DEFINE y == x * k
               z == c * a
    <3>1. y \in Nat /\ z \in Nat /\ z <= w /\ n = z - y
      BY <1>1, <2>1
    <3> HIDE DEF y, z, n
    <3>2. n <= w - y /\ w - y \in Int
      BY <1>1, <3>1
    <3> QED BY <3>2 DEF y
  <2>4. left * t <= w - x * k
    <3> DEFINE y == left * t
               z == w - x * k
    <3>1. y \in Int
      <4> HIDE DEF left, t
      <4> QED BY <2>1, <2>2
    <3> HIDE DEF y, z, n
    <3>2. y <= n /\ n <= z /\ n \in Int /\ z \in Int
      <4>1. y <= n /\ n \in Int
        BY <2>1, <2>2 DEF y
      <4>2. n <= z /\ z \in Int
        BY <2>3 DEF z
      <4> QED BY <4>1, <4>2
    <3>3. y <= z
      BY <3>1, <3>2
    <3> QED BY <3>3 DEF y, z
  <2>5. PERCENTAGE_FACTOR * d <= (w - x * k) + PERCENTAGE_FACTOR * (1 + (d \div (2 * WAD)))
    <3> DEFINE z == w - x * k
    <3>1. left \in Nat /\ t \in Int /\ d \in Nat /\ z \in Int /\ left * t <= z /\ d # 0
          /\ HealthFactorOk(left, d, t)
      BY <1>1, <1>7, <2>1, <2>2, <2>3, <2>4
    <3> HIDE DEF left, t, z
    <3>2. PERCENTAGE_FACTOR * d <= z + PERCENTAGE_FACTOR * (1 + (d \div (2 * WAD)))
      BY <3>1, HealthCovers
    <3> QED BY <3>2 DEF z
  <2>6. PERCENTAGE_FACTOR * d + x * k <= w + Slack(u)
    <3> DEFINE y == x * k
               p == PERCENTAGE_FACTOR * d
    <3>1. y \in Nat /\ p \in Nat /\ p <= (w - y) + Slack(u)
      BY <1>1, <1>4, <2>1, <2>5, ProductNat, PercentageAssumption
    <3> HIDE DEF y, p
    <3>2. p + y <= w + Slack(u)
      BY <1>1, <1>4, <3>1
    <3> QED BY <3>2 DEF y, p
  <2> QED BY <2>6 DEF d, x, k, w
<1> QED BY <1>3, <1>5, <1>6, <1>7

(* What a step must show of a healthy account.                             *)
KeptFor(u) == Margin(u)' >= 0 - Dust(u)

(* A debt of d at most, covered up to dust, keeps the margin.              *)
LEMMA KeptIf ==
  ASSUME TypeOK, TypeOK', NEW v \in Users, NEW d \in Nat, totalDebtInETH(v)' <= d,
         PERCENTAGE_FACTOR * d <= worth(v)' + Dust(v)
  PROVE  KeptFor(v)
<1> DEFINE w == worth(v)'
           e == totalDebtInETH(v)'
           m == Margin(v)'
           P == PERCENTAGE_FACTOR
<1>1. w \in Nat /\ e \in Nat /\ m = w - P * e
  BY MarginTyped DEF Typed
<1>2. P \in Nat /\ Dust(v) \in Nat
  BY PercentageAssumption, DustParts
<1>3. P * e <= P * d /\ P * e \in Nat /\ P * d \in Nat
  <2> HIDE DEF e, P
  <2> QED BY <1>1, <1>2, ProductMonotone DEF e
<1>4. P * d <= w + Dust(v)
  OBVIOUS
<1> DEFINE x == P * e
           y == P * d
<1>5. x <= y /\ x \in Nat /\ y \in Nat /\ y <= w + Dust(v) /\ m = w - x
  BY <1>1, <1>3, <1>4
<1> HIDE DEF w, e, m, P, x, y
<1>6. m >= 0 - Dust(v)
  BY <1>1, <1>2, <1>5
<1> QED BY <1>6 DEF KeptFor, m

(* A healthy account whose collateral is kept and whose debt grows by no   *)
(* more than what a rounding allows.                                       *)
LEMMA KeptByMoves ==
  ASSUME TypeOK, TypeOK', NEW v \in Users, Healthy(v), NEW f \in Nat,
         worth(v) <= worth(v)', totalDebtInETH(v)' <= totalDebtInETH(v) + f,
         Slack(v) + PERCENTAGE_FACTOR * f <= Dust(v)
  PROVE  KeptFor(v)
<1> DEFINE P == PERCENTAGE_FACTOR
           d == totalDebtInETH(v)
<1>1. worth(v) \in Nat /\ worth(v)' \in Nat /\ d \in Nat
  BY MarginTyped DEF Typed
<1>2. P \in Nat /\ Dust(v) \in Nat /\ Slack(v) \in Nat
  BY PercentageAssumption, DustParts
<1>3. P * d <= worth(v) + Slack(v)
  BY HealthyCovers DEF TypeOK, Healthy, worth
<1>4. P * (d + f) = P * d + P * f /\ P * d \in Nat /\ P * f \in Nat
  <2> HIDE DEF P, d
  <2> QED BY <1>1, <1>2, ProductNat
<1>5. P * (d + f) <= worth(v)' + Dust(v)
  <2> DEFINE x == P * d
             y == P * f
             w == worth(v)'
  <2>1. /\ x \in Nat /\ y \in Nat /\ w \in Nat /\ x <= worth(v) + Slack(v)
        /\ Slack(v) + y <= Dust(v) /\ worth(v) <= w
    BY <1>1, <1>3, <1>4
  <2> HIDE DEF x, y, w
  <2>2. x + y <= w + Dust(v)
    BY <1>1, <1>2, <2>1
  <2> QED BY <1>4, <2>2 DEF x, y, w
<1> HIDE DEF P
<1>6. d + f \in Nat /\ totalDebtInETH(v)' <= d + f
  BY <1>1
<1> QED BY <1>5, <1>6, KeptIf DEF P

-----------------------------------------------------------------------------
(* One reserve of one account.                                             *)

(* The value of a reserve to an account, spelt out.                        *)
Spelt ==
  \A v \in Users, q \in Reserves :
    /\ worthOf(v, q) =
         IF q \in usingAsCollateral[v] /\ Threshold[q] # 0
         THEN (price[q] * rayMul(aScaled[q][v], liquidityIndex[q])) * Threshold[q] ELSE 0
    /\ DebtValue(v, q) =
         IF q \in borrowing[v]
         THEN price[q] * (stable[q][v] + rayMul(vScaled[q][v], variableBorrowIndex[q])) ELSE 0

LEMMA AlwaysSpelt == Spelt /\ Spelt'
<1>1. Spelt
  <2>1. \A q \in Reserves : 0 * Threshold[q] = 0
    BY PercentagesAssumption
  <2>2. ASSUME NEW v \in Users, NEW q \in Reserves
        PROVE  /\ worthOf(v, q) =
                    IF q \in usingAsCollateral[v] /\ Threshold[q] # 0
                    THEN (price[q] * rayMul(aScaled[q][v], liquidityIndex[q])) * Threshold[q]
                    ELSE 0
               /\ DebtValue(v, q) =
                    IF q \in borrowing[v]
                    THEN price[q] * (stable[q][v] + rayMul(vScaled[q][v], variableBorrowIndex[q]))
                    ELSE 0
    BY <2>1 DEF worthOf, CollateralValue, CollateralOf, DebtValue, currentDebt, variableDebt
  <2> QED BY <2>2 DEF Spelt
<1>2. Spelt'
  BY <1>1, PTL
<1> QED BY <1>1, <1>2

(* Collateral that is neither moved nor unflagged keeps its worth.         *)
LEMMA WorthAt ==
  ASSUME TypeOK, TypeOK', NEW v \in Users, NEW q \in Reserves, price' = price,
         aScaled[q][v] <= aScaled'[q][v], liquidityIndex[q] <= liquidityIndex'[q],
         q \in usingAsCollateral[v] => q \in usingAsCollateral'[v]
  PROVE  worthOf(v, q) <= worthOf(v, q)'
<1> DEFINE x == rayMul(aScaled[q][v], liquidityIndex[q])
           y == rayMul(aScaled'[q][v], liquidityIndex'[q])
           p == price[q]
           k == Threshold[q]
<1>1. p \in Nat /\ k \in Nat /\ v \in Accounts
  BY PercentagesAssumption DEF TypeOK, Accounts
<1>2. x \in Nat /\ y \in Nat /\ x <= y
  <2>1. /\ aScaled[q][v] \in Nat /\ aScaled'[q][v] \in Nat
        /\ liquidityIndex[q] \in Nat /\ liquidityIndex'[q] \in Nat
    BY <1>1 DEF TypeOK, Ledger
  <2> QED BY <2>1, MulMonotone
<1>3. (p * x) * k <= (p * y) * k /\ (p * x) * k \in Nat /\ (p * y) * k \in Nat
  <2> HIDE DEF x, y, p, k
  <2>1. p * x <= p * y /\ p * x \in Nat /\ p * y \in Nat
    BY <1>1, <1>2, ProductMonotone
  <2> DEFINE X == p * x
             Y == p * y
  <2>2. X \in Nat /\ Y \in Nat /\ X <= Y
    BY <2>1
  <2> HIDE DEF X, Y
  <2>3. k * X <= k * Y /\ k * X \in Nat /\ k * Y \in Nat /\ X * k = k * X /\ Y * k = k * Y
    BY <1>1, <2>2, ProductMonotone
  <2>4. X * k <= Y * k /\ X * k \in Nat /\ Y * k \in Nat
    BY <2>3
  <2> QED BY <2>4 DEF X, Y
<1>4. worthOf(v, q) = IF q \in usingAsCollateral[v] /\ k # 0 THEN (p * x) * k ELSE 0
  BY AlwaysSpelt DEF Spelt
<1>5. worthOf(v, q)' = IF q \in usingAsCollateral'[v] /\ k # 0 THEN (p * y) * k ELSE 0
  BY AlwaysSpelt DEF Spelt
<1> HIDE DEF x, y, p, k
<1> QED BY <1>3, <1>4, <1>5

(* A debt that does not grow keeps its value at most.                      *)
LEMMA DebtAt ==
  ASSUME TypeOK, TypeOK', NEW v \in Users, NEW q \in Reserves, price' = price,
         vScaled'[q][v] <= vScaled[q][v], stable'[q][v] <= stable[q][v],
         variableBorrowIndex'[q] = variableBorrowIndex[q],
         q \in borrowing'[v] => q \in borrowing[v]
  PROVE  DebtValue(v, q)' <= DebtValue(v, q)
<1> DEFINE x == stable'[q][v] + rayMul(vScaled'[q][v], variableBorrowIndex[q])
           y == stable[q][v] + rayMul(vScaled[q][v], variableBorrowIndex[q])
           p == price[q]
<1>1. p \in Nat /\ v \in Accounts
  BY DEF TypeOK, Accounts
<1>2. x \in Nat /\ y \in Nat /\ x <= y
  <2>1. /\ vScaled[q][v] \in Nat /\ vScaled'[q][v] \in Nat
        /\ stable[q][v] \in Nat /\ stable'[q][v] \in Nat
        /\ variableBorrowIndex[q] \in Nat
    BY <1>1 DEF TypeOK, Ledger
  <2>2. /\ rayMul(vScaled'[q][v], variableBorrowIndex[q]) \in Nat
        /\ rayMul(vScaled[q][v], variableBorrowIndex[q]) \in Nat
        /\ rayMul(vScaled'[q][v], variableBorrowIndex[q])
             <= rayMul(vScaled[q][v], variableBorrowIndex[q])
    <3> DEFINE m == vScaled'[q][v]
               n == vScaled[q][v]
               i == variableBorrowIndex[q]
    <3>1. m \in Nat /\ n \in Nat /\ i \in Nat /\ m <= n /\ i <= i
      BY <2>1
    <3> HIDE DEF m, n, i
    <3>2. rayMul(m, i) \in Nat /\ rayMul(n, i) \in Nat /\ rayMul(m, i) <= rayMul(n, i)
      BY <3>1, MulMonotone
    <3> QED BY <3>2 DEF m, n, i
  <2> DEFINE a == stable'[q][v]
             b == stable[q][v]
             c == rayMul(vScaled'[q][v], variableBorrowIndex[q])
             d == rayMul(vScaled[q][v], variableBorrowIndex[q])
  <2>3. a \in Nat /\ b \in Nat /\ c \in Nat /\ d \in Nat /\ a <= b /\ c <= d
    BY <2>1, <2>2
  <2>4. x = a + c /\ y = b + d
    OBVIOUS
  <2> HIDE DEF a, b, c, d, x, y
  <2> QED BY <2>3, <2>4
<1>3. DebtValue(v, q) = IF q \in borrowing[v] THEN p * y ELSE 0
  BY AlwaysSpelt DEF Spelt
<1>4. DebtValue(v, q)' = IF q \in borrowing'[v] THEN p * x ELSE 0
  BY AlwaysSpelt DEF Spelt
<1> HIDE DEF x, y, p
<1>5. p * x <= p * y /\ p * x \in Nat /\ p * y \in Nat
  BY <1>1, <1>2, ProductMonotone
<1> QED BY <1>3, <1>4, <1>5

(* An account whose balances and flags rise, and whose debts fall.         *)
LEMMA KeptUntouched ==
  ASSUME TypeOK, TypeOK', NEW r \in Reserves, NEW v \in Users, Healthy(v), price' = price,
         \A q \in Reserves :
           /\ aScaled[q][v] <= aScaled'[q][v] /\ liquidityIndex[q] <= liquidityIndex'[q]
           /\ q \in usingAsCollateral[v] => q \in usingAsCollateral'[v]
           /\ vScaled'[q][v] <= vScaled[q][v] /\ stable'[q][v] <= stable[q][v]
           /\ variableBorrowIndex'[q] = variableBorrowIndex[q]
           /\ q \in borrowing'[v] => q \in borrowing[v]
  PROVE  KeptFor(v)
<1>1. \A q \in Reserves : worthOf(v, q) <= worthOf(v, q)'
  BY WorthAt
<1>2. \A q \in Reserves : DebtValue(v, q)' <= DebtValue(v, q)
  BY DebtAt
<1>3. /\ worth(v) \in Nat /\ worth(v)' \in Nat /\ totalDebtInETH(v) \in Nat
      /\ totalDebtInETH(v)' \in Nat
      /\ worthOf(v, r) \in Nat /\ worthOf(v, r)' \in Nat
      /\ DebtValue(v, r) \in Nat /\ DebtValue(v, r)' \in Nat
  BY MarginTyped DEF Typed
<1>4. worth(v) - 0 <= worth(v)'
  <2>1. worthOf(v, r) - 0 <= worthOf(v, r)' /\ 0 \in Int
    BY <1>1, <1>3
  <2> QED BY <1>1, <2>1, WorthMoves
<1>5. totalDebtInETH(v)' <= totalDebtInETH(v) + 0
  <2>1. DebtValue(v, r)' <= DebtValue(v, r) + 0 /\ 0 \in Int
    BY <1>2, <1>3
  <2> QED BY <1>2, <2>1, DebtMoves
<1>6. worth(v) <= worth(v)' /\ Slack(v) + PERCENTAGE_FACTOR * 0 <= Dust(v) /\ 0 \in Nat
  BY <1>3, <1>4, DustParts, PercentageAssumption
<1> QED BY <1>5, <1>6, KeptByMoves

-----------------------------------------------------------------------------
(* The accounts of users in each action.                                   *)

(* updateState mints to the treasury, which is no user.                    *)
LEMMA UserRows ==
  ASSUME TypeOK, NEW S, NEW v \in Users, NEW q \in Reserves
  PROVE  updatedScaled(S)[q][v] = aScaled[q][v] /\ aScaled[q][v] \in Nat
<1>1. v \in Accounts /\ v # Treasury
  BY AccountsAssumption DEF Accounts
<1> QED BY <1>1 DEF updatedScaled, TypeOK, Ledger

(* A mint or a burn of aTokens moves one balance of a user.                *)
LEMMA MovedRow ==
  ASSUME TypeOK, NEW S, NEW r \in Reserves, NEW u \in Users, NEW d,
         UpdateStateAndMove(S, r, u, d)
  PROVE  /\ aScaled'[r][u] = aScaled[r][u] + d
         /\ \A w \in Users, q \in Reserves :
              <<q, w>> # <<r, u>> => aScaled'[q][w] = aScaled[q][w]
<1> DEFINE F == updatedScaled(S)
<1>1. aScaled' = [F EXCEPT ![r][u] = @ + d]
  BY DEF UpdateStateAndMove
<1>2. F \in Ledger /\ \A w \in Users, q \in Reserves : F[q][w] = aScaled[q][w]
  BY UpdatedTypes, UserRows
<1>3. Users \subseteq Accounts
  BY DEF Accounts
<1> HIDE DEF F
<1> QED BY <1>1, <1>2, <1>3 DEF Ledger

(* The flags of users after one is set or cleared.                         *)
LEMMA FlagRows ==
  ASSUME TypeOK, NEW u \in Users, NEW r \in Reserves, NEW b \in BOOLEAN,
         NEW v \in Users, NEW q \in Reserves
  PROVE  /\ setUsingAsCollateral(u, r, b) =>
              (q \in usingAsCollateral'[v] <=>
                 IF q = r /\ v = u THEN b ELSE q \in usingAsCollateral[v])
         /\ setBorrowing(u, r, b) =>
              (q \in borrowing'[v] <=> IF q = r /\ v = u THEN b ELSE q \in borrowing[v])
<1>1. u \in Accounts /\ v \in Accounts
  BY DEF Accounts
<1> QED BY <1>1 DEF setUsingAsCollateral, setBorrowing, TypeOK

(* The rows of a user are naturals, and indexes at least one ray.          *)
LEMMA RowsNat ==
  ASSUME TypeOK, NEW v \in Users, NEW q \in Reserves
  PROVE  /\ aScaled[q][v] \in Nat /\ vScaled[q][v] \in Nat /\ stable[q][v] \in Nat
         /\ liquidityIndex[q] \in Nat /\ variableBorrowIndex[q] \in Nat
         /\ liquidityIndex[q] >= RAY /\ variableBorrowIndex[q] >= RAY
         /\ price[q] \in Nat
  BY BalancesNat DEF TypeOK

(* deposit only adds collateral.                                           *)
LEMMA DepositMargin ==
  ASSUME TypeOK, TypeOK', NEW u \in Users, NEW r \in Reserves, NEW amount \in Amounts,
         Deposit(u, r, amount), NEW v \in Users, Healthy(v)
  PROVE  KeptFor(v)
<1> DEFINE s == rayDiv(amount, liquidityIndex[r])
<1>1. s \in Nat /\ UpdateStateAndMove({r}, r, u, s)
  BY AmountsAssumption, ScaledNat DEF Deposit
<1>2. UNCHANGED <<debtVars, indexVars, borrowing, envVars>>
  BY DEF Deposit
<1>3. setUsingAsCollateral(u, r, TRUE) \/ UNCHANGED usingAsCollateral
  BY DEF Deposit
<1> HIDE DEF s
<1>4. ASSUME NEW q \in Reserves
      PROVE  /\ aScaled[q][v] <= aScaled'[q][v]
             /\ q \in usingAsCollateral[v] => q \in usingAsCollateral'[v]
  <2>1. aScaled'[q][v] = aScaled[q][v] \/ aScaled'[q][v] = aScaled[q][v] + s
    <3>1. CASE q = r /\ v = u
      BY <1>1, <3>1, MovedRow
    <3>2. CASE q # r \/ v # u
      BY <1>1, <3>2, MovedRow
    <3> QED BY <3>1, <3>2
  <2>2. aScaled[q][v] <= aScaled'[q][v]
    BY <1>1, <2>1, RowsNat
  <2>3. q \in usingAsCollateral[v] => q \in usingAsCollateral'[v]
    BY <1>3, FlagRows
  <2> QED BY <2>2, <2>3
<1>5. ASSUME NEW q \in Reserves
      PROVE  /\ liquidityIndex[q] <= liquidityIndex'[q]
             /\ vScaled'[q][v] <= vScaled[q][v] /\ stable'[q][v] <= stable[q][v]
             /\ variableBorrowIndex'[q] = variableBorrowIndex[q]
             /\ q \in borrowing'[v] => q \in borrowing[v]
  BY <1>2, RowsNat DEF debtVars, indexVars
<1>6. price' = price
  BY <1>2 DEF envVars
<1> QED BY <1>4, <1>5, <1>6, KeptUntouched

(* An account none of whose balances, debts and flags move.                *)
LEMMA KeptAside ==
  ASSUME TypeOK, TypeOK', NEW r \in Reserves, NEW v \in Users, Healthy(v),
         UNCHANGED <<price, indexVars>>,
         \A q \in Reserves :
           /\ aScaled[q][v] = aScaled'[q][v] /\ vScaled'[q][v] = vScaled[q][v]
           /\ stable'[q][v] = stable[q][v]
           /\ q \in usingAsCollateral[v] <=> q \in usingAsCollateral'[v]
           /\ q \in borrowing'[v] <=> q \in borrowing[v]
  PROVE  KeptFor(v)
<1>1. ASSUME NEW q \in Reserves
      PROVE  /\ aScaled[q][v] <= aScaled'[q][v] /\ liquidityIndex[q] <= liquidityIndex'[q]
             /\ q \in usingAsCollateral[v] => q \in usingAsCollateral'[v]
             /\ vScaled'[q][v] <= vScaled[q][v] /\ stable'[q][v] <= stable[q][v]
             /\ variableBorrowIndex'[q] = variableBorrowIndex[q]
             /\ q \in borrowing'[v] => q \in borrowing[v]
  BY RowsNat DEF indexVars
<1> QED BY <1>1, KeptUntouched

(* Collateral worth no more than what balanceDecreaseAllowed granted, up to *)
(* half a scaled unit h, leaves the account of u.                          *)
LEMMA KeptDecrease ==
  ASSUME TypeOK, TypeOK', NEW u \in Users, NEW r \in Reserves, NEW amount \in Nat,
         Healthy(u), balanceDecreaseAllowed(u, r, amount), price' = price,
         UNCHANGED <<debtVars, indexVars, borrowing>>,
         \A q \in Reserves \ {r} :
           /\ aScaled'[q][u] = aScaled[q][u]
           /\ q \in usingAsCollateral[u] => q \in usingAsCollateral'[u],
         r \notin CollateralOf(u) \/
           worthOf(u, r) - ((price[r] * amount) * Threshold[r]
               + PERCENTAGE_FACTOR * (price[r] * halfUnit(liquidityIndex[r])))
             <= worthOf(u, r)'
  PROVE  KeptFor(u)
<1> DEFINE P == PERCENTAGE_FACTOR
           d == totalDebtInETH(u)
           x == (price[r] * amount) * Threshold[r]
           h == price[r] * halfUnit(liquidityIndex[r])
           w == worth(u)
           z == worth(u)'
<1>1. /\ w \in Nat /\ z \in Nat /\ d \in Nat /\ totalDebtInETH(u)' \in Nat
      /\ worthOf(u, r) \in Nat /\ worthOf(u, r)' \in Nat
      /\ DebtValue(u, r) \in Nat /\ DebtValue(u, r)' \in Nat
  BY MarginTyped DEF Typed
<1>2. P \in Nat /\ Dust(u) \in Nat /\ Slack(u) \in Nat /\ h \in Nat /\ Slack(u) + P * h <= Dust(u)
      /\ Slack(u) <= Dust(u)
  BY PercentageAssumption, DustParts
<1>3. x \in Nat /\ P * h \in Nat
  <2>1. price[r] \in Nat /\ Threshold[r] \in Nat
    BY RowsNat, PercentagesAssumption
  <2>2. price[r] * amount \in Nat
    BY <2>1, ProductNat
  <2>3. x \in Nat
    <3> DEFINE y == price[r] * amount
    <3>1. y \in Nat
      BY <2>2
    <3> HIDE DEF y
    <3>2. y * Threshold[r] \in Nat
      BY <2>1, <3>1, ProductNat
    <3> QED BY <3>2 DEF y
  <2> HIDE DEF P, h
  <2>4. P * h \in Nat
    BY <1>2, ProductNat
  <2> QED BY <2>3, <2>4
<1>4. \A q \in Reserves \ {r} : worthOf(u, q) <= worthOf(u, q)'
  <2> TAKE q \in Reserves \ {r}
  <2>1. /\ aScaled[q][u] <= aScaled'[q][u] /\ liquidityIndex[q] <= liquidityIndex'[q]
        /\ q \in usingAsCollateral[u] => q \in usingAsCollateral'[u]
    BY RowsNat DEF indexVars
  <2> QED BY <2>1, WorthAt
<1>5. totalDebtInETH(u)' <= d
  <2>1. \A q \in Reserves : DebtValue(u, q)' <= DebtValue(u, q)
    <3> TAKE q \in Reserves
    <3>1. /\ vScaled'[q][u] <= vScaled[q][u] /\ stable'[q][u] <= stable[q][u]
          /\ variableBorrowIndex'[q] = variableBorrowIndex[q]
          /\ q \in borrowing'[u] => q \in borrowing[u]
      BY RowsNat DEF indexVars, debtVars
    <3> QED BY <3>1, DebtAt
  <2>2. DebtValue(u, r)' <= DebtValue(u, r) + 0 /\ 0 \in Int
    BY <1>1, <2>1
  <2>3. totalDebtInETH(u)' <= d + 0
    BY <2>1, <2>2, DebtMoves
  <2> QED BY <1>1, <2>3
<1>6. P * d <= w + Slack(u) /\ P * d \in Nat
  <2>1. P * d <= w + Slack(u)
    BY HealthyCovers DEF TypeOK, Healthy, worth
  <2> QED BY <1>1, <1>2, <2>1, ProductNat
<1>7. P * d <= z + Dust(u)
  <2>1. CASE d = 0
    <3>1. P * d = 0
      BY <1>2, <2>1
    <3> QED BY <1>1, <1>2, <3>1
  <2>2. CASE r \notin CollateralOf(u)
    <3>1. worthOf(u, r) = 0
      <4>1. 0 * Threshold[r] = 0
        BY PercentagesAssumption
      <4> QED BY <2>2, <4>1 DEF worthOf, CollateralValue
    <3>2. worthOf(u, r) - 0 <= worthOf(u, r)' /\ 0 \in Int
      BY <1>1, <3>1
    <3>3. w - 0 <= z
      BY <1>4, <3>2, WorthMoves
    <3> HIDE DEF P, d, w, z
    <3> DEFINE y == P * d
    <3>4. y \in Nat /\ y <= w + Slack(u) /\ w \in Nat /\ z \in Nat /\ w - 0 <= z
      BY <1>1, <1>6, <3>3
    <3> HIDE DEF y
    <3>5. y <= z + Dust(u)
      BY <1>2, <3>4
    <3> QED BY <3>5 DEF y
  <2>3. CASE r \in CollateralOf(u) /\ P * d + x <= w + Slack(u)
    <3> DEFINE e == x + P * h
    <3>1. worthOf(u, r) - e <= worthOf(u, r)' /\ e \in Int
      BY <1>3, <2>3
    <3> HIDE DEF e
    <3>2. w - e <= z
      BY <1>4, <3>1, WorthMoves
    <3> DEFINE y == P * d
               k == P * h
    <3>3. /\ y \in Nat /\ y + x <= w + Slack(u) /\ w \in Nat /\ z \in Nat /\ w - e <= z
          /\ e = x + k /\ k \in Nat /\ x \in Nat /\ Slack(u) + k <= Dust(u)
      BY <1>1, <1>2, <1>3, <1>6, <2>3, <3>2 DEF e
    <3> HIDE DEF P, d, w, z, x, h, y, k
    <3>4. y <= z + Dust(u)
      BY <1>2, <3>3
    <3> QED BY <3>4 DEF y
  <2>4. d = 0 \/ r \notin CollateralOf(u) \/ P * d + x <= w + Slack(u)
    BY DecreaseCovered
  <2> HIDE DEF P, d, w, z, x
  <2> QED BY <2>1, <2>2, <2>3, <2>4
<1> QED BY <1>1, <1>5, <1>7, KeptIf

(* A burn of an amount lowers the worth of a balance by the amount and half *)
(* a scaled unit at most.                                                  *)
LEMMA BurnWorth ==
  ASSUME NEW p \in Nat, NEW k \in 0..PERCENTAGE_FACTOR, NEW a \in Nat, NEW b \in Nat,
         NEW amount \in Nat, NEW h \in Nat, a <= b + amount + h
  PROVE  (p * a) * k - ((p * amount) * k + PERCENTAGE_FACTOR * (p * h)) <= (p * b) * k
<1> DEFINE P == PERCENTAGE_FACTOR
           A == p * a
           B == p * b
           M == p * amount
           H == p * h
<1>1. P \in Nat /\ k \in Nat /\ k <= P
  BY PercentageAssumption
<1>2. A \in Nat /\ B \in Nat /\ M \in Nat /\ H \in Nat
  BY ProductNat
<1>3. A <= B + M + H
  <2>1. p * a <= p * (b + amount + h)
    <3>1. b + amount + h \in Nat
      OBVIOUS
    <3> QED BY <3>1, ProductMonotone
  <2>2. p * (b + amount + h) = B + M + H
    OBVIOUS
  <2> QED BY <2>1, <2>2
<1> HIDE DEF P, A, B, M, H
<1>4. A * k <= (B + M + H) * k
  <2>1. B + M + H \in Nat
    BY <1>2
  <2>2. k * A <= k * (B + M + H) /\ k * A = A * k /\ k * (B + M + H) = (B + M + H) * k
    BY <1>1, <1>2, <1>3, <2>1, ProductMonotone
  <2> QED BY <2>2
<1>5. (B + M + H) * k = B * k + M * k + H * k
  BY <1>1, <1>2
<1>6. H * k <= P * H /\ H * k \in Nat /\ P * H \in Nat
  <2>1. H * k <= H * P /\ H * k \in Nat /\ H * P \in Nat /\ H * P = P * H
    BY <1>1, <1>2, ProductMonotone
  <2> QED BY <2>1
<1>7. A * k \in Nat /\ B * k \in Nat /\ M * k \in Nat
  BY <1>1, <1>2, ProductNat
<1>8. A * k - (M * k + P * H) <= B * k
  <2> DEFINE u == A * k
             v == B * k
             w == M * k
             x == H * k
             y == P * H
  <2>1. /\ u \in Nat /\ v \in Nat /\ w \in Nat /\ x \in Nat /\ y \in Nat
        /\ u <= v + w + x /\ x <= y
    BY <1>4, <1>5, <1>6, <1>7
  <2> HIDE DEF u, v, w, x, y
  <2>2. u - (w + y) <= v
    BY <2>1
  <2> QED BY <2>2 DEF u, v, w, y
<1> QED BY <1>8 DEF A, B, M, H, P

(* withdraw takes the collateral that balanceDecreaseAllowed judged.       *)
LEMMA WithdrawMargin ==
  ASSUME TypeOK, TypeOK', NEW u \in Users, NEW r \in Reserves,
         NEW amount \in Amounts \cup {UintMax},
         Withdraw(u, r, amount), NEW v \in Users, Healthy(v)
  PROVE  KeptFor(v)
<1> DEFINE bal == aBalance(u, r)
           amt == IF amount = UintMax THEN bal ELSE amount
           i == liquidityIndex[r]
           s == rayDiv(amt, i)
           a == aScaled[r][u]
<1>1. bal \in Nat /\ amt \in Nat /\ s \in Nat /\ a \in Nat /\ i \in Nat /\ i >= RAY
  <2>1. bal \in Nat /\ a \in Nat /\ i \in Nat /\ i >= RAY
    BY BalancesNat, RowsNat
  <2> HIDE DEF bal
  <2>2. amt \in Nat
    BY <2>1, AmountsAssumption
  <2> HIDE DEF amt
  <2>3. s \in Nat
    BY <2>2, ScaledNat
  <2> QED BY <2>1, <2>2, <2>3
<1>2. /\ balanceDecreaseAllowed(u, r, amt)
      /\ UpdateStateAndMove({r}, r, u, 0 - s)
      /\ IF amt = bal THEN setUsingAsCollateral(u, r, FALSE) ELSE UNCHANGED usingAsCollateral
      /\ UNCHANGED <<debtVars, indexVars, borrowing, envVars>>
  BY DEF Withdraw
<1>3. bal = rayMul(a, i)
  BY DEF aBalance
<1> HIDE DEF bal, amt, i, s, a
<1>4. price' = price
  BY <1>2 DEF envVars
<1>5. ASSUME NEW w \in Users, NEW q \in Reserves, q # r \/ w # u
      PROVE  /\ aScaled'[q][w] = aScaled[q][w]
             /\ q \in usingAsCollateral[w] <=> q \in usingAsCollateral'[w]
  <2> DEFINE e == 0 - s
  <2>1. e \in Int /\ UpdateStateAndMove({r}, r, u, e)
    BY <1>1, <1>2
  <2> HIDE DEF e
  <2>2. aScaled'[q][w] = aScaled[q][w]
    BY <1>5, <2>1, MovedRow
  <2>3. q \in usingAsCollateral[w] <=> q \in usingAsCollateral'[w]
    BY <1>2, <1>5, FlagRows
  <2> QED BY <2>2, <2>3
<1>6. CASE v # u
  <2>1. ASSUME NEW q \in Reserves
        PROVE  /\ aScaled[q][v] = aScaled'[q][v] /\ vScaled'[q][v] = vScaled[q][v]
               /\ stable'[q][v] = stable[q][v]
               /\ q \in usingAsCollateral[v] <=> q \in usingAsCollateral'[v]
               /\ q \in borrowing'[v] <=> q \in borrowing[v]
    BY <1>2, <1>5, <1>6 DEF debtVars
  <2> QED BY <1>2, <1>4, <2>1, KeptAside
<1>7. CASE v = u
  <2> DEFINE h == halfUnit(i)
             b == aScaled'[r][u]
             k == Threshold[r]
             p == price[r]
  <2>1. b = a - s /\ b \in Nat
    <3> DEFINE e == 0 - s
    <3>1. e \in Int /\ UpdateStateAndMove({r}, r, u, e)
      BY <1>1, <1>2
    <3> HIDE DEF e
    <3>2. b = a + e
      BY <3>1, MovedRow DEF a
    <3>3. b \in Nat
      BY DEF TypeOK, Ledger, Accounts
    <3> QED BY <1>1, <3>2, <3>3 DEF e
  <2>2. p \in Nat /\ k \in 0..PERCENTAGE_FACTOR /\ h \in Nat
    BY <1>1, MintRise, RowsNat, PercentagesAssumption
  <2>3. bal <= rayMul(b, i) + amt + h /\ rayMul(b, i) \in Nat
    <3>1. b + s = a
      BY <1>1, <2>1
    <3> HIDE DEF b, h
    <3>2. rayMul(b + s, i) <= rayMul(b, i) + amt + halfUnit(i)
      BY <1>1, <2>1, MintRise DEF s
    <3>3. rayMul(b, i) \in Nat
      BY <1>1, <2>1, RayNat
    <3> QED BY <1>3, <3>1, <3>2, <3>3 DEF h
  <2>4. ASSUME r \in CollateralOf(u)
        PROVE  worthOf(u, r) - ((p * amt) * k + PERCENTAGE_FACTOR * (p * h)) <= worthOf(u, r)'
    <3>1. worthOf(u, r) = (p * bal) * k
      BY <1>3, <2>4, AlwaysSpelt DEF Spelt, CollateralOf, a, i
    <3>2. CASE amt # bal
      <4>1. worthOf(u, r)' = (p * rayMul(b, i)) * k
        <5>1. r \in usingAsCollateral'[u] /\ k # 0
          BY <1>2, <2>4, <3>2 DEF CollateralOf
        <5>2. liquidityIndex'[r] = i /\ price'[r] = p
          BY <1>2, <1>4 DEF indexVars, i
        <5> QED BY <5>1, <5>2, AlwaysSpelt DEF Spelt
      <4> HIDE DEF b, h, k, p
      <4>2. (p * bal) * k - ((p * amt) * k + PERCENTAGE_FACTOR * (p * h))
               <= (p * rayMul(b, i)) * k
        BY <1>1, <2>2, <2>3, BurnWorth
      <4> QED BY <3>1, <4>1, <4>2
    <3>3. CASE amt = bal
      <4> HIDE DEF b, h, k, p
      <4>1. (p * bal) * k - ((p * amt) * k + PERCENTAGE_FACTOR * (p * h)) <= (p * 0) * k
        <5>1. bal <= 0 + amt + h
          BY <1>1, <2>2, <3>3
        <5> QED BY <1>1, <2>2, <5>1, BurnWorth
      <4>2. (p * 0) * k = 0
        BY <2>2
      <4>3. worthOf(u, r)' \in Nat
        BY MarginTyped DEF Typed
      <4> DEFINE x == (p * bal) * k
                 y == (p * amt) * k + PERCENTAGE_FACTOR * (p * h)
      <4>4. x \in Int /\ y \in Int
        <5> DEFINE m == p * bal
                   n == p * amt
                   o == p * h
        <5>1. m \in Nat /\ n \in Nat /\ o \in Nat /\ PERCENTAGE_FACTOR \in Nat /\ k \in Nat
          BY <1>1, <2>2, ProductNat, PercentageAssumption
        <5> HIDE DEF m, n, o
        <5>2. m * k \in Nat /\ n * k \in Nat /\ PERCENTAGE_FACTOR * o \in Nat
          BY <5>1, ProductNat
        <5>3. m * k \in Int /\ n * k + PERCENTAGE_FACTOR * o \in Int
          BY <5>2
        <5> QED BY <5>3 DEF m, n, o
      <4>5. x - y <= 0
        BY <4>1, <4>2
      <4> HIDE DEF x, y
      <4>6. x - y <= worthOf(u, r)'
        BY <4>3, <4>4, <4>5
      <4> QED BY <3>1, <4>6 DEF x, y
    <3> QED BY <3>2, <3>3
  <2>5. \A q \in Reserves \ {r} :
           /\ aScaled'[q][u] = aScaled[q][u]
           /\ q \in usingAsCollateral[u] => q \in usingAsCollateral'[u]
    BY <1>5
  <2>6. Healthy(u)
    BY <1>7
  <2>7. KeptFor(u)
    BY <1>1, <1>2, <1>4, <2>4, <2>5, <2>6, KeptDecrease DEF i
  <2> QED BY <1>7, <2>7
<1> QED BY <1>6, <1>7

(* setUserUseReserveAsCollateral unflags what it judged as withdrawn.      *)
LEMMA SetUseMargin ==
  ASSUME TypeOK, TypeOK', NEW u \in Users, NEW r \in Reserves, NEW use \in BOOLEAN,
         SetUserUseReserveAsCollateral(u, r, use), NEW v \in Users, Healthy(v)
  PROVE  KeptFor(v)
<1> DEFINE bal == aBalance(u, r)
           p == price[r]
           k == Threshold[r]
           h == halfUnit(liquidityIndex[r])
<1>1. /\ use \/ balanceDecreaseAllowed(u, r, bal)
      /\ setUsingAsCollateral(u, r, use)
      /\ UNCHANGED <<aTokenVars, debtVars, indexVars, borrowing, envVars>>
  BY DEF SetUserUseReserveAsCollateral
<1>2. bal \in Nat /\ p \in Nat /\ k \in 0..PERCENTAGE_FACTOR /\ h \in Nat
  BY BalancesNat, RowsNat, MintRise, PercentagesAssumption
<1>3. price' = price /\ aScaled' = aScaled
  BY <1>1 DEF envVars, aTokenVars
<1>4. CASE use \/ v # u
  <2>1. ASSUME NEW q \in Reserves
        PROVE  /\ aScaled[q][v] <= aScaled'[q][v] /\ liquidityIndex[q] <= liquidityIndex'[q]
               /\ q \in usingAsCollateral[v] => q \in usingAsCollateral'[v]
               /\ vScaled'[q][v] <= vScaled[q][v] /\ stable'[q][v] <= stable[q][v]
               /\ variableBorrowIndex'[q] = variableBorrowIndex[q]
               /\ q \in borrowing'[v] => q \in borrowing[v]
    <3>1. q \in usingAsCollateral[v] => q \in usingAsCollateral'[v]
      BY <1>1, <1>4, FlagRows
    <3> QED BY <1>1, <1>3, <3>1, RowsNat DEF indexVars, debtVars
  <2> QED BY <1>3, <2>1, KeptUntouched
<1>5. CASE ~use /\ v = u
  <2>1. balanceDecreaseAllowed(u, r, bal)
    BY <1>1, <1>5
  <2>2. \A q \in Reserves \ {r} :
           /\ aScaled'[q][u] = aScaled[q][u]
           /\ q \in usingAsCollateral[u] => q \in usingAsCollateral'[u]
    BY <1>1, <1>3, FlagRows
  <2>3. worthOf(u, r) - ((p * bal) * k + PERCENTAGE_FACTOR * (p * h)) <= worthOf(u, r)'
    <3>1. worthOf(u, r) = 0 \/ worthOf(u, r) = (p * bal) * k
      BY AlwaysSpelt DEF Spelt, aBalance
    <3>2. worthOf(u, r)' \in Nat
      BY MarginTyped DEF Typed
    <3> HIDE DEF bal, p, k, h
    <3> DEFINE x == (p * bal) * k
               y == PERCENTAGE_FACTOR * (p * h)
    <3>3. x \in Nat /\ y \in Nat
      <4> DEFINE m == p * bal
                 o == p * h
      <4>1. m \in Nat /\ o \in Nat /\ PERCENTAGE_FACTOR \in Nat /\ k \in Nat
        BY <1>2, ProductNat, PercentageAssumption
      <4> HIDE DEF m, o
      <4>2. m * k \in Nat /\ PERCENTAGE_FACTOR * o \in Nat
        BY <4>1, ProductNat
      <4> QED BY <4>2 DEF m, o
    <3> HIDE DEF x, y
    <3>4. worthOf(u, r) - (x + y) <= worthOf(u, r)'
      BY <3>1, <3>2, <3>3 DEF x
    <3> QED BY <3>4 DEF x, y
  <2>4. Healthy(u)
    BY <1>5
  <2>5. UNCHANGED <<debtVars, indexVars, borrowing>>
    BY <1>1
  <2> HIDE DEF bal
  <2>6. KeptFor(u)
    BY <1>2, <1>3, <2>1, <2>2, <2>3, <2>4, <2>5, KeptDecrease
  <2> QED BY <1>5, <2>6
<1> QED BY <1>4, <1>5

(* No reserve lends beyond its threshold, so the Ltv average covers less.  *)
LEMMA LtvCovers ==
  ASSUME TypeOK, NEW u \in Users
  PROVE  Weighted(Ltv, aScaled, u) <= worth(u)
<1> DEFINE f == [r \in Reserves |-> CollateralValue(aScaled, u, r) * Ltv[r]]
           g == [r \in Reserves |-> CollateralValue(aScaled, u, r) * Threshold[r]]
<1>1. ASSUME NEW r \in Reserves PROVE f[r] \in Nat /\ g[r] \in Nat /\ f[r] <= g[r]
  <2> DEFINE x == CollateralValue(aScaled, u, r)
             l == Ltv[r]
             k == Threshold[r]
  <2>1. x \in Nat /\ l \in Nat /\ k \in Nat /\ l <= k
    BY LedgerValues, PercentagesAssumption DEF TypeOK
  <2>2. f[r] = x * l /\ g[r] = x * k
    OBVIOUS
  <2> HIDE DEF x, l, k, f, g
  <2> QED BY <2>1, <2>2, ProductMonotone
<1>2. f \in [Reserves -> Nat] /\ g \in [Reserves -> Nat]
  BY <1>1
<1>3. Weighted(Ltv, aScaled, u) = SumFunction(f) /\ worth(u) = SumFunction(g)
  BY DEF Weighted, worth
<1> HIDE DEF f, g
<1> QED BY <1>1, <1>2, <1>3, ReservesAssumption, SumMonotone

(* What validateBorrow grants is covered together with the debt there is.  *)
LEMMA BorrowCovered ==
  ASSUME TypeOK, NEW u \in Users, NEW r \in Reserves, NEW amount \in Nat, NEW mode,
         validateBorrow(u, r, amount, mode)
  PROVE  PERCENTAGE_FACTOR * (totalDebtInETH(u) + price[r] * amount) <= worth(u) + Slack(u)
<1> DEFINE c == totalCollateralInETH(aScaled, u)
           x == totalDebtInETH(u) + price[r] * amount
           l == WeightedAverage(Ltv, aScaled, u)
           w == worth(u)
<1>1. c \in Nat /\ l \in Nat /\ l <= PERCENTAGE_FACTOR /\ c * l <= Weighted(Ltv, aScaled, u)
      /\ Weighted(Ltv, aScaled, u) \in Nat
  <2>1. aScaled \in Ledger /\ Ltv \in [Reserves -> 0..PERCENTAGE_FACTOR]
    BY PercentagesAssumption DEF TypeOK
  <2> QED BY <2>1, LedgerValues, Averages
<1>2. c * l <= w /\ w \in Nat /\ c * l \in Nat
  <2>1. Weighted(Ltv, aScaled, u) <= w /\ w \in Nat
    BY LtvCovers, MarginTyped DEF Typed
  <2> HIDE DEF c, l, w
  <2>2. c * l \in Nat
    BY <1>1, ProductNat
  <2> QED BY <1>1, <2>1, <2>2
<1>3. x \in Nat
  <2>1. totalDebtInETH(u) \in Nat /\ price[r] \in Nat
    BY MarginTyped, RowsNat DEF Typed
  <2>2. price[r] * amount \in Nat
    BY <2>1, ProductNat
  <2> QED BY <2>1, <2>2
<1>4. l # 0 /\ percentDiv(x, l) <= c
  BY DEF validateBorrow
<1>5. PERCENTAGE_FACTOR <= Slack(u) /\ Slack(u) \in Nat /\ PERCENTAGE_FACTOR \in Nat
  BY DustParts, PercentageAssumption
<1> HIDE DEF c, x, l, w
<1>6. PERCENTAGE_FACTOR * x <= c * l + l
  BY <1>1, <1>3, <1>4, PercentDivCovers
<1> DEFINE y == PERCENTAGE_FACTOR * x
           z == c * l
<1>7. y \in Nat /\ z \in Nat /\ z <= w /\ y <= z + l
  BY <1>2, <1>3, <1>5, <1>6, ProductNat
<1> HIDE DEF y, z
<1>8. y <= w + Slack(u)
  BY <1>1, <1>2, <1>5, <1>7
<1> QED BY <1>8 DEF y, x, w

(* A debt that grows by e units grows by e prices, flagged or not before.  *)
LEMMA DebtRise ==
  ASSUME TypeOK, TypeOK', DebtFlagged, NEW u \in Users, NEW r \in Reserves, NEW e \in Nat,
         price' = price, variableBorrowIndex' = variableBorrowIndex,
         stable'[r][u] + rayMul(vScaled'[r][u], variableBorrowIndex[r])
           <= currentDebt(u, r) + e
  PROVE  DebtValue(u, r)' <= DebtValue(u, r) + price[r] * e
<1> DEFINE p == price[r]
           y == currentDebt(u, r)
           z == stable'[r][u] + rayMul(vScaled'[r][u], variableBorrowIndex[r])
<1>1. p \in Nat /\ y \in Nat
  BY RowsNat, BalancesNat
<1>2. z \in Nat
  <2>1. u \in Accounts
    BY DEF Accounts
  <2>2. stable'[r][u] \in Nat /\ vScaled'[r][u] \in Nat /\ variableBorrowIndex[r] \in Nat
    BY <2>1 DEF TypeOK, Ledger
  <2>3. rayMul(vScaled'[r][u], variableBorrowIndex[r]) \in Nat
    BY <2>2, RayNat
  <2> QED BY <2>2, <2>3
<1>3. z <= y + e
  OBVIOUS
<1>4. DebtValue(u, r)' = IF r \in borrowing'[u] THEN p * z ELSE 0
  BY AlwaysSpelt DEF Spelt
<1>5. DebtValue(u, r) = p * y
  <2>1. DebtValue(u, r) = IF r \in borrowing[u] THEN p * y ELSE 0
    BY DEF DebtValue
  <2>2. CASE r \notin borrowing[u]
    <3>1. stable[r][u] = 0 /\ vScaled[r][u] = 0
      BY <2>2, RowsNat DEF DebtFlagged
    <3>2. variableDebt(u, r) = 0
      <4>1. variableDebt(u, r) \in Nat /\ ~(variableDebt(u, r) > 0)
        BY <3>1, VariableDebtPositive, BalancesNat
      <4> QED BY <4>1
    <3>3. y = 0
      BY <3>1, <3>2 DEF currentDebt
    <3> HIDE DEF y
    <3> QED BY <1>1, <2>1, <2>2, <3>3
  <2> QED BY <2>1, <2>2
<1> HIDE DEF p, y, z
<1>6. p * z <= p * (y + e) /\ p * z \in Nat /\ p * (y + e) \in Nat
  <2>1. y + e \in Nat
    BY <1>1
  <2> QED BY <1>1, <1>2, <1>3, <2>1, ProductMonotone
<1>7. p * (y + e) = p * y + p * e /\ p * y \in Nat /\ p * e \in Nat
  BY <1>1, ProductNat
<1>8. DebtValue(u, r)' <= p * y + p * e
  BY <1>4, <1>6, <1>7
<1> QED BY <1>5, <1>8 DEF p

(* Collateral none of which is moved or unflagged keeps its worth.         *)
LEMMA WorthKept ==
  ASSUME TypeOK, TypeOK', NEW r \in Reserves, NEW v \in Users, price' = price,
         \A q \in Reserves :
           /\ aScaled[q][v] <= aScaled'[q][v] /\ liquidityIndex[q] <= liquidityIndex'[q]
           /\ q \in usingAsCollateral[v] => q \in usingAsCollateral'[v]
  PROVE  worth(v) <= worth(v)'
<1>1. \A q \in Reserves : worthOf(v, q) <= worthOf(v, q)'
  BY WorthAt
<1>2. worth(v) \in Nat /\ worth(v)' \in Nat /\ worthOf(v, r) \in Nat /\ worthOf(v, r)' \in Nat
  BY MarginTyped DEF Typed
<1>3. worthOf(v, r) - 0 <= worthOf(v, r)' /\ 0 \in Int
  BY <1>1, <1>2
<1>4. worth(v) - 0 <= worth(v)'
  BY <1>1, <1>3, WorthMoves
<1> QED BY <1>2, <1>4

(* A debt that grows in one reserve only, by e units.                      *)
LEMMA DebtGrows ==
  ASSUME TypeOK, TypeOK', DebtFlagged, NEW u \in Users, NEW r \in Reserves, NEW e \in Nat,
         price' = price, variableBorrowIndex' = variableBorrowIndex,
         \A q \in Reserves \ {r} :
           /\ vScaled'[q][u] = vScaled[q][u] /\ stable'[q][u] = stable[q][u]
           /\ q \in borrowing'[u] => q \in borrowing[u],
         stable'[r][u] + rayMul(vScaled'[r][u], variableBorrowIndex[r])
           <= currentDebt(u, r) + e
  PROVE  totalDebtInETH(u)' <= totalDebtInETH(u) + price[r] * e
<1>1. \A q \in Reserves \ {r} : DebtValue(u, q)' <= DebtValue(u, q)
  <2> TAKE q \in Reserves \ {r}
  <2>1. /\ vScaled'[q][u] <= vScaled[q][u] /\ stable'[q][u] <= stable[q][u]
        /\ variableBorrowIndex'[q] = variableBorrowIndex[q]
        /\ q \in borrowing'[u] => q \in borrowing[u]
    BY RowsNat
  <2> QED BY <2>1, DebtAt
<1>2. DebtValue(u, r)' <= DebtValue(u, r) + price[r] * e
  BY DebtRise
<1> DEFINE x == price[r] * e
<1>3. x \in Int
  <2>1. x \in Nat
    BY RowsNat, ProductNat
  <2> QED BY <2>1
<1> HIDE DEF x
<1>4. totalDebtInETH(u)' <= totalDebtInETH(u) + x
  BY <1>1, <1>2, <1>3, DebtMoves DEF x
<1> QED BY <1>4 DEF x

(* A mint of debt adds the amount, and half a scaled unit at most.         *)
LEMMA MintDebt ==
  ASSUME TypeOK, NEW u \in Users, NEW r \in Reserves, NEW amount \in Nat
  PROVE  /\ halfUnit(variableBorrowIndex[r]) \in Nat
         /\ MintVariable(u, r, amount) =>
              /\ rayMul(vScaled'[r][u], variableBorrowIndex[r])
                   <= variableDebt(u, r) + amount + halfUnit(variableBorrowIndex[r])
              /\ rayMul(vScaled'[r][u], variableBorrowIndex[r]) \in Nat
         /\ MintStable(u, r, amount) => stable'[r][u] = stable[r][u] + amount
<1> DEFINE i == variableBorrowIndex[r]
           n == vScaled[r][u]
           s == rayDiv(amount, i)
<1>1. i \in Nat /\ i >= RAY /\ n \in Nat /\ u \in Accounts
  BY RowsNat DEF Accounts
<1>2. s \in Nat
  BY ScaledNat
<1>3. MintVariable(u, r, amount) => vScaled'[r][u] = n + s
  BY <1>1 DEF MintVariable, TypeOK, Ledger
<1>4. MintStable(u, r, amount) => stable'[r][u] = stable[r][u] + amount
  BY <1>1 DEF MintStable, TypeOK, Ledger
<1>5. variableDebt(u, r) = rayMul(n, i)
  BY DEF variableDebt
<1> HIDE DEF i, n
<1>6. halfUnit(i) \in Nat /\ rayMul(n + s, i) <= rayMul(n, i) + amount + halfUnit(i)
  BY <1>1, MintRise
<1>7. rayMul(n + s, i) \in Nat
  <2> HIDE DEF s
  <2>1. n + s \in Nat
    BY <1>1, <1>2
  <2> QED BY <1>1, <2>1, RayNat
<1> HIDE DEF s
<1> QED BY <1>3, <1>4, <1>5, <1>6, <1>7 DEF i

(* borrow, and a flash loan kept as a debt: validateBorrow counted the debt. *)
LEMMA ExecuteBorrowMargin ==
  ASSUME TypeOK, TypeOK', DebtFlagged, NEW u \in Users, NEW r \in Reserves,
         NEW amount \in Nat, NEW mode, ExecuteBorrow(u, r, amount, mode),
         NEW v \in Users, Healthy(v)
  PROVE  KeptFor(v)
<1>1. /\ validateBorrow(u, r, amount, mode)
      /\ aScaled' = updatedScaled({r})
      /\ UNCHANGED <<indexVars, usingAsCollateral, envVars>>
      /\ \/ MintStable(u, r, amount) /\ vScaled' = vScaled
         \/ MintVariable(u, r, amount) /\ stable' = stable
      /\ setBorrowing(u, r, TRUE) \/ UNCHANGED borrowing
  BY Zenon DEF ExecuteBorrow, UpdateState
<1>2. price' = price /\ liquidityIndex' = liquidityIndex
      /\ variableBorrowIndex' = variableBorrowIndex /\ usingAsCollateral' = usingAsCollateral
  BY <1>1 DEF envVars, indexVars
<1>3. \A w \in Users, q \in Reserves : aScaled'[q][w] = aScaled[q][w]
  BY <1>1, UserRows
<1>4. ASSUME NEW w \in Users, NEW q \in Reserves, <<q, w>> # <<r, u>>
      PROVE  /\ vScaled'[q][w] = vScaled[q][w] /\ stable'[q][w] = stable[q][w]
             /\ q \in borrowing'[w] <=> q \in borrowing[w]
  <2>1. vScaled'[q][w] = vScaled[q][w]
    <3>1. CASE vScaled' = vScaled
      BY <3>1
    <3>2. CASE MintVariable(u, r, amount)
      BY <1>4, <3>2, MintVariableLocal
    <3> QED BY <1>1, <3>1, <3>2
  <2>2. stable'[q][w] = stable[q][w]
    <3>1. CASE stable' = stable
      BY <3>1
    <3>2. CASE MintStable(u, r, amount)
      BY <1>4, <3>2, MintStableLocal
    <3> QED BY <1>1, <3>1, <3>2
  <2>3. q \in borrowing'[w] <=> q \in borrowing[w]
    <3>1. CASE setBorrowing(u, r, TRUE)
      BY <1>4, <3>1, FlagRows
    <3>2. CASE UNCHANGED borrowing
      BY <3>2
    <3> QED BY <1>1, <3>1, <3>2
  <2> QED BY <2>1, <2>2, <2>3
<1>5. CASE v # u
  <2>1. \A q \in Reserves :
          /\ aScaled[q][v] = aScaled'[q][v] /\ vScaled'[q][v] = vScaled[q][v]
          /\ stable'[q][v] = stable[q][v]
          /\ q \in usingAsCollateral[v] <=> q \in usingAsCollateral'[v]
          /\ q \in borrowing'[v] <=> q \in borrowing[v]
    BY <1>2, <1>3, <1>4, <1>5
  <2> QED BY <1>1, <1>2, <2>1, KeptAside
<1>6. CASE v = u
  <2> DEFINE P == PERCENTAGE_FACTOR
             p == price[r]
             D == totalDebtInETH(u)
             h == halfUnit(variableBorrowIndex[r])
             x == p * amount
             y == p * h
             e == amount + h
  <2>1. /\ D \in Nat /\ p \in Nat /\ h \in Nat /\ P \in Nat /\ x \in Nat /\ y \in Nat
        /\ p * e = x + y /\ e \in Nat
    <3>1. D \in Nat /\ p \in Nat /\ h \in Nat /\ P \in Nat
      BY MarginTyped, RowsNat, MintDebt, PercentageAssumption DEF Typed
    <3> HIDE DEF p, h
    <3> QED BY <3>1, ProductNat
  <2>2. worth(u) <= worth(u)'
    <3>1. \A q \in Reserves :
            /\ aScaled[q][u] <= aScaled'[q][u] /\ liquidityIndex[q] <= liquidityIndex'[q]
            /\ q \in usingAsCollateral[u] => q \in usingAsCollateral'[u]
      BY <1>2, <1>3, RowsNat
    <3> QED BY <1>2, <3>1, WorthKept
  <2>3. stable'[r][u] + rayMul(vScaled'[r][u], variableBorrowIndex[r]) <= currentDebt(u, r) + e
    <3>1. /\ stable[r][u] \in Nat /\ variableDebt(u, r) \in Nat
          /\ currentDebt(u, r) = stable[r][u] + variableDebt(u, r)
      BY BalancesNat DEF currentDebt
    <3>2. CASE MintStable(u, r, amount) /\ vScaled' = vScaled
      <4>1. rayMul(vScaled'[r][u], variableBorrowIndex[r]) = variableDebt(u, r)
        BY <3>2 DEF variableDebt
      <4>2. stable'[r][u] = stable[r][u] + amount
        BY <3>2, MintDebt
      <4> HIDE DEF h
      <4> QED BY <2>1, <3>1, <4>1, <4>2
    <3>3. CASE MintVariable(u, r, amount) /\ stable' = stable
      <4> DEFINE z == rayMul(vScaled'[r][u], variableBorrowIndex[r])
      <4>1. z <= variableDebt(u, r) + amount + h /\ z \in Nat
        BY <3>3, MintDebt
      <4>2. stable'[r][u] = stable[r][u]
        BY <3>3
      <4> HIDE DEF h, z
      <4>3. stable'[r][u] + z <= currentDebt(u, r) + e
        BY <2>1, <3>1, <4>1, <4>2
      <4> QED BY <4>3 DEF z
    <3> QED BY <1>1, <3>2, <3>3
  <2>4. totalDebtInETH(u)' <= D + (x + y)
    <3>1. \A q \in Reserves \ {r} :
            /\ vScaled'[q][u] = vScaled[q][u] /\ stable'[q][u] = stable[q][u]
            /\ q \in borrowing'[u] => q \in borrowing[u]
      BY <1>4
    <3> HIDE DEF e
    <3>2. totalDebtInETH(u)' <= D + price[r] * e
      BY <1>2, <2>1, <2>3, <3>1, DebtGrows
    <3> QED BY <2>1, <3>2
  <2>5. P * (D + x) <= worth(u) + Slack(u)
    BY <1>1, BorrowCovered
  <2>6. Slack(u) + P * y <= Dust(u) /\ Slack(u) \in Nat /\ Dust(u) \in Nat
    BY DustParts
  <2>7. worth(u) \in Nat /\ worth(u)' \in Nat
    BY MarginTyped DEF Typed
  <2> HIDE DEF P, p, D, h, x, y, e
  <2>8. P * (D + (x + y)) = P * (D + x) + P * y /\ P * (D + x) \in Nat /\ P * y \in Nat
    <3>1. P * (D + x) \in Nat /\ P * y \in Nat
      <4>1. D + x \in Nat
        BY <2>1
      <4> QED BY <2>1, <4>1, ProductNat
    <3>2. P * (D + (x + y)) = P * (D + x) + P * y
      BY <2>1
    <3> QED BY <3>1, <3>2
  <2>9. P * (D + (x + y)) <= worth(u)' + Dust(u)
    <3> DEFINE k == P * (D + x)
               l == P * y
               m == worth(u)'
    <3>1. /\ k \in Nat /\ l \in Nat /\ m \in Nat /\ k <= worth(u) + Slack(u)
          /\ Slack(u) + l <= Dust(u) /\ worth(u) <= m
      BY <2>2, <2>5, <2>6, <2>7, <2>8
    <3> HIDE DEF k, l, m
    <3>2. k + l <= m + Dust(u)
      BY <2>6, <2>7, <3>1
    <3> QED BY <2>8, <3>2 DEF k, l, m
  <2>10. D + (x + y) \in Nat
    BY <2>1
  <2>11. KeptFor(u)
    BY <2>4, <2>9, <2>10, KeptIf DEF P
  <2> QED BY <1>6, <2>11
<1> QED BY <1>5, <1>6

(* An account whose collateral stays and whose debts fall.                 *)
LEMMA KeptByBurns ==
  ASSUME TypeOK, TypeOK', NEW r \in Reserves, NEW v \in Users, Healthy(v),
         UNCHANGED <<price, indexVars, usingAsCollateral>>,
         \A q \in Reserves :
           /\ aScaled[q][v] = aScaled'[q][v]
           /\ vScaled'[q][v] <= vScaled[q][v] /\ stable'[q][v] <= stable[q][v]
           /\ q \in borrowing'[v] => q \in borrowing[v]
  PROVE  KeptFor(v)
<1>1. ASSUME NEW q \in Reserves
      PROVE  /\ aScaled[q][v] <= aScaled'[q][v] /\ liquidityIndex[q] <= liquidityIndex'[q]
             /\ q \in usingAsCollateral[v] => q \in usingAsCollateral'[v]
             /\ vScaled'[q][v] <= vScaled[q][v] /\ stable'[q][v] <= stable[q][v]
             /\ variableBorrowIndex'[q] = variableBorrowIndex[q]
             /\ q \in borrowing'[v] => q \in borrowing[v]
  BY RowsNat DEF indexVars
<1> QED BY <1>1, KeptUntouched

(* repay only burns debt.                                                  *)
LEMMA RepayMargin ==
  ASSUME TypeOK, TypeOK', NEW u \in Users, NEW r \in Reserves,
         NEW amount \in Amounts \cup {UintMax}, NEW mode \in Modes, NEW self,
         Repay(u, r, amount, mode, self), NEW v \in Users, Healthy(v)
  PROVE  KeptFor(v)
<1> DEFINE debt == IF mode = "stable" THEN stable[r][u] ELSE variableDebt(u, r)
           payback == IF amount < debt THEN amount ELSE debt
<1>1. payback \in Nat
  <2>1. stable[r][u] \in Nat /\ variableDebt(u, r) \in Nat /\ amount \in Nat
    BY BalancesNat, AmountsAssumption
  <2> QED BY <2>1
<1>2. /\ IF mode = "stable"
           THEN BurnStable(u, r, payback) /\ UNCHANGED <<vScaled, vTotal>>
           ELSE BurnVariable(u, r, payback) /\ UNCHANGED <<stable, sTotal>>
      /\ setBorrowing(u, r, FALSE) \/ UNCHANGED borrowing
      /\ aScaled' = updatedScaled({r})
      /\ UNCHANGED <<indexVars, usingAsCollateral, envVars>>
  BY DEF Repay, UpdateState
<1> HIDE DEF payback
<1>3. ASSUME NEW q \in Reserves
      PROVE  /\ aScaled[q][v] = aScaled'[q][v]
             /\ vScaled'[q][v] <= vScaled[q][v] /\ stable'[q][v] <= stable[q][v]
             /\ q \in borrowing'[v] => q \in borrowing[v]
  <2>1. aScaled[q][v] = aScaled'[q][v]
    BY <1>2, UserRows
  <2>2. vScaled'[q][v] <= vScaled[q][v] /\ stable'[q][v] <= stable[q][v]
    <3>1. CASE BurnStable(u, r, payback) /\ vScaled' = vScaled
      BY <1>1, <3>1, BurnStableLocal, RowsNat
    <3>2. CASE BurnVariable(u, r, payback) /\ stable' = stable
      BY <1>1, <3>2, BurnVariableLocal, RowsNat
    <3> QED BY <1>2, <3>1, <3>2
  <2>3. q \in borrowing'[v] => q \in borrowing[v]
    BY <1>2, FlagRows
  <2> QED BY <2>1, <2>2, <2>3
<1>4. UNCHANGED <<price, indexVars, usingAsCollateral>>
  BY <1>2 DEF envVars
<1> QED BY <1>3, <1>4, KeptByBurns

(* rebalanceStableBorrowRate leaves balances and debts as they are.        *)
LEMMA RebalanceMargin ==
  ASSUME TypeOK, TypeOK', NEW u \in Users, NEW r \in Reserves,
         RebalanceStableBorrowRate(u, r), NEW v \in Users, Healthy(v)
  PROVE  KeptFor(v)
<1>1. aScaled' = updatedScaled({r}) /\ UNCHANGED <<debtVars, indexVars, configVars, envVars>>
  BY DEF RebalanceStableBorrowRate, UpdateState
<1>2. \A q \in Reserves : aScaled[q][v] = aScaled'[q][v]
  BY <1>1, UserRows
<1> QED BY <1>1, <1>2, KeptAside DEF debtVars, configVars, envVars

(* flashLoan moves cash only.                                              *)
LEMMA FlashLoanMargin ==
  ASSUME TypeOK, TypeOK', NEW receiver, NEW r \in Reserves, NEW amount,
         FlashLoan(receiver, r, amount), NEW v \in Users, Healthy(v)
  PROVE  KeptFor(v)
  BY KeptAside DEF FlashLoan, aTokenVars, debtVars, configVars, envVars

(* A debt that changes mode is the same debt, but for half a scaled unit.  *)
LEMMA SwapDebt ==
  ASSUME TypeOK, NEW u \in Users, NEW r \in Reserves, NEW mode \in Modes,
         SwapBorrowRateMode(u, r, mode)
  PROVE  stable'[r][u] + rayMul(vScaled'[r][u], variableBorrowIndex[r])
           <= currentDebt(u, r) + halfUnit(variableBorrowIndex[r])
<1> DEFINE x == stable[r][u]
           y == variableDebt(u, r)
           h == halfUnit(variableBorrowIndex[r])
           z == rayMul(vScaled'[r][u], variableBorrowIndex[r])
<1>1. x \in Nat /\ y \in Nat /\ h \in Nat /\ currentDebt(u, r) = x + y
  BY BalancesNat, MintDebt DEF currentDebt
<1>2. \/ BurnStable(u, r, x) /\ MintVariable(u, r, x)
      \/ BurnVariable(u, r, y) /\ MintStable(u, r, y)
  BY DEF SwapBorrowRateMode, Modes
<1> HIDE DEF h, y
<1>3. CASE BurnStable(u, r, x) /\ MintVariable(u, r, x)
  <2>1. stable'[r][u] = 0
    BY <1>1, <1>3, BurnStableLocal
  <2>2. z <= y + x + h /\ z \in Nat
    BY <1>1, <1>3, MintDebt DEF y, h
  <2> HIDE DEF x, z
  <2>3. stable'[r][u] + z <= (x + y) + h
    BY <1>1, <2>1, <2>2
  <2> QED BY <1>1, <2>3 DEF z, h
<1>4. CASE BurnVariable(u, r, y) /\ MintStable(u, r, y)
  <2>1. stable'[r][u] = x + y
    BY <1>1, <1>4, MintDebt
  <2>2. z = 0
    <3>1. vScaled'[r][u] = vScaled[r][u] - rayDiv(y, variableBorrowIndex[r])
      BY <1>1, <1>4, BurnVariableLocal
    <3>2. rayDiv(y, variableBorrowIndex[r]) = vScaled[r][u] /\ vScaled[r][u] \in Nat
      BY VariableDebtPositive, RowsNat DEF y
    <3>3. vScaled'[r][u] = 0
      BY <3>1, <3>2
    <3> QED BY <3>3, RowsNat, MulZero
  <2> HIDE DEF x, z
  <2>3. stable'[r][u] + z <= (x + y) + h
    BY <1>1, <2>1, <2>2
  <2> QED BY <1>1, <2>3 DEF z, h
<1> QED BY <1>2, <1>3, <1>4

(* swapBorrowRateMode changes no collateral.                               *)
LEMMA SwapMargin ==
  ASSUME TypeOK, TypeOK', DebtFlagged, NEW u \in Users, NEW r \in Reserves,
         NEW mode \in Modes, SwapBorrowRateMode(u, r, mode), NEW v \in Users, Healthy(v)
  PROVE  KeptFor(v)
<1>1. aScaled' = updatedScaled({r}) /\ UNCHANGED <<indexVars, configVars, envVars>>
  BY DEF SwapBorrowRateMode, UpdateState
<1>2. /\ price' = price /\ variableBorrowIndex' = variableBorrowIndex
      /\ liquidityIndex' = liquidityIndex
      /\ usingAsCollateral' = usingAsCollateral /\ borrowing' = borrowing
  BY <1>1 DEF indexVars, configVars, envVars
<1>3. \A w \in Users, q \in Reserves : aScaled[q][w] = aScaled'[q][w]
  BY <1>1, UserRows
<1>4. ASSUME NEW w \in Users, NEW q \in Reserves, <<q, w>> # <<r, u>>
      PROVE  vScaled'[q][w] = vScaled[q][w] /\ stable'[q][w] = stable[q][w]
  <2> DEFINE debt == IF mode = "stable" THEN stable[r][u] ELSE variableDebt(u, r)
  <2>1. debt \in Nat
    BY BalancesNat
  <2>2. \/ BurnStable(u, r, debt) /\ MintVariable(u, r, debt)
        \/ BurnVariable(u, r, debt) /\ MintStable(u, r, debt)
    BY DEF SwapBorrowRateMode
  <2> HIDE DEF debt
  <2>3. CASE BurnStable(u, r, debt) /\ MintVariable(u, r, debt)
    <3>1. stable'[q][w] = stable[q][w]
      BY <1>4, <2>1, <2>3, BurnStableLocal
    <3>2. vScaled'[q][w] = vScaled[q][w]
      BY <1>4, <2>3, MintVariableLocal
    <3> QED BY <3>1, <3>2
  <2>4. CASE BurnVariable(u, r, debt) /\ MintStable(u, r, debt)
    <3>1. vScaled'[q][w] = vScaled[q][w]
      BY <1>4, <2>1, <2>4, BurnVariableLocal
    <3>2. stable'[q][w] = stable[q][w]
      BY <1>4, <2>4, MintStableLocal
    <3> QED BY <3>1, <3>2
  <2> QED BY <2>2, <2>3, <2>4, Zenon
<1>5. CASE v # u
  <2>1. \A q \in Reserves :
          /\ aScaled[q][v] = aScaled'[q][v] /\ vScaled'[q][v] = vScaled[q][v]
          /\ stable'[q][v] = stable[q][v]
          /\ q \in usingAsCollateral[v] <=> q \in usingAsCollateral'[v]
          /\ q \in borrowing'[v] <=> q \in borrowing[v]
    BY <1>2, <1>3, <1>4, <1>5
  <2> QED BY <1>1, <1>2, <2>1, KeptAside
<1>6. CASE v = u
  <2> DEFINE h == halfUnit(variableBorrowIndex[r])
             f == price[r] * h
  <2>1. worth(u) <= worth(u)'
    <3>1. \A q \in Reserves :
            /\ aScaled[q][u] <= aScaled'[q][u] /\ liquidityIndex[q] <= liquidityIndex'[q]
            /\ q \in usingAsCollateral[u] => q \in usingAsCollateral'[u]
      BY <1>2, <1>3, RowsNat
    <3> QED BY <1>2, <3>1, WorthKept
  <2>2. h \in Nat
    BY MintDebt, AmountsAssumption
  <2>3. totalDebtInETH(u)' <= totalDebtInETH(u) + f
    <3>1. \A q \in Reserves \ {r} :
            /\ vScaled'[q][u] = vScaled[q][u] /\ stable'[q][u] = stable[q][u]
            /\ q \in borrowing'[u] => q \in borrowing[u]
      BY <1>2, <1>4
    <3>2. stable'[r][u] + rayMul(vScaled'[r][u], variableBorrowIndex[r])
            <= currentDebt(u, r) + h
      BY SwapDebt
    <3> HIDE DEF h
    <3> QED BY <1>2, <2>2, <3>1, <3>2, DebtGrows
  <2>4. Slack(u) + PERCENTAGE_FACTOR * f <= Dust(u) /\ f \in Nat
    BY DustParts
  <2> HIDE DEF f
  <2>5. Healthy(u)
    BY <1>6
  <2>6. KeptFor(u)
    BY <2>1, <2>3, <2>4, <2>5, KeptByMoves
  <2> QED BY <1>6, <2>6
<1> QED BY <1>5, <1>6

(* The balances of users after a move of s from one to another.            *)
LEMMA MoveRows ==
  ASSUME NEW F \in Ledger, NEW from \in Users, NEW to \in Users, NEW r \in Reserves,
         NEW s \in Nat, s <= F[r][from], NEW v \in Users, NEW q \in Reserves
  PROVE  /\ moved(F, from, to, r, s)[q][v] \in Nat
         /\ v # from \/ q # r => F[q][v] <= moved(F, from, to, r, s)[q][v]
         /\ from # to => moved(F, from, to, r, s)[r][from] = F[r][from] - s
<1> DEFINE G == [F EXCEPT ![r][from] = @ - s]
<1>1. from \in Accounts /\ to \in Accounts /\ v \in Accounts
  BY DEF Accounts
<1>2. G \in [Reserves -> [Accounts -> Nat]]
  BY <1>1 DEF Ledger
<1>3. moved(F, from, to, r, s) = [G EXCEPT ![r][to] = @ + s]
  BY DEF moved
<1>4. /\ v # from \/ q # r => G[q][v] = F[q][v]
      /\ G[r][from] = F[r][from] - s /\ G[q][v] \in Nat /\ F[q][v] \in Nat
  BY <1>1 DEF Ledger
<1> HIDE DEF G
<1>5. moved(F, from, to, r, s)[q][v]
        = IF q = r /\ v = to THEN G[q][v] + s ELSE G[q][v]
  BY <1>1, <1>2, <1>3
<1>6. from # to => moved(F, from, to, r, s)[r][from] = G[r][from]
  BY <1>1, <1>2, <1>3
<1> QED BY <1>4, <1>5, <1>6

(* finalizeTransfer judged the sender by the balances the transfer leaves. *)
LEMMA TransferMargin ==
  ASSUME TypeOK, TypeOK', NEW from \in Users, NEW to \in Users, NEW r \in Reserves,
         NEW amount \in Amounts, Transfer(from, to, r, amount), NEW v \in Users, Healthy(v)
  PROVE  KeptFor(v)
<1> DEFINE s == rayDiv(amount, liquidityIndex[r])
           emptied == from # to /\ aBalance(from, r) = amount
           first == from # to /\ aBalance(to, r) = 0 /\ amount # 0
<1>1. s \in Nat
  BY AmountsAssumption, ScaledNat
<1>2. /\ s <= aScaled[r][from]
      /\ HealthyWith(moved(aScaled, from, to, r, s), from)
      /\ aScaled' = moved(aScaled, from, to, r, s)
      /\ usingAsCollateral' =
           [[usingAsCollateral EXCEPT ![from] = IF emptied THEN @ \ {r} ELSE @]
              EXCEPT ![to] = IF first THEN @ \cup {r} ELSE @]
      /\ UNCHANGED <<debtVars, indexVars, borrowing, envVars>>
  BY DEF Transfer, movedScaled
<1>3. emptied => s = aScaled[r][from] /\ from # to
  <2>1. rayDiv(aBalance(from, r), liquidityIndex[r]) = aScaled[r][from]
    BY RowsNat, RoundTrip DEF aBalance
  <2> QED BY <2>1
<1> HIDE DEF s, first, emptied
<1>4. /\ price' = price /\ liquidityIndex' = liquidityIndex
      /\ variableBorrowIndex' = variableBorrowIndex
      /\ vScaled' = vScaled /\ stable' = stable /\ borrowing' = borrowing
  BY <1>2 DEF debtVars, indexVars, envVars
<1>5. aScaled \in Ledger /\ moved(aScaled, from, to, r, s) \in Ledger
      /\ usingAsCollateral \in [Accounts -> SUBSET Reserves]
      /\ from \in Accounts /\ to \in Accounts /\ v \in Accounts
  <2>1. from \in Accounts /\ to \in Accounts /\ v \in Accounts
    BY DEF Accounts
  <2>2. aScaled \in Ledger /\ usingAsCollateral \in [Accounts -> SUBSET Reserves]
    BY DEF TypeOK
  <2> QED BY <1>1, <1>2, <2>1, <2>2, MovedTypes
<1>6. ASSUME NEW w \in Users, NEW q \in Reserves, q \in usingAsCollateral[w]
      PROVE  q \in usingAsCollateral'[w] \/ (w = from /\ q = r /\ emptied)
  <2> DEFINE U == [usingAsCollateral EXCEPT ![from] = IF emptied THEN @ \ {r} ELSE @]
  <2>1. U \in [Accounts -> SUBSET Reserves]
    BY <1>5
  <2>2. w \in Accounts
    BY DEF Accounts
  <2>3. q \in U[w] \/ (w = from /\ q = r /\ emptied)
    BY <1>5, <1>6, <2>2
  <2>4. usingAsCollateral' = [U EXCEPT ![to] = IF first THEN @ \cup {r} ELSE @]
    BY <1>2
  <2> HIDE DEF U
  <2>5. q \in U[w] => q \in usingAsCollateral'[w]
    BY <2>1, <2>2, <2>4
  <2> QED BY <2>3, <2>5
<1>7. CASE v # from
  <2>1. ASSUME NEW q \in Reserves
        PROVE  /\ aScaled[q][v] <= aScaled'[q][v] /\ liquidityIndex[q] <= liquidityIndex'[q]
               /\ q \in usingAsCollateral[v] => q \in usingAsCollateral'[v]
               /\ vScaled'[q][v] <= vScaled[q][v] /\ stable'[q][v] <= stable[q][v]
               /\ variableBorrowIndex'[q] = variableBorrowIndex[q]
               /\ q \in borrowing'[v] => q \in borrowing[v]
    <3>1. aScaled[q][v] <= aScaled'[q][v]
      BY <1>1, <1>2, <1>5, <1>7, MoveRows
    <3>2. q \in usingAsCollateral[v] => q \in usingAsCollateral'[v]
      BY <1>6, <1>7
    <3> QED BY <1>4, <3>1, <3>2, RowsNat
  <2> QED BY <1>4, <2>1, KeptUntouched
<1>8. CASE v = from
  <2>1. PICK L \in Ledger : L = moved(aScaled, from, to, r, s)
    BY <1>5
  <2>2. PERCENTAGE_FACTOR * totalDebtInETH(from) <= Weighted(Threshold, L, from) + Slack(from)
    <3>1. HealthyWith(L, from)
      BY <1>2, <2>1
    <3> QED BY <3>1, HealthyCovers
  <2>3. Weighted(Threshold, L, from) \in Nat /\ Weighted(Threshold, L, from) <= worth(from)'
    <3> DEFINE f == [q \in Reserves |-> CollateralValue(L, from, q) * Threshold[q]]
               g == worthRow(from)'
    <3>1. ASSUME NEW q \in Reserves PROVE f[q] \in Nat /\ f[q] <= worthOf(from, q)'
      <4> DEFINE k == Threshold[q]
                 i == liquidityIndex[q]
                 x == price[q] * rayMul(L[q][from], i)
      <4>1. k \in Nat /\ i \in Nat /\ price[q] \in Nat /\ L[q][from] \in Nat
        BY <1>5, RowsNat, PercentagesAssumption DEF Ledger
      <4>2. x \in Nat /\ x * k \in Nat
        <5>1. x \in Nat
          BY <4>1, RayNat, ProductNat
        <5> HIDE DEF x
        <5> QED BY <4>1, <5>1, ProductNat
      <4>3. f[q] = IF q \in usingAsCollateral[from] /\ k # 0 THEN x * k ELSE 0
        <5>1. 0 * k = 0
          BY <4>1
        <5> QED BY <5>1 DEF CollateralValue, CollateralOf
      <4>4. worthOf(from, q)' = IF q \in usingAsCollateral'[from] /\ k # 0 THEN x * k ELSE 0
        BY <1>2, <1>4, <2>1, AlwaysSpelt DEF Spelt
      <4>5. q \notin usingAsCollateral'[from] /\ q \in usingAsCollateral[from] => x * k = 0
        <5> SUFFICES ASSUME q \notin usingAsCollateral'[from], q \in usingAsCollateral[from]
                     PROVE  x * k = 0
          OBVIOUS
        <5>1. q = r /\ emptied
          BY <1>6
        <5>2. L[q][from] = 0
          <6>1. L[r][from] = aScaled[r][from] - s
            BY <1>1, <1>2, <1>3, <1>5, <2>1, <5>1, MoveRows
          <6> QED BY <1>1, <1>3, <5>1, <6>1
        <5>3. rayMul(L[q][from], i) = 0
          BY <4>1, <5>2, MulZero
        <5>4. x = 0
          BY <4>1, <5>3
        <5> HIDE DEF x
        <5> QED BY <4>1, <5>4
      <4> DEFINE y == x * k
      <4>6. y \in Nat /\ f[q] = (IF q \in usingAsCollateral[from] /\ k # 0 THEN y ELSE 0)
        BY <4>2, <4>3
      <4> HIDE DEF x, k, f, y
      <4>7. worthOf(from, q)' = (IF q \in usingAsCollateral'[from] /\ k # 0 THEN y ELSE 0)
            /\ (q \notin usingAsCollateral'[from] /\ q \in usingAsCollateral[from] => y = 0)
        BY <4>4, <4>5 DEF y
      <4> QED BY <4>6, <4>7
    <3>2. f \in [Reserves -> Nat]
      BY <3>1
    <3>3. Weighted(Threshold, L, from) = SumFunction(f)
      BY DEF Weighted
    <3> HIDE DEF f
    <3>4. /\ worth(from)' = SumFunction(g) /\ g \in [Reserves -> Int]
          /\ \A q \in Reserves : g[q] = worthOf(from, q)' /\ worthOf(from, q)' \in Nat
      BY MarginTyped DEF Typed
    <3> HIDE DEF g
    <3>5. g \in [Reserves -> Nat]
      BY <3>4
    <3>6. SumFunction(f) <= SumFunction(g)
      BY <3>1, <3>2, <3>4, <3>5, ReservesAssumption, SumMonotone
    <3>7. SumFunction(f) \in Nat
      BY <3>2, ReservesAssumption, SumType
    <3> QED BY <3>3, <3>4, <3>6, <3>7
  <2>4. totalDebtInETH(from)' <= totalDebtInETH(from)
    <3>1. \A q \in Reserves : DebtValue(from, q)' <= DebtValue(from, q)
      <4> TAKE q \in Reserves
      <4>1. /\ vScaled'[q][from] <= vScaled[q][from] /\ stable'[q][from] <= stable[q][from]
            /\ variableBorrowIndex'[q] = variableBorrowIndex[q]
            /\ q \in borrowing'[from] => q \in borrowing[from]
        BY <1>4, RowsNat
      <4> QED BY <1>4, <4>1, DebtAt
    <3>2. /\ totalDebtInETH(from) \in Nat
          /\ DebtValue(from, r) \in Nat /\ DebtValue(from, r)' \in Nat
      BY MarginTyped DEF Typed
    <3>3. DebtValue(from, r)' <= DebtValue(from, r) + 0 /\ 0 \in Int
      BY <3>1, <3>2
    <3>4. totalDebtInETH(from)' <= totalDebtInETH(from) + 0
      BY <3>1, <3>3, DebtMoves
    <3> QED BY <3>2, <3>4
  <2>5. PERCENTAGE_FACTOR * totalDebtInETH(from) <= worth(from)' + Dust(from)
    <3> DEFINE x == PERCENTAGE_FACTOR * totalDebtInETH(from)
               y == worth(from)'
               z == Weighted(Threshold, L, from)
    <3>1. totalDebtInETH(from) \in Nat /\ y \in Nat
      BY MarginTyped DEF Typed
    <3>2. x \in Nat /\ Slack(from) \in Nat /\ Dust(from) \in Nat /\ Slack(from) <= Dust(from)
      BY <3>1, PercentageAssumption, ProductNat, DustParts
    <3>3. x <= z + Slack(from) /\ z \in Nat /\ z <= y
      BY <2>2, <2>3
    <3> HIDE DEF x, y, z
    <3>4. x <= y + Dust(from)
      BY <3>1, <3>2, <3>3
    <3> QED BY <3>4 DEF x, y
  <2>6. totalDebtInETH(from) \in Nat
    BY MarginTyped DEF Typed
  <2>7. KeptFor(from)
    BY <2>4, <2>5, <2>6, KeptIf
  <2> QED BY <1>8, <2>7
<1> QED BY <1>7, <1>8

(* liquidationCall takes from an unhealthy account only.                   *)
LEMMA LiquidationMargin ==
  ASSUME TypeOK, TypeOK', NEW liquidator \in Users, NEW u \in Users, NEW c \in Reserves,
         NEW d \in Reserves, NEW debtToCover \in Amounts \cup {UintMax},
         NEW receiveAToken \in BOOLEAN,
         LiquidationCall(liquidator, u, c, d, debtToCover, receiveAToken),
         NEW v \in Users, Healthy(v)
  PROVE  KeptFor(v)
<1> DEFINE amounts == liquidationAmounts(u, c, d, debtToCover)
           debt == amounts.debt
           s == rayDiv(amounts.collateral, liquidityIndex[c])
           first == receiveAToken /\ aBalance(liquidator, c) = 0
           emptied == amounts.collateral = aBalance(u, c)
<1>1. debt \in Nat /\ s \in Nat
  <2>1. debtToCover \in Nat
    BY AmountsAssumption
  <2>2. debt \in Nat /\ amounts.collateral \in Nat
    BY <2>1, LiquidationAmountsNat
  <2> HIDE DEF amounts
  <2> QED BY <2>2, ScaledNat
<1>2. /\ ~Healthy(u)
      /\ BurnDebtForLiquidation(u, d, debt)
      /\ s <= aScaled[c][u]
      /\ IF receiveAToken
           THEN aScaled' = moved(updatedScaled({d}), u, liquidator, c, s)
           ELSE UpdateStateAndMove({c, d}, c, u, 0 - s)
      /\ usingAsCollateral' =
           [[usingAsCollateral EXCEPT ![liquidator] = IF first THEN @ \cup {c} ELSE @]
              EXCEPT ![u] = IF emptied THEN @ \ {c} ELSE @]
      /\ UNCHANGED <<indexVars, borrowing, envVars>>
  BY DEF LiquidationCall
<1> HIDE DEF debt, s, first, emptied
<1>3. v # u
  BY <1>2
<1>4. /\ price' = price /\ liquidityIndex' = liquidityIndex
      /\ variableBorrowIndex' = variableBorrowIndex /\ borrowing' = borrowing
  BY <1>2 DEF indexVars, envVars
<1>5. ASSUME NEW q \in Reserves PROVE aScaled[q][v] <= aScaled'[q][v]
  <2>1. CASE receiveAToken
    <3> DEFINE F == updatedScaled({d})
    <3>1. F \in Ledger /\ F[q][v] = aScaled[q][v] /\ F[c][u] = aScaled[c][u]
      BY UpdatedTypes, UserRows
    <3>2. aScaled' = moved(F, u, liquidator, c, s)
      BY <1>2, <2>1
    <3> HIDE DEF F
    <3> QED BY <1>1, <1>2, <1>3, <3>1, <3>2, MoveRows
  <2>2. CASE ~receiveAToken
    <3> DEFINE e == 0 - s
               S == {c, d}
    <3>1. e \in Int /\ UpdateStateAndMove(S, c, u, e)
      BY <1>1, <1>2, <2>2
    <3> HIDE DEF e, S
    <3>2. aScaled'[q][v] = aScaled[q][v]
      BY <1>3, <3>1, MovedRow
    <3> QED BY <3>2, RowsNat
  <2> QED BY <2>1, <2>2
<1>6. ASSUME NEW q \in Reserves, q \in usingAsCollateral[v] PROVE q \in usingAsCollateral'[v]
  <2> DEFINE U == [usingAsCollateral EXCEPT ![liquidator] = IF first THEN @ \cup {c} ELSE @]
  <2>1. v \in Accounts /\ u \in Accounts /\ usingAsCollateral \in [Accounts -> SUBSET Reserves]
    BY DEF TypeOK, Accounts
  <2>2. U \in [Accounts -> SUBSET Reserves] /\ q \in U[v]
    BY <1>6, <2>1
  <2>3. usingAsCollateral' = [U EXCEPT ![u] = IF emptied THEN @ \ {c} ELSE @]
    BY <1>2
  <2> HIDE DEF U
  <2> QED BY <1>3, <2>1, <2>2, <2>3
<1>7. ASSUME NEW q \in Reserves
      PROVE  vScaled'[q][v] <= vScaled[q][v] /\ stable'[q][v] <= stable[q][v]
  <2>1. variableDebt(u, d) \in Nat /\ vScaled[q][v] \in Nat /\ stable[q][v] \in Nat
    BY BalancesNat, RowsNat
  <2>2. \/ BurnVariable(u, d, debt)
        \/ BurnVariable(u, d, variableDebt(u, d))
        \/ vScaled' = vScaled
    BY <1>2 DEF BurnDebtForLiquidation
  <2>3. \/ stable' = stable
        \/ BurnStable(u, d, debt - variableDebt(u, d)) /\ debt - variableDebt(u, d) \in Nat
    BY <1>1, <1>2, <2>1 DEF BurnDebtForLiquidation
  <2>4. vScaled'[q][v] <= vScaled[q][v]
    BY <1>1, <2>1, <2>2, BurnVariableLocal
  <2>5. stable'[q][v] <= stable[q][v]
    <3>1. CASE stable' = stable
      BY <2>1, <3>1
    <3>2. CASE BurnStable(u, d, debt - variableDebt(u, d)) /\ debt - variableDebt(u, d) \in Nat
      BY <3>2, BurnStableLocal
    <3> QED BY <2>3, <3>1, <3>2
  <2> QED BY <2>4, <2>5
<1>8. \A q \in Reserves :
        /\ aScaled[q][v] <= aScaled'[q][v] /\ liquidityIndex[q] <= liquidityIndex'[q]
        /\ q \in usingAsCollateral[v] => q \in usingAsCollateral'[v]
        /\ vScaled'[q][v] <= vScaled[q][v] /\ stable'[q][v] <= stable[q][v]
        /\ variableBorrowIndex'[q] = variableBorrowIndex[q]
        /\ q \in borrowing'[v] => q \in borrowing[v]
  BY <1>4, <1>5, <1>6, <1>7, RowsNat
<1> QED BY <1>4, <1>8, KeptUntouched

(* The premium of a flash loan only raises the liquidity index.            *)
LEMMA FlashLoanRepayMargin ==
  ASSUME TypeOK, TypeOK', FlashLoanRepay, NEW v \in Users, Healthy(v)
  PROVE  KeptFor(v)
<1> DEFINE r == loan.asset
           totalSupply == rayMul(updatedTotal({r})[r], liquidityIndex[r])
           index == cumulatedIndex(r, totalSupply, premium(loan.amount))
<1>1. r \in Reserves /\ premium(loan.amount) \in Nat
  <2>1. loan \in [receiver : Users, asset : Reserves, amount : Nat]
    BY DEF FlashLoanRepay, TypeOK
  <2> QED BY <2>1, PremiumNat
<1>2. /\ totalSupply # 0
      /\ aScaled' = updatedScaled({r})
      /\ liquidityIndex' = [liquidityIndex EXCEPT ![r] = index]
      /\ UNCHANGED <<debtVars, variableBorrowIndex, configVars, envVars>>
  BY DEF FlashLoanRepay, UpdateState
<1>3. totalSupply \in Nat
  <2>1. updatedTotal({r})[r] \in Nat /\ liquidityIndex[r] \in Nat
    BY <1>1, UpdatedTypes DEF TypeOK
  <2> QED BY <2>1, RayNat
<1> HIDE DEF r, totalSupply
<1>4. index \in Nat /\ index >= liquidityIndex[r]
  BY <1>1, <1>2, <1>3, CumulatedIndexGrows
<1> HIDE DEF index
<1>5. /\ price' = price /\ variableBorrowIndex' = variableBorrowIndex
      /\ vScaled' = vScaled /\ stable' = stable
      /\ borrowing' = borrowing /\ usingAsCollateral' = usingAsCollateral
  BY <1>2 DEF debtVars, configVars, envVars
<1>6. \A q \in Reserves :
        /\ aScaled[q][v] <= aScaled'[q][v] /\ liquidityIndex[q] <= liquidityIndex'[q]
        /\ q \in usingAsCollateral[v] => q \in usingAsCollateral'[v]
        /\ vScaled'[q][v] <= vScaled[q][v] /\ stable'[q][v] <= stable[q][v]
        /\ variableBorrowIndex'[q] = variableBorrowIndex[q]
        /\ q \in borrowing'[v] => q \in borrowing[v]
  <2> TAKE q \in Reserves
  <2>1. aScaled'[q][v] = aScaled[q][v]
    BY <1>2, UserRows
  <2>2. liquidityIndex[q] <= liquidityIndex'[q]
    BY <1>1, <1>2, <1>4, RowsNat DEF TypeOK
  <2> QED BY <1>5, <2>1, <2>2, RowsNat
<1> QED BY <1>1, <1>5, <1>6, KeptUntouched

(* The calls of users, and then every step.                                *)
LEMMA UserStepMargin ==
  ASSUME IInv, TypeOK', NEW u \in Users, UserStep(u), NEW v \in Users, Healthy(v)
  PROVE  KeptFor(v)
<1>1. TypeOK /\ DebtFlagged /\ Amounts \subseteq Nat
  BY AmountsAssumption DEF IInv
<1>2. PICK r \in Reserves :
        \/ \E amount \in Amounts :
             \/ Deposit(u, r, amount)
             \/ \E mode \in Modes : Borrow(u, r, amount, mode)
             \/ \E to \in Users : Transfer(u, to, r, amount)
        \/ \E amount \in Amounts \cup {UintMax} :
             \/ Withdraw(u, r, amount)
             \/ \E mode \in Modes, self \in BOOLEAN : Repay(u, r, amount, mode, self)
        \/ \E amount \in FlashAmounts : FlashLoan(u, r, amount)
        \/ \E mode \in Modes : SwapBorrowRateMode(u, r, mode)
        \/ RebalanceStableBorrowRate(u, r)
        \/ \E use \in BOOLEAN : SetUserUseReserveAsCollateral(u, r, use)
  BY DEF UserStep
<1>3. ASSUME NEW amount \in Amounts, Deposit(u, r, amount) PROVE KeptFor(v)
  BY <1>1, <1>3, DepositMargin
<1>4. ASSUME NEW amount \in Amounts, NEW mode \in Modes, Borrow(u, r, amount, mode)
      PROVE  KeptFor(v)
  BY <1>1, <1>4, ExecuteBorrowMargin DEF Borrow
<1>5. ASSUME NEW amount \in Amounts, NEW to \in Users, Transfer(u, to, r, amount)
      PROVE  KeptFor(v)
  BY <1>1, <1>5, TransferMargin
<1>6. ASSUME NEW amount \in Amounts \cup {UintMax}, Withdraw(u, r, amount) PROVE KeptFor(v)
  BY <1>1, <1>6, WithdrawMargin
<1>7. ASSUME NEW amount \in Amounts \cup {UintMax}, NEW mode \in Modes, NEW self \in BOOLEAN,
             Repay(u, r, amount, mode, self)
      PROVE  KeptFor(v)
  BY <1>1, <1>7, RepayMargin
<1>8. ASSUME NEW amount, FlashLoan(u, r, amount) PROVE KeptFor(v)
  BY <1>1, <1>8, FlashLoanMargin
<1>9. ASSUME NEW mode \in Modes, SwapBorrowRateMode(u, r, mode) PROVE KeptFor(v)
  BY <1>1, <1>9, SwapMargin
<1>10. ASSUME RebalanceStableBorrowRate(u, r) PROVE KeptFor(v)
  BY <1>1, <1>10, RebalanceMargin
<1>11. ASSUME NEW use \in BOOLEAN, SetUserUseReserveAsCollateral(u, r, use) PROVE KeptFor(v)
  BY <1>1, <1>11, SetUseMargin
<1> QED BY <1>2, <1>3, <1>4, <1>5, <1>6, <1>7, <1>8, <1>9, <1>10, <1>11

LEMMA NextMargin ==
  IInv /\ TypeOK' /\ [Next]_vars
    => [\A u \in Users : Healthy(u) /\ Margin(u)' < 0 - Dust(u) => EnvironmentStep]_vars
<1> SUFFICES ASSUME IInv, TypeOK', Next, ~EnvironmentStep, NEW v \in Users, Healthy(v)
             PROVE  KeptFor(v)
  <2>1. ASSUME IInv, TypeOK', Next, ~EnvironmentStep, NEW v \in Users, Healthy(v), KeptFor(v)
        PROVE  ~(Margin(v)' < 0 - Dust(v))
    <3>1. Margin(v)' \in Int /\ Dust(v) \in Nat
      <4>1. worth(v)' \in Nat /\ totalDebtInETH(v)' \in Nat
            /\ Margin(v)' = worth(v)' - PERCENTAGE_FACTOR * totalDebtInETH(v)'
        BY <2>1, MarginTyped DEF Typed
      <4>2. Dust(v) \in Nat
        BY <2>1, DustParts DEF IInv
      <4>3. PERCENTAGE_FACTOR \in Nat
        BY PercentageAssumption
      <4> DEFINE x == totalDebtInETH(v)'
                 y == worth(v)'
                 z == PERCENTAGE_FACTOR * x
      <4>4. z \in Nat
        <5>1. x \in Nat
          BY <4>1
        <5> HIDE DEF x
        <5> QED BY <4>3, <5>1, ProductNat
      <4>5. Margin(v)' = y - z /\ y \in Nat
        BY <4>1
      <4> HIDE DEF x, y, z
      <4> QED BY <4>2, <4>4, <4>5
    <3>2. Margin(v)' >= 0 - Dust(v)
      BY <2>1 DEF KeptFor
    <3> DEFINE m == Margin(v)'
    <3> HIDE DEF m
    <3>3. m \in Int /\ Dust(v) \in Nat /\ m >= 0 - Dust(v)
      BY <3>1, <3>2 DEF m
    <3>4. ~(m < 0 - Dust(v))
      BY <3>3
    <3> QED BY <3>4 DEF m
  <2> QED BY <2>1
<1>1. TypeOK /\ DebtFlagged
  BY DEF IInv
<1>2. CASE \E u \in Users : UserStep(u)
  BY <1>2, UserStepMargin
<1>3. CASE LiquidationStep
  BY <1>1, <1>3, LiquidationMargin DEF LiquidationStep
<1>4. CASE FlashLoanSettles
  <2>1. CASE FlashLoanRepay
    BY <1>1, <2>1, FlashLoanRepayMargin
  <2>2. ASSUME NEW u \in Users, NEW mode \in Modes, FlashLoanBorrow(u, mode)
        PROVE  KeptFor(v)
    <3>1. loan.asset \in Reserves /\ loan.amount \in Nat
      BY <1>1, <2>2 DEF FlashLoanBorrow, TypeOK
    <3> QED BY <1>1, <2>2, <3>1, ExecuteBorrowMargin DEF FlashLoanBorrow
  <2> QED BY <1>4, <2>1, <2>2 DEF FlashLoanSettles
<1> QED BY <1>2, <1>3, <1>4 DEF Next

(* No call, by anyone, leaves an account that passed the health check with  *)
(* a debt its collateral does not cover, beyond dust: over any users,       *)
(* reserves, percentages, prices, units and indexes (GenericLogic,          *)
(* ValidationLogic and every function of LendingPool that moves a balance,  *)
(* a debt or a flag).                                                       *)
THEOREM MarginIsKept == Spec => MarginKept
  BY NextMargin, TypeCorrect, DebtsAreFlagged, PTL DEF MarginKept, Spec, IInv
=============================================================================
