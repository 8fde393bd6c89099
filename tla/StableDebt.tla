----------------------------- MODULE StableDebt -----------------------------
(***************************************************************************)
(* StableDebtToken: each debt compounds at its own rate from its own       *)
(* timestamp, the total supply at an average rate from a timestamp of its  *)
(* own.  LendingPool keeps stable debts compounded to the current block;   *)
(* this module is how the token arrives at them, and at a total that may   *)
(* drift from their sum.                                                   *)
(*                                                                         *)
(* The pool calls mint (borrow, swap from variable), burn (repay, swap to  *)
(* variable, liquidation), and burn followed by mint of the whole debt     *)
(* (rebalanceStableBorrowRate).  The amounts it passes never exceed the    *)
(* debt, and the rates are those of the market at the time.                *)
(***************************************************************************)
EXTENDS RayMath, FiniteSetsExt, Functions

CONSTANTS
  Users,              \* the borrowers
  Rates,              \* stable rates the market may offer, in ray per year
  Amounts,            \* amounts of new loans and of partial repayments
  WAD_RAY_RATIO,
  SECONDS_PER_YEAR,
  MaxTime,            \* bound on the time
  MaxAverage,         \* bound on the average rate at which time still passes
  MaxBalance,         \* bound on the debt of a user that borrows
  MaxCalls            \* bound on the number of calls

ASSUME StableAssumption ==
  /\ IsFiniteSet(Users)
  /\ Rates \subseteq Nat /\ Amounts \subseteq Nat
  /\ WAD_RAY_RATIO \in Nat \ {0} /\ SECONDS_PER_YEAR \in Nat \ {0}
  /\ MaxTime \in Nat /\ MaxAverage \in Nat /\ MaxBalance \in Nat
  /\ MaxCalls \in Nat

VARIABLES
  principal,            \* _balances, as of the user's timestamp
  usersStableRate,      \* _usersStableRate
  timestamps,           \* _timestamps
  supply,               \* _totalSupply, as of its timestamp
  avgStableRate,        \* _avgStableRate
  totalSupplyTimestamp, \* _totalSupplyTimestamp
  now,                  \* block.timestamp
  calls                 \* calls made so far, for the bound

userVars == <<principal, usersStableRate, timestamps>>
supplyVars == <<supply, avgStableRate, totalSupplyTimestamp>>
stableVars == <<userVars, supplyVars, now, calls>>

-----------------------------------------------------------------------------
(* MathUtils.calculateCompoundedInterest over `exp` seconds: the first     *)
(* terms of the binomial (1 + ratePerSecond)^exp.                          *)
calculateCompoundedInterest(rate, exp) ==
  LET ratePerSecond == rate \div SECONDS_PER_YEAR
      basePowerTwo == rayMul(ratePerSecond, ratePerSecond)
      basePowerThree == rayMul(basePowerTwo, ratePerSecond)
      expMinusTwo == IF exp > 2 THEN exp - 2 ELSE 0
  IN IF exp = 0 THEN RAY
     ELSE RAY + ratePerSecond * exp
            + (exp * (exp - 1) * basePowerTwo) \div 2
            + (exp * (exp - 1) * expMinusTwo * basePowerThree) \div 6

balanceOf(u) ==
  IF principal[u] = 0 THEN 0
  ELSE rayMul(principal[u],
              calculateCompoundedInterest(usersStableRate[u], now - timestamps[u]))

balanceIncrease(u) == balanceOf(u) - principal[u]

totalSupply ==
  IF supply = 0 THEN 0
  ELSE rayMul(supply,
              calculateCompoundedInterest(avgStableRate, now - totalSupplyTimestamp))

wadToRay(a) == a * WAD_RAY_RATIO

\* The rate of `amount` more at `rate` on top of `balance` at `old`.
weightedRate(old, balance, rate, amount) ==
  rayDiv(rayMul(old, wadToRay(balance)) + rayMul(rate, wadToRay(amount)),
         wadToRay(balance + amount))

-----------------------------------------------------------------------------
Init ==
  /\ principal = [u \in Users |-> 0]
  /\ usersStableRate = [u \in Users |-> 0]
  /\ timestamps = [u \in Users |-> 0]
  /\ supply = 0 /\ avgStableRate = 0 /\ totalSupplyTimestamp = 0
  /\ now = 0 /\ calls = 0

\* Fault: the rate so far is weighted with the principal, without its interest.
MintRates_Principal(u, amount, rate) ==
  /\ usersStableRate' = [usersStableRate EXCEPT
       ![u] = rayDiv(rayMul(@, wadToRay(principal[u])) + rayMul(rate, wadToRay(amount)),
                     wadToRay(balanceOf(u) + amount))]
  /\ avgStableRate' = weightedRate(avgStableRate, totalSupply, rate, amount)
  /\ timestamps' = [timestamps EXCEPT ![u] = now]
  /\ totalSupplyTimestamp' = now

\* What mint does to the rate of the user and to that of the total.
MintRates(u, amount, rate) ==
  /\ usersStableRate' = [usersStableRate EXCEPT
                           ![u] = weightedRate(@, balanceOf(u), rate, amount)]
  /\ avgStableRate' = weightedRate(avgStableRate, totalSupply, rate, amount)
  /\ timestamps' = [timestamps EXCEPT ![u] = now]
  /\ totalSupplyTimestamp' = now

\* Fault: the interest since the last timestamp is not added to the principal.
Mint_NoIncrease(u, amount, rate) ==
  /\ amount > 0 /\ balanceOf(u) + amount <= MaxBalance
  /\ MintRates(u, amount, rate)
  /\ principal' = [principal EXCEPT ![u] = @ + amount]
  /\ supply' = totalSupply + amount
  /\ UNCHANGED now

\* Fault: the total takes in the loan but not the interest since its timestamp.
Mint_StaleSupply(u, amount, rate) ==
  /\ amount > 0 /\ balanceOf(u) + amount <= MaxBalance
  /\ MintRates(u, amount, rate)
  /\ principal' = [principal EXCEPT ![u] = @ + amount + balanceIncrease(u)]
  /\ supply' = supply + amount
  /\ UNCHANGED now

\* mint: the interest since the user's timestamp becomes principal.
Mint(u, amount, rate) ==
  /\ amount > 0 /\ balanceOf(u) + amount <= MaxBalance
  /\ MintRates(u, amount, rate)
  /\ principal' = [principal EXCEPT ![u] = @ + amount + balanceIncrease(u)]
  /\ supply' = totalSupply + amount
  /\ UNCHANGED now

\* Fault: the total is reduced without looking whether there is enough of it.
supplyAfterBurn_Unchecked(u, amount) ==
  LET firstTerm == rayMul(avgStableRate, wadToRay(totalSupply))
      secondTerm == rayMul(usersStableRate[u], wadToRay(amount))
      left == totalSupply - amount
  IN [supply |-> left,
      avg |-> IF left = 0 THEN 0 ELSE rayDiv(firstTerm - secondTerm, wadToRay(left))]

\* What burn leaves of the total supply and of its rate.
supplyAfterBurn(u, amount) ==
  LET firstTerm == rayMul(avgStableRate, wadToRay(totalSupply))
      secondTerm == rayMul(usersStableRate[u], wadToRay(amount))
      left == totalSupply - amount
  IN IF totalSupply <= amount \/ secondTerm >= firstTerm
       THEN [supply |-> 0, avg |-> 0]
       ELSE [supply |-> left, avg |-> rayDiv(firstTerm - secondTerm, wadToRay(left))]

BurnSupply(u, amount) ==
  /\ supply' = supplyAfterBurn(u, amount).supply
  /\ avgStableRate' = supplyAfterBurn(u, amount).avg
  /\ totalSupplyTimestamp' = now

\* burn: what is repaid is first set off against the interest that is minted.
Burn(u, amount) ==
  /\ amount \in 1..balanceOf(u)
  /\ BurnSupply(u, amount)
  /\ principal' = [principal EXCEPT ![u] = @ + balanceIncrease(u) - amount]
  /\ IF amount = balanceOf(u)
       THEN /\ usersStableRate' = [usersStableRate EXCEPT ![u] = 0]
            /\ timestamps' = [timestamps EXCEPT ![u] = 0]
       ELSE /\ timestamps' = [timestamps EXCEPT ![u] = now]
            /\ UNCHANGED usersStableRate
  /\ UNCHANGED now

\* rebalanceStableBorrowRate: burn of the whole debt, then mint of it at `rate`.
Rebalance(u, rate) ==
  LET debt == balanceOf(u)
      burnt == supplyAfterBurn(u, debt)
  IN /\ debt > 0
     /\ principal' = [principal EXCEPT ![u] = debt]
     /\ usersStableRate' = [usersStableRate EXCEPT ![u] = weightedRate(0, 0, rate, debt)]
     /\ timestamps' = [timestamps EXCEPT ![u] = now]
     /\ supply' = burnt.supply + debt
     /\ avgStableRate' = weightedRate(burnt.avg, burnt.supply, rate, debt)
     /\ totalSupplyTimestamp' = now
     /\ UNCHANGED now

Tick ==
  /\ now < MaxTime /\ avgStableRate <= MaxAverage
  /\ now' = now + 1
  /\ UNCHANGED <<userVars, supplyVars, calls>>

Call(u) ==
  \/ \E amount \in Amounts, rate \in Rates : Mint(u, amount, rate)
  \/ \E amount \in Amounts \cup {balanceOf(u)} : Burn(u, amount)
  \/ \E rate \in Rates : Rebalance(u, rate)

Next ==
  \/ Tick
  \/ /\ calls < MaxCalls
     /\ calls' = calls + 1
     /\ \E u \in Users : Call(u)

Spec == Init /\ [][Next]_stableVars
-----------------------------------------------------------------------------
(* Properties.                                                             *)

(* What burn and mint subtract is there: no debt, total or rate falls      *)
(* below zero, and no timestamp is ahead of the block.                     *)
TypeOK ==
  /\ principal \in [Users -> Nat] /\ usersStableRate \in [Users -> Nat]
  /\ timestamps \in [Users -> 0..now] /\ totalSupplyTimestamp \in 0..now
  /\ supply \in Nat /\ avgStableRate \in Nat /\ now \in 0..MaxTime
  /\ calls \in 0..MaxCalls

(* A call changes the debt of one user by exactly an amount that calls are *)
(* given, or clears it, whether or not interest was outstanding and        *)
(* whichever of the two is the larger; otherwise debts change only with    *)
(* time, and never fall. A step does not name its call, so the amount is   *)
(* one of Amounts, not the one of this call. This is what LendingPool      *)
(* takes the token for.                                                    *)
DebtsMoveByAmount ==
  [][\/ \E u \in Users : \E amount \in Amounts \cup {balanceOf(u)} :
          \A v \in Users :
            (balanceOf(v))' - balanceOf(v)
               \in IF v = u THEN {amount, 0 - amount, 0} ELSE {0}
     \/ now' > now /\ \A v \in Users : (balanceOf(v))' >= balanceOf(v)]_stableVars

(* However rates are averaged over loans and repayments, the rate of a     *)
(* debt stays within the rates of the market, up to a unit of rounding. It *)
(* is said of the few calls and years of an instance: with small debts and *)
(* over a long time the roundings may add up to more, and it is false.     *)
RatesWithinMarket ==
  \A u \in Users :
    principal[u] > 0 => usersStableRate[u] \in (Min(Rates) - 1)..(Max(Rates) + 1)

(* Between two blocks the total drifts from the debts, but a call does not *)
(* add to the drift: it moves the total by what it moves the debts, unless *)
(* burn finds the total, or its interest, short and clears it.             *)
debts == SumFunction([u \in Users |-> balanceOf(u)])

TotalMovesWithDebts ==
  [][now' = now =>
       \/ totalSupply' - totalSupply = debts' - debts
       \/ supply' = 0
       \/ \E u \in Users : supply' = principal'[u] /\ timestamps'[u] = now]_stableVars
=============================================================================
