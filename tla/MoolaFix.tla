------------------------------ MODULE MoolaFix ------------------------------
(***************************************************************************)
(* MoolaFix.execute: one transaction, run once after the exploit, that     *)
(* upgrades the pool, collects ill-gotten aTokens, repays bad debt with    *)
(* what it has and what it withdraws, writes the rest off, lowers the      *)
(* liquidity index by the loss, and leaves the pool paused in its grace    *)
(* period.  One action is one call it makes, in the order of the source;   *)
(* a call that reverts is an action that is not enabled, and stops all.    *)
(*                                                                         *)
(* The amounts are literals of the source, read off the chain beforehand.  *)
(* Here each initial state brings the amounts that were read off it, so    *)
(* that the literals are what they were meant to be.  With the pool of     *)
(* revision 4 no interest accrues (ReserveLogicNoInterest): the indexes    *)
(* are the stored ones and there is no interest left to settle.            *)
(***************************************************************************)
EXTENDS GracePeriod, SequencesExt

CONSTANTS
  moolaFix, OwnedWallet, exploiterAddress,  \* accounts named in the source
  testAccount,        \* a debtor in good standing, used to test repay
  Celo, Cusd, Moo,    \* reserves named in the source
  Collected,          \* the reserves withdrawn in step 15, in order
  MemReserves,        \* the reserves of struct Mem, in order
  Exploited,          \* the states of the pool the fix may start from
  testAmount,         \* what the fix deposits to test the pool
  testLoan            \* and what it borrows

\* The reserves whose bad debt is too large to repay: CELO and cEUR.
WrittenOff == ToSet(MemReserves)

VARIABLES
  at,                 \* the step of execute about to run
  k,                  \* index of its loop
  left,               \* amountLeft of the account being repaid or burnt
  wallet,             \* underlying held by MoolaFix
  mem,                \* bad debts, in order: [asset, account, debt]
  loss,               \* celoBadDebtBurnt and ceurBadDebtBurnt
  plan,               \* the other literals
  owner, poolAdmin, emergencyAdmin,  \* of LendingPoolAddressesProvider
  aTokenRevision      \* implementation of the aTokens

memVars == <<mem, loss, left>>
adminVars == <<owner, poolAdmin, emergencyAdmin, aTokenRevision>>
fixVars == <<graceVars, at, k, memVars, wallet, plan, adminVars>>

-----------------------------------------------------------------------------
(* The initial state: a paused pool with bad debts, MoolaFix owner of the  *)
(* addresses provider and holding what the team put in.                    *)

Total(ledger) == [r \in Reserves |-> SumFunction(ledger[r])]

\* The cash that makes what suppliers are owed just backed.
CashOf(s, r) ==
  LET owed == SumFunction(s.aScaled[r]) * s.liquidityIndex[r]
                - RAY * SumFunction(s.stable[r])
                - SumFunction(s.vScaled[r]) * s.variableBorrowIndex[r]
  IN IF owed > 0 THEN (owed + RAY - 1) \div RAY ELSE 0

Balance(s, u, r) == rayMul(s.aScaled[r][u], s.liquidityIndex[r])

FixInit ==
  \E s \in Exploited :
    /\ aScaled = s.aScaled /\ aTotal = Total(s.aScaled)
    /\ vScaled = s.vScaled /\ vTotal = Total(s.vScaled)
    /\ stable = s.stable /\ sTotal = Total(s.stable)
    /\ liquidityIndex = s.liquidityIndex
    /\ variableBorrowIndex = s.variableBorrowIndex
    /\ accrued = [r \in Reserves |-> 0]
    /\ liquidity = [r \in Reserves |-> CashOf(s, r)]
    /\ usingAsCollateral = [u \in Accounts |-> {r \in Reserves : s.aScaled[r][u] > 0}]
    /\ borrowing = [u \in Accounts |->
                      {r \in Reserves : s.vScaled[r][u] + s.stable[r][u] > 0}]
    /\ price \in [Reserves -> UNION {Prices[r] : r \in Reserves}]
    /\ \A r \in Reserves : price[r] \in Prices[r]
    /\ frozen = {} /\ paused = TRUE /\ loan = NoLoan
    /\ implementation = "LendingPool" /\ lastInitializedRevision = 3
    /\ at = "takeAdmin" /\ k = 1 /\ left = 0
    /\ wallet = s.wallet
    /\ mem = [i \in DOMAIN s.badDebts |->
                LET d == s.badDebts[i]
                IN [asset |-> d.asset, account |-> d.account,
                    debt |-> s.stable[d.asset][d.account] + d.extra
                               + rayMul(s.vScaled[d.asset][d.account],
                                        s.variableBorrowIndex[d.asset])]]
    /\ loss = [r \in Reserves |-> 0]
    /\ plan = [owned |-> [r \in Reserves |-> Balance(s, OwnedWallet, r)],
               mooRepay |-> [account |-> s.ally,
                             amount |-> rayMul(s.vScaled[Moo][s.ally],
                                               s.variableBorrowIndex[Moo])],
               gains |-> [i \in DOMAIN s.gains |->
                            [account |-> s.gains[i], amount |-> Balance(s, s.gains[i], Celo)]],
               pool |-> s.pool, toAdvantagers |-> s.toAdvantagers, toPool |-> s.toPool,
               firstRound |-> s.firstRound,
               mooDeposit |-> Balance(s, exploiterAddress, Moo)]
    /\ owner = moolaFix /\ poolAdmin = OwnedWallet /\ emergencyAdmin = OwnedWallet
    /\ aTokenRevision = 1

-----------------------------------------------------------------------------
(* Shorthands for the steps.                                               *)

Goto(step) == at' = step /\ k' = 1

\* The next turn of a loop of n turns, or the next step.
NextTurn(n, step) ==
  IF k < n THEN k' = k + 1 /\ UNCHANGED at ELSE Goto(step)

poolOnly == <<memVars, plan, adminVars, implementation, lastInitializedRevision>>

Spend(r, amount) ==
  /\ amount <= wallet[r]
  /\ wallet' = [wallet EXCEPT ![r] = @ - amount]

Earn(r, amount) == wallet' = [wallet EXCEPT ![r] = @ + amount]

\* repay called by MoolaFix: the amount it returns, and the call.
paybackAmount(u, r, amount, mode) ==
  LET debt == IF mode = "stable" THEN stable[r][u] ELSE variableDebt(u, r)
  IN IF amount < debt THEN amount ELSE debt

PayDebt(u, r, amount, mode) ==
  /\ Repay(u, r, amount, mode, u = moolaFix)
  /\ Spend(r, paybackAmount(u, r, amount, mode))

\* ATokenWithTransferForMoolaFix.transferForMoolaFixSingle
TransferForMoolaFix(from, r, amount) ==
  /\ poolAdmin = moolaFix /\ aTokenRevision = 2
  /\ Transfer(from, moolaFix, r, amount)

\* Fault: forgets the borrowing flag of a debt written off in full.
WriteOff_KeepsFlag(u, r, amount, mode) ==
  LET debt == IF mode = "stable" THEN stable[r][u] ELSE variableDebt(u, r)
      payback == paybackAmount(u, r, amount, mode)
  IN /\ poolAdmin = moolaFix
     /\ implementation = "LendingPoolWithUpdateLiquidityIndex"
     /\ amount > 0 /\ debt > 0
     /\ UpdateState({r})
     /\ IF mode = "stable"
          THEN BurnStable(u, r, payback) /\ UNCHANGED <<vScaled, vTotal>>
          ELSE BurnVariable(u, r, payback) /\ UNCHANGED <<stable, sTotal>>
     /\ UNCHANGED <<indexVars, liquidity, configVars, envVars, loan>>

\* LendingPoolWithUpdateLiquidityIndex.writeOff: a repayment nobody pays.
WriteOff(u, r, amount, mode) ==
  LET debt == IF mode = "stable" THEN stable[r][u] ELSE variableDebt(u, r)
      payback == paybackAmount(u, r, amount, mode)
  IN /\ poolAdmin = moolaFix
     /\ implementation = "LendingPoolWithUpdateLiquidityIndex"
     /\ amount > 0 /\ debt > 0
     /\ UpdateState({r})
     /\ IF mode = "stable"
          THEN BurnStable(u, r, payback) /\ UNCHANGED <<vScaled, vTotal>>
          ELSE BurnVariable(u, r, payback) /\ UNCHANGED <<stable, sTotal>>
     /\ IF currentDebt(u, r) - payback = 0
          THEN setBorrowing(u, r, FALSE) ELSE UNCHANGED borrowing
     /\ UNCHANGED <<indexVars, liquidity, usingAsCollateral, envVars, loan>>

-----------------------------------------------------------------------------
(* Steps 5 to 7: take over the pool, unpause it, upgrade the aTokens.      *)

TakeAdmin ==
  /\ at = "takeAdmin" /\ owner = moolaFix
  /\ emergencyAdmin' = moolaFix /\ poolAdmin' = moolaFix
  /\ Goto("disableInterest")
  /\ UNCHANGED <<graceVars, memVars, wallet, plan, owner, aTokenRevision>>

DisableInterest ==
  /\ at = "disableInterest" /\ owner = moolaFix
  /\ SetLendingPoolImpl("LendingPoolWithUpdateLiquidityIndex")
  /\ Goto("unpause")
  /\ UNCHANGED <<memVars, wallet, plan, adminVars>>

Unpause ==
  /\ at = "unpause" /\ emergencyAdmin = moolaFix
  /\ SetPause(FALSE)
  /\ Goto("setTransferTokens")
  /\ UNCHANGED <<poolOnly, wallet>>

\* setMtokenImpl: updateAToken for every reserve, by the pool admin; the
\* revision of the tokens must grow (VersionedInitializable.initializer).
SetMtokenImpl(newRevision) ==
  /\ poolAdmin = moolaFix
  /\ newRevision > aTokenRevision
  /\ aTokenRevision' = newRevision
  /\ UNCHANGED <<graceVars, memVars, wallet, plan, owner, poolAdmin, emergencyAdmin>>

SetTransferTokens ==
  /\ at = "setTransferTokens"
  /\ SetMtokenImpl(2)
  /\ Goto("collectOwned")

-----------------------------------------------------------------------------
(* Steps 8 to 13: collect aTokens, pay MOO in return.                      *)

CollectOwned ==
  /\ at = "collectOwned"
  /\ TransferForMoolaFix(OwnedWallet, Collected[k], plan.owned[Collected[k]])
  /\ NextTurn(Len(Collected), "repayMoo")
  /\ UNCHANGED <<poolOnly, wallet>>

\* Fault: leaves the debt of the exploiter's second account for later.
RepayMoo_Later ==
  /\ at = "repayMoo"
  /\ Goto("collectGains")
  /\ UNCHANGED <<vars, poolOnly, wallet>>

\* The exploiter's second account cannot give up its mCELO while it owes MOO.
RepayMoo ==
  /\ at = "repayMoo"
  /\ PayDebt(plan.mooRepay.account, Moo, plan.mooRepay.amount, "variable")
  /\ Goto("collectGains")
  /\ UNCHANGED poolOnly

\* transferMceloFromExploiter and transferMceloFromAdvantagers
CollectGains ==
  /\ at = "collectGains"
  /\ TransferForMoolaFix(plan.gains[k].account, Celo, plan.gains[k].amount)
  /\ NextTurn(Len(plan.gains), "payAdvantagers")
  /\ UNCHANGED <<poolOnly, wallet>>

PayAdvantagers ==
  /\ at = "payAdvantagers"
  /\ Spend(Moo, plan.toAdvantagers)
  /\ Goto("collectPool")
  /\ UNCHANGED <<vars, poolOnly>>

\* transferMceloFromAndDepositMooToPool
CollectPool ==
  /\ at = "collectPool"
  /\ TransferForMoolaFix(plan.pool.account, Celo, plan.pool.amount)
  /\ Spend(Moo, plan.toPool)
  /\ Goto("firstRound")
  /\ UNCHANGED poolOnly

-----------------------------------------------------------------------------
(* Steps 14 and 15: repay the exploiter's debt, withdraw what was gathered. *)

\* The last entry of a reserve in Mem is the exploiter's.
FirstRound ==
  /\ at = "firstRound"
  /\ LET p == plan.firstRound[k]
     IN /\ \A i \in DOMAIN mem :
             mem[i].asset = p.asset /\ mem[i].account = exploiterAddress
               => p.amount <= mem[i].debt
        /\ PayDebt(exploiterAddress, p.asset, p.amount, "variable")
        /\ mem' = [i \in DOMAIN mem |->
                     IF mem[i].asset = p.asset /\ p.asset \in WrittenOff
                          /\ mem[i].account = exploiterAddress
                       THEN [mem[i] EXCEPT !.debt = @ - p.amount] ELSE mem[i]]
  /\ NextTurn(Len(plan.firstRound), "withdraw")
  /\ UNCHANGED <<loss, left, plan, adminVars, implementation, lastInitializedRevision>>

WithdrawAll ==
  /\ at = "withdraw"
  /\ Withdraw(moolaFix, Collected[k], UintMax)
  /\ Earn(Collected[k], aBalance(moolaFix, Collected[k]))
  /\ NextTurn(Len(Collected), "repayVariable")
  /\ UNCHANGED poolOnly

-----------------------------------------------------------------------------
(* Step 16, secondRoundRepay: each account's variable debt, then its       *)
(* stable debt.  In the reserves of Mem the cash of MoolaFix is the limit. *)

repayAmount(e) ==
  IF e.asset \in WrittenOff /\ e.debt > wallet[e.asset] THEN wallet[e.asset] ELSE e.debt

\* Fault: deducts the cash at hand instead of what was repaid of it.
reduced_ByCash(amount) ==
  IF mem[k].asset \in WrittenOff THEN [mem EXCEPT ![k].debt = @ - wallet[mem[k].asset]] ELSE mem

reduced(amount) ==
  IF mem[k].asset \in WrittenOff THEN [mem EXCEPT ![k].debt = @ - amount] ELSE mem

RepayVariable ==
  /\ at = "repayVariable"
  /\ LET e == mem[k]
         repaid == paybackAmount(e.account, e.asset, repayAmount(e), "variable")
     IN /\ e.asset \notin WrittenOff \/ wallet[e.asset] # 0
        /\ variableDebt(e.account, e.asset) > 0
        /\ PayDebt(e.account, e.asset, repayAmount(e), "variable")
        /\ left' = repayAmount(e) - repaid
        /\ mem' = reduced(repaid)
  /\ at' = "repayStable"
  /\ UNCHANGED <<k, loss, plan, adminVars, implementation, lastInitializedRevision>>

\* No variable debt, or (in Mem) nothing left to pay with.
SkipVariable ==
  /\ at = "repayVariable"
  /\ LET e == mem[k]
         broke == e.asset \in WrittenOff /\ wallet[e.asset] = 0
     IN /\ broke \/ variableDebt(e.account, e.asset) = 0
        /\ left' = IF broke THEN 0 ELSE repayAmount(e)
  /\ at' = "repayStable"
  /\ UNCHANGED <<vars, k, mem, loss, plan, wallet, adminVars, implementation,
                 lastInitializedRevision>>

RepayStable ==
  /\ at = "repayStable"
  /\ LET e == mem[k]
     IN IF left > 0 /\ stable[e.asset][e.account] > 0
          THEN /\ PayDebt(e.account, e.asset, left, "stable")
               /\ mem' = reduced(paybackAmount(e.account, e.asset, left, "stable"))
          ELSE UNCHANGED <<vars, wallet, mem>>
  /\ IF k < Len(mem) THEN k' = k + 1 /\ at' = "repayVariable" ELSE Goto("burnVariable")
  /\ UNCHANGED <<left, loss, plan, adminVars, implementation, lastInitializedRevision>>

-----------------------------------------------------------------------------
(* Step 17, writeOffBadDebt: burn what is left in Mem.                     *)

BurnVariableDebt ==
  /\ at = "burnVariable"
  /\ LET e == mem[k]
         burnt == paybackAmount(e.account, e.asset, e.debt, "variable")
     IN IF /\ e.asset \in WrittenOff /\ e.debt # 0
           /\ variableDebt(e.account, e.asset) > 0
          THEN /\ WriteOff(e.account, e.asset, e.debt, "variable")
               /\ loss' = [loss EXCEPT ![e.asset] = @ + burnt]
               /\ left' = e.debt - burnt
          ELSE /\ left' = IF e.asset \in WrittenOff THEN e.debt ELSE 0
               /\ UNCHANGED <<vars, loss>>
  /\ at' = "burnStable"
  /\ UNCHANGED <<k, mem, plan, wallet, adminVars, implementation, lastInitializedRevision>>

BurnStableDebt ==
  /\ at = "burnStable"
  /\ LET e == mem[k]
     IN IF left > 0 /\ stable[e.asset][e.account] > 0
          THEN /\ WriteOff(e.account, e.asset, left, "stable")
               /\ loss' = [loss EXCEPT
                    ![e.asset] = @ + paybackAmount(e.account, e.asset, left, "stable")]
          ELSE UNCHANGED <<vars, loss>>
  /\ IF k < Len(mem) THEN k' = k + 1 /\ at' = "burnVariable" ELSE Goto("collectMoo")
  /\ UNCHANGED <<left, mem, plan, wallet, adminVars, implementation,
                 lastInitializedRevision>>

-----------------------------------------------------------------------------
(* The exploiter's own deposit, which its debts held until now, the        *)
(* original aTokens, and step 18: the loss falls on the suppliers.         *)

CollectMoo ==
  /\ at = "collectMoo"
  /\ TransferForMoolaFix(exploiterAddress, Moo, plan.mooDeposit)
  /\ Goto("withdrawMoo")
  /\ UNCHANGED <<poolOnly, wallet>>

WithdrawMoo ==
  /\ at = "withdrawMoo"
  /\ Withdraw(moolaFix, Moo, plan.mooDeposit)
  /\ Earn(Moo, plan.mooDeposit)
  /\ Goto("restoreTokens")
  /\ UNCHANGED poolOnly

RestoreTokens ==
  /\ at = "restoreTokens"
  /\ SetMtokenImpl(3)
  /\ Goto("updateIndex")

\* Fault: lowers the index from one ray instead of from where it stands.
indexAfterLoss_FromRay(r, amount) ==
  RAY - rayDiv(amount, rayMul(aTotal[r], liquidityIndex[r]))

\* LendingPoolWithUpdateLiquidityIndex.updateLiquidtyIndexForLoss
indexAfterLoss(r, amount) ==
  rayMul(RAY - rayDiv(amount, rayMul(aTotal[r], liquidityIndex[r])), liquidityIndex[r])

UpdateIndex ==
  /\ at = "updateIndex" /\ poolAdmin = moolaFix
  /\ LET r == MemReserves[k]
         totalLiquidity == rayMul(aTotal[r], liquidityIndex[r])
     IN /\ totalLiquidity # 0
        /\ rayDiv(loss[r], totalLiquidity) <= RAY
        /\ liquidityIndex' = [liquidityIndex EXCEPT ![r] = indexAfterLoss(r, loss[r])]
  /\ NextTurn(Len(MemReserves), "test")
  /\ UNCHANGED <<aTokenVars, debtVars, variableBorrowIndex, accrued, liquidity,
                 configVars, envVars, loan, poolOnly, wallet>>

-----------------------------------------------------------------------------
(* Steps 21 to 24: the fix tries the pool out, freezes MOO, installs the   *)
(* pool of the grace period and tries again.  Of the calls that must fail, *)
(* and whose success would revert the transaction, only the reason they    *)
(* fail is stated: the frozen bit, and the grace period itself.  The tests *)
(* on cEUR, which repeat those on CELO, are left out.                      *)

call(op, asset, amount, mode) ==
  [op |-> op, asset |-> asset, amount |-> amount, mode |-> mode]

Tests ==
  << call("deposit", Cusd, testAmount, ""),
     call("borrow", Celo, testLoan, "variable"),
     call("borrow", Celo, testLoan, "stable"),
     call("deposit", Celo, testLoan, ""),
     call("withdraw", Celo, testLoan, ""),
     call("repay", Celo, UintMax, "variable"),
     call("repay", Celo, UintMax, "stable"),
     call("withdraw", Cusd, UintMax, ""),
     call("deposit", Moo, testAmount, ""),
     call("freeze", Moo, 0, ""),
     call("repayOther", Moo, testLoan, "variable"),
     call("transfer", Moo, testAmount \div 2, ""),
     call("withdraw", Moo, testAmount \div 2, ""),
     call("grace", Moo, 0, ""),
     call("deposit", Cusd, testAmount, ""),
     call("repayOther", Cusd, testLoan, "variable") >>

PoolCall(c) ==
  \/ c.op = "deposit" /\ Deposit(moolaFix, c.asset, c.amount) /\ Spend(c.asset, c.amount)
  \/ /\ c.op = "borrow"
     /\ Borrow(moolaFix, c.asset, c.amount, c.mode)
     /\ Earn(c.asset, c.amount)
  \/ /\ c.op = "withdraw"
     /\ Withdraw(moolaFix, c.asset, c.amount)
     /\ Earn(c.asset, IF c.amount = UintMax THEN aBalance(moolaFix, c.asset) ELSE c.amount)
  \/ c.op = "repay" /\ PayDebt(moolaFix, c.asset, c.amount, c.mode)
  \/ c.op = "repayOther" /\ PayDebt(testAccount, c.asset, c.amount, c.mode)
  \/ /\ c.op = "transfer"
     /\ c.asset \in frozen   \* deposits and loans of MOO must fail by now
     /\ Transfer(moolaFix, OwnedWallet, c.asset, c.amount)
     /\ UNCHANGED wallet
  \/ c.op = "freeze" /\ poolAdmin = moolaFix /\ SetFreeze(c.asset, TRUE) /\ UNCHANGED wallet

Test ==
  /\ at = "test"
  /\ \/ PoolCall(Tests[k]) /\ UNCHANGED <<implementation, lastInitializedRevision>>
     \/ /\ Tests[k].op = "grace" /\ owner = moolaFix
        /\ SetLendingPoolImpl("LendingPoolWithGracePeriod")
        /\ UNCHANGED wallet
  /\ NextTurn(Len(Tests), "pause")
  /\ UNCHANGED <<memVars, plan, adminVars>>

-----------------------------------------------------------------------------
(* Steps 25 to 28: pause, and hand everything back.                        *)

Pause ==
  /\ at = "pause" /\ emergencyAdmin = moolaFix /\ InGracePeriod
  /\ SetPause(TRUE)
  /\ Goto("handBack")
  /\ UNCHANGED <<poolOnly, wallet>>

\* Fault: the pool admin is forgotten.
HandBack_NotPoolAdmin ==
  /\ at = "handBack" /\ owner = moolaFix
  /\ emergencyAdmin' = OwnedWallet /\ owner' = OwnedWallet
  /\ wallet' = [r \in Reserves |-> IF r \in WrittenOff THEN wallet[r] ELSE 0]
  /\ Goto("done")
  /\ UNCHANGED <<graceVars, memVars, plan, poolAdmin, aTokenRevision>>

\* The admin rights, the addresses provider, and the MOO, cUSD and cREAL left.
HandBack ==
  /\ at = "handBack" /\ owner = moolaFix
  /\ emergencyAdmin' = OwnedWallet /\ poolAdmin' = OwnedWallet /\ owner' = OwnedWallet
  /\ wallet' = [r \in Reserves |-> IF r \in WrittenOff THEN wallet[r] ELSE 0]
  /\ Goto("done")
  /\ UNCHANGED <<graceVars, memVars, plan, aTokenRevision>>

FixNext ==
  \/ TakeAdmin \/ DisableInterest \/ Unpause \/ SetTransferTokens
  \/ CollectOwned \/ RepayMoo \/ CollectGains \/ PayAdvantagers \/ CollectPool
  \/ FirstRound \/ WithdrawAll
  \/ RepayVariable \/ SkipVariable \/ RepayStable
  \/ BurnVariableDebt \/ BurnStableDebt
  \/ CollectMoo \/ WithdrawMoo \/ RestoreTokens \/ UpdateIndex
  \/ Test \/ Pause \/ HandBack

(* The steps follow one another within one transaction: nothing but a      *)
(* revert can keep the next one from being taken.                          *)
FixSpec == FixInit /\ [][FixNext]_fixVars /\ WF_fixVars(FixNext)
-----------------------------------------------------------------------------
(* Properties.                                                             *)

FixTypeOK ==
  /\ aScaled \in Ledger /\ vScaled \in Ledger /\ stable \in Ledger
  /\ liquidity \in [Reserves -> Nat] /\ wallet \in [Reserves -> Nat]
  /\ liquidityIndex \in [Reserves -> Nat \ {0}]
  /\ loss \in [Reserves -> Nat] /\ left \in Nat /\ k \in Nat \ {0}
  /\ mem \in Seq([asset : Reserves, account : Users, debt : Nat])

(* execute does not revert: every call finds the funds, the health factor, *)
(* the rights, the revisions and the pause flag it needs, so the order of  *)
(* the steps is a right one (MOO debt before mCELO, repayments before      *)
(* withdrawals, write-off before mMOO).                                    *)
Completes == <>(at = "done")

(* The loss is borne exactly once.  The suppliers' claims exceed what      *)
(* backs them by the bad debt burnt until the index is updated, and by     *)
(* nothing afterwards, up to half an index for each call that rounds and   *)
(* to the rounding of the ratio by which the index is lowered.             *)
LossBorneOnce ==
  \A r \in WrittenOff :
    LET borne == \/ at \in {"test", "pause", "handBack", "done"}
                 \/ at = "updateIndex" /\ \E i \in 1..(k - 1) : MemReserves[i] = r
        gap == claims(r) - backing(r) - (IF borne THEN 0 ELSE RAY * loss[r])
        burns == 2 + 2 * Cardinality({i \in DOMAIN mem : mem[i].asset = r})
                 + (IF borne THEN 3 ELSE 0)
        halves == (burns * Max({liquidityIndex[r], variableBorrowIndex[r]})) \div 2
        spread == IF borne THEN aTotal[r] ELSE 0
    IN gap <= halves + spread /\ 0 - gap <= halves + spread + RAY

(* Every bad debt on the list is gone at the end, and its borrowing flag   *)
(* with it.  A debt repaid in part and burnt with the exact remainder can  *)
(* vanish by rounding while writeOff still sees a unit owed and keeps the  *)
(* flag; the unit populateMem adds to the exploiter's CELO debt avoids it. *)
BadDebtGone ==
  at = "done" =>
    \A i \in DOMAIN mem :
      /\ currentDebt(mem[i].account, mem[i].asset) = 0
      /\ mem[i].asset \notin borrowing[mem[i].account]

(* At the end the pool is paused in its grace period with MOO frozen, the  *)
(* aTokens are the originals, and MoolaFix has no right left over them;    *)
(* at no time do they let anyone but MoolaFix move others' balances.       *)
Handover ==
  /\ at = "done" =>
       /\ paused /\ InGracePeriod /\ Moo \in frozen
       /\ {owner, poolAdmin, emergencyAdmin} = {OwnedWallet}
       /\ aTokenRevision = 3
  /\ aTokenRevision = 2 => poolAdmin = moolaFix
=============================================================================
