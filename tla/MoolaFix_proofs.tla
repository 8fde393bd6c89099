--------------------------- MODULE MoolaFix_proofs ---------------------------
(***************************************************************************)
(* What the recovery leaves behind: whatever state it starts from, it can  *)
(* only end with the pool paused in its grace period, MOO frozen, the      *)
(* original aTokens in place and every right handed back.                  *)
(***************************************************************************)
EXTENDS MoolaFix, TLAPS

-----------------------------------------------------------------------------
(* The steps of execute, grouped by the aTokens in place.                  *)

Preparing  == {"disableInterest", "unpause", "setTransferTokens"}
Recovering == {"collectOwned", "repayMoo", "collectGains", "payAdvantagers",
               "collectPool", "firstRound", "withdraw", "repayVariable",
               "repayStable", "burnVariable", "burnStable", "collectMoo",
               "withdrawMoo", "restoreTokens"}
Closing    == {"updateIndex", "test", "pause", "handBack"}

\* Who is admin, and which aTokens are in place, step by step.
Rights ==
  \/ at = "takeAdmin" /\ aTokenRevision = 1
  \/ at \in Preparing /\ aTokenRevision = 1 /\ poolAdmin = moolaFix
  \/ at \in Recovering /\ aTokenRevision = 2 /\ poolAdmin = moolaFix
  \/ at \in Closing /\ aTokenRevision = 3 /\ poolAdmin = moolaFix
  \/ /\ at = "done" /\ aTokenRevision = 3
     /\ owner = OwnedWallet /\ poolAdmin = OwnedWallet /\ emergencyAdmin = OwnedWallet

\* The tenth test freezes MOO, the fourteenth installs the last pool.
Closed ==
  /\ at = "test" => /\ k \in 1..16
                    /\ k > 10 => Moo \in frozen
                    /\ k > 14 => InGracePeriod
  /\ at \in {"pause", "handBack", "done"} => Moo \in frozen
  /\ at \in {"handBack", "done"} => paused /\ InGracePeriod

HandoverInv == Rights /\ Closed

-----------------------------------------------------------------------------
(* No call on the pool touches what its admins decide.                     *)

LEMMA DepositKeepsAdmins ==
  ASSUME NEW u, NEW r, NEW amount, Deposit(u, r, amount)
  PROVE  UNCHANGED <<frozen, paused>>
  BY DEF Deposit, envVars

LEMMA WithdrawKeepsAdmins ==
  ASSUME NEW u, NEW r, NEW amount, Withdraw(u, r, amount)
  PROVE  UNCHANGED <<frozen, paused>>
  BY DEF Withdraw, envVars

LEMMA BorrowKeepsAdmins ==
  ASSUME NEW u, NEW r, NEW amount, NEW mode, Borrow(u, r, amount, mode)
  PROVE  UNCHANGED <<frozen, paused>>
  BY DEF Borrow, ExecuteBorrow, envVars

LEMMA RepayKeepsAdmins ==
  ASSUME NEW u, NEW r, NEW amount, NEW mode, NEW self, Repay(u, r, amount, mode, self)
  PROVE  UNCHANGED <<frozen, paused>>
  BY DEF Repay, envVars

LEMMA TransferKeepsAdmins ==
  ASSUME NEW from, NEW to, NEW r, NEW amount, Transfer(from, to, r, amount)
  PROVE  UNCHANGED <<frozen, paused>>
  BY DEF Transfer, envVars

LEMMA SpendingKeepsAdmins ==
  ASSUME NEW u, NEW r, NEW amount, NEW mode, PayDebt(u, r, amount, mode)
  PROVE  UNCHANGED <<frozen, paused>>
  BY RepayKeepsAdmins, Zenon DEF PayDebt

\* A call of the tests may freeze a reserve, and no more.
LEMMA PoolCallKeepsAdmins ==
  ASSUME NEW c, PoolCall(c)
  PROVE  /\ paused' = paused
         /\ \/ frozen' = frozen
            \/ c.op = "freeze" /\ frozen' = frozen \cup {c.asset}
<1>1. CASE Deposit(moolaFix, c.asset, c.amount)
  BY <1>1, DepositKeepsAdmins, Zenon
<1>2. CASE Borrow(moolaFix, c.asset, c.amount, c.mode)
  BY <1>2, BorrowKeepsAdmins, Zenon
<1>3. CASE Withdraw(moolaFix, c.asset, c.amount)
  BY <1>3, WithdrawKeepsAdmins, Zenon
<1>4. CASE PayDebt(moolaFix, c.asset, c.amount, c.mode)
  BY <1>4, SpendingKeepsAdmins, Zenon
<1>5. CASE PayDebt(testAccount, c.asset, c.amount, c.mode)
  BY <1>5, SpendingKeepsAdmins, Zenon
<1>6. CASE Transfer(moolaFix, OwnedWallet, c.asset, c.amount)
  BY <1>6, TransferKeepsAdmins, Zenon
<1>7. CASE c.op = "freeze" /\ SetFreeze(c.asset, TRUE)
  BY <1>7 DEF SetFreeze
<1> QED BY <1>1, <1>2, <1>3, <1>4, <1>5, <1>6, <1>7, Zenon DEF PoolCall

-----------------------------------------------------------------------------
(* Rights.                                                                 *)

\* Every step is at its own place, and which step follows it.
LEMMA StepsFollow ==
  ASSUME FixNext
  PROVE  \/ TakeAdmin \/ SetTransferTokens \/ RestoreTokens \/ HandBack
         \/ /\ UNCHANGED adminVars
            /\ \/ at \in Preparing /\ at # "setTransferTokens" /\ at' \in Preparing
               \/ at \in Recovering /\ at # "restoreTokens" /\ at' \in Recovering
               \/ at \in Closing /\ at # "handBack" /\ at' \in Closing
<1> USE DEF Preparing, Recovering, Closing
<1>1. ASSUME NEW n, NEW step, NextTurn(n, step) PROVE at' = at \/ at' = step
  BY <1>1 DEF NextTurn, Goto
<1>2. CASE DisableInterest \/ Unpause
  BY <1>2 DEF DisableInterest, Unpause, Goto, poolOnly
<1>3. CASE CollectOwned \/ CollectGains \/ FirstRound \/ WithdrawAll
  BY <1>3, <1>1 DEF CollectOwned, CollectGains, FirstRound, WithdrawAll, poolOnly
<1>4. CASE RepayMoo \/ PayAdvantagers \/ CollectPool \/ CollectMoo \/ WithdrawMoo
  BY <1>4 DEF RepayMoo, PayAdvantagers, CollectPool, CollectMoo, WithdrawMoo, Goto, poolOnly
<1>5. CASE RepayVariable \/ SkipVariable \/ BurnVariableDebt
  BY <1>5 DEF RepayVariable, SkipVariable, BurnVariableDebt
<1>6. CASE RepayStable \/ BurnStableDebt
  <2>1. CASE RepayStable
    BY <2>1 DEF RepayStable, Goto
  <2>2. CASE BurnStableDebt
    BY <2>2 DEF BurnStableDebt, Goto
  <2> QED BY <1>6, <2>1, <2>2
<1>7. CASE UpdateIndex \/ Test
  BY <1>7, <1>1 DEF UpdateIndex, Test, poolOnly
<1>8. CASE Pause
  BY <1>8 DEF Pause, Goto, poolOnly
<1> QED BY <1>2, <1>3, <1>4, <1>5, <1>6, <1>7, <1>8, Zenon DEF FixNext

LEMMA RightsKept == Rights /\ [FixNext]_fixVars => Rights'
<1> USE DEF Rights, Preparing, Recovering, Closing
<1> SUFFICES ASSUME Rights, [FixNext]_fixVars PROVE Rights'
  OBVIOUS
<1>1. CASE TakeAdmin
  BY <1>1 DEF TakeAdmin, Goto
<1>2. CASE SetTransferTokens
  BY <1>2 DEF SetTransferTokens, SetMtokenImpl, Goto
<1>3. CASE RestoreTokens
  BY <1>3 DEF RestoreTokens, SetMtokenImpl, Goto
<1>4. CASE HandBack
  BY <1>4 DEF HandBack, Goto
<1>5. CASE /\ UNCHANGED adminVars
           /\ \/ at \in Preparing /\ at # "setTransferTokens" /\ at' \in Preparing
              \/ at \in Recovering /\ at # "restoreTokens" /\ at' \in Recovering
              \/ at \in Closing /\ at # "handBack" /\ at' \in Closing
  BY <1>5 DEF adminVars
<1>6. CASE UNCHANGED fixVars
  BY <1>6 DEF fixVars, adminVars
<1> QED BY <1>1, <1>2, <1>3, <1>4, <1>5, <1>6, StepsFollow, Zenon

-----------------------------------------------------------------------------
(* What the tests and the pause leave behind.                              *)

LEMMA TestsInOrder ==
  /\ Tests[10].op = "freeze" /\ Tests[10].asset = Moo
  /\ Tests[14].op = "grace"
  BY DEF Tests, call

LEMMA TestKeepsClosed ==
  ASSUME Closed, Test
  PROVE  Closed'
<1>1. at = "test" /\ k \in 1..16
  BY DEF Test, Closed
<1>2. Len(Tests) = 16
  BY DEF Tests
<1>3. IF k < 16 THEN k' = k + 1 /\ at' = "test" ELSE at' = "pause"
  BY <1>1, <1>2 DEF Test, NextTurn, Goto
<1>4. CASE PoolCall(Tests[k]) /\ UNCHANGED implementation
  <2>1. /\ paused' = paused
        /\ \/ frozen' = frozen
           \/ Tests[k].op = "freeze" /\ frozen' = frozen \cup {Tests[k].asset}
    BY <1>4, PoolCallKeepsAdmins
  <2>2. ASSUME k = 10 PROVE Moo \in frozen'
    <3>1. Tests[k].op = "freeze" /\ Tests[k].asset = Moo
      BY <2>2, TestsInOrder
    <3>2. SetFreeze(Moo, TRUE)
      BY <1>4, <3>1, Zenon DEF PoolCall
    <3> QED BY <3>2 DEF SetFreeze
  <2>3. k # 14
    <3> SUFFICES ASSUME k = 14 PROVE FALSE
      OBVIOUS
    <3>1. Tests[k].op = "grace"
      BY TestsInOrder
    <3> QED BY <1>4, <3>1, Zenon DEF PoolCall
  <2> QED BY <1>1, <1>3, <1>4, <2>1, <2>2, <2>3 DEF Closed, InGracePeriod
<1>5. CASE Tests[k].op = "grace" /\ SetLendingPoolImpl("LendingPoolWithGracePeriod")
  <2>1. InGracePeriod' /\ UNCHANGED <<frozen, paused>>
    BY <1>5 DEF SetLendingPoolImpl, InGracePeriod, vars, envVars
  <2>2. k # 10
    <3> SUFFICES ASSUME k = 10 PROVE FALSE
      OBVIOUS
    <3> QED BY <1>5, TestsInOrder
  <2> QED BY <1>1, <1>3, <2>1, <2>2 DEF Closed
<1> QED BY <1>4, <1>5 DEF Test

LEMMA ClosedKept == Rights /\ Closed /\ [FixNext]_fixVars => Closed'
<1> SUFFICES ASSUME Rights, Closed, [FixNext]_fixVars PROVE Closed'
  OBVIOUS
<1>1. CASE Test
  BY <1>1, TestKeepsClosed
<1>2. CASE UpdateIndex
  <2>1. at' = "updateIndex" \/ (at' = "test" /\ k' = 1)
    BY <1>2 DEF UpdateIndex, NextTurn, Goto
  <2> QED BY <2>1 DEF Closed
<1>3. CASE Pause
  BY <1>3 DEF Pause, SetPause, Goto, Closed, InGracePeriod, poolOnly
<1>4. CASE HandBack
  BY <1>4 DEF HandBack, Goto, Closed, InGracePeriod, graceVars, vars, envVars
<1>5. CASE at' \in Preparing \cup Recovering \cup {"updateIndex"}
  BY <1>5 DEF Closed, Preparing, Recovering
<1>6. CASE UNCHANGED fixVars
  BY <1>6 DEF Closed, InGracePeriod, fixVars, graceVars, vars, envVars
<1>7. ASSUME FixNext, ~Test, ~UpdateIndex, ~Pause, ~HandBack
      PROVE  at' \in Preparing \cup Recovering \cup {"updateIndex"}
  <2>1. CASE TakeAdmin
    BY <2>1 DEF TakeAdmin, Goto, Preparing
  <2>2. CASE SetTransferTokens
    BY <2>2 DEF SetTransferTokens, Goto, Recovering
  <2>3. CASE RestoreTokens
    BY <2>3 DEF RestoreTokens, Goto
  <2>4. CASE at \in Closing /\ at # "handBack" /\ at' \in Closing
    <3>1. at \in {"updateIndex", "test", "pause"}
      BY <2>4 DEF Closing
    <3>2. FALSE
      BY <1>7, <3>1 DEF FixNext, TakeAdmin, DisableInterest, Unpause, SetTransferTokens,
         CollectOwned, RepayMoo, CollectGains, PayAdvantagers, CollectPool, FirstRound,
         WithdrawAll, RepayVariable, SkipVariable, RepayStable, BurnVariableDebt,
         BurnStableDebt, CollectMoo, WithdrawMoo, RestoreTokens
    <3> QED BY <3>2
  <2> QED BY <1>7, <2>1, <2>2, <2>3, <2>4, StepsFollow, Zenon
<1> QED BY <1>1, <1>2, <1>3, <1>4, <1>5, <1>6, <1>7, Zenon

-----------------------------------------------------------------------------
(* Wherever execute ends, the pool is paused in its grace period with MOO  *)
(* frozen, the aTokens are the originals and MoolaFix has no right left;   *)
(* at no time does anyone but MoolaFix hold the right to move others'      *)
(* balances (MoolaFix.execute, steps 5 to 28).                             *)
THEOREM HandoverComplete == FixSpec => []Handover
<1>1. FixInit => HandoverInv
  BY DEF FixInit, HandoverInv, Rights, Closed
<1>2. HandoverInv /\ [FixNext]_fixVars => HandoverInv'
  BY RightsKept, ClosedKept DEF HandoverInv
<1>3. HandoverInv => Handover
  BY DEF HandoverInv, Rights, Closed, Preparing, Recovering, Closing, Handover
<1> QED BY <1>1, <1>2, <1>3, PTL DEF FixSpec

=============================================================================
